------------------------------ MODULE UsersProofs ------------------------------
(***************************************************************************)
(* Scores, roles, answers and the cache of blocked identities of           *)
(* UserDirectory, for any users, channels, administrators and failing      *)
(* requests.                                                               *)
(***************************************************************************)
EXTENDS UserDirectory, TLAPS

\* Blocks, roles and channels are those of accounts the service knows.
DirectoryOf(d) ==
  /\ d \in Directory
  /\ d.blocked \subseteq d.known /\ d.mods \subseteq d.known
  /\ \A h \in Handle : d.owner[h] \in d.known \cup {Nobody}

--------------------------------------------------------------------------------
(***************************************************************************)
(* What the service makes of a request.                                    *)
(***************************************************************************)
\* A refused request changes nothing.
LEMMA Refused ==
  ASSUME NEW d, NEW r, ~Accepts(d, r)
  PROVE  Carried(d, r) = d
BY DEF Carried

\* What the fields of e are when r has turned d into e.
Turns(d, r, e) ==
  /\ e.blocked = IF r.op = "block" THEN d.blocked \cup {r.user}
                 ELSE IF r.op = "unblock" THEN d.blocked \ {r.user} ELSE d.blocked
  /\ e.mods = IF r.op = "mod" THEN d.mods \cup {r.user}
              ELSE IF r.op = "unmod" THEN d.mods \ {r.user} ELSE d.mods
  /\ e.score = IF r.op = "deduct" THEN [d.score EXCEPT ![r.user] = @ - 1]
               ELSE IF r.op = "credit" THEN [d.score EXCEPT ![r.user] = @ + 1] ELSE d.score
  /\ r.op \notin {"remove_channel", "add_user"} => e.owner = d.owner /\ e.known = d.known
  /\ r.op = "remove_channel" =>
       /\ e.known = d.known
       /\ e.owner = [d.owner EXCEPT ![r.channel] = IF @ = r.user THEN Nobody ELSE @]
  /\ r.op = "add_user" =>
       IF d.owner[r.channel] = Nobody /\ r.user \notin d.known
         THEN /\ e.known = d.known \cup {r.user}
              /\ e.owner = [d.owner EXCEPT ![r.channel] = r.user]
         ELSE e = d

\* Each operation changes one field; add_user, which may create, changes two.
LEMMA CarriedFields ==
  ASSUME NEW d \in Directory, NEW r \in Requests, Accepts(d, r)
  PROVE  Turns(d, r, Carried(d, r))
<1> USE DEF Carried, Directory, Turns
<1>1. CASE r.op = "get"
  BY <1>1
<1>2. CASE r.op \in {"block", "unblock"}
  BY <1>2
<1>3. CASE r.op \in {"mod", "unmod"}
  BY <1>3
<1>4. CASE r.op = "deduct"
  BY <1>4
<1>5. CASE r.op = "credit"
  BY <1>5
<1>6. CASE r.op = "remove_channel"
  BY <1>6
<1>7. CASE r.op = "add_user"
  BY <1>7
<1> QED
  BY <1>1, <1>2, <1>3, <1>4, <1>5, <1>6, <1>7 DEF Requests

\* What is carried out leaves the service with a directory, and forgets no account.
LEMMA CarriedDirectory ==
  ASSUME NEW d, DirectoryOf(d), NEW r \in Requests
  PROVE  DirectoryOf(Carried(d, r)) /\ d.known \subseteq Carried(d, r).known
<1>1. CASE ~Accepts(d, r)
  BY <1>1, Refused
<1>2. CASE Accepts(d, r)
  <2> PICK e : e = Carried(d, r)
    OBVIOUS
  <2>1. d \in Directory /\ r.user \in User
    BY DEF DirectoryOf, Requests
  <2>2. Turns(d, r, e)
    BY <1>2, <2>1, CarriedFields
  <2>3. d.known \subseteq e.known /\ e.known \subseteq User
    BY <2>1, <2>2 DEF Turns, Directory
  <2>4. e.blocked \subseteq e.known /\ e.mods \subseteq e.known
    <3>1. r.op \in {"block", "mod"} => r.user \in d.known
      BY <1>2 DEF Accepts
    <3>2. d.blocked \subseteq d.known /\ d.mods \subseteq d.known
      BY DEF DirectoryOf
    <3>3. e.blocked \subseteq d.known
      BY <2>2, <3>1, <3>2 DEF Turns
    <3>4. e.mods \subseteq d.known
      BY <2>2, <3>1, <3>2 DEF Turns
    <3> QED
      BY <2>3, <3>3, <3>4
  <2>5. /\ e.owner \in [Handle -> User \cup {Nobody}]
        /\ \A h \in Handle : e.owner[h] \in e.known \cup {Nobody}
    <3>0. /\ d.owner \in [Handle -> User \cup {Nobody}]
          /\ \A h \in Handle : d.owner[h] \in d.known \cup {Nobody}
      BY DEF DirectoryOf, Directory
    <3>1. CASE r.op \notin {"remove_channel", "add_user"}
      BY <2>2, <3>0, <3>1 DEF Turns
    <3>2. CASE r.op = "remove_channel"
      BY <2>2, <3>0, <3>2 DEF Turns
    <3>3. CASE r.op = "add_user"
      BY <2>1, <2>2, <3>0, <3>3 DEF Turns
    <3> QED
      BY <3>1, <3>2, <3>3
  <2>6. e \in Directory
    <3>1. CASE r.op \in {"get", "block", "unblock", "mod", "unmod"}
      BY <1>2, <2>1, <3>1 DEF Carried, Directory
    <3>2. CASE r.op = "deduct"
      <4>1. e = [d EXCEPT !.score[r.user] = @ - 1]
        BY <1>2, <3>2 DEF Carried
      <4> QED
        BY <2>1, <4>1 DEF Directory
    <3>3. CASE r.op = "credit"
      <4>1. e = [d EXCEPT !.score[r.user] = @ + 1]
        BY <1>2, <3>3 DEF Carried
      <4> QED
        BY <2>1, <4>1 DEF Directory
    <3>4. CASE r.op = "remove_channel"
      <4>1. e = [d EXCEPT !.owner[r.channel] = IF @ = r.user THEN Nobody ELSE @]
        BY <1>2, <3>4 DEF Carried
      <4>2. r.channel \in Handle
        BY <3>4 DEF Requests
      <4> QED
        BY <2>1, <4>1, <4>2 DEF Directory
    <3>5. CASE r.op = "add_user"
      <4>1. e \in {d, [d EXCEPT !.owner[r.channel] = r.user, !.known = @ \cup {r.user}]}
        BY <1>2, <3>5 DEF Carried
      <4>2. r.channel \in Handle
        BY <3>5 DEF Requests
      <4>3. [d EXCEPT !.owner[r.channel] = r.user, !.known = @ \cup {r.user}] \in Directory
        BY <2>1, <4>2 DEF Directory
      <4> QED
        BY <2>1, <4>1, <4>3
    <3> QED
      BY <3>1, <3>2, <3>3, <3>4, <3>5 DEF Requests
  <2> QED
    BY <2>3, <2>4, <2>5, <2>6 DEF DirectoryOf
<1> QED
  BY <1>1, <1>2

--------------------------------------------------------------------------------
(***************************************************************************)
(* The connection, and the types of the blocks.                            *)
(***************************************************************************)
\* No answer is owed on the connection, and none was taken for another.
Quiet == conn.owed = 0 /\ ~swapped

ClientInv == ClientTypeOK /\ DirectoryOf(dir) /\ Quiet

Asks(r) == request(r) \/ request_fails(r)

\* A request, answered or not.
LEMMA AskKeeps ==
  ASSUME ClientInv, NEW r \in Requests, Asks(r)
  PROVE  ClientInv' /\ dir.known \subseteq dir'.known
<1>1. CASE request(r)
  <2>1. DirectoryOf(dir') /\ dir.known \subseteq dir'.known
    BY <1>1, CarriedDirectory DEF ClientInv, request
  <2>2. conn' \in [open : BOOLEAN, owed : Nat] /\ conn'.owed = 0 /\ ~swapped'
    <3>1. conn' = [conn EXCEPT !.open = TRUE] /\ swapped' = (swapped \/ conn.owed > 0)
      BY <1>1 DEF request
    <3>2. conn \in [open : BOOLEAN, owed : Nat] /\ conn.owed = 0 /\ ~swapped
      BY DEF ClientInv, ClientTypeOK, Quiet
    <3>3. conn' \in [open : BOOLEAN, owed : Nat] /\ conn'.owed = 0
      BY <3>1, <3>2
    <3>4. ~(conn.owed > 0)
      BY <3>2
    <3> QED
      BY <3>1, <3>2, <3>3, <3>4, Zenon
  <2> QED
    BY <1>1, <2>1, <2>2 DEF request, ClientInv, ClientTypeOK, Quiet, DirectoryOf
<1>2. CASE request_fails(r)
  <2>1. conn' \in [open : BOOLEAN, owed : Nat] /\ conn'.owed = 0
    BY <1>2 DEF request_fails, drop_connection
  <2>2. faults' \in 0 .. MaxFaults
    BY <1>2, ClientAssumption DEF request_fails, ClientInv, ClientTypeOK
  <2> QED
    BY <1>2, <2>1, <2>2 DEF request_fails, ClientInv, ClientTypeOK, Quiet
<1> QED
  BY <1>1, <1>2 DEF Asks

\* A request that was given up is carried out.
LEMMA LateKeeps ==
  ASSUME ClientInv, CarriedOutLate
  PROVE  ClientInv' /\ dir.known \subseteq dir'.known
<1>1. PICK r \in late : late' = late \ {r} /\ dir' = Carried(dir, r)
  BY DEF CarriedOutLate
<1>2. r \in Requests
  BY DEF ClientInv, ClientTypeOK
<1>3. DirectoryOf(dir') /\ dir.known \subseteq dir'.known
  BY <1>1, <1>2, CarriedDirectory DEF ClientInv
<1> QED
  BY <1>1, <1>3 DEF CarriedOutLate, ClientInv, ClientTypeOK, Quiet, DirectoryOf

\* Between the steps, a query knows whom it is about, and a message is still
\* named by its channel when it is looked up.
TaskInv ==
  /\ \A a \in Admin :
       task[a].step \in {"resolve", "write", "mark"} =>
         task[a].op \in {"block", "unblock"} /\ task[a].user \in User
  /\ msg.step = "ingest" => msg.from \in Handle

BlockTypes ==
  /\ cache \subseteq Key /\ bans \subseteq Key
  /\ task \in [Admin -> Task]
  /\ \A a \in Admin : task[a].step = "idle" => task[a] = NoTask
  /\ load \in [step : {"off", "pages", "done"}, left : SUBSET User, keys : SUBSET Key]
  /\ msg \in Message
  /\ appeal \in Appeal
  /\ {astray, pardoned} \subseteq SUBSET User
  /\ ops \in 0 .. MaxOps

\* What a step of the blocks asks of the service.
PlainRequests == {r \in Requests : r.op \in {"get", "block", "unblock", "remove_channel", "add_user"}}

AsksPlainly == UNCHANGED clientVars \/ \E r \in PlainRequests : Asks(r)

BlockKept == BlockTypes' /\ TaskInv' /\ AsksPlainly

\* An account and its channels are identities.
LEMMA KeysType ==
  ASSUME NEW d \in Directory, NEW u \in User
  PROVE  Keys(d, u) \subseteq Key
BY DEF Keys, Channels, Key

\* Blocking and unblocking: the query begins.
LEMMA StartTypes ==
  ASSUME ClientInv, BlockTypes, TaskInv, NEW a \in Admin, NEW op \in {"block", "unblock"},
         NEW u \in User, StartBlock(a, op, u)
  PROVE  BlockKept
<1>1. task' = [task EXCEPT ![a] = [NoTask EXCEPT !.step = "resolve", !.op = op, !.user = u]]
  BY DEF StartBlock
<1>2. [NoTask EXCEPT !.step = "resolve", !.op = op, !.user = u] \in Task
  BY DEF NoTask, Task
<1>3. ops' \in 0 .. MaxOps
  BY BlocksAssumption DEF StartBlock, Begin, BlockTypes
<1>4. task' \in [Admin -> Task] /\ \A b \in Admin : task'[b].step = "idle" => task'[b] = NoTask
  BY <1>1, <1>2 DEF BlockTypes, NoTask
<1>5. TaskInv'
  BY <1>1 DEF TaskInv, BlockTypes, NoTask, StartBlock
<1> QED
  BY <1>3, <1>4, <1>5 DEF BlockKept, BlockTypes, AsksPlainly, StartBlock

\* The query ends.
LEMMA EndTypes ==
  ASSUME BlockTypes, TaskInv, NEW a \in Admin, Ends(a), UNCHANGED msg
  PROVE  /\ task' \in [Admin -> Task] /\ TaskInv'
         /\ \A b \in Admin : task'[b].step = "idle" => task'[b] = NoTask
<1>1. NoTask \in Task
  BY DEF NoTask, Task
<1> QED
  BY <1>1 DEF Ends, BlockTypes, TaskInv, NoTask

\* The actor is looked up.
LEMMA ResolveTypes ==
  ASSUME ClientInv, BlockTypes, TaskInv, NEW a \in Admin, resolve_block_actor_and_target(a)
  PROVE  BlockKept
<1>1. PICK actor \in dir.known :
        \/ /\ request([op |-> "get", user |-> actor])
           /\ IF block_actor_has_authority(actor)
                THEN task' = [task EXCEPT ![a].step = "write"]
                ELSE Ends(a)
        \/ /\ request_fails([op |-> "get", user |-> actor])
           /\ Ends(a)
  BY DEF resolve_block_actor_and_target
<1>2. UNCHANGED <<cache, bans, load, msg, appeal, astray, pardoned, ops>> /\ task[a].step = "resolve"
  BY DEF resolve_block_actor_and_target
<1>3. [op |-> "get", user |-> actor] \in PlainRequests
  BY DEF PlainRequests, Requests, ClientInv, DirectoryOf, Directory
<1>4. AsksPlainly
  BY <1>1, <1>3 DEF AsksPlainly, Asks
<1>5. /\ task' \in [Admin -> Task] /\ TaskInv'
      /\ \A b \in Admin : task'[b].step = "idle" => task'[b] = NoTask
  <2>1. CASE Ends(a)
    BY <1>2, <2>1, EndTypes
  <2>2. CASE task' = [task EXCEPT ![a].step = "write"]
    BY <1>2, <2>2 DEF BlockTypes, TaskInv, Task
  <2> QED
    BY <1>1, <2>1, <2>2
<1> QED
  BY <1>2, <1>4, <1>5 DEF BlockKept, BlockTypes

\* The flag is written.
LEMMA WriteTypes ==
  ASSUME ClientInv, BlockTypes, TaskInv, NEW a \in Admin, WriteFlag(a)
  PROVE  BlockKept
<1>1. PICK u, r : /\ u = task[a].user /\ r = [op |-> task[a].op, user |-> u]
                  /\ \/ /\ request(r)
                        /\ \/ /\ task' = [task EXCEPT ![a].step = "mark", ![a].keys = Keys(dir, u)]
                              /\ astray' = astray \cup Parts(u)
                              /\ pardoned' = pardoned \ {u}
                           \/ Ends(a) /\ UNCHANGED <<astray, pardoned>>
                     \/ /\ request_fails(r)
                        /\ Ends(a)
                        /\ astray' = astray \cup {u}
                        /\ UNCHANGED pardoned
  BY DEF WriteFlag
<1>2. task[a].step = "write" /\ UNCHANGED <<cache, bans, load, msg, appeal, ops>>
  BY DEF WriteFlag
<1>3. u \in User /\ r \in PlainRequests
  <2>1. u \in User /\ task[a].op \in {"block", "unblock"}
    BY <1>1, <1>2 DEF TaskInv
  <2> QED
    BY <1>1, <2>1 DEF PlainRequests, Requests
<1>4. AsksPlainly
  BY <1>1, <1>3 DEF AsksPlainly, Asks
<1>5. /\ task' \in [Admin -> Task] /\ TaskInv'
      /\ \A b \in Admin : task'[b].step = "idle" => task'[b] = NoTask
  <2>1. CASE Ends(a)
    BY <1>2, <2>1, EndTypes
  <2>2. CASE task' = [task EXCEPT ![a].step = "mark", ![a].keys = Keys(dir, u)]
    <3>1. Keys(dir, u) \in SUBSET Key
      BY <1>3, KeysType DEF ClientInv, DirectoryOf
    <3>2. [task[a] EXCEPT !.step = "mark", !.keys = Keys(dir, u)] \in Task
      BY <3>1 DEF BlockTypes, Task
    <3> QED
      BY <1>2, <2>2, <3>2 DEF BlockTypes, TaskInv
  <2> QED
    BY <1>1, <2>1, <2>2
<1>6. {astray', pardoned'} \subseteq SUBSET User
  BY <1>1, <1>3 DEF BlockTypes, Parts
<1> QED
  BY <1>2, <1>4, <1>5, <1>6 DEF BlockKept, BlockTypes

\* The cache is told.
LEMMA MarkTypes ==
  ASSUME ClientInv, BlockTypes, TaskInv, NEW a \in Admin, Mark(a)
  PROVE  BlockKept
<1>1. /\ cache' \in {cache \cup task[a].keys, cache \ task[a].keys}
      /\ Ends(a) /\ UNCHANGED <<clientVars, bans, load, msg, appeal, astray, pardoned, ops>>
  BY DEF Mark, mark_user_blocked, mark_user_unblocked
<1>2. cache' \subseteq Key
  BY <1>1 DEF BlockTypes, Task
<1>3. /\ task' \in [Admin -> Task] /\ TaskInv'
      /\ \A b \in Admin : task'[b].step = "idle" => task'[b] = NoTask
  BY <1>1, EndTypes
<1> QED
  BY <1>1, <1>2, <1>3 DEF BlockKept, BlockTypes, AsksPlainly

\* A channel is detached from its account.
LEMMA DetachTypes ==
  ASSUME ClientInv, BlockTypes, TaskInv, NEW u \in User, NEW h \in Handle, Detach(u, h)
  PROVE  BlockKept
<1>1. /\ [op |-> "remove_channel", channel |-> h, user |-> u] \in PlainRequests
      /\ Tui \in Admin
  BY BlocksAssumption DEF PlainRequests, Requests
<1>2. AsksPlainly
  BY <1>1 DEF Detach, AsksPlainly, Asks
<1>3. /\ task[Tui].step = "idle" /\ UNCHANGED <<cache, bans, load, msg, appeal, pardoned>>
      /\ task' = task \/ task' = [task EXCEPT ![Tui] = [NoTask EXCEPT !.step = "add",
                                     !.op = "split", !.keys = {h}]]
      /\ Begin /\ astray' \subseteq astray \cup {u}
  BY DEF Detach
<1>4. [NoTask EXCEPT !.step = "add", !.op = "split", !.keys = {h}] \in Task
  BY DEF NoTask, Task, Key
<1>5. /\ task' \in [Admin -> Task] /\ TaskInv'
      /\ \A b \in Admin : task'[b].step = "idle" => task'[b] = NoTask
  <2>1. CASE task' = task
    BY <1>3, <2>1 DEF BlockTypes, TaskInv
  <2>2. CASE task' = [task EXCEPT ![Tui] = [NoTask EXCEPT !.step = "add", !.op = "split",
                                               !.keys = {h}]]
    <3>1. /\ task'[Tui].step = "add"
          /\ \A b \in Admin \ {Tui} : task'[b] = task[b]
      BY <1>1, <2>2 DEF BlockTypes, NoTask
    <3>2. task' \in [Admin -> Task]
      BY <1>4, <2>2 DEF BlockTypes
    <3> QED
      BY <1>3, <3>1, <3>2 DEF BlockTypes, TaskInv
  <2> QED
    BY <1>3, <2>1, <2>2
<1>6. ops' \in 0 .. MaxOps /\ {astray', pardoned'} \subseteq SUBSET User
  BY <1>3, BlocksAssumption DEF Begin, BlockTypes
<1> QED
  BY <1>2, <1>3, <1>5, <1>6 DEF BlockKept, BlockTypes

\* The channel that was detached gets an account.
LEMMA AddTypes ==
  ASSUME ClientInv, BlockTypes, TaskInv, NEW h \in Handle, NEW new \in User, AddSplit(h, new)
  PROVE  BlockKept
<1>1. /\ [op |-> "add_user", channel |-> h, user |-> new] \in PlainRequests
      /\ Tui \in Admin
  BY BlocksAssumption DEF PlainRequests, Requests
<1>2. AsksPlainly
  BY <1>1 DEF AddSplit, AsksPlainly, Asks
<1>3. /\ UNCHANGED <<cache, bans, load, msg, appeal, pardoned, ops>> /\ Ends(Tui)
      /\ astray' \subseteq astray \cup {new}
  BY DEF AddSplit, Inherits
<1>4. /\ task' \in [Admin -> Task] /\ TaskInv'
      /\ \A b \in Admin : task'[b].step = "idle" => task'[b] = NoTask
  BY <1>1, <1>3, EndTypes
<1>5. {astray', pardoned'} \subseteq SUBSET User
  BY <1>3 DEF BlockTypes
<1> QED
  BY <1>2, <1>3, <1>4, <1>5 DEF BlockKept, BlockTypes

\* The appeal, until it is decided, and after.
LEMMA AppealTypes ==
  ASSUME ClientInv, BlockTypes, TaskInv,
         HoldAppeal \/ ApproveAppeal \/ RejectAppeal \/ ReleaseAppeal
  PROVE  BlockKept
<1>1. CASE HoldAppeal \/ RejectAppeal \/ ReleaseAppeal
  <2>1. appeal' \in Appeal
    BY <1>1 DEF HoldAppeal, RejectAppeal, ReleaseAppeal, BlockTypes, Appeal
  <2>2. ops' \in 0 .. MaxOps
    BY <1>1, BlocksAssumption
       DEF HoldAppeal, RejectAppeal, ReleaseAppeal, Begin, BlockTypes
  <2>3. UNCHANGED <<clientVars, cache, bans, task, load, msg, astray, pardoned>>
    BY <1>1 DEF HoldAppeal, RejectAppeal, ReleaseAppeal
  <2> QED
    BY <2>1, <2>2, <2>3 DEF BlockKept, BlockTypes, TaskInv, AsksPlainly
<1>2. CASE ApproveAppeal
  <2>1. PICK u, r :
          /\ u = appeal.user /\ r = [op |-> "unblock", user |-> u]
          /\ Begin
          /\ appeal' = [appeal EXCEPT !.step = "unblocked"]
          /\ IF u = Nobody
               THEN UNCHANGED <<clientVars, astray, pardoned>>
               ELSE \/ /\ request(r)
                       /\ pardoned' = pardoned \cup {u}
                       /\ astray' \subseteq astray \cup {u}
                    \/ /\ request_fails(r)
                       /\ astray' = astray \cup {u}
                       /\ UNCHANGED pardoned
          /\ UNCHANGED <<cache, bans, task, load, msg>>
    BY <1>2 DEF ApproveAppeal, Parts
  <2>2. appeal' \in Appeal /\ u \in User \cup {Nobody}
    BY <2>1 DEF BlockTypes, Appeal
  <2>3. u # Nobody => r \in PlainRequests
    BY <2>1, <2>2 DEF PlainRequests, Requests
  <2>4. AsksPlainly
    BY <2>1, <2>3 DEF AsksPlainly, Asks
  <2>5. ops' \in 0 .. MaxOps
    BY <2>1, BlocksAssumption DEF Begin, BlockTypes
  <2>6. {astray', pardoned'} \subseteq SUBSET User
    BY <2>1, <2>2 DEF BlockTypes
  <2> QED
    BY <2>1, <2>2, <2>4, <2>5, <2>6 DEF BlockKept, BlockTypes, TaskInv
<1> QED
  BY <1>1, <1>2

\* The load of the cache.
LEMMA LoadTypes ==
  ASSUME ClientInv, BlockTypes, TaskInv, StartLoad \/ LoadPage \/ ReplaceCache
  PROVE  BlockKept
<1>1. CASE StartLoad \/ ReplaceCache
  <2>1. load' \in [step : {"off", "pages", "done"}, left : SUBSET User, keys : SUBSET Key]
    BY <1>1 DEF StartLoad, ReplaceCache
  <2>2. cache' \subseteq Key
    BY <1>1 DEF StartLoad, ReplaceCache, BlockTypes
  <2>3. UNCHANGED <<clientVars, bans, task, msg, appeal, astray, pardoned, ops>>
    BY <1>1 DEF StartLoad, ReplaceCache
  <2> QED
    BY <2>1, <2>2, <2>3 DEF BlockKept, BlockTypes, TaskInv, AsksPlainly
<1>2. CASE LoadPage
  <2>1. PICK u \in load.left :
          \/ /\ request([op |-> "get", user |-> u])
             /\ load' = [load EXCEPT !.left = @ \ {u},
                           !.keys = @ \cup IF u \in dir.blocked THEN Keys(dir, u) ELSE {}]
          \/ /\ request_fails([op |-> "get", user |-> u])
             /\ load' = LoadAgain
    BY <1>2 DEF LoadPage
  <2>2. u \in User
    BY DEF BlockTypes
  <2>3. AsksPlainly
    BY <2>1, <2>2 DEF AsksPlainly, Asks, PlainRequests, Requests
  <2>4. Keys(dir, u) \subseteq Key
    BY <2>2, KeysType DEF ClientInv, DirectoryOf
  <2>5. load' \in [step : {"off", "pages", "done"}, left : SUBSET User, keys : SUBSET Key]
    <3> DEFINE found == IF u \in dir.blocked THEN Keys(dir, u) ELSE {}
    <3>1. found \subseteq Key
      BY <2>4
    <3> HIDE DEF found
    <3>2. [load EXCEPT !.left = @ \ {u}, !.keys = @ \cup found]
            \in [step : {"off", "pages", "done"}, left : SUBSET User, keys : SUBSET Key]
      BY <3>1 DEF BlockTypes
    <3>3. LoadAgain \in [step : {"off", "pages", "done"}, left : SUBSET User, keys : SUBSET Key]
      BY DEF LoadAgain
    <3> QED
      BY <2>1, <3>2, <3>3 DEF found
  <2>6. UNCHANGED <<cache, bans, task, msg, appeal, astray, pardoned, ops>>
    BY <1>2 DEF LoadPage
  <2> QED
    BY <2>3, <2>5, <2>6 DEF BlockKept, BlockTypes, TaskInv
<1> QED
  BY <1>1, <1>2

\* Ingest, but for the lookup, and the bans the modules report.
LEMMA IngestTypes ==
  ASSUME ClientInv, BlockTypes, TaskInv,
         \/ \E keys \in SUBSET Handle : replace_module_bans(keys)
         \/ \E h \in Handle, command \in {"other", "appeal"} : Receive(h, command)
         \/ NotFetched \/ Decide
  PROVE  BlockKept
<1>1. CASE \E keys \in SUBSET Handle : replace_module_bans(keys)
  <2>1. bans' \subseteq Key /\ ops' \in 0 .. MaxOps
    BY <1>1, BlocksAssumption DEF replace_module_bans, Begin, BlockTypes, Key
  <2>2. UNCHANGED <<clientVars, cache, task, load, msg, appeal, astray, pardoned>>
    BY <1>1 DEF replace_module_bans
  <2> QED
    BY <2>1, <2>2 DEF BlockKept, BlockTypes, TaskInv, AsksPlainly
<1>2. CASE \E h \in Handle, command \in {"other", "appeal"} : Receive(h, command)
  <2>1. msg' \in Message /\ msg'.from \in Handle /\ ops' \in 0 .. MaxOps
    BY <1>2, BlocksAssumption DEF Receive, Begin, BlockTypes, Key, Message
  <2>2. UNCHANGED <<clientVars, cache, bans, task, load, appeal, astray, pardoned>>
    BY <1>2 DEF Receive
  <2> QED
    BY <2>1, <2>2 DEF BlockKept, BlockTypes, TaskInv, AsksPlainly
<1>3. CASE NotFetched \/ Decide
  <2>1. msg' \in Message /\ msg'.step # "ingest"
    BY <1>3 DEF NotFetched, Decide, BlockTypes, Message
  <2>2. UNCHANGED <<clientVars, cache, bans, task, load, appeal, astray, pardoned, ops>>
    BY <1>3 DEF NotFetched, Decide
  <2> QED
    BY <2>1, <2>2 DEF BlockKept, BlockTypes, TaskInv, AsksPlainly
<1> QED
  BY <1>1, <1>2, <1>3

\* The sender is looked up.
LEMMA EnrichTypes ==
  ASSUME ClientInv, BlockTypes, TaskInv, NEW new \in AccountOf(msg.from), enrich_chat_user(new)
  PROVE  BlockKept
<1>1. PICK h, r, u :
        /\ h = msg.from /\ u = dir'.owner[h]
        /\ r = [op |-> "add_user", channel |-> h, user |-> new]
        /\ \/ /\ request(r)
              /\ \/ msg' = [msg EXCEPT !.step = "decide"]
                 \/ /\ u # Nobody
                    /\ msg' = [msg EXCEPT !.step = "decide", !.from = u,
                                 !.banned = u \in dir.blocked \/ has_module_ban_for(dir', u)]
              /\ astray' \subseteq astray \cup {new}
           \/ /\ request_fails(r)
              /\ msg' = [msg EXCEPT !.step = "decide"]
              /\ astray' \subseteq astray \cup {new}
  BY DEF enrich_chat_user, Inherits
<1>2. msg.step = "ingest" /\ UNCHANGED <<cache, bans, task, load, appeal, pardoned, ops>>
  BY DEF enrich_chat_user
<1>3. h \in Handle /\ new \in User
  BY <1>1, <1>2 DEF TaskInv, AccountOf, ClientInv, DirectoryOf, Directory
<1>4. r \in PlainRequests
  BY <1>1, <1>3 DEF PlainRequests, Requests
<1>5. AsksPlainly /\ Asks(r) /\ r \in Requests
  BY <1>1, <1>4 DEF AsksPlainly, Asks, PlainRequests
<1>6. u \in User \cup {Nobody}
  BY <1>1, <1>3, <1>5, AskKeeps DEF ClientInv, DirectoryOf, Directory
<1>7. msg' \in Message /\ msg'.step # "ingest"
  <2>1. CASE msg' = [msg EXCEPT !.step = "decide"]
    BY <2>1 DEF BlockTypes, Message
  <2>2. CASE u # Nobody /\ msg' = [msg EXCEPT !.step = "decide", !.from = u,
                    !.banned = u \in dir.blocked \/ has_module_ban_for(dir', u)]
    <3> PICK b : b = (u \in dir.blocked \/ has_module_ban_for(dir', u))
      OBVIOUS
    <3>1. b \in BOOLEAN
      BY Zenon DEF has_module_ban_for
    <3>2. msg' = [msg EXCEPT !.step = "decide", !.from = u, !.banned = b]
      BY <2>2
    <3>3. u \in Key
      BY <1>6, <2>2 DEF Key
    <3> QED
      BY <3>1, <3>2, <3>3 DEF BlockTypes, Message
  <2> QED
    BY <1>1, <2>1, <2>2
<1>8. {astray', pardoned'} \subseteq SUBSET User
  BY <1>1, <1>2, <1>3 DEF BlockTypes
<1> QED
  BY <1>2, <1>5, <1>7, <1>8 DEF BlockKept, BlockTypes, TaskInv

\* Whatever the blocks do.
LEMMA BlocksKeep ==
  ASSUME ClientInv, BlockTypes, TaskInv, Blocks
  PROVE  BlockKept
<1>1. ASSUME NEW a \in Admin, NEW op \in {"block", "unblock"}, NEW u \in User, StartBlock(a, op, u)
      PROVE  BlockKept
  BY <1>1, StartTypes
<1>2. ASSUME NEW a \in Admin, resolve_block_actor_and_target(a) PROVE BlockKept
  BY <1>2, ResolveTypes
<1>3. ASSUME NEW a \in Admin, WriteFlag(a) PROVE BlockKept
  BY <1>3, WriteTypes
<1>4. ASSUME NEW a \in Admin, Mark(a) PROVE BlockKept
  BY <1>4, MarkTypes
<1>5. ASSUME NEW u \in User, NEW h \in Handle, Detach(u, h) PROVE BlockKept
  BY <1>5, DetachTypes
<1>6. ASSUME NEW h \in Handle, NEW new \in AccountOf(h), AddSplit(h, new) PROVE BlockKept
  <2>1. new \in User
    BY <1>6 DEF AccountOf, ClientInv, DirectoryOf, Directory
  <2> QED
    BY <1>6, <2>1, AddTypes
<1>7. ASSUME HoldAppeal \/ ApproveAppeal \/ RejectAppeal \/ ReleaseAppeal PROVE BlockKept
  BY <1>7, AppealTypes
<1>8. ASSUME StartLoad \/ LoadPage \/ ReplaceCache PROVE BlockKept
  BY <1>8, LoadTypes
<1>9. ASSUME \/ \E keys \in SUBSET Handle : replace_module_bans(keys)
             \/ \E h \in Handle, command \in {"other", "appeal"} : Receive(h, command)
             \/ NotFetched \/ Decide
      PROVE  BlockKept
  BY <1>9, IngestTypes
<1>10. ASSUME NEW new \in AccountOf(msg.from), enrich_chat_user(new) PROVE BlockKept
  BY <1>10, EnrichTypes
<1> QED
  BY <1>1, <1>2, <1>3, <1>4, <1>5, <1>6, <1>7, <1>8, <1>9, <1>10 DEF Blocks

--------------------------------------------------------------------------------
(***************************************************************************)
(* Gates, scores and roles.                                                *)
(***************************************************************************)
\* A price is paid by a sender who meets the gate, and only before the send.
GateInv ==
  /\ gate.step # "idle" => gate.user \in User
  /\ gate.step # "send" => ~gate.paid
  /\ gate.step = "pay" => gate.meets

GateType == gate \in [step : {"idle", "fetch", "pay", "send"}, user : User \cup {Nobody},
                      meets : BOOLEAN, paid : BOOLEAN]

VerifyType == verify \in [step : {"idle", "set"}, user : User \cup {Nobody}, stored : BOOLEAN,
                          claim : Claim]

Entry == {"credited", "served", "dropped", "unknown"}

\* No entry counts more than the operations begun; one that runs may still be booked.
LedgerFits ==
  /\ ledger \in [User -> [Entry -> Nat]]
  /\ \A u \in User, e \in Entry : ledger[u][e] + (IF gate.step = "idle" THEN 0 ELSE 1) <= ops

\* An account that is verified is known.
VerifyInv == verify.step = "set" => verify.user \in dir.known

UserTypes == GateType /\ VerifyType /\ {said, unsure} \subseteq SUBSET User

\* What holds of the types and of who is who.
UInv == ClientInv /\ BlockTypes /\ TaskInv /\ UserTypes /\ GateInv /\ LedgerFits /\ VerifyInv

\* A request that was given up and may still move the score.
Owes(u, op) == IF [op |-> op, user |-> u] \in late THEN 1 ELSE 0

Booked(u) ==
  StartScore + ledger[u]["credited"] - ledger[u]["served"] - ledger[u]["dropped"]
    - (IF gate.user = u /\ gate.paid THEN 1 ELSE 0)

\* The score stays within the doubt whatever is still carried out.
ScoreInv ==
  \A u \in User :
    /\ dir.score[u] - Owes(u, "deduct") >= Booked(u) - ledger[u]["unknown"]
    /\ dir.score[u] + Owes(u, "credit") <= Booked(u) + ledger[u]["unknown"]

\* The roles, and what may still change them.
RolesInv ==
  /\ \A u \in User \ unsure : u \in dir.mods <=> u \in said
  /\ \A r \in late : r.op \in {"mod", "unmod"} => r.user \in unsure
  /\ verify.step = "set" /\ verify.claim = "none" /\ verify.user \notin unsure =>
       (verify.stored <=> verify.user \in said)

\* One entry more for a user.
LEMMA BooksOne ==
  ASSUME LedgerFits, NEW u \in User, NEW e \in Entry, Books(u, e),
         NEW n \in Nat, n <= ops', ops \in Nat,
         \A x \in User, f \in Entry : ledger[x][f] <= n, ledger[u][e] + 1 <= n
  PROVE  /\ ledger' \in [User -> [Entry -> Nat]]
         /\ \A x \in User, f \in Entry :
              /\ ledger'[x][f] = ledger[x][f] + (IF x = u /\ f = e THEN 1 ELSE 0)
              /\ ledger'[x][f] <= n
<1>1. ledger' = [ledger EXCEPT ![u] = [ledger[u] EXCEPT ![e] = @ + 1]]
  BY DEF Books
<1>2. ledger[u] \in [Entry -> Nat] /\ [ledger[u] EXCEPT ![e] = @ + 1] \in [Entry -> Nat]
  BY DEF LedgerFits
<1>3. ledger' \in [User -> [Entry -> Nat]]
  BY <1>1, <1>2 DEF LedgerFits
<1>4. ASSUME NEW x \in User, NEW f \in Entry
      PROVE  ledger'[x][f] = ledger[x][f] + (IF x = u /\ f = e THEN 1 ELSE 0)
  <2>1. CASE x = u
    BY <1>1, <1>2, <2>1 DEF LedgerFits
  <2>2. CASE x # u
    BY <1>1, <2>2 DEF LedgerFits
  <2> QED
    BY <2>1, <2>2
<1>5. \A x \in User, f \in Entry : ledger'[x][f] <= n
  BY <1>4 DEF LedgerFits
<1> QED
  BY <1>3, <1>4, <1>5

\* The bound is only ever spent.
LEMMA OpsGrow ==
  ASSUME BlockTypes, Blocks
  PROVE  ops' >= ops
<1>1. ops' = ops \/ Begin
  BY DEF Blocks, StartBlock, resolve_block_actor_and_target, WriteFlag, Mark, Detach, AddSplit,
         HoldAppeal, ApproveAppeal, RejectAppeal, ReleaseAppeal, StartLoad, LoadPage,
         ReplaceCache, replace_module_bans, Receive, NotFetched, enrich_chat_user, Decide
<1> QED
  BY <1>1 DEF Begin, BlockTypes

\* A request that is about neither score leaves them alone.
LEMMA ScoresStay ==
  ASSUME ClientInv, NEW r \in Requests, Asks(r), r.op \notin {"deduct", "credit"}
  PROVE  /\ dir'.score = dir.score
         /\ \A u \in User, op \in {"deduct", "credit"} : Owes(u, op)' = Owes(u, op)
<1>1. dir'.score = dir.score
  <2>1. dir' \in {dir, Carried(dir, r)}
    BY DEF Asks, request, request_fails
  <2>2. Carried(dir, r).score = dir.score
    BY Refused, CarriedFields DEF ClientInv, DirectoryOf, Turns
  <2> QED
    BY <2>1, <2>2
<1>2. late' \in {late, late \cup {r}}
  BY DEF Asks, request, request_fails
<1>3. \A u \in User, op \in {"deduct", "credit"} : [op |-> op, user |-> u] # r
  OBVIOUS
<1> QED
  BY <1>1, <1>2, <1>3 DEF Owes

\* A request that is not about a role leaves them alone.
LEMMA RolesStay ==
  ASSUME ClientInv, NEW r \in Requests, Asks(r), r.op \notin {"mod", "unmod"}
  PROVE  /\ dir'.mods = dir.mods
         /\ \A x \in late' : x.op \in {"mod", "unmod"} => x \in late
<1>1. dir'.mods = dir.mods
  <2>1. dir' \in {dir, Carried(dir, r)}
    BY DEF Asks, request, request_fails
  <2>2. Carried(dir, r).mods = dir.mods
    BY Refused, CarriedFields DEF ClientInv, DirectoryOf, Turns
  <2> QED
    BY <2>1, <2>2
<1>2. late' \in {late, late \cup {r}}
  BY DEF Asks, request, request_fails
<1> QED
  BY <1>1, <1>2

AllInv == UInv /\ ScoreInv /\ RolesInv

\* The steps of the blocks.
LEMMA BlockStepKeeps ==
  ASSUME AllInv, BlockStep
  PROVE  AllInv'
<1>1. BlockKept /\ ops' >= ops /\ UNCHANGED <<gate, ledger, verify, said, unsure>>
  BY BlocksKeep, OpsGrow DEF AllInv, UInv, BlockStep, roleVars
<1>2. /\ ClientInv' /\ dir.known \subseteq dir'.known
      /\ dir'.score = dir.score /\ dir'.mods = dir.mods
      /\ \A u \in User, op \in {"deduct", "credit"} : Owes(u, op)' = Owes(u, op)
      /\ \A x \in late' : x.op \in {"mod", "unmod"} => x \in late
  <2>1. CASE UNCHANGED clientVars
    BY <2>1 DEF clientVars, AllInv, UInv, ClientInv, ClientTypeOK, DirectoryOf, Quiet, Owes
  <2>2. CASE \E r \in PlainRequests : Asks(r)
    <3>1. PICK r \in Requests : /\ Asks(r) /\ r.op \notin {"deduct", "credit"}
                                /\ r.op \notin {"mod", "unmod"}
      BY <2>2 DEF PlainRequests
    <3>2. ClientInv' /\ dir.known \subseteq dir'.known
      BY <3>1, AskKeeps DEF AllInv, UInv
    <3>3. dir'.score = dir.score
          /\ \A u \in User, op \in {"deduct", "credit"} : Owes(u, op)' = Owes(u, op)
      BY <3>1, ScoresStay DEF AllInv, UInv
    <3>4. dir'.mods = dir.mods /\ \A x \in late' : x.op \in {"mod", "unmod"} => x \in late
      BY <3>1, RolesStay DEF AllInv, UInv
    <3> QED
      BY <3>2, <3>3, <3>4
  <2> QED
    BY <1>1, <2>1, <2>2 DEF BlockKept, AsksPlainly
<1>3. UserTypes' /\ GateInv' /\ VerifyInv'
  BY <1>1, <1>2 DEF AllInv, UInv, UserTypes, GateType, VerifyType, GateInv, VerifyInv
<1>4. LedgerFits'
  <2>1. ops \in Nat /\ ops' \in Nat
    BY <1>1 DEF AllInv, UInv, BlockKept, BlockTypes
  <2>2. /\ ledger \in [User -> [Entry -> Nat]]
        /\ \A u \in User, e \in Entry : ledger[u][e] + (IF gate.step = "idle" THEN 0 ELSE 1) <= ops
    BY DEF AllInv, UInv, LedgerFits
  <2>3. \A u \in User, e \in Entry : ledger[u][e] \in Nat
    BY <2>2
  <2> QED
    BY <1>1, <2>1, <2>2, <2>3 DEF LedgerFits
<1>5. ScoreInv'
  BY <1>1, <1>2 DEF AllInv, ScoreInv, Booked
<1>6. RolesInv'
  BY <1>1, <1>2 DEF AllInv, RolesInv
<1> QED
  BY <1>1, <1>2, <1>3, <1>4, <1>5, <1>6 DEF AllInv, UInv, BlockKept

\* A request that was given up is carried out: the score moves within the doubt.
LEMMA ServiceKeeps ==
  ASSUME AllInv, ServiceStep
  PROVE  AllInv'
<1>1. /\ CarriedOutLate
      /\ UNCHANGED <<cache, bans, task, load, msg, appeal, astray, pardoned, ops>>
      /\ UNCHANGED <<gate, ledger, verify, said, unsure>>
  BY DEF ServiceStep, blockVars, roleVars
<1>2. ClientInv' /\ dir.known \subseteq dir'.known
  BY <1>1, LateKeeps DEF AllInv, UInv
<1>3. PICK r \in late : late' = late \ {r} /\ dir' = Carried(dir, r)
  BY <1>1 DEF CarriedOutLate
<1>4. r \in Requests /\ dir \in Directory /\ dir.score \in [User -> Int] /\ r.user \in User
  BY DEF AllInv, UInv, ClientInv, ClientTypeOK, DirectoryOf, Directory, Requests
<1>5. UInv'
  BY <1>1, <1>2 DEF AllInv, UInv, BlockTypes, TaskInv, UserTypes, GateType, VerifyType, GateInv,
                    LedgerFits, VerifyInv
<1>6. ScoreInv'
  <2> SUFFICES ASSUME NEW u \in User
               PROVE  /\ dir'.score[u] - Owes(u, "deduct")' >= Booked(u) - ledger[u]["unknown"]
                      /\ dir'.score[u] + Owes(u, "credit")' <= Booked(u) + ledger[u]["unknown"]
    BY <1>1 DEF ScoreInv, Booked
  <2>1. /\ dir.score[u] - Owes(u, "deduct") >= Booked(u) - ledger[u]["unknown"]
        /\ dir.score[u] + Owes(u, "credit") <= Booked(u) + ledger[u]["unknown"]
    BY DEF AllInv, ScoreInv
  <2>2. dir.score[u] \in Int /\ Booked(u) \in Int /\ ledger[u]["unknown"] \in Nat
    <3>1. \A e \in Entry : ledger[u][e] \in Nat
      BY DEF AllInv, UInv, LedgerFits
    <3> QED
      BY <1>4, <3>1, ClientAssumption DEF Booked, Entry
  <2>3. CASE dir'.score = dir.score
    BY <1>3, <2>1, <2>2, <2>3 DEF Owes
  <2>4. CASE dir'.score # dir.score
    <3>1. Turns(dir, r, dir')
      BY <1>3, <1>4, <2>4, CarriedFields, Refused
    <3>2. CASE r.op = "deduct"
      <4>1. dir'.score[u] = dir.score[u] - (IF r.user = u THEN 1 ELSE 0)
        BY <1>4, <3>1, <3>2 DEF Turns
      <4>2. r.user = u => [op |-> "deduct", user |-> u] = r
        BY <1>4, <3>2 DEF Requests
      <4> QED
        BY <1>3, <2>1, <2>2, <4>1, <4>2 DEF Owes
    <3>3. CASE r.op = "credit"
      <4>1. dir'.score[u] = dir.score[u] + (IF r.user = u THEN 1 ELSE 0)
        BY <1>4, <3>1, <3>3 DEF Turns
      <4>2. r.user = u => [op |-> "credit", user |-> u] = r
        BY <1>4, <3>3 DEF Requests
      <4> QED
        BY <1>3, <2>1, <2>2, <4>1, <4>2 DEF Owes
    <3> QED
      BY <2>4, <3>1, <3>2, <3>3 DEF Turns
  <2> QED
    BY <2>3, <2>4
<1>7. RolesInv'
  <2>1. \A u \in User \ unsure : u \in dir'.mods <=> u \in dir.mods
    <3>1. CASE ~Accepts(dir, r)
      BY <1>3, <3>1, Refused
    <3>2. CASE Accepts(dir, r)
      <4>1. Turns(dir, r, dir')
        BY <1>3, <1>4, <3>2, CarriedFields
      <4>2. r.op \in {"mod", "unmod"} => r.user \in unsure
        BY DEF AllInv, RolesInv
      <4> QED
        BY <4>1, <4>2 DEF Turns
    <3> QED
      BY <3>1, <3>2
  <2> QED
    BY <1>1, <1>3, <2>1 DEF AllInv, RolesInv
<1> QED
  BY <1>5, <1>6, <1>7 DEF AllInv

\* An operation that begins books at most once.
LEMMA StillFits ==
  ASSUME UInv, ops' \in Nat, ops' >= ops, UNCHANGED ledger,
         \/ UNCHANGED gate
         \/ gate'.step = "idle"
         \/ gate.step # "idle"
         \/ ops' >= ops + 1
  PROVE  LedgerFits'
<1>1. /\ ledger \in [User -> [Entry -> Nat]] /\ ops \in Nat
      /\ \A u \in User, e \in Entry : ledger[u][e] + (IF gate.step = "idle" THEN 0 ELSE 1) <= ops
  BY DEF UInv, LedgerFits, BlockTypes
<1>2. \A u \in User, e \in Entry : ledger[u][e] \in Nat
  BY <1>1
<1> QED
  BY <1>1, <1>2 DEF LedgerFits

\* StartGate: the message of a user reaches a module with a gate.
LEMMA StartGateKeeps ==
  ASSUME AllInv, NEW u \in User, StartGate(u)
  PROVE  AllInv'
<1>1. /\ gate.step = "idle" /\ ops' = ops + 1 /\ ops < MaxOps
      /\ gate' = [NoGate EXCEPT !.step = "fetch", !.user = u]
      /\ UNCHANGED <<cache, bans, task, load, msg, appeal, astray, pardoned>>
      /\ UNCHANGED <<dir, conn, late, swapped, faults, ledger, verify, said, unsure>>
  BY DEF StartGate, Begin, OtherBlocks, clientVars, roleVars
<1>2. ClientInv' /\ TaskInv' /\ BlockTypes'
  <2>1. ops' \in 0 .. MaxOps
    BY <1>1, BlocksAssumption DEF AllInv, UInv, BlockTypes
  <2> QED
    BY <1>1, <2>1 DEF AllInv, UInv, ClientInv, ClientTypeOK, DirectoryOf, Quiet, BlockTypes, TaskInv
<1>3. UserTypes' /\ GateInv' /\ VerifyInv'
  BY <1>1 DEF AllInv, UInv, UserTypes, GateType, VerifyType, GateInv, VerifyInv, NoGate
<1>4. LedgerFits'
  <2>1. ops' \in Nat /\ ops' >= ops + 1 /\ ops' >= ops
    BY <1>1 DEF AllInv, UInv, BlockTypes
  <2> QED
    BY <1>1, <2>1, StillFits DEF AllInv
<1>5. ScoreInv'
  <2>1. \A x \in User : Booked(x)' = Booked(x)
    BY <1>1 DEF Booked, NoGate, AllInv, UInv, GateInv
  <2> QED
    BY <1>1, <2>1 DEF AllInv, ScoreInv, Owes
<1>6. RolesInv'
  BY <1>1 DEF AllInv, RolesInv
<1> QED
  BY <1>2, <1>3, <1>4, <1>5, <1>6 DEF AllInv, UInv

\* FetchForGate: roles, rank and score are looked up, or the module is not held up.
LEMMA FetchKeeps ==
  ASSUME AllInv, FetchForGate
  PROVE  AllInv'
<1>1. PICK r : r = [op |-> "get", user |-> gate.user]
  OBVIOUS
<1>2. /\ gate.step = "fetch" /\ Asks(r)
      /\ \/ gate' = NoGate
         \/ gate' = [gate EXCEPT !.step = "send"]
         \/ meets_gate(gate.user) /\ gate' = [gate EXCEPT !.step = "pay", !.meets = TRUE]
      /\ UNCHANGED <<cache, bans, task, load, msg, appeal, astray, pardoned, ops>>
      /\ UNCHANGED <<ledger, verify, said, unsure>>
  BY <1>1 DEF FetchForGate, OtherBlocks, roleVars, Asks, is_charged_last
<1>3. r \in Requests /\ r.op \notin {"deduct", "credit", "mod", "unmod"}
  BY <1>1, <1>2 DEF AllInv, UInv, GateInv, Requests
<1>4. ClientInv' /\ dir.known \subseteq dir'.known
  BY <1>2, <1>3, AskKeeps DEF AllInv, UInv
<1>5. /\ dir'.score = dir.score /\ dir'.mods = dir.mods
      /\ \A u \in User, op \in {"deduct", "credit"} : Owes(u, op)' = Owes(u, op)
      /\ \A x \in late' : x.op \in {"mod", "unmod"} => x \in late
  BY <1>2, <1>3, ScoresStay, RolesStay DEF AllInv, UInv
<1>6. BlockTypes' /\ TaskInv'
  BY <1>2 DEF AllInv, UInv, BlockTypes, TaskInv
<1>7. UserTypes' /\ GateInv' /\ VerifyInv' /\ ~gate'.paid /\ ~gate.paid
  <2>1. GateType /\ gate.user \in User /\ ~gate.paid
    BY <1>2 DEF AllInv, UInv, UserTypes, GateInv
  <2>2. GateType' /\ GateInv' /\ ~gate'.paid
    <3>1. CASE gate' = NoGate
      BY <3>1 DEF GateType, GateInv, NoGate
    <3>2. CASE gate' = [gate EXCEPT !.step = "send"]
      BY <2>1, <3>2 DEF GateType, GateInv
    <3>3. CASE gate' = [gate EXCEPT !.step = "pay", !.meets = TRUE]
      BY <2>1, <3>3 DEF GateType, GateInv
    <3> QED
      BY <1>2, <3>1, <3>2, <3>3
  <2> QED
    BY <1>2, <1>4, <2>1, <2>2 DEF AllInv, UInv, UserTypes, VerifyType, VerifyInv
<1>8. LedgerFits'
  BY <1>2, StillFits DEF AllInv, UInv, BlockTypes
<1>9. ScoreInv'
  <2>1. \A x \in User : Booked(x)' = Booked(x)
    BY <1>2, <1>7 DEF Booked
  <2> QED
    BY <1>2, <1>5, <2>1 DEF AllInv, ScoreInv
<1>10. RolesInv'
  BY <1>2, <1>5 DEF AllInv, RolesInv
<1> QED
  BY <1>4, <1>6, <1>7, <1>8, <1>9, <1>10 DEF AllInv, UInv

\* What books of the numbers.
LEMMA Numbers ==
  ASSUME AllInv, NEW u \in User
  PROVE  /\ dir.score[u] \in Int /\ Booked(u) \in Int /\ StartScore \in Nat
         /\ \A e \in Entry : ledger[u][e] \in Nat /\ ledger[u][e] <= ops
         /\ ops \in Nat
         /\ dir.score[u] - Owes(u, "deduct") >= Booked(u) - ledger[u]["unknown"]
         /\ dir.score[u] + Owes(u, "credit") <= Booked(u) + ledger[u]["unknown"]
<1>1. /\ ledger \in [User -> [Entry -> Nat]] /\ ops \in Nat
      /\ ledger[u] \in [Entry -> Nat]
      /\ \A e \in Entry : ledger[u][e] + (IF gate.step = "idle" THEN 0 ELSE 1) <= ops
  BY DEF AllInv, UInv, LedgerFits, BlockTypes
<1>2. \A e \in Entry : ledger[u][e] \in Nat
  BY <1>1
<1>3. dir.score[u] \in Int /\ StartScore \in Nat
  BY ClientAssumption DEF AllInv, UInv, ClientInv, DirectoryOf, Directory
<1>4. Booked(u) \in Int
  BY <1>2, <1>3 DEF Booked, Entry
<1> QED
  BY <1>1, <1>2, <1>3, <1>4 DEF AllInv, ScoreInv

\* A doubt is booked with the request it is about.
LEMMA DoubtKeeps ==
  ASSUME AllInv, NEW u \in User, NEW r \in Requests, r.user = u, r.op \in {"deduct", "credit"},
         request_fails(r), Books(u, "unknown"),
         \A x \in User, f \in Entry : ledger'[x][f] = ledger[x][f] + (IF x = u /\ f = "unknown" THEN 1 ELSE 0),
         \A x \in User : (gate'.user = x /\ gate'.paid) <=> (gate.user = x /\ gate.paid)
  PROVE  ScoreInv'
<1> SUFFICES ASSUME NEW x \in User
             PROVE  /\ dir'.score[x] - Owes(x, "deduct")' >= Booked(x)' - ledger'[x]["unknown"]
                    /\ dir'.score[x] + Owes(x, "credit")' <= Booked(x)' + ledger'[x]["unknown"]
  BY DEF ScoreInv
<1>1. /\ dir.score[x] \in Int /\ Booked(x) \in Int
      /\ \A e \in Entry : ledger[x][e] \in Nat
      /\ dir.score[x] - Owes(x, "deduct") >= Booked(x) - ledger[x]["unknown"]
      /\ dir.score[x] + Owes(x, "credit") <= Booked(x) + ledger[x]["unknown"]
  BY Numbers
<1>2. Booked(x)' = Booked(x)
  BY <1>1 DEF Booked, Entry
<1>3. ledger'[x]["unknown"] = ledger[x]["unknown"] + (IF x = u THEN 1 ELSE 0)
  BY DEF Entry
<1>4. late' \in {late, late \cup {r}} /\ dir' = dir
  BY DEF request_fails
<1>5. ledger[x]["unknown"] \in Nat
  BY <1>1 DEF Entry
<1>6. CASE x = u
  <2>1. Owes(x, "deduct")' <= Owes(x, "deduct") + 1 /\ Owes(x, "credit")' <= Owes(x, "credit") + 1
    BY DEF Owes
  <2>2. Owes(x, "deduct")' \in {0, 1} /\ Owes(x, "credit")' \in {0, 1}
        /\ Owes(x, "deduct") \in {0, 1} /\ Owes(x, "credit") \in {0, 1}
    BY DEF Owes
  <2>3. dir'.score[x] = dir.score[x] /\ ledger'[x]["unknown"] = ledger[x]["unknown"] + 1
    BY <1>3, <1>4, <1>6
  <2>4. dir'.score[x] - Owes(x, "deduct")' >= Booked(x)' - ledger'[x]["unknown"]
    BY <1>1, <1>2, <1>5, <2>1, <2>2, <2>3
  <2>5. dir'.score[x] + Owes(x, "credit")' <= Booked(x)' + ledger'[x]["unknown"]
    BY <1>1, <1>2, <1>5, <2>1, <2>2, <2>3
  <2> QED
    BY <2>4, <2>5
<1>7. CASE x # u
  <2>1. Owes(x, "deduct")' = Owes(x, "deduct") /\ Owes(x, "credit")' = Owes(x, "credit")
    BY <1>4, <1>7 DEF Owes
  <2>2. dir'.score[x] = dir.score[x] /\ ledger'[x]["unknown"] = ledger[x]["unknown"]
    BY <1>3, <1>4, <1>5, <1>7
  <2> QED
    BY <1>1, <1>2, <2>1, <2>2
<1> QED
  BY <1>6, <1>7

\* What Pay and AdjustScore leave alone.
LEMMA ScoreRequest ==
  ASSUME AllInv, NEW r \in Requests, Asks(r), r.op \in {"deduct", "credit"},
         OtherBlocks, UNCHANGED roleVars, ops' \in 0 .. MaxOps
  PROVE  /\ ClientInv' /\ BlockTypes' /\ TaskInv' /\ VerifyType' /\ VerifyInv' /\ RolesInv'
         /\ {said', unsure'} \subseteq SUBSET User
<1>1. /\ UNCHANGED <<cache, bans, task, load, msg, appeal, astray, pardoned>>
      /\ UNCHANGED <<verify, said, unsure>>
  BY DEF OtherBlocks, roleVars
<1>2. ClientInv' /\ dir.known \subseteq dir'.known
  BY AskKeeps DEF AllInv, UInv
<1>3. dir'.mods = dir.mods /\ \A x \in late' : x.op \in {"mod", "unmod"} => x \in late
  BY RolesStay DEF AllInv, UInv
<1>4. BlockTypes' /\ TaskInv'
  BY <1>1 DEF AllInv, UInv, BlockTypes, TaskInv
<1>5. VerifyType' /\ VerifyInv' /\ {said', unsure'} \subseteq SUBSET User
  BY <1>1, <1>2 DEF AllInv, UInv, UserTypes, VerifyType, VerifyInv
<1>6. RolesInv'
  BY <1>1, <1>3 DEF AllInv, RolesInv
<1> QED
  BY <1>2, <1>4, <1>5, <1>6

\* The score after a request that was answered.
LEMMA ScoreAnswer ==
  ASSUME ClientInv, NEW r \in Requests, r.op \in {"deduct", "credit"}, request(r),
         NEW x \in User
  PROVE  /\ Accepts(dir, r) => dir'.score[x] = dir.score[x]
              + (IF x # r.user THEN 0 ELSE IF r.op = "credit" THEN 1 ELSE -1)
         /\ ~Accepts(dir, r) => dir'.score[x] = dir.score[x]
         /\ \A op \in {"deduct", "credit"} : Owes(x, op)' = Owes(x, op)
<1>1. dir' = Carried(dir, r) /\ late' = late
  BY DEF request
<1>2. dir \in Directory /\ dir.score \in [User -> Int] /\ r.user \in User
  BY DEF ClientInv, DirectoryOf, Directory, Requests
<1>3. ASSUME Accepts(dir, r)
      PROVE  dir'.score[x] = dir.score[x]
               + (IF x # r.user THEN 0 ELSE IF r.op = "credit" THEN 1 ELSE -1)
  <2>1. Turns(dir, r, dir')
    BY <1>1, <1>2, <1>3, CarriedFields
  <2>2. CASE r.op = "deduct"
    BY <1>2, <2>1, <2>2 DEF Turns
  <2>3. CASE r.op = "credit"
    BY <1>2, <2>1, <2>3 DEF Turns
  <2> QED
    BY <2>2, <2>3
<1> QED
  BY <1>1, <1>3, Refused DEF Owes

\* Pay: a price is paid for a send, refused, or in doubt.
LEMMA PayKeeps ==
  ASSUME AllInv, Pay
  PROVE  AllInv'
<1>1. PICK u, r : u = gate.user /\ r = [op |-> "deduct", user |-> u]
  OBVIOUS
<1>2. /\ gate.step = "pay" /\ OtherBlocks /\ UNCHANGED <<ops, roleVars>> /\ Asks(r)
      /\ \/ /\ request(r) /\ UNCHANGED ledger
            /\ gate' = IF gate.meets /\ Accepts(dir, r)
                         THEN [gate EXCEPT !.step = "send", !.paid = TRUE] ELSE NoGate
         \/ request_fails(r) /\ gate' = NoGate /\ Books(u, "unknown")
  BY <1>1 DEF Pay, Asks
<1>3. u \in User /\ r \in Requests /\ r.user = u /\ r.op = "deduct" /\ gate.meets /\ ~gate.paid
  BY <1>1, <1>2 DEF AllInv, UInv, GateInv, Requests
<1>4. ops \in 0 .. MaxOps /\ ops' = ops
  BY <1>2 DEF AllInv, UInv, BlockTypes
<1>5. /\ ClientInv' /\ BlockTypes' /\ TaskInv' /\ VerifyType' /\ VerifyInv' /\ RolesInv'
      /\ {said', unsure'} \subseteq SUBSET User
  BY <1>2, <1>3, <1>4, ScoreRequest
<1>6. GateType' /\ GateInv'
  <2>1. CASE gate' = NoGate
    BY <2>1 DEF GateType, GateInv, NoGate
  <2>2. CASE gate' = [gate EXCEPT !.step = "send", !.paid = TRUE]
    BY <1>1, <1>3, <2>2 DEF AllInv, UInv, UserTypes, GateType, GateInv
  <2> QED
    BY <1>2, <2>1, <2>2
<1>7. CASE /\ request(r) /\ UNCHANGED ledger
           /\ gate' = IF gate.meets /\ Accepts(dir, r)
                        THEN [gate EXCEPT !.step = "send", !.paid = TRUE] ELSE NoGate
  <2>1. LedgerFits'
    BY <1>2, <1>4, <1>7, StillFits DEF AllInv
  <2>2. ASSUME NEW x \in User
        PROVE  /\ dir'.score[x] - Owes(x, "deduct")' >= Booked(x)' - ledger'[x]["unknown"]
               /\ dir'.score[x] + Owes(x, "credit")' <= Booked(x)' + ledger'[x]["unknown"]
    <3>1. /\ dir.score[x] \in Int /\ Booked(x) \in Int /\ StartScore \in Nat
          /\ \A e \in Entry : ledger[x][e] \in Nat
          /\ dir.score[x] - Owes(x, "deduct") >= Booked(x) - ledger[x]["unknown"]
          /\ dir.score[x] + Owes(x, "credit") <= Booked(x) + ledger[x]["unknown"]
      BY Numbers
    <3>2. /\ Accepts(dir, r) => dir'.score[x] = dir.score[x] + (IF x # u THEN 0 ELSE -1)
          /\ ~Accepts(dir, r) => dir'.score[x] = dir.score[x]
          /\ Owes(x, "deduct")' = Owes(x, "deduct") /\ Owes(x, "credit")' = Owes(x, "credit")
      BY <1>3, <1>7, ScoreAnswer DEF AllInv, UInv
    <3>3. \A e \in Entry : ledger'[x][e] = ledger[x][e]
      BY <1>7
    <3>4. CASE Accepts(dir, r)
      <4>1. gate'.user = u /\ gate'.paid
        BY <1>1, <1>3, <1>7, <3>4 DEF AllInv, UInv, UserTypes, GateType
      <4>2. Booked(x)' = Booked(x) + (IF x # u THEN 0 ELSE -1)
        BY <1>1, <1>3, <3>1, <3>3, <4>1 DEF Booked, Entry
      <4>3. ledger[x]["unknown"] \in Nat /\ Owes(x, "deduct") \in Nat /\ Owes(x, "credit") \in Nat
        BY <3>1 DEF Entry, Owes
      <4> QED
        BY <1>7, <3>1, <3>2, <3>4, <4>2, <4>3
    <3>5. CASE ~Accepts(dir, r)
      <4>1. ~gate'.paid
        BY <1>2, <1>3, <1>7, <3>5 DEF NoGate
      <4>2. Booked(x)' = Booked(x)
        BY <1>3, <3>1, <3>3, <4>1 DEF Booked, Entry
      <4> QED
        BY <1>7, <3>1, <3>2, <3>5, <4>2
    <3> QED
      BY <3>4, <3>5
  <2>3. ScoreInv'
    BY <2>2 DEF ScoreInv
  <2> QED
    BY <1>5, <1>6, <2>1, <2>3 DEF AllInv, UInv, UserTypes
<1>8. CASE request_fails(r) /\ gate' = NoGate /\ Books(u, "unknown")
  <2>1. /\ ledger' \in [User -> [Entry -> Nat]]
        /\ \A x \in User, f \in Entry :
             /\ ledger'[x][f] = ledger[x][f] + (IF x = u /\ f = "unknown" THEN 1 ELSE 0)
             /\ ledger'[x][f] <= ops
    <3>1. \A x \in User, f \in Entry : ledger[x][f] + 1 <= ops /\ ledger[x][f] \in Nat
      BY <1>2 DEF AllInv, UInv, LedgerFits
    <3>2. LedgerFits /\ ops \in Nat /\ ops <= ops' /\ "unknown" \in Entry
          /\ \A x \in User, f \in Entry : ledger[x][f] <= ops
      BY <1>4, <3>1 DEF AllInv, UInv, Entry
    <3>3. ledger[u]["unknown"] + 1 <= ops
      BY <1>3, <3>1 DEF Entry
    <3> PICK n \in Nat : n = ops
      BY <3>2
    <3> QED
      BY <1>3, <1>8, <3>2, <3>3, BooksOne
  <2>2. LedgerFits'
    BY <1>4, <1>8, <2>1 DEF LedgerFits, NoGate
  <2>3. \A x \in User : (gate'.user = x /\ gate'.paid) <=> (gate.user = x /\ gate.paid)
    BY <1>3, <1>8 DEF NoGate
  <2>4. ScoreInv'
    BY <1>3, <1>8, <2>1, <2>3, DoubtKeeps
  <2> QED
    BY <1>5, <1>6, <2>2, <2>4 DEF AllInv, UInv, UserTypes
<1> QED
  BY <1>2, <1>7, <1>8

\* SendGated: what was paid for is booked, as served or as dropped.
LEMMA SendKeeps ==
  ASSUME AllInv, SendGated
  PROVE  AllInv'
<1>1. /\ gate.step = "send" /\ gate' = NoGate
      /\ UNCHANGED <<cache, bans, task, load, msg, appeal, astray, pardoned, ops>>
      /\ UNCHANGED <<dir, conn, late, swapped, faults, verify, said, unsure>>
      /\ gate.user \in User
  BY DEF SendGated, OtherBlocks, clientVars, roleVars, AllInv, UInv, GateInv
<1>2. ClientInv' /\ BlockTypes' /\ TaskInv' /\ VerifyInv' /\ RolesInv'
  BY <1>1 DEF AllInv, UInv, ClientInv, ClientTypeOK, DirectoryOf, Quiet, BlockTypes, TaskInv,
              VerifyInv, RolesInv
<1>3. UserTypes' /\ GateInv'
  BY <1>1 DEF AllInv, UInv, UserTypes, GateType, VerifyType, GateInv, NoGate
<1>4. \A x \in User, f \in Entry : ledger[x][f] + 1 <= ops /\ ledger[x][f] \in Nat
  BY <1>1 DEF AllInv, UInv, LedgerFits
<1>5. ops \in Nat
  BY DEF AllInv, UInv, BlockTypes
<1>6. CASE ~gate.paid /\ UNCHANGED ledger
  <2>1. LedgerFits'
    BY <1>1, <1>5, <1>6, StillFits DEF AllInv
  <2>2. \A x \in User : Booked(x)' = Booked(x)
    BY <1>1, <1>6 DEF Booked, NoGate
  <2>3. ScoreInv'
    BY <1>1, <1>6, <2>2 DEF AllInv, ScoreInv, Owes
  <2> QED
    BY <1>2, <1>3, <2>1, <2>3 DEF AllInv, UInv
<1>7. ASSUME gate.paid, NEW e \in {"served", "dropped"}, Books(gate.user, e)
      PROVE  AllInv'
  <2>1. /\ ledger' \in [User -> [Entry -> Nat]]
        /\ \A x \in User, f \in Entry :
             /\ ledger'[x][f] = ledger[x][f] + (IF x = gate.user /\ f = e THEN 1 ELSE 0)
             /\ ledger'[x][f] <= ops
    <3>1. e \in Entry /\ \A x \in User, f \in Entry : ledger[x][f] <= ops
      BY <1>4, <1>5 DEF Entry
    <3>2. PICK n, u : n = ops /\ u = gate.user
      OBVIOUS
    <3>3. ledger[u][e] + 1 <= n /\ n \in Nat /\ n <= ops' /\ u \in User
      BY <1>1, <1>4, <1>5, <3>1, <3>2
    <3>4. LedgerFits
      BY DEF AllInv, UInv
    <3> QED
      BY <1>5, <1>7, <3>1, <3>2, <3>3, <3>4, BooksOne
  <2>2. LedgerFits'
    BY <1>1, <2>1 DEF LedgerFits, NoGate
  <2>3. ASSUME NEW x \in User
        PROVE  Booked(x)' = Booked(x) /\ ledger'[x]["unknown"] = ledger[x]["unknown"]
    <3>1. \A f \in Entry : ledger[x][f] \in Nat /\ ledger'[x][f] =
                             ledger[x][f] + (IF x = gate.user /\ f = e THEN 1 ELSE 0)
      BY <1>4, <2>1
    <3>2. StartScore \in Nat
      BY ClientAssumption
    <3>3. CASE x = gate.user
      <4>1. CASE e = "served"
        BY <1>1, <1>7, <3>1, <3>2, <3>3, <4>1 DEF Booked, Entry, NoGate
      <4>2. CASE e = "dropped"
        BY <1>1, <1>7, <3>1, <3>2, <3>3, <4>2 DEF Booked, Entry, NoGate
      <4> QED
        BY <4>1, <4>2
    <3>4. CASE x # gate.user
      BY <1>1, <3>1, <3>2, <3>4 DEF Booked, Entry, NoGate
    <3> QED
      BY <3>3, <3>4
  <2>4. ScoreInv'
    BY <1>1, <2>3 DEF AllInv, ScoreInv, Owes
  <2> QED
    BY <1>2, <1>3, <2>2, <2>4 DEF AllInv, UInv
<1> QED
  BY <1>6, <1>7 DEF SendGated

\* AdjustScore: a score is credited, refused, or in doubt.
LEMMA AdjustKeeps ==
  ASSUME AllInv, NEW u \in User, AdjustScore(u)
  PROVE  AllInv'
<1>1. PICK r : r = [op |-> "credit", user |-> u]
  OBVIOUS
<1>2. /\ Begin /\ OtherBlocks /\ UNCHANGED <<gate, roleVars>> /\ Asks(r)
      /\ \/ request(r) /\ Accepts(dir, r) /\ Books(u, "credited")
         \/ request(r) /\ ~Accepts(dir, r) /\ UNCHANGED ledger
         \/ request_fails(r) /\ Books(u, "unknown")
  BY <1>1 DEF AdjustScore, Asks
<1>3. r \in Requests /\ r.user = u /\ r.op = "credit"
  BY <1>1 DEF Requests
<1>4. ops \in Nat /\ ops' = ops + 1 /\ ops' \in 0 .. MaxOps /\ ops' \in Nat
  BY <1>2, BlocksAssumption DEF AllInv, UInv, BlockTypes, Begin
<1>5. /\ ClientInv' /\ BlockTypes' /\ TaskInv' /\ VerifyType' /\ VerifyInv' /\ RolesInv'
      /\ {said', unsure'} \subseteq SUBSET User
  BY <1>2, <1>3, <1>4, ScoreRequest
<1>6. GateType' /\ GateInv'
  BY <1>2 DEF AllInv, UInv, UserTypes, GateType, GateInv
<1>7. CASE request(r) /\ ~Accepts(dir, r) /\ UNCHANGED ledger
  <2>1. LedgerFits'
    BY <1>2, <1>4, <1>7, StillFits DEF AllInv
  <2>2. \A x \in User : /\ dir'.score[x] = dir.score[x] /\ Booked(x)' = Booked(x)
                        /\ Owes(x, "deduct")' = Owes(x, "deduct")
                        /\ Owes(x, "credit")' = Owes(x, "credit")
    BY <1>2, <1>3, <1>7, ScoreAnswer DEF AllInv, UInv, Booked
  <2>3. ScoreInv'
    BY <1>7, <2>2 DEF AllInv, ScoreInv
  <2> QED
    BY <1>5, <1>6, <2>1, <2>3 DEF AllInv, UInv, UserTypes
<1>8. ASSUME NEW e \in {"credited", "unknown"}, Books(u, e)
      PROVE  /\ LedgerFits'
             /\ \A x \in User, f \in Entry :
                  ledger'[x][f] = ledger[x][f] + (IF x = u /\ f = e THEN 1 ELSE 0)
  <2> DEFINE busy == IF gate.step = "idle" THEN 0 ELSE 1
  <2>1. \A x \in User, f \in Entry : ledger[x][f] \in Nat /\ ledger[x][f] + busy <= ops
    BY DEF AllInv, UInv, LedgerFits
  <2>2. busy \in {0, 1} /\ LedgerFits /\ e \in Entry
    BY DEF AllInv, UInv, Entry
  <2>3. gate' = gate
    BY <1>2
  <2> HIDE DEF busy
  <2>4. /\ ledger' \in [User -> [Entry -> Nat]]
        /\ \A x \in User, f \in Entry :
             /\ ledger'[x][f] = ledger[x][f] + (IF x = u /\ f = e THEN 1 ELSE 0)
             /\ ledger'[x][f] <= ops + 1
    <3>1. \A x \in User, f \in Entry : ledger[x][f] <= ops + 1 /\ ledger[x][f] + 1 <= ops + 1
      BY <1>4, <2>1, <2>2
    <3> PICK n \in Nat : n = ops + 1
      BY <1>4
    <3>2. ledger[u][e] + 1 <= n /\ n <= ops'
      BY <1>4, <2>2, <3>1
    <3> QED
      BY <1>4, <1>8, <2>2, <3>1, <3>2, BooksOne
  <2>5. \A x \in User, f \in Entry : ledger'[x][f] + busy <= ops'
    BY <1>4, <2>1, <2>2, <2>4
  <2> QED
    BY <2>3, <2>4, <2>5 DEF LedgerFits, busy
<1>9. CASE request_fails(r) /\ Books(u, "unknown")
  <2>1. /\ LedgerFits'
        /\ \A x \in User, f \in Entry :
             ledger'[x][f] = ledger[x][f] + (IF x = u /\ f = "unknown" THEN 1 ELSE 0)
    BY <1>8, <1>9
  <2>2. ScoreInv'
    BY <1>2, <1>3, <1>9, <2>1, DoubtKeeps
  <2> QED
    BY <1>5, <1>6, <2>1, <2>2 DEF AllInv, UInv, UserTypes
<1>10. CASE request(r) /\ Accepts(dir, r) /\ Books(u, "credited")
  <2>1. /\ LedgerFits'
        /\ \A x \in User, f \in Entry :
             ledger'[x][f] = ledger[x][f] + (IF x = u /\ f = "credited" THEN 1 ELSE 0)
    BY <1>8, <1>10
  <2>2. ASSUME NEW x \in User
        PROVE  /\ dir'.score[x] - Owes(x, "deduct")' >= Booked(x)' - ledger'[x]["unknown"]
               /\ dir'.score[x] + Owes(x, "credit")' <= Booked(x)' + ledger'[x]["unknown"]
    <3>1. /\ dir.score[x] \in Int /\ Booked(x) \in Int /\ StartScore \in Nat
          /\ \A f \in Entry : ledger[x][f] \in Nat
          /\ dir.score[x] - Owes(x, "deduct") >= Booked(x) - ledger[x]["unknown"]
          /\ dir.score[x] + Owes(x, "credit") <= Booked(x) + ledger[x]["unknown"]
      BY Numbers
    <3>2. /\ dir'.score[x] = dir.score[x] + (IF x # u THEN 0 ELSE 1)
          /\ Owes(x, "deduct")' = Owes(x, "deduct") /\ Owes(x, "credit")' = Owes(x, "credit")
      BY <1>3, <1>10, ScoreAnswer DEF AllInv, UInv
    <3>3. Booked(x)' = Booked(x) + (IF x # u THEN 0 ELSE 1)
      BY <1>2, <2>1, <3>1 DEF Booked, Entry
    <3>4. ledger'[x]["unknown"] = ledger[x]["unknown"] /\ ledger[x]["unknown"] \in Nat
          /\ Owes(x, "deduct") \in Nat /\ Owes(x, "credit") \in Nat
      BY <2>1, <3>1 DEF Entry, Owes
    <3> QED
      BY <3>1, <3>2, <3>3, <3>4
  <2>3. ScoreInv'
    BY <2>2 DEF ScoreInv
  <2> QED
    BY <1>5, <1>6, <2>1, <2>3 DEF AllInv, UInv, UserTypes
<1> QED
  BY <1>2, <1>7, <1>9, <1>10

\* A request about roles leaves gate, ledger and score alone.
LEMMA RoleRequest ==
  ASSUME AllInv, NEW r \in Requests, Asks(r), r.op \in {"mod", "unmod", "add_user"},
         UNCHANGED <<cache, bans, task, load, msg, appeal, pardoned, gate, ledger>>,
         astray' \subseteq User, ops' \in 0 .. MaxOps, ops' >= ops
  PROVE  /\ ClientInv' /\ dir.known \subseteq dir'.known /\ BlockTypes' /\ TaskInv'
         /\ GateType' /\ GateInv' /\ LedgerFits' /\ ScoreInv'
<1>1. ClientInv' /\ dir.known \subseteq dir'.known
  BY AskKeeps DEF AllInv, UInv
<1>2. BlockTypes' /\ TaskInv'
  BY DEF AllInv, UInv, BlockTypes, TaskInv
<1>3. GateType' /\ GateInv'
  BY DEF AllInv, UInv, UserTypes, GateType, GateInv
<1>4. ops' \in Nat /\ ops' >= ops
  OBVIOUS
<1>5. LedgerFits'
  BY <1>4, StillFits DEF AllInv
<1>6. ScoreInv'
  <2>1. /\ dir'.score = dir.score
        /\ \A u \in User, op \in {"deduct", "credit"} : Owes(u, op)' = Owes(u, op)
    BY ScoresStay DEF AllInv, UInv
  <2>2. \A u \in User : Booked(u)' = Booked(u)
    BY DEF Booked
  <2> QED
    BY <2>1, <2>2 DEF AllInv, ScoreInv
<1> QED
  BY <1>1, <1>2, <1>3, <1>5, <1>6

\* The roles after SetRole was answered, or given up.
LEMMA RoleAnswer ==
  ASSUME ClientInv, NEW u \in User, u \in dir.known, NEW on \in BOOLEAN, NEW r, r = SetRole(u, on)
  PROVE  /\ r \in Requests /\ r.op \in {"mod", "unmod"} /\ r.user = u
         /\ request(r) =>
              /\ late' = late
              /\ dir'.mods = IF on THEN dir.mods \cup {u} ELSE dir.mods \ {u}
         /\ request_fails(r) => dir' = dir /\ late' \in {late, late \cup {r}}
<1>1. r \in Requests /\ r.user = u /\ r.op = IF on THEN "mod" ELSE "unmod"
  BY DEF SetRole, Requests
<1>2. Accepts(dir, r)
  BY <1>1 DEF Accepts
<1>3. Turns(dir, r, Carried(dir, r))
  BY <1>1, <1>2, CarriedFields DEF ClientInv, DirectoryOf
<1>4. r.op \in {"mod", "unmod"}
  BY <1>1
<1>5. request(r) => dir'.mods = IF on THEN dir.mods \cup {u} ELSE dir.mods \ {u}
  BY <1>1, <1>3 DEF request, Turns
<1> QED
  BY <1>1, <1>4, <1>5 DEF request, request_fails

\* userdb_set_roles: the operator speaks.
LEMMA SetRolesKeeps ==
  ASSUME AllInv, NEW u \in User, NEW on \in BOOLEAN, userdb_set_roles(u, on)
  PROVE  AllInv'
<1>1. PICK r : r = SetRole(u, on)
  OBVIOUS
<1>2. /\ u \in dir.known /\ Begin /\ OtherBlocks /\ UNCHANGED <<gate, ledger, verify>> /\ Asks(r)
      /\ \/ /\ request(r) /\ Say(u, on)
            /\ unsure' = IF verify.user = u /\ verify.claim = "none" THEN unsure \cup {u} ELSE unsure
         \/ request_fails(r) /\ unsure' = unsure \cup {u} /\ UNCHANGED said
  BY <1>1 DEF userdb_set_roles, Asks
<1>3. /\ r \in Requests /\ r.op \in {"mod", "unmod"} /\ r.user = u
      /\ request(r) => /\ late' = late
                       /\ dir'.mods = IF on THEN dir.mods \cup {u} ELSE dir.mods \ {u}
      /\ request_fails(r) => dir' = dir /\ late' \in {late, late \cup {r}}
  BY <1>1, <1>2, RoleAnswer DEF AllInv, UInv
<1>4. ops' \in 0 .. MaxOps /\ ops' >= ops
  BY <1>2, BlocksAssumption DEF AllInv, UInv, BlockTypes, Begin
<1>5. /\ ClientInv' /\ dir.known \subseteq dir'.known /\ BlockTypes' /\ TaskInv'
      /\ GateType' /\ GateInv' /\ LedgerFits' /\ ScoreInv'
  BY <1>2, <1>3, <1>4, RoleRequest DEF OtherBlocks, AllInv, UInv, BlockTypes
<1>6. VerifyType' /\ VerifyInv'
  BY <1>2, <1>5 DEF AllInv, UInv, UserTypes, VerifyType, VerifyInv
<1>7. /\ said' \subseteq User /\ unsure' \subseteq User /\ unsure \subseteq unsure'
      /\ verify' = verify
  BY <1>2 DEF AllInv, UInv, UserTypes, Say
<1>8. RolesInv'
  <2>1. CASE request(r) /\ Say(u, on) /\ unsure' = IF verify.user = u /\ verify.claim = "none" THEN unsure \cup {u} ELSE unsure
    <3>1. \A x \in User \ unsure' : x \in dir'.mods <=> x \in said'
      BY <1>3, <1>7, <2>1 DEF AllInv, RolesInv, Say
    <3>2. \A x \in late' : x.op \in {"mod", "unmod"} => x.user \in unsure'
      BY <1>3, <1>7, <2>1 DEF AllInv, RolesInv
    <3>3. verify.step = "set" /\ verify.claim = "none" /\ verify.user \notin unsure' =>
            (verify.stored <=> verify.user \in said')
      <4>1. verify.claim = "none" /\ verify.user \notin unsure' => verify.user # u
        BY <2>1
      <4>2. verify.user # u => (verify.user \in said' <=> verify.user \in said)
        BY <2>1 DEF Say
      <4> QED
        BY <1>7, <4>1, <4>2 DEF AllInv, RolesInv
    <3> QED
      BY <1>7, <3>1, <3>2, <3>3 DEF RolesInv
  <2>2. CASE request_fails(r) /\ unsure' = unsure \cup {u} /\ UNCHANGED said
    <3>1. \A x \in late' : x.op \in {"mod", "unmod"} => x.user \in unsure'
      BY <1>3, <2>2 DEF AllInv, RolesInv
    <3> QED
      BY <1>3, <1>7, <2>2, <3>1 DEF AllInv, RolesInv
  <2> QED
    BY <1>2, <2>1, <2>2
<1> QED
  BY <1>5, <1>6, <1>7, <1>8 DEF AllInv, UInv, UserTypes

\* VerifyFind: the account, with the roles that are stored.
LEMMA FindKeeps ==
  ASSUME AllInv, NEW h \in Handle, NEW claim \in Claim, NEW u \in AccountOf(h),
         VerifyFind(h, u, claim)
  PROVE  AllInv'
<1>1. PICK r : r = [op |-> "add_user", channel |-> h, user |-> u]
  OBVIOUS
<1>2. /\ verify.step = "idle" /\ Begin /\ Asks(r)
      /\ UNCHANGED <<cache, bans, task, load, msg, appeal, pardoned, gate, ledger, said, unsure>>
      /\ astray' \subseteq astray \cup {u}
      /\ \/ /\ request(r)
            /\ verify' = [step |-> "set", user |-> u, stored |-> u \in dir.mods, claim |-> claim]
         \/ UNCHANGED verify
  BY <1>1 DEF VerifyFind, Asks, Inherits
<1>3. u \in User /\ (u \in dir.known \/ (dir.owner[h] = Nobody /\ u \notin dir.known))
  BY DEF AccountOf, AllInv, UInv, ClientInv, DirectoryOf, Directory
<1>4. r \in Requests /\ r.op = "add_user"
  BY <1>1, <1>3 DEF Requests
<1>5. ops' \in 0 .. MaxOps /\ ops' >= ops /\ astray' \subseteq User
  BY <1>2, <1>3, BlocksAssumption DEF AllInv, UInv, BlockTypes, Begin
<1>6. /\ ClientInv' /\ dir.known \subseteq dir'.known /\ BlockTypes' /\ TaskInv'
      /\ GateType' /\ GateInv' /\ LedgerFits' /\ ScoreInv'
  BY <1>2, <1>4, <1>5, RoleRequest
<1>7. dir'.mods = dir.mods /\ \A x \in late' : x.op \in {"mod", "unmod"} => x \in late
  BY <1>2, <1>4, RolesStay DEF AllInv, UInv
<1>8. VerifyType' /\ VerifyInv' /\ RolesInv'
  <2>1. CASE UNCHANGED verify
    BY <1>2, <1>6, <1>7, <2>1
       DEF AllInv, UInv, UserTypes, VerifyType, VerifyInv, RolesInv
  <2>2. CASE request(r) /\ verify' = [step |-> "set", user |-> u, stored |-> u \in dir.mods,
                                      claim |-> claim]
    <3> PICK b : b = (u \in dir.mods)
      OBVIOUS
    <3>0. b \in BOOLEAN
      <4>1. CASE u \in dir.mods
        BY <4>1
      <4>2. CASE u \notin dir.mods
        BY <4>2
      <4> QED
        BY <4>1, <4>2
    <3>1. verify' = [step |-> "set", user |-> u, stored |-> b, claim |-> claim]
      BY <2>2
    <3>2. VerifyType'
      BY <1>3, <3>0, <3>1 DEF VerifyType
    <3>3. u \in dir'.known
      <4>1. CASE u \in dir.known
        BY <1>6, <4>1
      <4>2. CASE dir.owner[h] = Nobody /\ u \notin dir.known
        <5>1. Accepts(dir, r)
          BY <1>4 DEF Accepts
        <5>2. Turns(dir, r, dir')
          BY <1>4, <2>2, <5>1, CarriedFields DEF AllInv, UInv, ClientInv, DirectoryOf, request
        <5> QED
          BY <1>1, <1>4, <4>2, <5>2 DEF Turns
      <4> QED
        BY <1>3, <4>1, <4>2
    <3>4. RolesInv'
      <4>1. u \notin unsure => (b <=> u \in said)
        BY <1>3 DEF AllInv, RolesInv
      <4> QED
        BY <1>2, <1>7, <3>1, <4>1 DEF AllInv, RolesInv
    <3> QED
      BY <3>1, <3>2, <3>3, <3>4 DEF VerifyInv
  <2> QED
    BY <1>2, <2>1, <2>2
<1> QED
  BY <1>2, <1>6, <1>8 DEF AllInv, UInv, UserTypes

\* VerifySet: the claim, or what was stored.
LEMMA VerifySetKeeps ==
  ASSUME AllInv, VerifySet
  PROVE  AllInv'
<1>1. PICK u, on, r : /\ u = verify.user /\ on = roles_to_set(verify.stored, verify.claim)
                      /\ r = SetRole(u, on)
  OBVIOUS
<1>2. /\ verify.step = "set" /\ verify' = NoVerify /\ OtherBlocks /\ UNCHANGED <<ops, gate, ledger>>
      /\ Asks(r)
      /\ \/ /\ request(r) /\ UNCHANGED unsure
            /\ IF verify.claim = "none" THEN UNCHANGED said ELSE Say(u, verify.claim = "yes")
         \/ request_fails(r) /\ unsure' = unsure \cup {u} /\ UNCHANGED said
  BY <1>1 DEF VerifySet, Asks
<1>3. u \in dir.known /\ u \in User /\ on \in BOOLEAN
  <2>1. u \in dir.known /\ dir.known \subseteq User
    BY <1>1, <1>2 DEF AllInv, UInv, VerifyInv, ClientInv, DirectoryOf, Directory
  <2>2. verify.stored \in BOOLEAN
    BY DEF AllInv, UInv, UserTypes, VerifyType
  <2>3. on \in BOOLEAN
    BY <1>1, <2>2, Zenon DEF roles_to_set
  <2> QED
    BY <2>1, <2>3
<1>4. /\ r \in Requests /\ r.op \in {"mod", "unmod"} /\ r.user = u
      /\ request(r) => /\ late' = late
                       /\ dir'.mods = IF on THEN dir.mods \cup {u} ELSE dir.mods \ {u}
      /\ request_fails(r) => dir' = dir /\ late' \in {late, late \cup {r}}
  BY <1>1, <1>3, RoleAnswer DEF AllInv, UInv
<1>5. ops' \in 0 .. MaxOps /\ ops' >= ops
  BY <1>2 DEF AllInv, UInv, BlockTypes
<1>6. /\ ClientInv' /\ dir.known \subseteq dir'.known /\ BlockTypes' /\ TaskInv'
      /\ GateType' /\ GateInv' /\ LedgerFits' /\ ScoreInv'
  BY <1>2, <1>4, <1>5, RoleRequest DEF OtherBlocks, AllInv, UInv, BlockTypes
<1>7. VerifyType' /\ VerifyInv'
  BY <1>2 DEF VerifyType, VerifyInv, NoVerify, Claim
<1>8. said' \subseteq User /\ unsure' \subseteq User /\ unsure \subseteq unsure'
  BY <1>2, <1>3 DEF AllInv, UInv, UserTypes, Say
<1>9. RolesInv'
  <2>1. verify'.step = "idle"
    BY <1>2 DEF NoVerify
  <2>2. CASE request_fails(r) /\ unsure' = unsure \cup {u} /\ UNCHANGED said
    BY <1>4, <2>1, <2>2 DEF AllInv, RolesInv
  <2>3. CASE /\ request(r) /\ UNCHANGED unsure
             /\ IF verify.claim = "none" THEN UNCHANGED said ELSE Say(u, verify.claim = "yes")
    <3>1. \A x \in late' : x.op \in {"mod", "unmod"} => x.user \in unsure'
      BY <1>4, <2>3 DEF AllInv, RolesInv
    <3>2. \A x \in User \ unsure' : x \in dir'.mods <=> x \in said'
      <4>1. CASE verify.claim = "none"
        <5>1. on = verify.stored
          BY <1>1, <4>1 DEF roles_to_set
        <5>2. u \notin unsure => (on <=> u \in said)
          BY <1>1, <1>2, <4>1, <5>1 DEF AllInv, RolesInv
        <5> QED
          BY <1>4, <2>3, <4>1, <5>2 DEF AllInv, RolesInv
      <4>2. CASE verify.claim # "none"
        <5>1. on <=> verify.claim = "yes"
          BY <1>1, <4>2 DEF roles_to_set
        <5> QED
          BY <1>4, <2>3, <4>2, <5>1 DEF AllInv, RolesInv, Say
      <4> QED
        BY <4>1, <4>2
    <3> QED
      BY <2>1, <3>1, <3>2 DEF RolesInv
  <2> QED
    BY <1>2, <2>2, <2>3
<1> QED
  BY <1>6, <1>7, <1>8, <1>9 DEF AllInv, UInv, UserTypes

--------------------------------------------------------------------------------
(***************************************************************************)
(* Every step, and what follows.                                           *)
(***************************************************************************)
\* No step breaks the invariant.
LEMMA UserStepKeeps == AllInv /\ [Next]_vars => AllInv'
<1> SUFFICES ASSUME AllInv, [Next]_vars PROVE AllInv'
  OBVIOUS
<1>1. ASSUME BlockStep PROVE AllInv'
  BY <1>1, BlockStepKeeps
<1>2. ASSUME ServiceStep PROVE AllInv'
  BY <1>2, ServiceKeeps
<1>3. ASSUME Gates PROVE AllInv'
  BY <1>3, StartGateKeeps, FetchKeeps, PayKeeps, SendKeeps DEF Gates
<1>4. ASSUME Scores PROVE AllInv'
  BY <1>4, AdjustKeeps DEF Scores
<1>5. ASSUME Roles PROVE AllInv'
  BY <1>5, SetRolesKeeps, FindKeeps, VerifySetKeeps DEF Roles
<1>6. ASSUME UNCHANGED vars PROVE AllInv'
  <2>1. /\ UNCHANGED clientVars
        /\ UNCHANGED <<cache, bans, task, load, msg, appeal, astray, pardoned, ops>>
        /\ UNCHANGED <<gate, ledger, verify, said, unsure>>
    BY <1>6 DEF vars, blockVars, roleVars
  <2>2. UInv'
    BY <2>1 DEF AllInv, UInv, ClientInv, ClientTypeOK, DirectoryOf, Quiet, BlockTypes, TaskInv,
                UserTypes, GateType, VerifyType, GateInv, LedgerFits, VerifyInv, clientVars
  <2>3. ScoreInv' /\ RolesInv'
    BY <2>1 DEF AllInv, ScoreInv, RolesInv, Owes, Booked, clientVars
  <2> QED
    BY <2>2, <2>3 DEF AllInv
<1> QED
  BY <1>1, <1>2, <1>3, <1>4, <1>5, <1>6 DEF Next

\* At first nothing is owed and nothing is booked.
LEMMA UserInitKeeps == Init => AllInv
<1> SUFFICES ASSUME Init PROVE AllInv
  OBVIOUS
<1> USE ClientAssumption, BlocksAssumption DEF Init, BlocksInit, ClientInit
<1>1. PICK first \in User, blocked \in SUBSET User :
        /\ blocked \subseteq {first}
        /\ dir = [owner |-> [h \in Handle |-> first], known |-> {first}, blocked |-> blocked,
                  mods |-> {first}, score |-> [u \in User |-> StartScore]]
  OBVIOUS
<1>2. ClientInv
  <2>1. dir \in Directory
    BY <1>1 DEF Directory
  <2>2. DirectoryOf(dir)
    BY <1>1, <2>1 DEF DirectoryOf
  <2>3. conn \in [open : BOOLEAN, owed : Nat] /\ conn.owed = 0 /\ swapped \in BOOLEAN /\ ~swapped
    OBVIOUS
  <2>4. late \subseteq Requests /\ faults \in 0 .. MaxFaults
    OBVIOUS
  <2> QED
    BY <2>1, <2>2, <2>3, <2>4 DEF ClientInv, ClientTypeOK, Quiet
<1>3. BlockTypes /\ TaskInv
  BY DEF BlockTypes, TaskInv, Task, NoTask, Message, Appeal, Key
<1>4. UserTypes /\ GateInv /\ VerifyInv
  BY <1>1 DEF UserTypes, GateType, VerifyType, GateInv, VerifyInv, NoGate, NoVerify, Claim
<1>5. LedgerFits
  BY DEF LedgerFits, Entry, Account0, NoGate
<1>6. ScoreInv
  <2>1. \A u \in User : dir.score[u] = StartScore /\ Owes(u, "deduct") = 0 /\ Owes(u, "credit") = 0
    BY <1>1 DEF Owes
  <2>2. \A u \in User : Booked(u) = StartScore /\ ledger[u]["unknown"] = 0
    BY DEF Booked, Account0, NoGate
  <2> QED
    BY <2>1, <2>2 DEF ScoreInv
<1>7. RolesInv
  BY DEF RolesInv, NoVerify
<1> QED
  BY <1>2, <1>3, <1>4, <1>5, <1>6, <1>7 DEF AllInv, UInv

\* What the theorems rest on.
THEOREM UsersInductive == Spec => []AllInv
<1> QED
  BY UserInitKeeps, UserStepKeeps, PTL DEF Spec

\* The directory, the cache, the queries, the gate and the ledger keep their types;
\* no entry of the ledger outgrows the operations begun.
THEOREM UsersTypeCorrect == Spec => []TypeOK
<1>1. AllInv => TypeOK
  <2> SUFFICES ASSUME AllInv PROVE TypeOK
    OBVIOUS
  <2>1. BlocksTypeOK
    BY DEF AllInv, UInv, ClientInv, BlockTypes, BlocksTypeOK
  <2>2. GateType /\ VerifyType /\ {said, unsure} \subseteq SUBSET User
    BY DEF AllInv, UInv, UserTypes
  <2>3. ledger \in [User -> [Entry -> 0 .. MaxOps]]
    <3>1. /\ ledger \in [User -> [Entry -> Nat]] /\ ops \in 0 .. MaxOps
          /\ \A u \in User, e \in Entry :
               ledger[u][e] + (IF gate.step = "idle" THEN 0 ELSE 1) <= ops
      BY DEF AllInv, UInv, LedgerFits, BlockTypes
    <3>2. \A u \in User : ledger[u] \in [Entry -> 0 .. MaxOps]
      <4> SUFFICES ASSUME NEW u \in User PROVE ledger[u] \in [Entry -> 0 .. MaxOps]
        OBVIOUS
      <4>1. ledger[u] \in [Entry -> Nat]
        BY <3>1
      <4>2. \A e \in Entry : ledger[u][e] \in 0 .. MaxOps
        BY <3>1, <4>1, BlocksAssumption
      <4> QED
        BY <4>1, <4>2
    <3> QED
      BY <3>1, <3>2
  <2> QED
    BY <2>1, <2>2, <2>3 DEF TypeOK, GateType, VerifyType, Entry
<1> QED
  BY <1>1, UsersInductive, PTL

\* request and its dropped connection: no task reads another's answer.
THEOREM NoSwap == Spec => []NoAnswerIsSwapped
<1>1. AllInv => NoAnswerIsSwapped
  BY DEF AllInv, UInv, ClientInv, Quiet, NoAnswerIsSwapped
<1> QED
  BY <1>1, UsersInductive, PTL

\* permit_module and userdb_adjust_score: a score is what was credited and paid for,
\* within one point for each request that got no answer, whenever that one is
\* carried out.
THEOREM ScoreAccounted == Spec => []ScoreIsAccounted
<1>1. AllInv => ScoreIsAccounted
  <2> SUFFICES ASSUME AllInv, NEW u \in User
               PROVE  dir.score[u] \in Booked(u) - ledger[u]["unknown"]
                                         .. Booked(u) + ledger[u]["unknown"]
    BY DEF ScoreIsAccounted, Booked
  <2>1. /\ dir.score[u] \in Int /\ Booked(u) \in Int
        /\ \A e \in Entry : ledger[u][e] \in Nat
        /\ dir.score[u] - Owes(u, "deduct") >= Booked(u) - ledger[u]["unknown"]
        /\ dir.score[u] + Owes(u, "credit") <= Booked(u) + ledger[u]["unknown"]
    BY Numbers
  <2>2. Owes(u, "deduct") \in Nat /\ Owes(u, "credit") \in Nat /\ ledger[u]["unknown"] \in Nat
    BY <2>1 DEF Owes, Entry
  <2> QED
    BY <2>1, <2>2
<1> QED
  BY <1>1, UsersInductive, PTL

\* userdb_set_roles and chat_verify_identity: a role is what was last said of it.
THEOREM RolesSaid == Spec => []RolesAreAsSaid
<1>1. AllInv => RolesAreAsSaid
  BY DEF AllInv, UInv, RolesInv, RolesAreAsSaid, ClientInv, DirectoryOf, Directory
<1> QED
  BY <1>1, UsersInductive, PTL

--------------------------------------------------------------------------------
(***************************************************************************)
(* The cache of blocked identities agrees with the flags of the user       *)
(* database, and blocked users are dropped.                                *)
(*                                                                         *)
(* The invariant is stated of values, so that one lemma speaks of a state  *)
(* and of its successor: d is the directory, c the cache, t the queries,   *)
(* l the load, lt the requests that were given up, ast the users astray.   *)
(***************************************************************************)
Marks(t, a) == t[a].step = "mark"

\* What the cache should hold of the keys of u.
Shows(d, u, keys) ==
  IF u \in d.blocked THEN Keys(d, u) \subseteq keys ELSE Keys(d, u) \cap keys = {}

AgreesIn(d, c, t, l, ast) ==
  \A u \in d.known \ ast :
    \/ \E a \in Admin : Marks(t, a) /\ t[a].user = u
    \/ l.step # "done"
    \/ Shows(d, u, c)

\* An update of the cache that is about to happen is right for its user, the only
\* one under way for that user, and touches no key of another.
MarkFits(d, t, ast, a) ==
  /\ t[a].user \in d.known
  /\ t[a].user \notin ast =>
       /\ t[a].op = "block" <=> t[a].user \in d.blocked
       /\ Keys(d, t[a].user) \subseteq t[a].keys
       /\ \A b \in Admin \ {a} : ~(Marks(t, b) /\ t[b].user = t[a].user)
  /\ \A u \in d.known \ ast : u # t[a].user => Keys(d, u) \cap t[a].keys = {}
  /\ t[a].keys \cap User \subseteq d.known

MarksIn(d, t, ast) == \A a \in Admin : Marks(t, a) => MarkFits(d, t, ast, a)

\* A load shows the flags of the accounts it has read, and no key of the others.
LoadIn(d, l, ast) ==
  /\ l.step # "pages" => l.keys = {}
  /\ l.step = "pages" =>
       \A u \in d.known \ ast :
         IF u \in l.left THEN Keys(d, u) \cap l.keys = {} ELSE Shows(d, u, l.keys)

\* No identity of an account that is yet to be created is held anywhere.
IdsIn(d, c, l) == (c \cup l.keys) \cap User \subseteq d.known

\* A request that was given up is about somebody astray, or changes nothing here.
LateFits(d, ast, r) ==
  /\ r.op \in {"block", "unblock"} => r.user \in ast
  /\ r.op = "add_user" => r.user \in d.known \cup ast

LateIn(d, lt, ast) == \A r \in lt : LateFits(d, ast, r)

HeldIn(d, c, t, l, ast) ==
  AgreesIn(d, c, t, l, ast) /\ MarksIn(d, t, ast) /\ LoadIn(d, l, ast) /\ IdsIn(d, c, l)

CacheInv == HeldIn(dir, cache, task, load, astray) /\ LateIn(dir, late, astray)

--------------------------------------------------------------------------------
(***************************************************************************)
(* Steps that leave cache, load and the pending updates alone.             *)
(***************************************************************************)
\* No key is gained and no flag changed but by users astray; a new account has no key
\* that is held anywhere.
SteadyDir(d, e, c, t, l, ast) ==
  /\ d.known \subseteq e.known
  /\ \A u \in e.known \ ast :
       IF u \in d.known
         THEN Keys(e, u) \subseteq Keys(d, u) /\ (u \in e.blocked <=> u \in d.blocked)
         ELSE /\ Keys(e, u) \cap (c \cup l.keys) = {} /\ u \notin e.blocked
              /\ \A a \in Admin : Marks(t, a) => Keys(e, u) \cap t[a].keys = {}

\* The same updates are pending.
SameMarks(t, s) ==
  \A a \in Admin : (Marks(t, a) <=> Marks(s, a)) /\ (Marks(t, a) => s[a] = t[a])

\* What fits still fits after such a step.
LEMMA SteadyKeeps ==
  ASSUME NEW d, NEW e, NEW c, NEW t, NEW s, NEW l, NEW ast, NEW bst, ast \subseteq bst,
         HeldIn(d, c, t, l, ast), SteadyDir(d, e, c, t, l, bst), SameMarks(t, s)
  PROVE  HeldIn(e, c, s, l, bst)
<1>0. d.known \subseteq e.known
  BY DEF SteadyDir
<1>1. ASSUME NEW u \in e.known \ bst, NEW keys, u \in d.known, Shows(d, u, keys)
      PROVE  Shows(e, u, keys)
  BY <1>1 DEF Shows, SteadyDir
<1>2. AgreesIn(e, c, s, l, bst)
  <2> SUFFICES ASSUME NEW u \in e.known \ bst,
                      ~ \E a \in Admin : Marks(s, a) /\ s[a].user = u, l.step = "done"
               PROVE  Shows(e, u, c)
    BY DEF AgreesIn
  <2>1. CASE u \in d.known
    <3>1. ~ \E a \in Admin : Marks(t, a) /\ t[a].user = u
      BY DEF SameMarks
    <3>2. Shows(d, u, c)
      BY <2>1, <3>1 DEF HeldIn, AgreesIn
    <3> QED
      BY <1>1, <2>1, <3>2
  <2>2. CASE u \notin d.known
    BY <2>2 DEF SteadyDir, Shows
  <2> QED
    BY <2>1, <2>2
<1>3. MarksIn(e, s, bst)
  <2> SUFFICES ASSUME NEW a \in Admin, Marks(s, a) PROVE MarkFits(e, s, bst, a)
    BY DEF MarksIn
  <2>1. Marks(t, a) /\ s[a] = t[a]
    BY DEF SameMarks
  <2>2. MarkFits(d, t, ast, a)
    BY <2>1 DEF HeldIn, MarksIn
  <2>3. s[a].user \in e.known /\ s[a].keys \cap User \subseteq e.known
    BY <1>0, <2>1, <2>2 DEF MarkFits
  <2>4. ASSUME s[a].user \notin bst
        PROVE  /\ s[a].op = "block" <=> s[a].user \in e.blocked
               /\ Keys(e, s[a].user) \subseteq s[a].keys
               /\ \A b \in Admin \ {a} : ~(Marks(s, b) /\ s[b].user = s[a].user)
    <3>1. /\ t[a].op = "block" <=> t[a].user \in d.blocked
          /\ Keys(d, t[a].user) \subseteq t[a].keys
          /\ \A b \in Admin \ {a} : ~(Marks(t, b) /\ t[b].user = t[a].user)
          /\ t[a].user \in d.known
      BY <2>1, <2>2, <2>4 DEF MarkFits
    <3>2. /\ Keys(e, t[a].user) \subseteq Keys(d, t[a].user)
          /\ t[a].user \in e.blocked <=> t[a].user \in d.blocked
      BY <1>0, <2>1, <2>4, <3>1 DEF SteadyDir
    <3>3. \A b \in Admin \ {a} : ~(Marks(s, b) /\ s[b].user = s[a].user)
      BY <2>1, <3>1 DEF SameMarks
    <3> QED
      BY <2>1, <3>1, <3>2, <3>3
  <2>5. ASSUME NEW u \in e.known \ bst, u # s[a].user
        PROVE  Keys(e, u) \cap s[a].keys = {}
    <3>1. CASE u \in d.known
      <4>1. Keys(d, u) \cap t[a].keys = {}
        BY <2>1, <2>2, <2>5, <3>1 DEF MarkFits
      <4>2. Keys(e, u) \subseteq Keys(d, u)
        BY <3>1 DEF SteadyDir
      <4> QED
        BY <2>1, <4>1, <4>2
    <3>2. CASE u \notin d.known
      BY <2>1, <3>2 DEF SteadyDir
    <3> QED
      BY <3>1, <3>2
  <2> QED
    BY <2>3, <2>4, <2>5 DEF MarkFits
<1>4. LoadIn(e, l, bst)
  <2>1. l.step # "pages" => l.keys = {}
    BY DEF HeldIn, LoadIn
  <2>2. ASSUME l.step = "pages", NEW u \in e.known \ bst
        PROVE  IF u \in l.left THEN Keys(e, u) \cap l.keys = {} ELSE Shows(e, u, l.keys)
    <3>1. CASE u \in d.known
      <4>1. IF u \in l.left THEN Keys(d, u) \cap l.keys = {} ELSE Shows(d, u, l.keys)
        BY <2>2, <3>1 DEF HeldIn, LoadIn
      <4>2. Keys(e, u) \subseteq Keys(d, u)
        BY <3>1 DEF SteadyDir
      <4> QED
        BY <1>1, <3>1, <4>1, <4>2
    <3>2. CASE u \notin d.known
      BY <3>2 DEF SteadyDir, Shows
    <3> QED
      BY <3>1, <3>2
  <2> QED
    BY <2>1, <2>2 DEF LoadIn
<1>5. IdsIn(e, c, l)
  BY <1>0 DEF HeldIn, IdsIn
<1> QED
  BY <1>2, <1>3, <1>4, <1>5 DEF HeldIn

\* An account has no key of another.
LEMMA KeysApart ==
  ASSUME NEW d, NEW u \in User, NEW v \in User, u # v
  PROVE  Keys(d, u) \cap Keys(d, v) = {}
BY ClientAssumption DEF Keys, Channels

\* A request that blocks, unblocks or creates spares who is not astray.
Spares(d, r, c, t, l, ast) ==
  /\ r.op = "block" => r.user \in ast
  /\ r.op = "unblock" => r.user \in ast \/ r.user \notin d.blocked
  /\ r.op = "add_user" =>
       \/ r.user \in d.known \cup ast
       \/ d.owner[r.channel] # Nobody
       \/ /\ r.channel \notin c \cup l.keys
          /\ \A a \in Admin : Marks(t, a) => r.channel \notin t[a].keys

\* Then carrying it out is steady.
LEMMA SparedIsSteady ==
  ASSUME NEW d, NEW c, NEW t, NEW l, NEW ast, NEW bst, NEW r \in Requests, ast \subseteq bst,
         DirectoryOf(d), Spares(d, r, c, t, l, bst), HeldIn(d, c, t, l, ast)
  PROVE  SteadyDir(d, Carried(d, r), c, t, l, bst)
<1>1. CASE ~Accepts(d, r)
  BY <1>1, Refused DEF SteadyDir
<1>2. CASE Accepts(d, r)
  <2> PICK e : e = Carried(d, r)
    OBVIOUS
  <2>1. d \in Directory /\ r.user \in User
    BY DEF DirectoryOf, Requests
  <2>2. Turns(d, r, e)
    BY <1>2, <2>1, CarriedFields
  <2>3. CASE r.op \notin {"remove_channel", "add_user"}
    <3>1. e.owner = d.owner /\ e.known = d.known
      BY <2>2, <2>3 DEF Turns
    <3>2. \A u \in e.known \ bst : u \in e.blocked <=> u \in d.blocked
      BY <2>2, <2>3 DEF Turns, Spares
    <3>3. \A u \in e.known : Keys(e, u) = Keys(d, u)
      BY <3>1 DEF Keys, Channels
    <3> QED
      BY <3>1, <3>2, <3>3 DEF SteadyDir
  <2>4. CASE r.op = "remove_channel"
    <3>1. /\ e.known = d.known /\ e.blocked = d.blocked
          /\ e.owner = [d.owner EXCEPT ![r.channel] = IF @ = r.user THEN Nobody ELSE @]
      BY <2>2, <2>4 DEF Turns
    <3>2. \A u \in e.known : Keys(e, u) \subseteq Keys(d, u)
      BY <2>1, <3>1, ClientAssumption DEF Keys, Channels, Directory
    <3> QED
      BY <3>1, <3>2 DEF SteadyDir
  <2>5. CASE r.op = "add_user"
    <3>1. CASE d.owner[r.channel] = Nobody /\ r.user \notin d.known
      <4>1. /\ e.known = d.known \cup {r.user} /\ e.blocked = d.blocked
            /\ e.owner = [d.owner EXCEPT ![r.channel] = r.user]
        BY <2>2, <2>5, <3>1 DEF Turns
      <4>2. \A u \in d.known : Keys(e, u) \subseteq Keys(d, u)
        BY <2>1, <3>1, <4>1 DEF Keys, Channels, Directory
      <4>3. r.user \notin bst => Keys(e, r.user) \subseteq {r.user, r.channel}
        <5>1. \A h \in Handle : d.owner[h] # r.user
          BY <2>1, <3>1, ClientAssumption DEF DirectoryOf
        <5>2. \A h \in Handle \ {r.channel} : e.owner[h] # r.user
          BY <2>1, <4>1, <5>1 DEF Directory
        <5> QED
          BY <5>2 DEF Keys, Channels
      <4>4. ASSUME r.user \notin bst
            PROVE  /\ Keys(e, r.user) \cap (c \cup l.keys) = {}
                   /\ \A a \in Admin : Marks(t, a) => Keys(e, r.user) \cap t[a].keys = {}
        <5>1. /\ r.channel \notin c \cup l.keys
              /\ \A a \in Admin : Marks(t, a) => r.channel \notin t[a].keys
          BY <2>5, <3>1, <4>4 DEF Spares
        <5>2. r.user \notin c \cup l.keys
          BY <2>1, <3>1 DEF HeldIn, IdsIn
        <5>3. \A a \in Admin : Marks(t, a) => r.user \notin t[a].keys
          BY <2>1, <3>1 DEF HeldIn, MarksIn, MarkFits
        <5> QED
          BY <4>3, <4>4, <5>1, <5>2, <5>3
      <4>5. r.user \notin e.blocked
        BY <3>1, <4>1 DEF DirectoryOf
      <4> QED
        BY <4>1, <4>2, <4>4, <4>5 DEF SteadyDir
    <3>2. CASE ~(d.owner[r.channel] = Nobody /\ r.user \notin d.known)
      <4>1. e = d
        BY <2>2, <2>5, <3>2 DEF Turns
      <4> QED
        BY <4>1 DEF SteadyDir
    <3> QED
      BY <3>1, <3>2
  <2> QED
    BY <2>3, <2>4, <2>5
<1> QED
  BY <1>1, <1>2

--------------------------------------------------------------------------------
(***************************************************************************)
(* The steps.                                                              *)
(***************************************************************************)
\* The invariant of the next state, in terms of its values.
LEMMA NextHolds ==
  ASSUME HeldIn(dir', cache', task', load', astray'), LateIn(dir', late', astray')
  PROVE  CacheInv'
BY DEF CacheInv, HeldIn, LateIn, AgreesIn, MarksIn, LoadIn, IdsIn, LateFits, MarkFits, Marks,
       Shows, Keys, Channels

\* More users astray, fewer requests given up, a grown directory.
LEMMA LateStays ==
  ASSUME NEW d, NEW e, NEW lt, NEW mt, NEW ast, NEW bst, d.known \subseteq e.known,
         ast \subseteq bst, LateIn(d, lt, ast), \A r \in mt \ lt : LateFits(d, bst, r)
  PROVE  LateIn(e, mt, bst)
BY DEF LateIn, LateFits

\* What a step leaves alone that touches neither the cache nor a pending update.
Apart == UNCHANGED <<cache, load>> /\ SameMarks(task, task')

\* A step that asks nothing.
LEMMA SilentKeeps ==
  ASSUME CacheInv, Apart, UNCHANGED <<dir, late, astray>>
  PROVE  CacheInv'
<1>1. HeldIn(dir, cache, task, load, astray) /\ LateIn(dir, late, astray)
  BY DEF CacheInv
<1>2. SteadyDir(dir, dir, cache, task, load, astray)
  BY DEF SteadyDir
<1>3. HeldIn(dir, cache, task', load, astray)
  BY <1>1, <1>2, SteadyKeeps DEF Apart
<1> QED
  BY <1>1, <1>3, NextHolds DEF Apart

\* A step that asks, and spares who is not astray then.
LEMMA AskSparedKeeps ==
  ASSUME AllInv, CacheInv, Apart, NEW r \in Requests, astray \subseteq astray',
         \/ request(r) /\ Spares(dir, r, cache, task, load, astray')
         \/ request_fails(r) /\ LateFits(dir, astray', r)
  PROVE  CacheInv'
<1>1. HeldIn(dir, cache, task, load, astray) /\ LateIn(dir, late, astray) /\ DirectoryOf(dir)
  BY DEF CacheInv, AllInv, UInv, ClientInv
<1>2. SteadyDir(dir, dir', cache, task, load, astray')
  <2>1. CASE request(r) /\ Spares(dir, r, cache, task, load, astray')
    BY <1>1, <2>1, SparedIsSteady DEF request
  <2>2. CASE request_fails(r)
    BY <2>2 DEF request_fails, SteadyDir
  <2> QED
    BY <2>1, <2>2
<1>3. HeldIn(dir', cache, task', load, astray')
  BY <1>1, <1>2, SteadyKeeps DEF Apart
<1>4. LateIn(dir', late', astray')
  <2>1. dir.known \subseteq dir'.known
    BY <1>2 DEF SteadyDir
  <2>2. \A q \in late' \ late : LateFits(dir, astray', q)
    BY DEF request, request_fails
  <2> QED
    BY <1>1, <2>1, <2>2, LateStays
<1> QED
  BY <1>3, <1>4, NextHolds DEF Apart

\* A step that asks for anything but a flag or an account.
LEMMA PlainKeeps ==
  ASSUME AllInv, CacheInv, Apart, NEW r \in Requests, Asks(r), UNCHANGED astray,
         r.op \notin {"block", "unblock", "add_user"}
  PROVE  CacheInv'
<1>1. Spares(dir, r, cache, task, load, astray') /\ LateFits(dir, astray', r)
  BY DEF Spares, LateFits
<1> QED
  BY <1>1, AskSparedKeeps DEF Asks

\* A step that asks for the account of a channel, found or created.
LEMMA AddKeeps ==
  ASSUME AllInv, CacheInv, Apart, NEW h \in Handle, NEW new \in AccountOf(h),
         NEW r, r = [op |-> "add_user", channel |-> h, user |-> new],
         \/ /\ request(r) /\ astray \subseteq astray'
            /\ dir' # dir => Inherits(dir', new, h) \subseteq astray'
         \/ /\ request_fails(r) /\ astray \subseteq astray'
            /\ dir.owner[h] = Nobody => new \in astray'
  PROVE  CacheInv'
<1>1. dir \in Directory /\ DirectoryOf(dir)
  BY DEF AllInv, UInv, ClientInv, DirectoryOf
<1>2. new \in User /\ r \in Requests
  BY <1>1 DEF AccountOf, Requests, DirectoryOf, Directory
<1>3. dir.owner[h] # Nobody => new \in dir.known
  BY <1>1 DEF AccountOf, DirectoryOf
<1>4. dir.owner[h] = Nobody => new \notin dir.known
  BY DEF AccountOf
<1>5. CASE /\ request(r) /\ astray \subseteq astray'
           /\ dir' # dir => Inherits(dir', new, h) \subseteq astray'
  <2>1. astray \subseteq astray'
    BY <1>5
  <2>2. Spares(dir, r, cache, task, load, astray')
    <3>1. CASE dir.owner[h] # Nobody
      BY <1>2, <3>1 DEF Spares
    <3>2. CASE dir.owner[h] = Nobody /\ new \notin astray'
      <4>1. Accepts(dir, r)
        BY DEF Accepts
      <4>2. dir' = [dir EXCEPT !.owner[h] = new, !.known = @ \cup {new}]
        BY <1>4, <1>5, <3>2, <4>1 DEF request, Carried
      <4>3. dir' # dir /\ dir'.owner[h] = new
        BY <1>1, <1>4, <3>2, <4>2 DEF Directory
      <4>4. new \notin Inherits(dir', new, h)
        BY <1>5, <3>2, <4>3
      <4>5. /\ h \notin cache \cup load.keys
            /\ \A a \in Admin : Marks(task, a) => h \notin task[a].keys
        BY <4>3, <4>4 DEF Inherits, Marks
      <4> QED
        BY <4>5 DEF Spares
    <3>3. CASE new \in astray'
      BY <3>3 DEF Spares
    <3> QED
      BY <3>1, <3>2, <3>3
  <2> QED
    BY <1>2, <1>5, <2>1, <2>2, AskSparedKeeps
<1>6. CASE request_fails(r) /\ astray \subseteq astray' /\ (dir.owner[h] = Nobody => new \in astray')
  <2>1. LateFits(dir, astray', r)
    BY <1>3, <1>6 DEF LateFits
  <2> QED
    BY <1>2, <1>6, <2>1, AskSparedKeeps
<1> QED
  BY <1>5, <1>6

\* Of the queries, all but the flag and the update.
LEMMA StartAndResolveKeep ==
  ASSUME AllInv, CacheInv, NEW a \in Admin,
         \/ \E op \in {"block", "unblock"}, u \in User : StartBlock(a, op, u)
         \/ resolve_block_actor_and_target(a)
  PROVE  CacheInv'
<1>0. task \in [Admin -> Task] /\ dir.known \subseteq User
  BY DEF AllInv, UInv, BlockTypes, ClientInv, DirectoryOf, Directory
<1>1. ASSUME NEW op \in {"block", "unblock"}, NEW u \in User, StartBlock(a, op, u) PROVE CacheInv'
  <2>1. SameMarks(task, task')
    BY <1>0, <1>1 DEF StartBlock, SameMarks, Marks, NoTask
  <2> QED
    BY <1>1, <2>1, SilentKeeps DEF StartBlock, Apart, clientVars
<1>2. CASE resolve_block_actor_and_target(a)
  <2>1. PICK actor \in dir.known :
          /\ Asks([op |-> "get", user |-> actor])
          /\ task' = [task EXCEPT ![a].step = "write"] \/ Ends(a)
    BY <1>2 DEF resolve_block_actor_and_target, Asks
  <2>2. SameMarks(task, task')
    <3>1. task[a].step = "resolve"
      BY <1>2 DEF resolve_block_actor_and_target
    <3>2. CASE task' = [task EXCEPT ![a].step = "write"]
      BY <1>0, <3>1, <3>2 DEF SameMarks, Marks, Task
    <3>3. CASE Ends(a)
      BY <1>0, <3>1, <3>3 DEF SameMarks, Marks, Ends, NoTask
    <3> QED
      BY <2>1, <3>2, <3>3
  <2>3. UNCHANGED <<cache, load, astray>>
    BY <1>2 DEF resolve_block_actor_and_target
  <2>4. [op |-> "get", user |-> actor] \in Requests
    BY <1>0 DEF Requests
  <2> QED
    BY <2>1, <2>2, <2>3, <2>4, PlainKeeps DEF Apart
<1> QED
  BY <1>1, <1>2

\* userdb_block and userdb_unblock: the flag is written, the update of the cache
\* becomes pending.
LEMMA WriteKeeps ==
  ASSUME AllInv, CacheInv, NEW a \in Admin, WriteFlag(a)
  PROVE  CacheInv'
<1> DEFINE u == task[a].user
           r == [op |-> task[a].op, user |-> u]
<1>0. /\ task \in [Admin -> Task] /\ task[a].step = "write" /\ u \in User
      /\ task[a].op \in {"block", "unblock"}
      /\ DirectoryOf(dir) /\ dir \in Directory /\ r \in Requests
  BY DEF WriteFlag, AllInv, UInv, BlockTypes, TaskInv, ClientInv, DirectoryOf, Requests
<1>1. UNCHANGED <<cache, load>>
  BY DEF WriteFlag
<1>2. CASE request(r) /\ ~Accepts(dir, r) /\ Ends(a) /\ UNCHANGED astray
  <2>1. dir' = dir /\ late' = late
    BY <1>2, Refused DEF request
  <2>2. SameMarks(task, task')
    BY <1>0, <1>2 DEF SameMarks, Marks, Ends, NoTask
  <2> QED
    BY <1>1, <1>2, <2>1, <2>2, SilentKeeps DEF Apart
<1>3. CASE request_fails(r) /\ Ends(a) /\ astray' = astray \cup {u}
  <2>1. SameMarks(task, task')
    BY <1>0, <1>3 DEF SameMarks, Marks, Ends, NoTask
  <2>2. LateFits(dir, astray', r)
    BY <1>0, <1>3 DEF LateFits
  <2> QED
    BY <1>0, <1>1, <1>3, <2>1, <2>2, AskSparedKeeps DEF Apart
<1>4. CASE /\ request(r) /\ Accepts(dir, r) /\ astray' = astray \cup Parts(u)
           /\ task' = [task EXCEPT ![a].step = "mark", ![a].keys = Keys(dir, u)]
  <2> PICK d, e, c, t, s, l, ast, bst :
        /\ d = dir /\ e = dir' /\ c = cache /\ t = task /\ s = task' /\ l = load
        /\ ast = astray /\ bst = astray'
    OBVIOUS
  <2>1. HeldIn(d, c, t, l, ast)
    BY DEF CacheInv
  <2>2. /\ e.known = d.known /\ u \in d.known
        /\ \A v \in User : Keys(e, v) = Keys(d, v)
        /\ \A v \in User \ {u} : v \in e.blocked <=> v \in d.blocked
        /\ t[a].op = "block" <=> u \in e.blocked
    <3>1. Turns(d, r, e)
      BY <1>0, <1>4, CarriedFields DEF request
    <3>2. u \in d.known
      BY <1>0, <1>4 DEF Accepts
    <3>3. e.owner = d.owner /\ e.known = d.known
      BY <1>0, <3>1 DEF Turns
    <3>4. e.blocked = IF t[a].op = "block" THEN d.blocked \cup {u} ELSE d.blocked \ {u}
      BY <1>0, <3>1 DEF Turns
    <3>5. \A v \in User : Keys(e, v) = Keys(d, v)
      BY <3>3 DEF Keys, Channels
    <3> QED
      BY <1>0, <3>2, <3>3, <3>4, <3>5
  <2>3. /\ Marks(s, a) /\ s[a].user = u /\ s[a].op = t[a].op /\ s[a].keys = Keys(d, u)
        /\ ~Marks(t, a) /\ \A b \in Admin \ {a} : s[b] = t[b]
    BY <1>0, <1>4 DEF Marks
  <2>4. u \notin bst =>
          /\ \A b \in Admin : ~(Marks(t, b) /\ t[b].user = u)
          /\ l.step = "pages" => u \in l.left
    BY <1>4 DEF Parts, Overtakes, OutdatesLoad, Marks
  <2>5. ast \subseteq bst /\ e.known \subseteq User
    BY <1>0, <1>4, <2>2 DEF Directory
  <2>6. ASSUME NEW v \in e.known \ bst, NEW keys, v # u, Shows(d, v, keys) PROVE Shows(e, v, keys)
    BY <2>2, <2>5, <2>6 DEF Shows
  <2>7. AgreesIn(e, c, s, l, bst)
    <3> SUFFICES ASSUME NEW v \in e.known \ bst,
                        ~ \E b \in Admin : Marks(s, b) /\ s[b].user = v, l.step = "done"
                 PROVE  Shows(e, v, c)
      BY DEF AgreesIn
    <3>1. v # u
      BY <2>3
    <3>2. ~ \E b \in Admin : Marks(t, b) /\ t[b].user = v
      BY <2>3, <3>1 DEF Marks
    <3>3. Shows(d, v, c)
      BY <2>1, <2>2, <2>5, <3>2 DEF HeldIn, AgreesIn
    <3> QED
      BY <2>6, <3>1, <3>3
  <2>8. MarksIn(e, s, bst)
    <3>1. MarkFits(e, s, bst, a)
      <4>1. Keys(e, u) \subseteq s[a].keys /\ s[a].keys \cap User \subseteq e.known
        BY <1>0, <2>2, <2>3, ClientAssumption DEF Keys, Channels
      <4>2. \A v \in e.known \ bst : v # u => Keys(e, v) \cap s[a].keys = {}
        BY <1>0, <2>2, <2>3, <2>5, KeysApart
      <4>3. u \notin bst => \A b \in Admin \ {a} : ~(Marks(s, b) /\ s[b].user = u)
        BY <2>3, <2>4 DEF Marks
      <4> QED
        BY <2>2, <2>3, <4>1, <4>2, <4>3 DEF MarkFits
    <3>2. ASSUME NEW b \in Admin \ {a}, Marks(s, b) PROVE MarkFits(e, s, bst, b)
      <4>1. Marks(t, b) /\ s[b] = t[b]
        BY <2>3, <3>2 DEF Marks
      <4>2. MarkFits(d, t, ast, b)
        BY <2>1, <4>1 DEF HeldIn, MarksIn
      <4>3. s[b].user = u => u \in bst
        BY <2>4, <4>1
      <4>4. s[b].user \notin bst =>
              /\ s[b].op = "block" <=> s[b].user \in e.blocked
              /\ Keys(e, s[b].user) \subseteq s[b].keys
              /\ \A o \in Admin \ {b} : ~(Marks(s, o) /\ s[o].user = s[b].user)
        <5> HAVE s[b].user \notin bst
        <5>1. s[b].user # u /\ s[b].user \in User /\ s[b].user \notin ast
          BY <2>2, <2>5, <4>1, <4>2, <4>3 DEF MarkFits
        <5>2. s[b].op = "block" <=> s[b].user \in e.blocked
          BY <2>2, <4>1, <4>2, <5>1 DEF MarkFits
        <5>3. Keys(e, s[b].user) \subseteq s[b].keys
          BY <2>2, <4>1, <4>2, <5>1 DEF MarkFits
        <5>4. \A o \in Admin \ {b} : ~(Marks(s, o) /\ s[o].user = s[b].user)
          BY <2>3, <4>1, <4>2, <5>1 DEF MarkFits, Marks
        <5> QED
          BY <5>2, <5>3, <5>4
      <4>5. \A v \in e.known \ bst : v # s[b].user => Keys(e, v) \cap s[b].keys = {}
        BY <2>2, <2>5, <4>1, <4>2 DEF MarkFits
      <4> QED
        BY <2>2, <4>1, <4>2, <4>4, <4>5 DEF MarkFits
    <3> QED
      BY <3>1, <3>2 DEF MarksIn
  <2>9. LoadIn(e, l, bst)
    <3>1. l.step # "pages" => l.keys = {}
      BY <2>1 DEF HeldIn, LoadIn
    <3>2. ASSUME l.step = "pages", NEW v \in e.known \ bst
          PROVE  IF v \in l.left THEN Keys(e, v) \cap l.keys = {} ELSE Shows(e, v, l.keys)
      <4>1. IF v \in l.left THEN Keys(d, v) \cap l.keys = {} ELSE Shows(d, v, l.keys)
        BY <2>1, <2>2, <2>5, <3>2 DEF HeldIn, LoadIn
      <4>2. v = u => v \in l.left
        BY <2>4, <3>2
      <4> QED
        BY <2>2, <2>5, <2>6, <4>1, <4>2
    <3> QED
      BY <3>1, <3>2 DEF LoadIn
  <2>10. IdsIn(e, c, l)
    BY <2>1, <2>2 DEF HeldIn, IdsIn
  <2>11. HeldIn(e, c, s, l, bst)
    BY <2>7, <2>8, <2>9, <2>10 DEF HeldIn
  <2>12. LateIn(dir', late', astray')
    BY <1>4, <2>2, <2>5, LateStays DEF CacheInv, request
  <2> QED
    BY <1>1, <2>11, <2>12, NextHolds
<1> QED
  BY <1>2, <1>3, <1>4 DEF WriteFlag

\* mark_user_blocked and mark_user_unblocked: the pending update happens.
LEMMA MarkKeeps ==
  ASSUME AllInv, CacheInv, NEW a \in Admin, Mark(a)
  PROVE  CacheInv'
<1> PICK d, c, k, t, s, l, ast :
      /\ d = dir /\ c = cache /\ k = cache' /\ t = task /\ s = task' /\ l = load /\ ast = astray
  OBVIOUS
<1>1. HeldIn(d, c, t, l, ast) /\ d.known \subseteq User
  BY DEF CacheInv, AllInv, UInv, ClientInv, DirectoryOf, Directory
<1>2. /\ Marks(t, a) /\ ~Marks(s, a) /\ \A b \in Admin \ {a} : s[b] = t[b]
      /\ k = IF t[a].op = "block" THEN c \cup t[a].keys ELSE c \ t[a].keys
      /\ UNCHANGED <<dir, late, load, astray>>
  BY DEF Mark, mark_user_blocked, mark_user_unblocked, Ends, NoTask, Marks, AllInv, UInv, BlockTypes,
         clientVars
<1>3. MarkFits(d, t, ast, a)
  BY <1>1, <1>2 DEF HeldIn, MarksIn
<1>4. AgreesIn(d, k, s, l, ast)
  <2> SUFFICES ASSUME NEW v \in d.known \ ast,
                      ~ \E b \in Admin : Marks(s, b) /\ s[b].user = v, l.step = "done"
               PROVE  Shows(d, v, k)
    BY DEF AgreesIn
  <2>1. CASE v = t[a].user
    <3>1. Keys(d, v) \subseteq t[a].keys /\ (t[a].op = "block" <=> v \in d.blocked)
      BY <1>3, <2>1 DEF MarkFits
    <3> QED
      BY <1>2, <3>1 DEF Shows
  <2>2. CASE v # t[a].user
    <3>1. ~ \E b \in Admin : Marks(t, b) /\ t[b].user = v
      BY <1>2, <2>2 DEF Marks
    <3>2. Shows(d, v, c)
      BY <1>1, <3>1 DEF HeldIn, AgreesIn
    <3>3. Keys(d, v) \cap t[a].keys = {}
      BY <1>3, <2>2 DEF MarkFits
    <3>4. CASE v \in d.blocked
      BY <1>2, <3>2, <3>3, <3>4 DEF Shows
    <3>5. CASE v \notin d.blocked
      BY <1>2, <3>2, <3>3, <3>5 DEF Shows
    <3> QED
      BY <3>4, <3>5
  <2> QED
    BY <2>1, <2>2
<1>5. MarksIn(d, s, ast)
  <2> SUFFICES ASSUME NEW b \in Admin, Marks(s, b) PROVE MarkFits(d, s, ast, b)
    BY DEF MarksIn
  <2>1. b # a /\ s[b] = t[b] /\ Marks(t, b)
    BY <1>2 DEF Marks
  <2>2. MarkFits(d, t, ast, b)
    BY <1>1, <2>1 DEF HeldIn, MarksIn
  <2>3. \A o \in Admin : Marks(s, o) => Marks(t, o) /\ s[o] = t[o]
    BY <1>2 DEF Marks
  <2> QED
    BY <2>1, <2>2, <2>3 DEF MarkFits
<1>6. IdsIn(d, k, l)
  BY <1>1, <1>2, <1>3 DEF HeldIn, IdsIn, MarkFits
<1>7. HeldIn(d, k, s, l, ast)
  BY <1>1, <1>4, <1>5, <1>6 DEF HeldIn
<1> QED
  BY <1>2, <1>7, NextHolds DEF CacheInv

\* load_blocked_users starts, or starts over after a failure.
LEMMA LoadStarts ==
  ASSUME NEW d, NEW c, NEW t, NEW l, NEW ast, NEW m, HeldIn(d, c, t, l, ast), d.known \subseteq User,
         m.step # "done", m.keys = {}, m.step = "pages" => m.left = User
  PROVE  HeldIn(d, c, t, m, ast)
BY DEF HeldIn, AgreesIn, LoadIn, IdsIn

\* The load of the cache.
LEMMA LoadKeeps ==
  ASSUME AllInv, CacheInv, StartLoad \/ LoadPage \/ ReplaceCache
  PROVE  CacheInv'
<1> PICK d, c, t, l, m, ast :
      d = dir /\ c = cache /\ t = task /\ l = load /\ m = load' /\ ast = astray
  OBVIOUS
<1>1. /\ HeldIn(d, c, t, l, ast) /\ LateIn(d, late, ast)
      /\ DirectoryOf(d) /\ d.known \subseteq User
      /\ l \in [step : {"off", "pages", "done"}, left : SUBSET User, keys : SUBSET Key]
  BY DEF CacheInv, AllInv, UInv, BlockTypes, ClientInv, DirectoryOf, Directory
<1>2. UNCHANGED <<task, astray>>
  BY DEF StartLoad, LoadPage, ReplaceCache
<1>3. CASE StartLoad
  <2>1. m = [step |-> "pages", left |-> User, keys |-> {}] /\ UNCHANGED <<dir, late, cache>>
    BY <1>3 DEF StartLoad, clientVars
  <2>2. HeldIn(d, c, t, m, ast)
    BY <1>1, <2>1, LoadStarts
  <2> QED
    BY <1>1, <1>2, <2>1, <2>2, NextHolds
<1>4. CASE LoadPage
  <2>1. PICK u \in l.left :
          \/ /\ request([op |-> "get", user |-> u])
             /\ m = [l EXCEPT !.left = @ \ {u},
                       !.keys = @ \cup IF u \in d.blocked THEN Keys(d, u) ELSE {}]
          \/ request_fails([op |-> "get", user |-> u]) /\ m = LoadAgain
    BY <1>4 DEF LoadPage
  <2>2. l.step = "pages" /\ cache' = cache
    BY <1>4 DEF LoadPage
  <2>3. dir' = dir
    BY <2>1 DEF request, request_fails, Carried
  <2>4. \A q \in late' \ late : LateFits(d, ast, q)
    BY <2>1 DEF request, request_fails, LateFits
  <2>5. LateIn(d, late', ast)
    BY <1>1, <2>4, LateStays
  <2>6. HeldIn(d, c, t, m, ast)
    <3>1. CASE m = LoadAgain
      BY <1>1, <3>1, LoadStarts DEF LoadAgain
    <3>2. CASE m = [l EXCEPT !.left = @ \ {u},
                      !.keys = @ \cup IF u \in d.blocked THEN Keys(d, u) ELSE {}]
      <4>1. /\ m.step = "pages" /\ m.left = l.left \ {u}
            /\ m.keys = l.keys \cup IF u \in d.blocked THEN Keys(d, u) ELSE {}
        BY <1>1, <2>2, <3>2
      <4>2. AgreesIn(d, c, t, m, ast)
        BY <4>1 DEF AgreesIn
      <4>3. LoadIn(d, m, ast)
        <5> SUFFICES ASSUME NEW v \in d.known \ ast
                     PROVE  IF v \in m.left THEN Keys(d, v) \cap m.keys = {}
                                            ELSE Shows(d, v, m.keys)
          BY <4>1 DEF LoadIn
        <5>1. IF v \in l.left THEN Keys(d, v) \cap l.keys = {} ELSE Shows(d, v, l.keys)
          BY <1>1, <2>2 DEF HeldIn, LoadIn
        <5>2. CASE v = u
          BY <2>1, <4>1, <5>1, <5>2 DEF Shows
        <5>3. CASE v # u
          <6>1. Keys(d, v) \cap Keys(d, u) = {}
            BY <1>1, <5>3, KeysApart
          <6> QED
            BY <4>1, <5>1, <5>3, <6>1 DEF Shows
        <5> QED
          BY <5>2, <5>3
      <4>4. IdsIn(d, c, m)
        <5>1. u \in d.blocked => Keys(d, u) \cap User \subseteq d.known
          BY <1>1, ClientAssumption DEF DirectoryOf, Keys, Channels
        <5> QED
          BY <1>1, <4>1, <5>1 DEF HeldIn, IdsIn
      <4> QED
        BY <1>1, <4>2, <4>3, <4>4 DEF HeldIn
    <3> QED
      BY <2>1, <3>1, <3>2
  <2> QED
    BY <1>2, <2>2, <2>3, <2>5, <2>6, NextHolds
<1>5. CASE ReplaceCache
  <2>1. /\ l.step = "pages" /\ l.left = {} /\ cache' = l.keys
        /\ m = [step |-> "done", left |-> {}, keys |-> {}]
        /\ UNCHANGED <<dir, late>>
    BY <1>5 DEF ReplaceCache, clientVars
  <2>2. AgreesIn(d, l.keys, t, m, ast)
    BY <1>1, <2>1 DEF HeldIn, AgreesIn, LoadIn
  <2>3. LoadIn(d, m, ast) /\ IdsIn(d, l.keys, m)
    BY <1>1, <2>1 DEF HeldIn, LoadIn, IdsIn
  <2>4. HeldIn(d, l.keys, t, m, ast)
    BY <1>1, <2>2, <2>3 DEF HeldIn
  <2> QED
    BY <1>1, <1>2, <2>1, <2>4, NextHolds
<1> QED
  BY <1>3, <1>4, <1>5

\* userdb_split_channel.
LEMMA SplitKeeps ==
  ASSUME AllInv, CacheInv,
         \/ \E u \in User, h \in Handle : Detach(u, h)
         \/ \E h \in Handle : \E new \in AccountOf(h) : AddSplit(h, new)
  PROVE  CacheInv'
<1>0. task \in [Admin -> Task] /\ Tui \in Admin
  BY BlocksAssumption DEF AllInv, UInv, BlockTypes
<1>1. ASSUME NEW u \in User, NEW h \in Handle, Detach(u, h) PROVE CacheInv'
  <2>1. Asks([op |-> "remove_channel", channel |-> h, user |-> u]) /\ UNCHANGED <<cache, load, astray>>
    BY <1>1 DEF Detach, Asks
  <2>2. SameMarks(task, task')
    <3>1. task[Tui].step = "idle"
      BY <1>1 DEF Detach
    <3>2. \/ UNCHANGED task
          \/ task' = [task EXCEPT ![Tui] = [NoTask EXCEPT !.step = "add", !.op = "split", !.keys = {h}]]
      BY <1>1 DEF Detach
    <3> QED
      BY <1>0, <3>1, <3>2 DEF SameMarks, Marks, NoTask
  <2>3. [op |-> "remove_channel", channel |-> h, user |-> u] \in Requests
    BY DEF Requests
  <2> QED
    BY <2>1, <2>2, <2>3, PlainKeeps DEF Apart
<1>2. ASSUME NEW h \in Handle, NEW new \in AccountOf(h), AddSplit(h, new) PROVE CacheInv'
  <2>1. task[Tui].step = "add" /\ Ends(Tui) /\ UNCHANGED <<cache, load>>
    BY <1>2 DEF AddSplit
  <2>2. SameMarks(task, task')
    BY <1>0, <2>1 DEF SameMarks, Marks, Ends, NoTask
  <2>3. PICK r : /\ r = [op |-> "add_user", channel |-> h, user |-> new]
                 /\ \/ request(r) /\ astray' = astray \cup Inherits(dir', new, h)
                    \/ request_fails(r) /\ astray' = astray \cup {new}
    BY <1>2 DEF AddSplit
  <2> QED
    BY <2>1, <2>2, <2>3, AddKeeps DEF Apart
<1> QED
  BY <1>1, <1>2

\* The queries stay as they are.
LEMMA MarksSame ==
  ASSUME UNCHANGED task
  PROVE  SameMarks(task, task')
BY DEF SameMarks

\* The appeal: approved, a user who was blocked is astray.
LEMMA AppealKeeps ==
  ASSUME AllInv, CacheInv, HoldAppeal \/ ApproveAppeal \/ RejectAppeal \/ ReleaseAppeal
  PROVE  CacheInv'
<1>1. CASE HoldAppeal \/ RejectAppeal \/ ReleaseAppeal
  BY <1>1, MarksSame, SilentKeeps DEF HoldAppeal, RejectAppeal, ReleaseAppeal, Apart, clientVars
<1>2. CASE ApproveAppeal
  <2>1. Apart
    BY <1>2, MarksSame DEF ApproveAppeal, Apart
  <2>2. CASE UNCHANGED <<clientVars, astray>>
    BY <2>1, <2>2, SilentKeeps DEF clientVars
  <2>3. CASE ~UNCHANGED <<clientVars, astray>>
    <3>1. PICK u, r :
            /\ u = appeal.user /\ u # Nobody /\ r = [op |-> "unblock", user |-> u]
            /\ \/ /\ request(r)
                  /\ astray' = IF u \in dir.blocked THEN astray \cup {u} ELSE astray
               \/ request_fails(r) /\ astray' = astray \cup {u}
      BY <1>2, <2>3 DEF ApproveAppeal
    <3>2. u \in User
      BY <3>1 DEF AllInv, UInv, BlockTypes, Appeal
    <3>3. r \in Requests /\ astray \subseteq astray'
      BY <3>1, <3>2 DEF Requests
    <3>4. request(r) => Spares(dir, r, cache, task, load, astray')
      BY <3>1 DEF Spares, request, request_fails, drop_connection
    <3>5. request_fails(r) => LateFits(dir, astray', r)
      BY <3>1 DEF LateFits, request, request_fails, drop_connection
    <3> QED
      BY <2>1, <3>1, <3>3, <3>4, <3>5, AskSparedKeeps
  <2> QED
    BY <2>2, <2>3
<1> QED
  BY <1>1, <1>2

\* Ingest, but for the lookup.
LEMMA IngestKeeps ==
  ASSUME AllInv, CacheInv,
         \/ \E keys \in SUBSET Handle : replace_module_bans(keys)
         \/ \E h \in Handle, command \in {"other", "appeal"} : Receive(h, command)
         \/ NotFetched \/ Decide
  PROVE  CacheInv'
<1>1. UNCHANGED <<clientVars, cache, load, task, astray>>
  BY DEF replace_module_bans, Receive, NotFetched, Decide
<1> QED
  BY <1>1, MarksSame, SilentKeeps DEF Apart, clientVars

\* The sender is looked up, perhaps created.
LEMMA EnrichKeeps ==
  ASSUME AllInv, CacheInv, NEW new \in AccountOf(msg.from), enrich_chat_user(new)
  PROVE  CacheInv'
<1>1. PICK h, r :
        /\ h = msg.from /\ r = [op |-> "add_user", channel |-> h, user |-> new]
        /\ \/ /\ request(r)
              /\ astray' = IF dir' # dir THEN astray \cup Inherits(dir', new, h) ELSE astray
           \/ /\ request_fails(r)
              /\ astray' = IF dir.owner[h] = Nobody THEN astray \cup {new} ELSE astray
  BY DEF enrich_chat_user
<1>2. h \in Handle
  BY <1>1 DEF AllInv, UInv, TaskInv, enrich_chat_user
<1>3. Apart
  BY MarksSame DEF enrich_chat_user, Apart
<1> QED
  BY <1>1, <1>2, <1>3, AddKeeps

\* Whatever the blocks do.
LEMMA BlocksHold ==
  ASSUME AllInv, CacheInv, Blocks
  PROVE  CacheInv'
<1>1. ASSUME NEW a \in Admin,
             \/ \E op \in {"block", "unblock"}, u \in User : StartBlock(a, op, u)
             \/ resolve_block_actor_and_target(a)
      PROVE  CacheInv'
  BY <1>1, StartAndResolveKeep
<1>2. ASSUME NEW a \in Admin, WriteFlag(a) PROVE CacheInv'
  BY <1>2, WriteKeeps
<1>3. ASSUME NEW a \in Admin, Mark(a) PROVE CacheInv'
  BY <1>3, MarkKeeps
<1>4. ASSUME NEW new \in AccountOf(msg.from), enrich_chat_user(new) PROVE CacheInv'
  BY <1>4, EnrichKeeps
<1> QED
  BY <1>1, <1>2, <1>3, <1>4, SplitKeeps, AppealKeeps, LoadKeeps, IngestKeeps DEF Blocks

\* The service carries out what was given up.
LEMMA LateHolds ==
  ASSUME AllInv, CacheInv, ServiceStep
  PROVE  CacheInv'
<1>1. PICK r \in late : late' = late \ {r} /\ dir' = Carried(dir, r)
  BY DEF ServiceStep, CarriedOutLate
<1>2. UNCHANGED <<cache, load, task, astray>>
  BY DEF ServiceStep, blockVars
<1>3. /\ HeldIn(dir, cache, task, load, astray) /\ LateIn(dir, late, astray)
      /\ DirectoryOf(dir) /\ r \in Requests
  BY DEF CacheInv, AllInv, UInv, ClientInv, ClientTypeOK
<1>4. Spares(dir, r, cache, task, load, astray)
  BY <1>3 DEF LateIn, LateFits, Spares
<1>5. SteadyDir(dir, dir', cache, task, load, astray)
  BY <1>1, <1>3, <1>4, SparedIsSteady
<1>6. HeldIn(dir', cache', task', load', astray')
  BY <1>2, <1>3, <1>5, SteadyKeeps, MarksSame
<1>7. LateIn(dir', late', astray')
  <2>1. dir.known \subseteq dir'.known
    BY <1>5 DEF SteadyDir
  <2> QED
    BY <1>1, <1>2, <1>3, <2>1, LateStays
<1> QED
  BY <1>6, <1>7, NextHolds

\* Gates, scores and roles ask for no flag, and for an account only to verify.
LEMMA OthersHold ==
  ASSUME AllInv, CacheInv, Gates \/ Scores \/ Roles
  PROVE  CacheInv'
<1>0. gate.user \in User \cup {Nobody} /\ (gate.step # "idle" => gate.user \in User)
      /\ (verify.step = "set" => verify.user \in User) /\ dir \in Directory
  BY DEF AllInv, UInv, UserTypes, GateType, GateInv, VerifyInv, ClientInv, DirectoryOf, Directory
<1>1. ASSUME (\E u \in User : StartGate(u)) \/ SendGated PROVE CacheInv'
  BY <1>1, MarksSame, SilentKeeps DEF StartGate, SendGated, OtherBlocks, clientVars, Apart
<1>2. ASSUME OtherBlocks, NEW r \in Requests, Asks(r),
             r.op \in {"get", "deduct", "credit", "mod", "unmod"}
      PROVE  CacheInv'
  BY <1>2, MarksSame, PlainKeeps DEF OtherBlocks, Apart
<1>3. ASSUME FetchForGate PROVE CacheInv'
  <2>1. [op |-> "get", user |-> gate.user] \in Requests
    BY <1>0, <1>3 DEF FetchForGate, Requests
  <2> QED
    BY <1>2, <1>3, <2>1 DEF FetchForGate, Asks
<1>4. ASSUME Pay PROVE CacheInv'
  <2>1. [op |-> "deduct", user |-> gate.user] \in Requests
    BY <1>0, <1>4 DEF Pay, Requests
  <2> QED
    BY <1>2, <1>4, <2>1 DEF Pay, Asks
<1>5. ASSUME NEW u \in User, AdjustScore(u) PROVE CacheInv'
  <2>1. [op |-> "credit", user |-> u] \in Requests
    BY DEF Requests
  <2> QED
    BY <1>2, <1>5, <2>1 DEF AdjustScore, Asks
<1>6. ASSUME NEW u \in User, NEW on PROVE SetRole(u, on) \in Requests /\ SetRole(u, on).op \in {"mod", "unmod"}
  BY <1>6 DEF SetRole, Requests
<1>7. ASSUME NEW u \in User, NEW on \in BOOLEAN, userdb_set_roles(u, on) PROVE CacheInv'
  BY <1>2, <1>6, <1>7 DEF userdb_set_roles, Asks
<1>8. ASSUME VerifySet PROVE CacheInv'
  <2>1. PICK on : Asks(SetRole(verify.user, on))
    BY <1>8 DEF VerifySet, Asks
  <2>2. OtherBlocks /\ verify.user \in User
    BY <1>0, <1>8 DEF VerifySet
  <2> QED
    BY <1>2, <1>6, <2>1, <2>2
<1>9. ASSUME NEW h \in Handle, NEW claim \in Claim, NEW u \in AccountOf(h), VerifyFind(h, u, claim)
      PROVE  CacheInv'
  <2>1. PICK r :
          /\ r = [op |-> "add_user", channel |-> h, user |-> u]
          /\ \/ /\ request(r)
                /\ astray' = IF dir' # dir THEN astray \cup Inherits(dir', u, h) ELSE astray
             \/ /\ request_fails(r)
                /\ astray' = IF dir.owner[h] = Nobody THEN astray \cup {u} ELSE astray
    BY <1>9 DEF VerifyFind
  <2>2. Apart
    BY <1>9, MarksSame DEF VerifyFind, Apart
  <2> QED
    BY <2>1, <2>2, AddKeeps
<1> QED
  BY <1>1, <1>3, <1>4, <1>5, <1>7, <1>8, <1>9 DEF Gates, Scores, Roles

--------------------------------------------------------------------------------
(***************************************************************************)
(* What follows.                                                           *)
(***************************************************************************)
\* No step breaks the invariant of the cache.
LEMMA CacheStepKeeps == AllInv /\ CacheInv /\ [Next]_vars => CacheInv'
<1> SUFFICES ASSUME AllInv, CacheInv, [Next]_vars PROVE CacheInv'
  OBVIOUS
<1>1. CASE Next
  BY <1>1, BlocksHold, LateHolds, OthersHold DEF Next, BlockStep
<1>2. CASE UNCHANGED vars
  BY <1>2, MarksSame, SilentKeeps DEF vars, blockVars, clientVars, Apart
<1> QED
  BY <1>1, <1>2

\* At first the cache is empty and will be loaded.
LEMMA CacheInitKeeps == Init => CacheInv
<1> SUFFICES ASSUME Init PROVE CacheInv
  OBVIOUS
<1>1. /\ cache = {} /\ load.step = "off" /\ load.keys = {} /\ late = {}
      /\ \A a \in Admin : ~Marks(task, a)
  BY DEF Init, BlocksInit, ClientInit, NoTask, Marks
<1> QED
  BY <1>1 DEF CacheInv, HeldIn, LateIn, AgreesIn, MarksIn, LoadIn, IdsIn

\* The two invariants together.
LEMMA CacheInductive == Spec => [](AllInv /\ CacheInv)
<1> QED
  BY CacheInitKeeps, CacheStepKeeps, UsersInductive, UserInitKeeps, PTL DEF Spec

\* userdb_block and userdb_unblock, from whatever connections, over any load of the
\* cache: flag and cache agree for every user who is not astray.
THEOREM CacheAgreed == Spec => []CacheAgrees
<1>1. CacheInv => CacheAgrees
  BY DEF CacheInv, HeldIn, AgreesIn, Shows, CacheAgrees, Pending, Overtakes, Marks
<1> QED
  BY <1>1, CacheInductive, PTL

\* Only the decision accepts a message.
LEMMA DecideDecides ==
  ASSUME AllInv, [Next]_vars, msg.step = "decide"
  PROVE  Decide \/ msg' = msg
<1>1. ASSUME Blocks PROVE Decide \/ msg' = msg
  BY <1>1 DEF Blocks, StartBlock, resolve_block_actor_and_target, WriteFlag, Mark, Detach, AddSplit,
              HoldAppeal, ApproveAppeal, RejectAppeal, ReleaseAppeal, StartLoad, LoadPage,
              ReplaceCache, replace_module_bans, Receive, NotFetched, enrich_chat_user
<1>2. ASSUME Gates \/ Scores \/ Roles PROVE msg' = msg
  BY <1>2 DEF Gates, Scores, Roles, StartGate, FetchForGate, Pay, SendGated, AdjustScore,
              userdb_set_roles, VerifyFind, VerifySet, OtherBlocks
<1>3. ASSUME ServiceStep \/ UNCHANGED vars PROVE msg' = msg
  BY <1>3 DEF ServiceStep, vars, blockVars
<1> QED
  BY <1>1, <1>2, <1>3 DEF Next, BlockStep

\* The decision at ingest: a blocked user who is not astray gets nothing but an
\* appeal past it, unless an update of the cache is still under way.
THEOREM BlockedDropped == Spec => BlockedIsDropped
<1> DEFINE Drops ==
      msg.step = "decide" /\ msg'.step = "accepted" /\ msg.command # "appeal" =>
        LET u == Account(msg.from)
        IN u \in dir.blocked \ astray => Pending(u)
<1>1. AllInv /\ CacheInv /\ [Next]_vars => Drops
  <2> SUFFICES ASSUME AllInv, CacheInv, [Next]_vars,
                      msg.step = "decide", msg'.step = "accepted", msg.command # "appeal",
                      NEW u, u = Account(msg.from), u \in dir.blocked \ astray, ~Pending(u)
               PROVE  FALSE
    OBVIOUS
  <2>1. Decide
    BY DecideDecides
  <2>2. msg.from \notin cache
    BY <2>1 DEF Decide, is_identifier_blocked, AllInv, UInv, BlockTypes, Message
  <2>3. u \in dir.known
    BY DEF AllInv, UInv, ClientInv, DirectoryOf
  <2>4. Keys(dir, u) \subseteq cache
    BY <2>3 DEF CacheInv, HeldIn, AgreesIn, Shows, Pending, Overtakes, Marks
  <2>5. msg.from \in Keys(dir, u)
    <3>1. msg.from \in User \cup Handle
      BY DEF AllInv, UInv, BlockTypes, Message, Key
    <3> QED
      BY <3>1 DEF Account, Keys, Channels
  <2> QED
    BY <2>2, <2>4, <2>5
<1> QED
  BY <1>1, CacheInductive, PTL DEF Spec, BlockedIsDropped
================================================================================
