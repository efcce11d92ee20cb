------------------------------- MODULE UserBlocks -------------------------------
(***************************************************************************)
(* Global blocks: the flag in the user database, and the engine's cache of *)
(* blocked identities that decides at ingest whether a message is dropped  *)
(* (queries.rs: userdb_block, userdb_unblock, userdb_split_channel and the *)
(* audit of appeals; pipeline.rs: the cache and the decision; main.rs: the *)
(* load of the cache and enrich_chat_user).                                *)
(*                                                                         *)
(* The cache is written after the answer of the service, outside of the    *)
(* mutex of the connection, and read by every ingest.  A user who is       *)
(* "astray" is one for whom the code lets cache and flag part, by one of   *)
(* the orders named at the actions; for all others the two must agree.     *)
(***************************************************************************)
EXTENDS UserDbClient

CONSTANTS
  Admin,   \* the connections that block and unblock: the TUI and a module
  Tui,     \* the one that may do more, of Admin
  MaxOps   \* bound: operations that are begun

ASSUME BlocksAssumption ==
  /\ Tui \in Admin
  /\ MaxOps \in Nat

VARIABLES
  cache,     \* blocked_users: account ids and the aliases of their channels
  bans,      \* module_bans: the identities the modules report
  task,      \* what each administrator's query is about to do
  load,      \* load_blocked_users: the pages read so far
  msg,       \* a message an adapter hands over
  appeal,    \* the held message of a blocked user who appeals
  astray,    \* history: users whose flag and cache may part
  pardoned,  \* history: users whose appeal was approved and unblocked
  ops        \* how much of the bound is spent

blockVars == <<cache, bans, task, load, msg, appeal, astray, pardoned, ops>>

Key == User \cup Handle

Task == [step : {"idle", "resolve", "write", "mark", "add"},
         op : {"none", "block", "unblock", "split"}, user : User \cup {Nobody},
         keys : SUBSET Key]
NoTask == [step |-> "idle", op |-> "none", user |-> Nobody, keys |-> {}]

Message == [step : {"none", "ingest", "decide", "accepted", "dropped"}, from : Key,
            command : {"other", "appeal"}, banned : BOOLEAN]

Appeal == [step : {"none", "held", "approved", "unblocked", "released"}, user : User \cup {Nobody}]

BlocksTypeOK ==
  /\ ClientTypeOK
  /\ cache \subseteq Key /\ bans \subseteq Key
  /\ task \in [Admin -> Task]
  /\ \A a \in Admin : task[a].step = "idle" => task[a] = NoTask
  /\ load \in [step : {"off", "pages", "done"}, left : SUBSET User, keys : SUBSET Key]
  /\ msg \in Message
  /\ appeal \in Appeal
  /\ {astray, pardoned} \subseteq SUBSET User
  /\ ops \in 0 .. MaxOps

BlocksInit ==
  /\ ClientInit
  /\ cache = {} /\ bans = {}
  /\ task = [a \in Admin |-> NoTask]
  /\ load = [step |-> "off", left |-> {}, keys |-> {}]
  /\ \E h \in Handle : msg = [step |-> "none", from |-> h, command |-> "other", banned |-> FALSE]
  /\ appeal = [step |-> "none", user |-> Nobody]
  /\ astray = {} /\ pardoned = {}
  /\ ops = 0

Keys(d, u) == {u} \cup Channels(d, u)

Begin ==
  /\ ops < MaxOps
  /\ ops' = ops + 1

\* The order of two answers is not the order of their updates of the cache.
Overtakes(u) == \E a \in Admin : task[a].step = "mark" /\ task[a].user = u

\* A page that was read before this answer replaces the cache after it.
OutdatesLoad(u) == load.step = "pages" /\ u \notin load.left

Parts(u) == IF Overtakes(u) \/ OutdatesLoad(u) THEN {u} ELSE {}

--------------------------------------------------------------------------------
(***************************************************************************)
(* userdb_block and userdb_unblock.                                        *)
(***************************************************************************)
StartBlock(a, op, u) ==
  /\ task[a].step = "idle"
  /\ Begin
  /\ task' = [task EXCEPT ![a] = [NoTask EXCEPT !.step = "resolve", !.op = op, !.user = u]]
  /\ UNCHANGED <<clientVars, cache, bans, load, msg, appeal, astray, pardoned>>

\* Mutant: what the query was about is left behind.
StopsAsItIs(a) == task' = [task EXCEPT ![a].step = "idle"]

Ends(a) == task' = [task EXCEPT ![a] = NoTask]

block_actor_has_authority(actor) == actor \in dir.mods

\* The actor is looked up, and the target when it is named by its channel.
resolve_block_actor_and_target(a) ==
  /\ task[a].step = "resolve"
  /\ \E actor \in dir.known :
       \/ /\ request([op |-> "get", user |-> actor])
          /\ IF block_actor_has_authority(actor)
               THEN task' = [task EXCEPT ![a].step = "write"]
               ELSE Ends(a)
       \/ /\ request_fails([op |-> "get", user |-> actor])
          /\ Ends(a)
  /\ UNCHANGED <<cache, bans, load, msg, appeal, astray, pardoned, ops>>

\* block_user and unblock_user: the answer carries the account with its channels.
WriteFlag(a) ==
  LET u == task[a].user
      r == [op |-> task[a].op, user |-> u]
  IN /\ task[a].step = "write"
     /\ \/ /\ request(r)
           /\ IF Accepts(dir, r)
                THEN /\ task' = [task EXCEPT ![a].step = "mark", ![a].keys = Keys(dir, u)]
                     /\ astray' = astray \cup Parts(u)
                     /\ pardoned' = pardoned \ {u}
                ELSE Ends(a) /\ UNCHANGED <<astray, pardoned>>
        \/ /\ request_fails(r)
           /\ Ends(a)
           /\ astray' = astray \cup {u}
           /\ UNCHANGED pardoned
     /\ UNCHANGED <<cache, bans, load, msg, appeal, ops>>

\* Mutant: the aliases of the account are left out.
mark_user_id(keys) == cache \cup (keys \cap User)

mark_user_blocked(keys) == cache \cup keys

mark_user_unblocked(keys) == cache \ keys

Mark(a) ==
  /\ task[a].step = "mark"
  /\ cache' = IF task[a].op = "block" THEN mark_user_blocked(task[a].keys)
                                      ELSE mark_user_unblocked(task[a].keys)
  /\ Ends(a)
  /\ UNCHANGED <<clientVars, bans, load, msg, appeal, astray, pardoned, ops>>

--------------------------------------------------------------------------------
(***************************************************************************)
(* userdb_split_channel: the channel is detached, then gets an account.    *)
(***************************************************************************)
Detach(u, h) ==
  LET r == [op |-> "remove_channel", channel |-> h, user |-> u]
  IN /\ task[Tui].step = "idle"
     /\ dir.owner[h] = u
     /\ Begin
     /\ \/ /\ request(r)
           /\ task' = [task EXCEPT ![Tui] = [NoTask EXCEPT !.step = "add", !.op = "split",
                                               !.keys = {h}]]
        \/ request_fails(r) /\ UNCHANGED task
     /\ UNCHANGED <<cache, bans, load, msg, appeal, astray, pardoned>>

\* add_user by whoever asks: a new account on a channel the cache may hold, for the
\* cache is not told that a channel changes hands.
Inherits(d, u, h) ==
  IF d.owner[h] = u /\ (\/ h \in cache \cup load.keys
                       \/ \E a \in Admin : task[a].step = "mark" /\ h \in task[a].keys)
    THEN {u} ELSE {}

AddSplit(h, new) ==
  LET r == [op |-> "add_user", channel |-> h, user |-> new]
  IN /\ task[Tui].step = "add" /\ h \in task[Tui].keys
     /\ Ends(Tui)
     /\ \/ request(r) /\ astray' = astray \cup Inherits(dir', new, h)
        \/ request_fails(r) /\ astray' = astray \cup {new}
     /\ UNCHANGED <<cache, bans, load, msg, appeal, pardoned, ops>>

--------------------------------------------------------------------------------
(***************************************************************************)
(* The appeal of a blocked user: held for audit, approved or rejected.     *)
(***************************************************************************)
HoldAppeal ==
  /\ msg.step = "accepted" /\ msg.command = "appeal"
  /\ appeal.step = "none"
  /\ appeal' = [step |-> "held", user |-> IF msg.from \in User THEN msg.from ELSE Nobody]
  /\ UNCHANGED <<clientVars, cache, bans, task, load, msg, astray, pardoned, ops>>

\* resolve_block_appeal: the flag is cleared; nothing touches the cache.  An appeal
\* of nobody the engine knows clears nothing.
ApproveAppeal ==
  LET u == appeal.user
      r == [op |-> "unblock", user |-> u]
  IN /\ appeal.step = "held"
     /\ Begin
     /\ appeal' = [appeal EXCEPT !.step = "unblocked"]
     /\ IF u = Nobody
          THEN UNCHANGED <<clientVars, astray, pardoned>>
          ELSE \/ /\ request(r)
                  /\ pardoned' = pardoned \cup {u}
                  /\ astray' = IF u \in dir.blocked THEN astray \cup {u} ELSE astray
               \/ /\ request_fails(r)
                  /\ astray' = astray \cup {u}
                  /\ UNCHANGED pardoned
     /\ UNCHANGED <<cache, bans, task, load, msg>>

RejectAppeal ==
  /\ appeal.step = "held"
  /\ Begin
  /\ appeal' = [appeal EXCEPT !.step = "released"]
  /\ UNCHANGED <<clientVars, cache, bans, task, load, msg, astray, pardoned>>

\* release_audit: the row may be approved again when this fails.
ReleaseAppeal ==
  /\ appeal.step = "unblocked"
  /\ appeal' \in {[appeal EXCEPT !.step = "released"], [appeal EXCEPT !.step = "held"]}
  /\ UNCHANGED <<clientVars, cache, bans, task, load, msg, astray, pardoned, ops>>

--------------------------------------------------------------------------------
(***************************************************************************)
(* The load of the cache, on the first answer of the service.              *)
(***************************************************************************)
StartLoad ==
  /\ load.step = "off"
  /\ load' = [step |-> "pages", left |-> User, keys |-> {}]
  /\ UNCHANGED <<clientVars, cache, bans, task, msg, appeal, astray, pardoned, ops>>

\* A load that fails is tried again from the first page.
LoadAgain == [step |-> "off", left |-> {}, keys |-> {}]

\* list_users: a page, of one account here.
LoadPage ==
  /\ load.step = "pages"
  /\ \E u \in load.left :
       \/ /\ request([op |-> "get", user |-> u])
          /\ load' = [load EXCEPT !.left = @ \ {u},
                        !.keys = @ \cup IF u \in dir.blocked THEN Keys(dir, u) ELSE {}]
       \/ /\ request_fails([op |-> "get", user |-> u])
          /\ load' = LoadAgain
  /\ UNCHANGED <<cache, bans, task, msg, appeal, astray, pardoned, ops>>

\* replace_blocked_users, over whatever was marked meanwhile.
ReplaceCache ==
  /\ load.step = "pages" /\ load.left = {}
  /\ cache' = load.keys
  /\ load' = [step |-> "done", left |-> {}, keys |-> {}]
  /\ UNCHANGED <<clientVars, bans, task, msg, appeal, astray, pardoned, ops>>

--------------------------------------------------------------------------------
(***************************************************************************)
(* Ingest: enrichment, if somebody wants it, then the decision.            *)
(***************************************************************************)
replace_module_bans(keys) ==
  /\ Begin
  /\ bans' = keys
  /\ UNCHANGED <<clientVars, cache, task, load, msg, appeal, astray, pardoned>>

Receive(h, command) ==
  /\ msg.step \in {"none", "accepted", "dropped"}
  /\ Begin
  /\ msg' = [step |-> "ingest", from |-> h, command |-> command, banned |-> FALSE]
  /\ UNCHANGED <<clientVars, cache, bans, task, load, appeal, astray, pardoned>>

\* should_fetch_user_data: a display, a catch-all or a command may want it.
NotFetched ==
  /\ msg.step = "ingest"
  /\ msg' = [msg EXCEPT !.step = "decide"]
  /\ UNCHANGED <<clientVars, cache, bans, task, load, appeal, astray, pardoned, ops>>

has_module_ban_for(d, u) == bans \cap Keys(d, u) # {}

\* enrich_chat_user: find the account or create it; a failure leaves the message as it is.
enrich_chat_user(new) ==
  LET h == msg.from
      r == [op |-> "add_user", channel |-> h, user |-> new]
      u == dir'.owner[h]
  IN /\ msg.step = "ingest"
     /\ \/ /\ request(r)
           /\ IF u = Nobody
                THEN msg' = [msg EXCEPT !.step = "decide"]
                ELSE msg' = [msg EXCEPT !.step = "decide", !.from = u,
                               !.banned = u \in dir.blocked \/ has_module_ban_for(dir', u)]
           /\ astray' = IF dir' # dir THEN astray \cup Inherits(dir', new, h) ELSE astray
        \/ /\ request_fails(r)
           /\ msg' = [msg EXCEPT !.step = "decide"]
           /\ astray' = IF dir.owner[h] = Nobody THEN astray \cup {new} ELSE astray
     /\ UNCHANGED <<cache, bans, task, load, appeal, pardoned, ops>>

\* Mutant: only account ids are looked up.
is_account_blocked(id) == id \in User /\ id \in cache \cup bans

is_identifier_blocked(id) == id \in cache \cup bans

Decide ==
  /\ msg.step = "decide"
  /\ msg' = [msg EXCEPT !.step =
               IF (msg.banned \/ is_identifier_blocked(msg.from)) /\ msg.command # "appeal"
                 THEN "dropped" ELSE "accepted"]
  /\ UNCHANGED <<clientVars, cache, bans, task, load, appeal, astray, pardoned, ops>>

--------------------------------------------------------------------------------
Blocks ==
  \/ \E a \in Admin :
       \/ \E op \in {"block", "unblock"}, u \in User : StartBlock(a, op, u)
       \/ resolve_block_actor_and_target(a)
       \/ WriteFlag(a) \/ Mark(a)
  \/ \E u \in User, h \in Handle : Detach(u, h)
  \/ \E h \in Handle : \E new \in AccountOf(h) : AddSplit(h, new)
  \/ HoldAppeal \/ ApproveAppeal \/ RejectAppeal \/ ReleaseAppeal
  \/ StartLoad \/ LoadPage \/ ReplaceCache
  \/ \E keys \in SUBSET Handle : replace_module_bans(keys)
  \/ \E h \in Handle, command \in {"other", "appeal"} : Receive(h, command)
  \/ NotFetched
  \/ \E new \in AccountOf(msg.from) : enrich_chat_user(new)
  \/ Decide

--------------------------------------------------------------------------------
(***************************************************************************)
(* Properties.                                                             *)
(***************************************************************************)
Pending(u) == Overtakes(u) \/ load.step # "done"

\* Flag and cache agree on every identity of a user, whoever blocked and unblocked
\* in whatever order, unless the user is astray (queries.rs:2376-2379).
CacheAgrees ==
  \A u \in dir.known \ astray :
    \/ Pending(u)
    \/ IF u \in dir.blocked THEN Keys(dir, u) \subseteq cache
                            ELSE Keys(dir, u) \cap cache = {}

Account(id) == IF id \in User THEN id ELSE dir.owner[id]

\* A blocked user gets nothing but an appeal into the pipeline, enriched or not, also
\* while others are being blocked and accounts are created (pipeline.rs:2394-2408).
BlockedIsDropped ==
  [][msg.step = "decide" /\ msg'.step = "accepted" /\ msg.command # "appeal" =>
       LET u == Account(msg.from)
       IN u \in dir.blocked \ astray => Pending(u)]_<<clientVars, blockVars>>

\* The engine performs the unblock on an approved appeal (queries.rs:2022-2023): the
\* messages of the user are not dropped any more.
ApprovalIsHeard ==
  \A u \in pardoned \ dir.blocked : Pending(u) \/ u \notin cache
================================================================================
