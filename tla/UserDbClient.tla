------------------------------ MODULE UserDbClient ------------------------------
(***************************************************************************)
(* The engine's one connection to the user database (user_db_client.rs),   *)
(* with as much of that service, which is another program, as the engine   *)
(* relies on.                                                              *)
(*                                                                         *)
(* Every task shares one socket behind one mutex, which is held from the   *)
(* send to the answer, and a request carries no id: the next frame is      *)
(* taken for its answer.  So a request and its answer are one step here.   *)
(* After 3 seconds without a connection or 5 without an answer the task    *)
(* gives up, and the service may still carry the request out.              *)
(***************************************************************************)
EXTENDS Integers, FiniteSets

CONSTANTS
  User,       \* account ids (uuid7)
  Handle,     \* platform channels; an adapter's handle and channel id are one
  Nobody,     \* the owner of a channel no account has
  StartScore, \* what an account has to spend at first
  MaxFaults   \* bound: requests without an answer

ASSUME ClientAssumption ==
  /\ Nobody \notin User
  /\ User \cap Handle = {}
  /\ {StartScore, MaxFaults} \subseteq Nat

VARIABLES
  dir,      \* the user database
  conn,     \* the connection, and how many answers it still owes
  late,     \* requests that were given up and may still be carried out
  swapped,  \* history: an answer was taken for that of a later request
  faults    \* how much of the bound is spent

clientVars == <<dir, conn, late, swapped, faults>>

Directory == [owner : [Handle -> User \cup {Nobody}], known : SUBSET User,
              blocked : SUBSET User, mods : SUBSET User, score : [User -> Int]]

Requests ==
  [op : {"get", "block", "unblock", "mod", "unmod", "deduct", "credit"}, user : User]
    \cup [op : {"remove_channel", "add_user"}, channel : Handle, user : User]

ClientTypeOK ==
  /\ dir \in Directory
  /\ conn \in [open : BOOLEAN, owed : Nat]
  /\ late \subseteq Requests
  /\ swapped \in BOOLEAN
  /\ faults \in 0 .. MaxFaults

\* One account with every channel, a moderator, perhaps blocked before the engine started.
ClientInit ==
  /\ \E first \in User : \E blocked \in SUBSET {first} :
       dir = [owner |-> [h \in Handle |-> first], known |-> {first}, blocked |-> blocked,
              mods |-> {first}, score |-> [u \in User |-> StartScore]]
  /\ conn = [open |-> FALSE, owed |-> 0]
  /\ late = {}
  /\ swapped = FALSE
  /\ faults = 0

Channels(d, u) == {h \in Handle : d.owner[h] = u}

--------------------------------------------------------------------------------
\* What the service refuses: an account it does not know, a price above the score.
Accepts(d, r) ==
  CASE r.op = "add_user" -> TRUE
    [] r.op = "deduct"   -> r.user \in d.known /\ d.score[r.user] > 0
    [] OTHER             -> r.user \in d.known

\* add_user finds the account of the channel, or creates it.
Carried(d, r) ==
  IF ~Accepts(d, r) THEN d
  ELSE CASE r.op = "get"     -> d
         [] r.op = "block"   -> [d EXCEPT !.blocked = @ \cup {r.user}]
         [] r.op = "unblock" -> [d EXCEPT !.blocked = @ \ {r.user}]
         [] r.op = "mod"     -> [d EXCEPT !.mods = @ \cup {r.user}]
         [] r.op = "unmod"   -> [d EXCEPT !.mods = @ \ {r.user}]
         [] r.op = "deduct"  -> [d EXCEPT !.score[r.user] = @ - 1]
         [] r.op = "credit"  -> [d EXCEPT !.score[r.user] = @ + 1]
         [] r.op = "remove_channel" ->
              [d EXCEPT !.owner[r.channel] = IF @ = r.user THEN Nobody ELSE @]
         [] r.op = "add_user" ->
              IF d.owner[r.channel] = Nobody /\ r.user \notin d.known
                THEN [d EXCEPT !.owner[r.channel] = r.user, !.known = @ \cup {r.user}]
                ELSE d

\* The account add_user would answer with, if there is an id left for a new one.
AccountOf(h) ==
  IF h \in Handle /\ dir.owner[h] # Nobody THEN {dir.owner[h]} ELSE User \ dir.known

--------------------------------------------------------------------------------
\* Mutant: the connection is kept after an error.
keep_connection == [open |-> TRUE, owed |-> conn.owed + 1]

drop_connection == [open |-> FALSE, owed |-> 0]

\* request: connect if need be, send, take the next frame.
request(r) ==
  /\ conn' = [conn EXCEPT !.open = TRUE]
  /\ swapped' = (swapped \/ conn.owed > 0)
  /\ dir' = Carried(dir, r)
  /\ UNCHANGED <<late, faults>>

\* No connection, no answer in time, or one that is not a response.
request_fails(r) ==
  /\ faults < MaxFaults
  /\ faults' = faults + 1
  /\ conn' = drop_connection
  /\ late' \in {late, late \cup {r}}
  /\ UNCHANGED <<dir, swapped>>

CarriedOutLate ==
  /\ \E r \in late :
       /\ late' = late \ {r}
       /\ dir' = Carried(dir, r)
  /\ UNCHANGED <<conn, swapped, faults>>

--------------------------------------------------------------------------------
\* A task never reads the answer to another task's request (user_db_client.rs:107-110):
\* without ids, only the dropped connection keeps a late answer from the next request.
NoAnswerIsSwapped == ~swapped
================================================================================
