------------------------------ MODULE Streams ------------------------------
(***************************************************************************)
(* Stream streaks: StreamTracker (stream_rewards.rs), the log lines that   *)
(* open and close a stream, the rows of stream_streaks, and what a restart *)
(* leaves of them.                                                         *)
(*                                                                         *)
(* A user is an identifier as the tracker sees it: a person known to it by *)
(* a handle and by an account is two.  Streams are numbered in the order   *)
(* in which they open, in place of their fresh uuids.  Times, and with     *)
(* them the activity factor, are left out.                                 *)
(***************************************************************************)
EXTENDS Naturals, FiniteSets

CONSTANTS
  User,
  Conn,        \* the connections of the adapters
  Main,        \* the main task, which closes the stream on the way out
  MaxStreams,  \* bound: streams that are opened
  MaxBoots,    \* bound: boots after the first
  MaxFaults    \* bound: database calls that fail

ASSUME StreamsAssumption ==
  /\ Main \notin Conn
  /\ {MaxStreams, MaxBoots, MaxFaults} \subseteq Nat

NoStream == 0
Stream == 1 .. MaxStreams
Writer == Conn \cup {Main}

Streak == [stream : {NoStream} \cup Stream, count : 0 .. MaxStreams]
NoStreak == [stream |-> NoStream, count |-> 0]

VARIABLES
  phase,       \* "up", "exiting" (the listener is closed) or "down"
  opened,      \* how many streams were opened
  current,     \* current_stream_uuid
  previous,    \* previous_stream_uuid
  attendance,  \* who was seen in the current stream
  streaks,     \* the stream a user last attended, and how many in a row
  cache,       \* stream_streak_cache: the count a user is paid by, 0 when not yet asked
  table,       \* stream_streaks, on disk
  writes,      \* by task: the rows of a closed stream still to be upserted
  boots, faults,
  seen,        \* history: who attended a stream that has ended
  over,        \* history: the streams that have ended
  since,       \* history: the first stream of this boot
  spoiled      \* history: users whose last row was, or may be, lost

tracker == <<current, previous, attendance, streaks, cache>>
history == <<seen, over, since>>
vars == <<phase, opened, tracker, table, writes, boots, faults, history, spoiled>>

Row == [user : User, streak : Streak]

\* Mutant: the counts of the ended stream stay in the cache.
Kept == cache

Forgotten == [u \in User |-> 0]

TypeOK ==
  /\ phase \in {"up", "exiting", "down"}
  /\ opened \in 0 .. MaxStreams
  /\ {current, previous} \subseteq {NoStream} \cup Stream
  /\ attendance \subseteq User
  /\ current = NoStream => attendance = {} /\ cache = [u \in User |-> 0]
  /\ {streaks, table} \subseteq [User -> Streak]
  /\ cache \in [User -> 0 .. MaxStreams]
  /\ writes \in [Writer -> SUBSET Row]
  /\ boots \in 0 .. MaxBoots /\ faults \in 0 .. MaxFaults
  /\ seen \in [Stream -> SUBSET User] /\ over \subseteq Stream
  /\ since \in 1 .. MaxStreams + 1
  /\ spoiled \subseteq User

Init ==
  /\ phase = "up" /\ opened = 0
  /\ current = NoStream /\ previous = NoStream /\ attendance = {}
  /\ streaks = [u \in User |-> NoStreak] /\ cache = [u \in User |-> 0]
  /\ table = streaks
  /\ writes = [w \in Writer |-> {}]
  /\ boots = 0 /\ faults = 0
  /\ seen = [s \in Stream |-> {}] /\ over = {} /\ since = 1
  /\ spoiled = {}

Running == phase # "down"
Pending(u) == \E w \in Writer : \E r \in writes[w] : r.user = u
PendingUsers == {u \in User : Pending(u)}

--------------------------------------------------------------------------------
(***************************************************************************)
(* StreamTracker, each operation under its one lock.                       *)
(***************************************************************************)
\* Mutant: any streak goes on, whichever stream it was last counted in.
has_streak(u) == streaks[u].stream # NoStream

continues(u) == previous # NoStream /\ streaks[u].stream = previous

next_count(u) == IF continues(u) THEN streaks[u].count + 1 ELSE 1

\* What close_stream leaves in `streaks`; attendance is empty without a stream.
Advanced == [u \in User |-> IF u \in attendance
                              THEN [stream |-> current, count |-> next_count(u)]
                              ELSE streaks[u]]

Updated == {[user |-> u, streak |-> Advanced[u]] : u \in attendance}

\* The part close_stream and open_stream share.
close_stream ==
  /\ streaks' = Advanced
  /\ previous' = IF current = NoStream THEN previous ELSE current
  /\ attendance' = {}
  /\ cache' = Forgotten
  /\ IF current = NoStream
       THEN UNCHANGED <<seen, over>>
       ELSE seen' = [seen EXCEPT ![current] = attendance] /\ over' = over \cup {current}

\* A `[stream-start]` line.  The rows of a stream that was still open are
\* dropped: the tracker has them, the table does not.
open_stream(c) ==
  /\ Running /\ writes[c] = {} /\ opened < MaxStreams
  /\ close_stream
  /\ opened' = opened + 1 /\ current' = opened + 1
  /\ spoiled' = spoiled \cup attendance
  /\ UNCHANGED <<phase, table, writes, boots, faults, since>>

\* The rows of the stream that ends become the task's to write.  A new row
\* supersedes what was lost before, unless an older one is still on its way.
Flush(w) ==
  /\ close_stream
  /\ current' = NoStream
  /\ writes' = [writes EXCEPT ![w] = Updated]
  /\ spoiled' = (spoiled \ attendance) \cup (attendance \cap PendingUsers)

\* `[stream-end]`, "Live chat closed" or "Stream ended", from any module.
StreamEnds(c) ==
  /\ Running /\ writes[c] = {} /\ current # NoStream
  /\ Flush(c)
  /\ UNCHANGED <<phase, opened, table, boots, faults, since>>

\* Mutant: presence is noted with no stream open.
NoteAnyway(u) == attendance' = attendance \cup {u}

note_attendance(u) ==
  attendance' = IF current = NoStream THEN attendance ELSE attendance \cup {u}

\* An adapter's message, blocked or not.
Ingest(u) ==
  /\ Running
  /\ note_attendance(u)
  /\ UNCHANGED <<phase, opened, current, previous, streaks, cache, table, writes, boots,
                 faults, history, spoiled>>

\* Asked by userdb_adjust_score and by enrich_chat_user; the first answer of a
\* stream is kept.
multiplier(u) ==
  /\ Running /\ current # NoStream /\ cache[u] = 0
  /\ cache' = [cache EXCEPT ![u] = next_count(u)]
  /\ UNCHANGED <<phase, opened, current, previous, attendance, streaks, table, writes, boots,
                 faults, history, spoiled>>

--------------------------------------------------------------------------------
(***************************************************************************)
(* The table: a row is deleted, then inserted, under the database's lock.  *)
(***************************************************************************)
upsert_stream_streak(w) ==
  /\ Running
  /\ \E r \in writes[w] :
       /\ writes' = [writes EXCEPT ![w] = @ \ {r}]
       /\ \/ /\ table' = [table EXCEPT ![r.user] = r.streak]
             /\ UNCHANGED <<faults, spoiled>>
          \/ /\ faults < MaxFaults /\ faults' = faults + 1
             /\ table' \in {table, [table EXCEPT ![r.user] = NoStreak]}
             /\ spoiled' = spoiled \cup {r.user}
  /\ UNCHANGED <<phase, opened, tracker, boots, history>>

--------------------------------------------------------------------------------
(***************************************************************************)
(* The way out and the way back.                                           *)
(***************************************************************************)
\* Mutant: the process goes without closing the stream.
LeaveOpen(w) ==
  /\ current' = NoStream /\ close_stream
  /\ UNCHANGED <<writes, spoiled>>

FlushAtExit(w) == Flush(w)

\* The answer to the shutdown is confirmed, or not: the open stream is closed.
Shutdown ==
  /\ phase = "up"
  /\ phase' = "exiting"
  /\ FlushAtExit(Main)
  /\ UNCHANGED <<opened, table, boots, faults, since>>

\* What the process had in memory is gone.
Stop ==
  /\ phase' = "down"
  /\ current' = NoStream /\ previous' = NoStream /\ attendance' = {}
  /\ streaks' = [u \in User |-> NoStreak] /\ cache' = Forgotten
  /\ writes' = [w \in Writer |-> {}]
  /\ spoiled' = spoiled \cup PendingUsers
  /\ UNCHANGED <<opened, boots, faults, history>>

\* process::exit waits for the main task's rows, not for a connection's.
Exit ==
  /\ phase = "exiting" /\ writes[Main] = {}
  /\ Stop
  /\ UNCHANGED table

\* A row may have been deleted and not yet inserted.
Crash ==
  /\ Running
  /\ Stop
  /\ \/ UNCHANGED table
     \/ \E u \in PendingUsers : table' = [table EXCEPT ![u] = NoStreak]

\* load_streaks: the rows alone.  Which stream ended last is not among them.
load_streaks == streaks' = table

Boot ==
  /\ phase = "down" /\ boots < MaxBoots
  /\ phase' = "up" /\ boots' = boots + 1
  /\ since' = opened + 1
  /\ \/ load_streaks /\ UNCHANGED faults
     \/ faults < MaxFaults /\ faults' = faults + 1 /\ UNCHANGED streaks
  /\ UNCHANGED <<opened, current, previous, attendance, cache, table, writes, seen, over,
                 spoiled>>

Next ==
  \/ \E c \in Conn : open_stream(c) \/ StreamEnds(c)
  \/ \E u \in User : Ingest(u) \/ multiplier(u)
  \/ \E w \in Writer : upsert_stream_streak(w)
  \/ Shutdown \/ Exit \/ Crash \/ Boot

Spec == Init /\ [][Next]_vars

--------------------------------------------------------------------------------
(***************************************************************************)
(* Properties.                                                             *)
(***************************************************************************)
\* The ended streams of a row, from `first` to s, with u in every one of them.
Run(u, first, s) ==
  {t \in over : /\ t \in first .. s
                /\ \A x \in over : x \in t .. s => u \in seen[x]}

\* The last ended stream a user was seen in.
Last(u) ==
  IF \E s \in over : u \in seen[s]
    THEN CHOOSE s \in over : u \in seen[s] /\ \A t \in over : u \in seen[t] => t <= s
    ELSE NoStream

\* A streak is never longer than the user's attendance in a row, in memory or
\* on disk, and not shorter than the part of it this process has seen:
\* whoever closes a stream, however often the engine restarts, and whichever
\* writes are lost.
StreakIsEarned ==
  /\ \A u \in User :
       \A k \in {streaks[u], table[u]} : k.count <= Cardinality(Run(u, 1, k.stream))
  /\ \A u \in User :
       streaks[u].stream >= since =>
         streaks[u].count >= Cardinality(Run(u, since, streaks[u].stream))

\* A stream ends with the count its attendants were paid by while it lasted.
PaidAsCounted ==
  [][\A u \in attendance :
       over' # over /\ cache[u] # 0 => streaks'[u].count = cache[u]]_vars

\* Once no row of a user is on its way, the table names the last stream the
\* user was seen in, over exits, crashes and boots; except when a stream was
\* closed by the start of the next, when two closers write the same user at
\* once, and when a write failed or died with the process.
AttendanceIsSaved ==
  \A u \in User \ spoiled : ~Pending(u) => table[u].stream = Last(u)

\* A user who was in the stream that ended last, and is in this one, goes one
\* up.  "so a returning user's streak survives an engine restart" (main.rs).
StreakGoesOn ==
  [][\A u \in attendance :
       /\ over' # over
       /\ streaks[u].stream # NoStream
       /\ \A s \in over : s <= streaks[u].stream
       => streaks'[u].count = streaks[u].count + 1]_vars
================================================================================
