----------------------------- MODULE ConnectionGuard -----------------------------
(***************************************************************************)
(* The one door to the timeline database: locked, repair_after_panic,      *)
(* reopen_local and LocalGuard in database.rs.                             *)
(*                                                                         *)
(* Every task of the engine reaches the single connection through locked:  *)
(* it first repairs the connection if the last operation panicked, and     *)
(* then waits for the mutex.  The repair takes the mutex twice and opens   *)
(* the file in between, so several tasks may be repairing at once.  What a *)
(* task does while it holds the mutex is left to the module that extends   *)
(* this one.                                                               *)
(***************************************************************************)
EXTENDS Naturals

CONSTANTS
  Task,             \* the tasks that call the database
  NoTask,           \* the mutex is free
  MaxPanics,        \* bound: panics of the database library
  MaxOpenFailures   \* bound: openings of the file that fail

ASSUME GuardAssumption ==
  /\ NoTask \notin Task
  /\ {MaxPanics, MaxOpenFailures} \subseteq Nat

VARIABLES
  conn,          \* the connection behind the mutex
  needs_reopen,  \* a panic has poisoned it
  holder,        \* the task that holds the mutex
  step,          \* where each task is in locked
  late,          \* history: calls begun after the last panic
  raced,         \* history: the last panic met a repair about to clear the flag
  spent          \* how much of each bound is spent

guardVars == <<conn, needs_reopen, holder, step, late, raced, spent>>

GuardTypeOK ==
  /\ conn \in {"none", "good", "poisoned"}
  /\ needs_reopen \in BOOLEAN
  /\ holder \in Task \cup {NoTask}
  /\ step \in [Task -> {"idle", "take", "open", "put", "clear", "lock", "work"}]
  /\ \A t \in Task : step[t] = "work" <=> holder = t
  /\ late \subseteq Task
  /\ raced \in BOOLEAN
  /\ spent \in [panics : Nat, opens : Nat]

GuardInit ==
  /\ conn = "none"
  /\ needs_reopen = FALSE
  /\ holder = NoTask
  /\ step = [t \in Task |-> "idle"]
  /\ late = {}
  /\ raced = FALSE
  /\ spent = [panics |-> 0, opens |-> 0]

Step(t, from, to) ==
  /\ step[t] = from
  /\ step' = [step EXCEPT ![t] = to]

Free == holder = NoTask

--------------------------------------------------------------------------------
\* Mutant: the flag is not looked at.
CallWithoutRepair(t) ==
  /\ Step(t, "idle", "lock")
  /\ late' = late \cup {t}
  /\ UNCHANGED <<conn, needs_reopen, holder, raced, spent>>

\* locked looks at the flag once.
Call(t) ==
  /\ Step(t, "idle", IF needs_reopen THEN "take" ELSE "lock")
  /\ late' = late \cup {t}
  /\ UNCHANGED <<conn, needs_reopen, holder, raced, spent>>

\* reopen_local drops the connection before the file is opened again.
Take(t) ==
  /\ Free
  /\ Step(t, "take", "open")
  /\ conn' = "none"
  /\ UNCHANGED <<needs_reopen, holder, late, raced, spent>>

\* A failed opening is not reported: the call goes on to the mutex.
Open(t) ==
  /\ \/ Step(t, "open", "put") /\ UNCHANGED spent
     \/ /\ spent.opens < MaxOpenFailures
        /\ Step(t, "open", "lock")
        /\ spent' = [spent EXCEPT !.opens = @ + 1]
  /\ UNCHANGED <<conn, needs_reopen, holder, late, raced>>

Put(t) ==
  /\ Free
  /\ Step(t, "put", "clear")
  /\ conn' = "good"
  /\ raced' = FALSE
  /\ UNCHANGED <<needs_reopen, holder, late, spent>>

Clear(t) ==
  /\ Step(t, "clear", "lock")
  /\ needs_reopen' = FALSE
  /\ UNCHANGED <<conn, holder, late, raced, spent>>

\* Mutant: a second connection is cloned without the mutex.
LockAnyway(t) ==
  /\ Step(t, "lock", "work")
  /\ holder' = t
  /\ UNCHANGED <<conn, needs_reopen, late, raced, spent>>

Lock(t) ==
  /\ Free
  /\ Step(t, "lock", "work")
  /\ holder' = t
  /\ UNCHANGED <<conn, needs_reopen, late, raced, spent>>

\* The locking that a call needs before it can work.
Enter(t) == Call(t) \/ Take(t) \/ Open(t) \/ Put(t) \/ Clear(t) \/ Lock(t)

\* The guard is dropped.
Release(t) ==
  /\ Step(t, "work", "idle")
  /\ holder' = NoTask
  /\ late' = late \ {t}
  /\ UNCHANGED raced

\* LocalGuard::drop during the unwinding.  The calls that are under way looked
\* at the flag before this panic.
Panics(t) ==
  /\ spent.panics < MaxPanics
  /\ conn = "good"
  /\ Step(t, "work", "idle")
  /\ holder' = NoTask
  /\ conn' = "poisoned"
  /\ needs_reopen' = TRUE
  /\ late' = {}
  /\ raced' = (\E u \in Task : step[u] = "clear")
  /\ spent' = [spent EXCEPT !.panics = @ + 1]

\* An operation that panics or fails on a connection that is not good.
FailsOn(t) ==
  /\ conn # "good"
  /\ Release(t)
  /\ needs_reopen' \in {needs_reopen} \cup (IF conn = "poisoned" THEN {TRUE} ELSE {})
  /\ UNCHANGED <<conn, spent>>

\* An error inside a drain: the next call reopens.
MarkForReopen(t) ==
  /\ Release(t)
  /\ needs_reopen' = TRUE
  /\ UNCHANGED <<conn, spent>>

--------------------------------------------------------------------------------
\* database.rs:487-489: "If a previous operation panicked while holding the
\* connection, the connection is discarded and a fresh one opened before the
\* guard is handed out."  It holds of the calls begun after the panic, unless
\* another repair was about to clear the flag that the panic has set.
LateCallsAreServed ==
  ~raced => \A t \in late : step[t] = "work" => conn # "poisoned"
================================================================================
