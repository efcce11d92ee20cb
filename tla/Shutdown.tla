-------------------------------- MODULE Shutdown --------------------------------
(***************************************************************************)
(* The engine_shutdown request: ShutdownSignal and engine_shutdown in      *)
(* queries.rs, the DatabaseQuery arm of the connection loop, the writer    *)
(* task, the disconnect cleanup and the main loop in main.rs.              *)
(*                                                                         *)
(* The task that reads a connection handles its queries one at a time and  *)
(* queues each answer; the connection's writer task writes the frames of   *)
(* the queue in order; both, and the main loop, run in parallel and share  *)
(* the stage of the signal and the shutdown_flush flag of the connection.  *)
(***************************************************************************)
EXTENDS Naturals, Sequences

CONSTANTS
  Conn,        \* the connections
  Capacity,    \* module_outbound_channel_capacity
  MaxQueries,  \* bound: queries, of all connections
  MaxPushes    \* bound: frames the engine sends of its own accord

ASSUME ShutdownAssumption ==
  /\ Capacity \in Nat \ {0}
  /\ MaxQueries \in Nat
  /\ MaxPushes \in Nat

VARIABLES
  stage,     \* ShutdownStage
  main,      \* the main loop: accepting, waiting for the answer, exited
  reader,    \* what the task that reads the connection is about to do
  was,       \* was_requested
  claims,    \* answered_with_shutdown
  queued,    \* the answer made it onto the outbound channel
  answer,    \* the answer to the query the reader handles
  queue,     \* the outbound channel
  writer,    \* what the writer task is about to do
  frame,     \* the frame it has taken
  flush,     \* shutdown_flush
  accepted,  \* history: connections whose shutdown request was accepted
  written,   \* history: connections whose accepting answer was written
  dropped,   \* history: connections whose accepting answer was not queued
  crowded,   \* history: see Handle and Arm
  used       \* how much of each bound is spent

signalVars  == <<stage, main>>
readerVars  == <<reader, was, claims, queued, answer>>
writerVars  == <<queue, writer, frame, flush>>
historyVars == <<accepted, written, dropped, crowded, used>>

vars == <<signalVars, readerVars, writerVars, historyVars>>

\* "accepting" answers an engine_shutdown that was accepted.
Frame == {"accepting", "other"}

TypeOK ==
  /\ stage \in {"idle", "requested", "answered"}
  /\ main \in {"accept", "wait", "exited"}
  /\ reader \in [Conn -> {"read", "handle", "check", "send", "arm", "flush", "gone"}]
  /\ was \in [Conn -> BOOLEAN]
  /\ claims \in [Conn -> BOOLEAN]
  /\ queued \in [Conn -> BOOLEAN]
  /\ answer \in [Conn -> Frame]
  /\ queue \in [Conn -> Seq(Frame)]
  /\ writer \in [Conn -> {"recv", "write", "landed", "gone"}]
  /\ frame \in [Conn -> Frame]
  /\ flush \in [Conn -> BOOLEAN]
  /\ accepted \subseteq Conn
  /\ written \subseteq Conn
  /\ dropped \subseteq Conn
  /\ crowded \subseteq Conn
  /\ used \in [queries : Nat, pushes : Nat]

Init ==
  /\ stage = "idle"
  /\ main = "accept"
  /\ reader = [c \in Conn |-> "read"]
  /\ was = [c \in Conn |-> FALSE]
  /\ claims = [c \in Conn |-> FALSE]
  /\ queued = [c \in Conn |-> FALSE]
  /\ answer = [c \in Conn |-> "other"]
  /\ queue = [c \in Conn |-> <<>>]
  /\ writer = [c \in Conn |-> "recv"]
  /\ frame = [c \in Conn |-> "other"]
  /\ flush = [c \in Conn |-> FALSE]
  /\ accepted = {}
  /\ written = {}
  /\ dropped = {}
  /\ crowded = {}
  /\ used = [queries |-> 0, pushes |-> 0]

--------------------------------------------------------------------------------
Running == main # "exited"

Reader(c, from, to) ==
  /\ Running
  /\ reader[c] = from
  /\ reader' = [reader EXCEPT ![c] = to]

Writer(c, from, to) ==
  /\ Running
  /\ writer[c] = from
  /\ writer' = [writer EXCEPT ![c] = to]

mark_answered == stage' = "answered"

\* A query's answer decides the exit from the moment the stage is read before
\* it until the stage is read after it.
Undecided(c) == reader[c] \in {"handle", "check"}

(***************************************************************************)
(* The task that reads the connection.                                     *)
(***************************************************************************)
Query(c) ==
  /\ used.queries < MaxQueries
  /\ Reader(c, "read", "handle")
  /\ was' = [was EXCEPT ![c] = stage = "requested"]
  /\ used' = [used EXCEPT !.queries = @ + 1]
  /\ UNCHANGED <<signalVars, claims, queued, answer, writerVars, accepted, written,
                 dropped, crowded>>

\* handle_query: an engine_shutdown that shutdown_on_request allows.  It is
\* crowded if another request came first, or if another connection is in the
\* middle of a query.
HandleShutdown(c) ==
  /\ Reader(c, "handle", "check")
  /\ stage' = "requested"
  /\ answer' = [answer EXCEPT ![c] = "accepting"]
  /\ accepted' = accepted \cup {c}
  /\ crowded' = IF stage # "idle" \/ \E d \in Conn \ {c} : Undecided(d)
                  THEN crowded \cup {c} ELSE crowded
  /\ UNCHANGED <<main, was, claims, queued, writerVars, written, dropped, used>>

\* Every other query, and an engine_shutdown that is refused.
HandleOther(c) ==
  /\ Reader(c, "handle", "check")
  /\ answer' = [answer EXCEPT ![c] = "other"]
  /\ UNCHANGED <<signalVars, was, claims, queued, writerVars, historyVars>>

\* Mutant: the stage after the query is not looked at.
NotRequestedBefore(c) == ~was[c]

answered_with_shutdown(c) == ~was[c] /\ stage = "requested"

Check(c) ==
  /\ Reader(c, "check", "send")
  /\ claims' = [claims EXCEPT ![c] = answered_with_shutdown(c)]
  /\ UNCHANGED <<signalVars, was, queued, answer, writerVars, historyVars>>

\* send_query_response: a closed channel counts as sent, a full one may not
\* drain in time.
Send(c) ==
  /\ Reader(c, "send", "arm")
  /\ \/ /\ writer[c] = "gone"
        /\ queued' = [queued EXCEPT ![c] = TRUE]
        /\ UNCHANGED <<queue, dropped>>
     \/ /\ writer[c] # "gone" /\ Len(queue[c]) < Capacity
        /\ queue' = [queue EXCEPT ![c] = Append(@, answer[c])]
        /\ queued' = [queued EXCEPT ![c] = TRUE]
        /\ UNCHANGED dropped
     \/ /\ writer[c] # "gone" /\ Len(queue[c]) = Capacity
        /\ queued' = [queued EXCEPT ![c] = FALSE]
        /\ dropped' = IF answer[c] = "accepting" THEN dropped \cup {c} ELSE dropped
        /\ UNCHANGED queue
  /\ UNCHANGED <<signalVars, was, claims, answer, writer, frame, flush, accepted,
                 written, crowded, used>>

\* The writer has a frame other than the answer before it.
Busy(c) ==
  \/ writer[c] \in {"write", "landed"} /\ frame[c] = "other"
  \/ queue[c] # <<>> /\ Head(queue[c]) = "other"

\* The flag is armed for the answer on the channel, or the exit is released if
\* the answer could not be queued.
Arm(c) ==
  /\ Reader(c, "arm", "read")
  /\ flush' = [flush EXCEPT ![c] = claims[c] /\ queued[c]]
  /\ IF claims[c] /\ ~queued[c] THEN mark_answered ELSE UNCHANGED stage
  /\ crowded' = IF answer[c] = "accepting" /\ Busy(c)
                  THEN crowded \cup {c} ELSE crowded
  /\ UNCHANGED <<main, was, claims, queued, answer, queue, writer, frame, accepted,
                 written, dropped, used>>

\* The loop ends: the peer closed, or the writer is gone.  The writer is
\* aborted where it waits for the channel or for the socket.
HangUp(c) ==
  /\ Reader(c, "read", "flush")
  /\ writer[c] # "landed"
  /\ writer' = [writer EXCEPT ![c] = "gone"]
  /\ queue' = [queue EXCEPT ![c] = <<>>]
  /\ UNCHANGED <<signalVars, was, claims, queued, answer, frame, flush, historyVars>>

\* The cleanup: no answer can reach the caller any more.
Release(c) ==
  /\ Reader(c, "flush", "gone")
  /\ flush' = [flush EXCEPT ![c] = FALSE]
  /\ IF flush[c] THEN mark_answered ELSE UNCHANGED stage
  /\ UNCHANGED <<main, was, claims, queued, answer, queue, writer, frame, historyVars>>

--------------------------------------------------------------------------------
(***************************************************************************)
(* The outbound channel and the writer task.                               *)
(***************************************************************************)
\* Messages, prompts and events for the module.
Push(c) ==
  /\ Running
  /\ used.pushes < MaxPushes
  /\ writer[c] # "gone" /\ Len(queue[c]) < Capacity
  /\ queue' = [queue EXCEPT ![c] = Append(@, "other")]
  /\ used' = [used EXCEPT !.pushes = @ + 1]
  /\ UNCHANGED <<signalVars, readerVars, writer, frame, flush, accepted, written,
                 dropped, crowded>>

Take(c) ==
  /\ queue[c] # <<>>
  /\ Writer(c, "recv", "write")
  /\ frame' = [frame EXCEPT ![c] = Head(queue[c])]
  /\ queue' = [queue EXCEPT ![c] = Tail(@)]
  /\ UNCHANGED <<signalVars, readerVars, flush, historyVars>>

Write(c) ==
  /\ Writer(c, "write", "landed")
  /\ written' = IF frame[c] = "accepting" THEN written \cup {c} ELSE written
  /\ UNCHANGED <<signalVars, readerVars, queue, frame, flush, accepted, dropped,
                 crowded, used>>

\* The send fails or times out.
WriteFails(c) ==
  /\ Writer(c, "write", "gone")
  /\ queue' = [queue EXCEPT ![c] = <<>>]
  /\ UNCHANGED <<signalVars, readerVars, frame, flush, historyVars>>

\* Mutant: every frame that lands releases the exit.
AnyFrame(c) == stage = "requested"

\* writer_flush was armed.
MayExit(c) == flush[c]

Landed(c) ==
  /\ Writer(c, "landed", "recv")
  /\ IF MayExit(c) THEN mark_answered ELSE UNCHANGED stage
  /\ flush' = [flush EXCEPT ![c] = FALSE]
  /\ UNCHANGED <<main, readerVars, queue, frame, historyVars>>

--------------------------------------------------------------------------------
(***************************************************************************)
(* The main loop.                                                          *)
(***************************************************************************)
CloseListener ==
  /\ main = "accept" /\ stage # "idle"
  /\ main' = "wait"
  /\ UNCHANGED <<stage, readerVars, writerVars, historyVars>>

\* Mutant: the wait has no bound.
Never == FALSE

\* The 5 seconds are over.
GivesUp == TRUE

Exit ==
  /\ main = "wait"
  /\ stage = "answered" \/ GivesUp
  /\ main' = "exited"
  /\ UNCHANGED <<stage, readerVars, writerVars, historyVars>>

--------------------------------------------------------------------------------
Handle(c) == HandleShutdown(c) \/ HandleOther(c)

ReaderStep(c) == Handle(c) \/ Check(c) \/ Send(c) \/ Arm(c) \/ Release(c)

WriterStep(c) == Take(c) \/ Write(c) \/ WriteFails(c) \/ Landed(c)

Next ==
  \/ \E c \in Conn : Query(c) \/ ReaderStep(c) \/ HangUp(c) \/ Push(c) \/ WriterStep(c)
  \/ CloseListener \/ Exit

Spec == Init /\ [][Next]_vars

\* The runtime runs every task on; a reader notices that its writer is gone;
\* the wait of the main loop ends by the answer or by its bound.  No peer need
\* ask anything or hang up.
Fairness ==
  /\ \A c \in Conn :
       /\ WF_vars(ReaderStep(c))
       /\ WF_vars(WriterStep(c))
       /\ WF_vars(writer[c] = "gone" /\ HangUp(c))
  /\ WF_vars(CloseListener)
  /\ WF_vars(Exit)

FairSpec == Spec /\ Fairness

--------------------------------------------------------------------------------
(***************************************************************************)
(* Properties.                                                             *)
(***************************************************************************)
\* The accepting answer of c has been written, or cannot be.
IsSettled(c) == c \in written \cup dropped \/ writer[c] = "gone"

\* The engine does not leave its accept loop unless it accepted a request,
\* whatever queries and writes run on its connections.
NoExitUnasked == main # "accept" => accepted # {}

\* A request that nothing crowds is answered before the stage says so.
UncrowdedIsAnswered ==
  stage = "answered" => \A c \in accepted \ crowded : IsSettled(c)

\* An accepted request ends the engine, even when no write confirms the answer:
\* "the 5s bound is a backstop".
RequestIsHonoured == stage # "idle" ~> main = "exited"

\* ShutdownStage::Answered: "The answer has been written to the caller's socket
\* (or the socket is gone, so no answer is possible any more)."  The code does not
\* keep this (see the README), and no run checks it.
AnsweredIsWritten == stage = "answered" => \A c \in accepted : IsSettled(c)
===============================================================================
