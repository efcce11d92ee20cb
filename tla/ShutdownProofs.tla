----------------------------- MODULE ShutdownProofs -----------------------------
(***************************************************************************)
(* The engine leaves its accept loop only for a request it accepted, and   *)
(* a request that nothing crowds is answered before the stage says so, for *)
(* every number of connections and every capacity of their channels.       *)
(***************************************************************************)
EXTENDS Shutdown, TLAPS

(***************************************************************************)
(* Whatever could move the main loop on its way out: the stage, a claim on *)
(* the answer, an armed flag.  NoExitUnasked is not inductive without the  *)
(* last two: they move the stage later, when the query is long over.       *)
(***************************************************************************)
Asked ==
  \/ stage # "idle"
  \/ main # "accept"
  \/ \E c \in Conn : claims[c] \/ flush[c]

AskedIsAccepted == Asked => accepted # {}

\* The engine boots idle and accepting.
LEMMA TypeInit == Init => TypeOK
BY DEF Init, TypeOK, Frame

\* What is queued is a frame.
LEMMA AppendKeeps ==
  ASSUME NEW s \in Seq(Frame), NEW f \in Frame
  PROVE  Append(s, f) \in Seq(Frame)
OBVIOUS

\* Spending a bound leaves a count.
LEMMA Spent ==
  ASSUME NEW u \in [queries : Nat, pushes : Nat]
  PROVE  /\ [u EXCEPT !.queries = @ + 1] \in [queries : Nat, pushes : Nat]
         /\ [u EXCEPT !.pushes = @ + 1] \in [queries : Nat, pushes : Nat]
OBVIOUS

\* Every step keeps the types of the signal, the tasks and the channels.
LEMMA TypeStep == TypeOK /\ [Next]_vars => TypeOK'
<1> SUFFICES ASSUME TypeOK, [Next]_vars PROVE TypeOK'
  OBVIOUS
<1> USE DEF TypeOK, Frame, signalVars, readerVars, writerVars, historyVars
<1>1. ASSUME NEW c \in Conn, Query(c) PROVE TypeOK'
  <2>1. was' \in [Conn -> BOOLEAN]
    BY <1>1 DEF Query
  <2>2. used' \in [queries : Nat, pushes : Nat]
    BY <1>1, Spent DEF Query
  <2>3. reader' \in [Conn -> {"read", "handle", "check", "send", "arm", "flush", "gone"}]
    BY <1>1 DEF Query, Reader
  <2>. QED
    BY <1>1, <2>1, <2>2, <2>3 DEF Query
<1>2. ASSUME NEW c \in Conn, HandleShutdown(c) PROVE TypeOK'
  BY <1>2 DEF HandleShutdown, Reader
<1>3. ASSUME NEW c \in Conn, HandleOther(c) PROVE TypeOK'
  BY <1>3 DEF HandleOther, Reader
<1>4. ASSUME NEW c \in Conn, Check(c) PROVE TypeOK'
  BY <1>4 DEF Check, Reader, answered_with_shutdown
<1>5. ASSUME NEW c \in Conn, Send(c) PROVE TypeOK'
  <2>1. queue' \in [Conn -> Seq(Frame)]
    <3>1. Append(queue[c], answer[c]) \in Seq(Frame)
      BY AppendKeeps
    <3>. QED
      BY <1>5, <3>1 DEF Send
  <2>2. queued' \in [Conn -> BOOLEAN]
    BY <1>5 DEF Send
  <2>3. dropped' \subseteq Conn
    BY <1>5 DEF Send
  <2>4. reader' \in [Conn -> {"read", "handle", "check", "send", "arm", "flush", "gone"}]
    BY <1>5 DEF Send, Reader
  <2>. QED
    BY <1>5, <2>1, <2>2, <2>3, <2>4 DEF Send
<1>6. ASSUME NEW c \in Conn, Arm(c) PROVE TypeOK'
  BY <1>6 DEF Arm, Reader, mark_answered
<1>7. ASSUME NEW c \in Conn, HangUp(c) PROVE TypeOK'
  BY <1>7 DEF HangUp, Reader
<1>8. ASSUME NEW c \in Conn, Release(c) PROVE TypeOK'
  BY <1>8 DEF Release, Reader, mark_answered
<1>9. ASSUME NEW c \in Conn, Push(c) PROVE TypeOK'
  <2>1. queue' \in [Conn -> Seq(Frame)]
    <3>1. Append(queue[c], "other") \in Seq(Frame)
      BY AppendKeeps
    <3>. QED
      BY <1>9, <3>1 DEF Push
  <2>2. used' \in [queries : Nat, pushes : Nat]
    BY <1>9, Spent DEF Push
  <2>. QED
    BY <1>9, <2>1, <2>2 DEF Push
<1>10. ASSUME NEW c \in Conn, Take(c) PROVE TypeOK'
  BY <1>10 DEF Take, Writer
<1>11. ASSUME NEW c \in Conn, Write(c) PROVE TypeOK'
  BY <1>11 DEF Write, Writer
<1>12. ASSUME NEW c \in Conn, WriteFails(c) PROVE TypeOK'
  BY <1>12 DEF WriteFails, Writer
<1>13. ASSUME NEW c \in Conn, Landed(c) PROVE TypeOK'
  BY <1>13 DEF Landed, Writer, mark_answered, MayExit
<1>14. ASSUME CloseListener PROVE TypeOK'
  BY <1>14 DEF CloseListener
<1>15. ASSUME Exit PROVE TypeOK'
  BY <1>15 DEF Exit
<1>16. ASSUME UNCHANGED vars PROVE TypeOK'
  BY <1>16 DEF vars
<1>. QED
  BY <1>1, <1>2, <1>3, <1>4, <1>5, <1>6, <1>7, <1>8, <1>9, <1>10, <1>11, <1>12, <1>13, <1>14, <1>15, <1>16
  DEF Next, ReaderStep, WriterStep, Handle

\* The signal, the tasks of every connection and their channels keep their
\* types.
THEOREM ShutdownTypeCorrect == Spec => []TypeOK
<1>. QED
  BY TypeInit, TypeStep, PTL DEF Spec

\* Claims, armed flags and the stage all come from an accepted request.
LEMMA AskedStep == TypeOK /\ AskedIsAccepted /\ [Next]_vars => AskedIsAccepted'
<1> SUFFICES ASSUME TypeOK, AskedIsAccepted, [Next]_vars PROVE AskedIsAccepted'
  OBVIOUS
<1> USE DEF TypeOK, AskedIsAccepted, Asked, signalVars, readerVars, writerVars, historyVars
<1>1. ASSUME NEW c \in Conn, Query(c) PROVE AskedIsAccepted'
  BY <1>1 DEF Query, Reader
<1>2. ASSUME NEW c \in Conn, HandleShutdown(c) PROVE AskedIsAccepted'
  BY <1>2 DEF HandleShutdown, Reader
<1>3. ASSUME NEW c \in Conn, HandleOther(c) PROVE AskedIsAccepted'
  BY <1>3 DEF HandleOther, Reader
<1>4. ASSUME NEW c \in Conn, Check(c) PROVE AskedIsAccepted'
  BY <1>4 DEF Check, Reader, answered_with_shutdown
<1>5. ASSUME NEW c \in Conn, Send(c) PROVE AskedIsAccepted'
  BY <1>5 DEF Send, Reader
<1>6. ASSUME NEW c \in Conn, Arm(c) PROVE AskedIsAccepted'
  BY <1>6 DEF Arm, Reader, mark_answered
<1>7. ASSUME NEW c \in Conn, HangUp(c) PROVE AskedIsAccepted'
  BY <1>7 DEF HangUp, Reader
<1>8. ASSUME NEW c \in Conn, Release(c) PROVE AskedIsAccepted'
  BY <1>8 DEF Release, Reader, mark_answered
<1>9. ASSUME NEW c \in Conn, Push(c) PROVE AskedIsAccepted'
  BY <1>9 DEF Push
<1>10. ASSUME NEW c \in Conn, Take(c) PROVE AskedIsAccepted'
  BY <1>10 DEF Take, Writer
<1>11. ASSUME NEW c \in Conn, Write(c) PROVE AskedIsAccepted'
  BY <1>11 DEF Write, Writer
<1>12. ASSUME NEW c \in Conn, WriteFails(c) PROVE AskedIsAccepted'
  BY <1>12 DEF WriteFails, Writer
<1>13. ASSUME NEW c \in Conn, Landed(c) PROVE AskedIsAccepted'
  BY <1>13 DEF Landed, Writer, mark_answered, MayExit
<1>14. ASSUME CloseListener PROVE AskedIsAccepted'
  BY <1>14 DEF CloseListener
<1>15. ASSUME Exit PROVE AskedIsAccepted'
  BY <1>15 DEF Exit
<1>16. ASSUME UNCHANGED vars PROVE AskedIsAccepted'
  BY <1>16 DEF vars
<1>. QED
  BY <1>1, <1>2, <1>3, <1>4, <1>5, <1>6, <1>7, <1>8, <1>9, <1>10, <1>11, <1>12, <1>13, <1>14, <1>15, <1>16
  DEF Next, ReaderStep, WriterStep, Handle

\* No interleaving of queries, writes and disconnects makes the engine close its
\* listener, let alone exit, before it accepted an engine_shutdown.
THEOREM NoExitBeforeRequest == Spec => []NoExitUnasked
<1>1. Init => TypeOK /\ AskedIsAccepted
  <2>1. Init => AskedIsAccepted
    BY DEF Init, AskedIsAccepted, Asked
  <2>. QED
    BY <2>1, TypeInit
<1>2. (TypeOK /\ AskedIsAccepted) /\ [Next]_vars => (TypeOK /\ AskedIsAccepted)'
  BY TypeStep, AskedStep
<1>3. AskedIsAccepted => NoExitUnasked
  BY DEF AskedIsAccepted, Asked, NoExitUnasked
<1>. QED
  BY <1>1, <1>2, <1>3, PTL DEF Spec

--------------------------------------------------------------------------------
(***************************************************************************)
(* A request that nothing crowds.  While it waits for its answer no other  *)
(* connection may move the stage, and its own flag is armed only if the    *)
(* next frame that lands is the answer.                                    *)
(***************************************************************************)
\* Before the first request nobody claims anything.
IdleInv ==
  stage = "idle" => accepted = {} /\ \A d \in Conn : ~claims[d] /\ ~flush[d]

LandedInv == \A c \in Conn : writer[c] = "landed" /\ frame[c] = "accepting" => c \in written

\* Who hangs up has aborted the writer.
HungUpInv == \A c \in Conn : reader[c] = "flush" => writer[c] = "gone"

\* The answer is somewhere on its way to the socket.
OnItsWay(c) ==
  \/ writer[c] = "write" /\ frame[c] = "accepting"
  \/ \E i \in 1 .. Len(queue[c]) : queue[c][i] = "accepting"

\* It is the next frame that lands.
IsNext(c) ==
  \/ writer[c] = "write" /\ frame[c] = "accepting"
  \/ writer[c] = "recv" /\ queue[c] # <<>> /\ Head(queue[c]) = "accepting"

\* The first query of c that is accepted claims the answer, no later one does.
OwnClaim(c) ==
  /\ reader[c] = "handle" => was[c]
  /\ reader[c] = "check" => was[c] \/ answer[c] = "accepting"
  /\ reader[c] = "send" /\ claims[c] => answer[c] = "accepting"
  /\ reader[c] = "arm" /\ claims[c] => answer[c] = "accepting" /\ queued[c] /\ OnItsWay(c)

\* A connection that has no part in the request.
Bystander(d) == ~flush[d] /\ ~claims[d] /\ (Undecided(d) => was[d])

Waiting(c) ==
  /\ stage = "requested"
  /\ \A d \in Conn \ {c} : Bystander(d)
  /\ OwnClaim(c)
  /\ flush[c] => IsNext(c)

AnswerInv ==
  /\ IdleInv
  /\ LandedInv
  /\ HungUpInv
  /\ \A c \in accepted \ crowded : IsSettled(c) \/ Waiting(c)

\* What is settled stays settled.
LEMMA SettledStays ==
  ASSUME TypeOK, [Next]_vars, NEW f \in Conn, IsSettled(f)
  PROVE  IsSettled(f)'
<1> USE DEF TypeOK, IsSettled
<1>1. written \subseteq written' /\ dropped \subseteq dropped'
  BY DEF Next, ReaderStep, WriterStep, Handle, Query, HandleShutdown, HandleOther, Check, Send,
         Arm, HangUp, Release, Push, Take, Write, WriteFails, Landed, CloseListener, Exit,
         vars, readerVars, writerVars, historyVars
<1>2. writer[f] = "gone" => writer'[f] = "gone"
  BY DEF Next, ReaderStep, WriterStep, Handle, Query, HandleShutdown, HandleOther, Check, Send,
         Arm, HangUp, Release, Push, Take, Write, WriteFails, Landed, CloseListener, Exit,
         vars, readerVars, writerVars, historyVars, Writer
<1> QED
  BY <1>1, <1>2

\* Until the first request nobody has anything to claim.
LEMMA IdleStep == TypeOK /\ IdleInv /\ [Next]_vars => IdleInv'
<1> SUFFICES ASSUME TypeOK, IdleInv, [Next]_vars, stage' = "idle"
             PROVE  accepted' = {} /\ \A d \in Conn : ~claims'[d] /\ ~flush'[d]
  BY DEF IdleInv
<1> USE DEF TypeOK, IdleInv
<1>1. stage = "idle"
  BY DEF Next, ReaderStep, WriterStep, Handle, Query, HandleShutdown, HandleOther, Check, Send,
         Arm, HangUp, Release, Push, Take, Write, WriteFails, Landed, CloseListener, Exit,
         vars, signalVars, historyVars, mark_answered
<1>2. accepted' = accepted
  BY DEF Next, ReaderStep, WriterStep, Handle, Query, HandleShutdown, HandleOther, Check, Send,
         Arm, HangUp, Release, Push, Take, Write, WriteFails, Landed, CloseListener, Exit,
         vars, historyVars
<1>3. \A d \in Conn : ~claims'[d]
  BY <1>1
  DEF Next, ReaderStep, WriterStep, Handle, Query, HandleShutdown, HandleOther, Check, Send,
      Arm, HangUp, Release, Push, Take, Write, WriteFails, Landed, CloseListener, Exit,
      vars, readerVars, answered_with_shutdown
<1>4. \A d \in Conn : ~flush'[d]
  BY <1>1
  DEF Next, ReaderStep, WriterStep, Handle, Query, HandleShutdown, HandleOther, Check, Send,
      Arm, HangUp, Release, Push, Take, Write, WriteFails, Landed, CloseListener, Exit,
      vars, writerVars
<1> QED
  BY <1>1, <1>2, <1>3, <1>4

\* A frame lands when it is written.
LEMMA LandedStep == TypeOK /\ LandedInv /\ [Next]_vars => LandedInv'
<1> SUFFICES ASSUME TypeOK, LandedInv, [Next]_vars, NEW c \in Conn,
                    writer'[c] = "landed", frame'[c] = "accepting"
             PROVE  c \in written'
  BY DEF LandedInv
<1> USE DEF TypeOK, LandedInv
<1>1. CASE Write(c)
  BY <1>1 DEF Write, Writer
<1>2. CASE ~Write(c)
  <2>1. writer[c] = "landed" /\ frame[c] = "accepting"
    BY <1>2
    DEF Next, ReaderStep, WriterStep, Handle, Query, HandleShutdown, HandleOther, Check, Send,
        Arm, HangUp, Release, Push, Take, Write, WriteFails, Landed, CloseListener, Exit,
        vars, readerVars, writerVars, historyVars, Writer
  <2>2. written \subseteq written'
    BY DEF Next, ReaderStep, WriterStep, Handle, Query, HandleShutdown, HandleOther, Check, Send,
           Arm, HangUp, Release, Push, Take, Write, WriteFails, Landed, CloseListener, Exit,
           vars, readerVars, writerVars, historyVars
  <2> QED
    BY <2>1, <2>2
<1> QED
  BY <1>1, <1>2

\* A frame that is appended takes no other's place.
LEMMA AppendedLast ==
  ASSUME NEW s \in Seq(Frame), NEW f \in Frame
  PROVE  /\ Append(s, f) # <<>>
         /\ s # <<>> => Head(Append(s, f)) = Head(s)
         /\ \A i \in 1 .. Len(s) : Append(s, f)[i] = s[i]
         /\ Len(Append(s, f)) = Len(s) + 1
         /\ Append(s, f)[Len(s) + 1] = f
<1>1. Len(Append(s, f)) = Len(s) + 1 /\ Append(s, f)[Len(s) + 1] = f
  OBVIOUS
<1>2. \A i \in 1 .. Len(s) : Append(s, f)[i] = s[i]
  OBVIOUS
<1>3. Append(s, f) # <<>>
  BY <1>1
<1>4. s # <<>> => Head(Append(s, f)) = Head(s)
  OBVIOUS
<1> QED
  BY <1>1, <1>2, <1>3, <1>4

\* What is in a queue is its head or in its tail.
LEMMA HeadOrTail ==
  ASSUME NEW s \in Seq(Frame), s # <<>>, NEW f, \E i \in 1 .. Len(s) : s[i] = f
  PROVE  Head(s) = f \/ \E i \in 1 .. Len(Tail(s)) : Tail(s)[i] = f
<1> PICK i \in 1 .. Len(s) : s[i] = f
  OBVIOUS
<1>1. CASE i = 1
  BY <1>1
<1>2. CASE i # 1
  <2>1. Len(Tail(s)) = Len(s) - 1 /\ i - 1 \in 1 .. Len(Tail(s))
    BY <1>2
  <2>2. Tail(s)[i - 1] = s[i]
    BY <1>2, <2>1
  <2> QED
    BY <2>1, <2>2
<1> QED
  BY <1>1, <1>2

\* A step of another connection does not disturb an answer that is waited for.
LEMMA OthersWait ==
  ASSUME TypeOK, NEW f \in Conn, f \notin crowded, Waiting(f), NEW c \in Conn \ {f},
         Query(c) \/ ReaderStep(c) \/ HangUp(c) \/ Push(c) \/ WriterStep(c)
  PROVE  Waiting(f)'
<1> USE DEF TypeOK
<1>1. /\ reader'[f] = reader[f] /\ was'[f] = was[f] /\ claims'[f] = claims[f]
      /\ queued'[f] = queued[f] /\ answer'[f] = answer[f]
  BY DEF ReaderStep, WriterStep, Handle, Query, HandleShutdown, HandleOther, Check, Send,
         Arm, HangUp, Release, Push, Take, Write, WriteFails, Landed, readerVars, Reader
<1>2. writer'[f] = writer[f] /\ frame'[f] = frame[f] /\ queue'[f] = queue[f] /\ flush'[f] = flush[f]
  BY DEF ReaderStep, WriterStep, Handle, Query, HandleShutdown, HandleOther, Check, Send,
         Arm, HangUp, Release, Push, Take, Write, WriteFails, Landed, writerVars, Writer
<1>3. \A d \in Conn \ {f} : Bystander(d)
  BY DEF Waiting
<1>4. stage = "requested"
  BY DEF Waiting
<1>5. stage' = "requested"
  BY <1>3, <1>4
  DEF ReaderStep, WriterStep, Handle, Query, HandleShutdown, HandleOther, Check, Send,
      Arm, HangUp, Release, Push, Take, Write, WriteFails, Landed, signalVars, Bystander,
      MayExit
<1>6. ASSUME NEW d \in Conn \ {f} PROVE Bystander(d)'
  <2>1. Bystander(d) /\ Bystander(c)
    BY <1>3
  <2>2. ~claims'[d]
    BY <2>1
    DEF ReaderStep, WriterStep, Handle, Query, HandleShutdown, HandleOther, Check, Send,
        Arm, HangUp, Release, Push, Take, Write, WriteFails, Landed, readerVars, Bystander,
        answered_with_shutdown, Undecided, Reader
  <2>3. ~flush'[d]
    BY <2>1
    DEF ReaderStep, WriterStep, Handle, Query, HandleShutdown, HandleOther, Check, Send,
        Arm, HangUp, Release, Push, Take, Write, WriteFails, Landed, writerVars, Bystander
  <2>4. reader'[d] \in {"handle", "check"} => was'[d]
    BY <1>4, <2>1
    DEF ReaderStep, WriterStep, Handle, Query, HandleShutdown, HandleOther, Check, Send,
        Arm, HangUp, Release, Push, Take, Write, WriteFails, Landed, readerVars, Bystander,
        Undecided, Reader
  <2> QED
    BY <2>2, <2>3, <2>4 DEF Bystander, Undecided
<1> QED
  BY <1>1, <1>2, <1>5, <1>6 DEF Waiting, OwnClaim, OnItsWay, IsNext

\* The connection itself writes the answer, or goes on without ever claiming another.
LEMMA SelfWaits ==
  ASSUME TypeOK, LandedInv, HungUpInv, NEW f \in Conn, Waiting(f), ~IsSettled(f),
         f \notin crowded',
         Query(f) \/ ReaderStep(f) \/ HangUp(f) \/ Push(f) \/ WriterStep(f)
  PROVE  IsSettled(f)' \/ Waiting(f)'
<1> USE DEF TypeOK
<1>1. /\ stage = "requested" /\ OwnClaim(f) /\ (flush[f] => IsNext(f))
      /\ \A d \in Conn \ {f} : Bystander(d)
  BY DEF Waiting
<1>2. ASSUME NEW d \in Conn \ {f} PROVE Bystander(d)'
  <2>1. reader'[d] = reader[d] /\ was'[d] = was[d] /\ claims'[d] = claims[d] /\ flush'[d] = flush[d]
    BY DEF ReaderStep, WriterStep, Handle, Query, HandleShutdown, HandleOther, Check, Send,
           Arm, HangUp, Release, Push, Take, Write, WriteFails, Landed, readerVars, writerVars,
           Reader
  <2> QED
    BY <1>1, <2>1 DEF Bystander, Undecided
<1>3. SUFFICES \/ stage' = "requested" /\ OwnClaim(f)' /\ (flush'[f] => IsNext(f)')
               \/ IsSettled(f)'
  BY <1>2 DEF Waiting
<1>4. f \notin crowded
  BY DEF ReaderStep, WriterStep, Handle, Query, HandleShutdown, HandleOther, Check, Send,
         Arm, HangUp, Release, Push, Take, Write, WriteFails, Landed, historyVars
<1>5. CASE Query(f)
  BY <1>1, <1>5 DEF Query, Reader, OwnClaim, OnItsWay, IsNext, signalVars, writerVars
<1>6. CASE HandleShutdown(f)
  BY <1>1, <1>6 DEF HandleShutdown
<1>7. CASE HandleOther(f)
  BY <1>1, <1>7 DEF HandleOther, Reader, OwnClaim, OnItsWay, IsNext, signalVars, writerVars
<1>8. CASE Check(f)
  BY <1>1, <1>8 DEF Check, Reader, answered_with_shutdown, OwnClaim, OnItsWay, IsNext, signalVars,
                    writerVars
<1>9. CASE Send(f)
  <2>1. /\ reader[f] = "send" /\ reader'[f] = "arm"
        /\ UNCHANGED <<stage, claims, answer, writer, frame, flush>>
    BY <1>9 DEF Send, Reader, signalVars
  <2>2. claims[f] => answer[f] = "accepting"
    BY <1>1, <2>1 DEF OwnClaim
  <2>3. CASE queued'[f] = TRUE /\ queue' = [queue EXCEPT ![f] = Append(@, answer[f])]
    <3>1. queue'[f] = Append(queue[f], answer[f])
      BY <2>3
    <3>2. flush'[f] => IsNext(f)'
      BY <1>1, <2>1, <3>1, AppendedLast DEF IsNext
    <3>3. Len(queue[f]) + 1 \in 1 .. Len(queue'[f]) /\ queue'[f][Len(queue[f]) + 1] = answer[f]
      <4>1. Len(queue[f]) \in Nat
        OBVIOUS
      <4> QED
        BY <3>1, <4>1, AppendedLast
    <3>4. claims[f] => OnItsWay(f)'
      BY <2>2, <3>3 DEF OnItsWay
    <3> QED
      BY <1>1, <2>1, <2>2, <2>3, <3>2, <3>4 DEF OwnClaim
  <2>4. CASE dropped' = IF answer[f] = "accepting" THEN dropped \cup {f} ELSE dropped
    <3>1. CASE answer[f] = "accepting"
      BY <2>4, <3>1 DEF IsSettled
    <3>2. CASE answer[f] # "accepting"
      <4>1. CASE queue' = queue
        BY <1>1, <2>1, <2>2, <3>2, <4>1 DEF OwnClaim, IsNext
      <4>2. CASE queue' # queue
        BY <1>9, <2>3, <4>2 DEF Send
      <4> QED
        BY <4>1, <4>2
    <3> QED
      BY <3>1, <3>2
  <2>5. writer[f] # "gone"
    BY DEF IsSettled
  <2> QED
    BY <1>9, <2>3, <2>4, <2>5 DEF Send
<1>10. CASE Arm(f)
  <2>1. /\ reader[f] = "arm" /\ reader'[f] = "read"
        /\ UNCHANGED <<claims, queued, answer, queue, writer, frame>>
        /\ flush'[f] = (claims[f] /\ queued[f])
    BY <1>10 DEF Arm, Reader
  <2>2. claims[f] => answer[f] = "accepting" /\ queued[f] /\ OnItsWay(f)
    BY <1>1, <2>1 DEF OwnClaim
  <2>3. stage' = "requested"
    BY <1>1, <1>10, <2>2 DEF Arm
  <2>4. ASSUME claims[f] PROVE IsNext(f)'
    <3>1. ~Busy(f)
      BY <1>10, <2>2, <2>4 DEF Arm
    <3>2. writer[f] # "gone" /\ ~(writer[f] = "landed" /\ frame[f] = "accepting")
      BY DEF IsSettled, LandedInv
    <3>3. frame[f] \in Frame /\ (queue[f] # <<>> => Head(queue[f]) \in Frame)
      <4>1. queue[f] \in Seq(Frame) /\ frame[f] \in Frame
        OBVIOUS
      <4> QED
        BY <4>1
    <3>4. CASE writer[f] = "recv"
      <4>1. queue[f] # <<>>
        <5>1. PICK i \in 1 .. Len(queue[f]) : queue[f][i] = "accepting"
          BY <2>2, <2>4, <3>4 DEF OnItsWay
        <5> QED
          BY <5>1
      <4> QED
        BY <2>1, <3>1, <3>3, <3>4, <4>1 DEF IsNext, Busy, Frame
    <3>5. CASE writer[f] \in {"write", "landed"}
      BY <2>1, <3>1, <3>2, <3>3, <3>5 DEF IsNext, Busy, Frame
    <3> QED
      BY <3>2, <3>4, <3>5
  <2> QED
    BY <2>1, <2>3, <2>4 DEF OwnClaim
<1>11. CASE HangUp(f)
  BY <1>11 DEF HangUp, IsSettled
<1>12. CASE Release(f)
  BY <1>12 DEF Release, Reader, IsSettled, HungUpInv
<1>13. CASE Push(f)
  <2>1. /\ queue'[f] = Append(queue[f], "other")
        /\ UNCHANGED <<stage, reader, was, claims, queued, answer, writer, frame, flush>>
    BY <1>13 DEF Push, signalVars, readerVars
  <2>2. queue[f] \in Seq(Frame) /\ "other" \in Frame
    BY DEF Frame
  <2>3. /\ queue[f] # <<>> => queue'[f] # <<>> /\ Head(queue'[f]) = Head(queue[f])
        /\ \A i \in 1 .. Len(queue[f]) : i \in 1 .. Len(queue'[f]) /\ queue'[f][i] = queue[f][i]
    <3>1. Len(queue[f]) \in Nat /\ Len(queue'[f]) = Len(queue[f]) + 1
      BY <2>1, <2>2, AppendedLast
    <3>2. \A i \in 1 .. Len(queue[f]) : queue'[f][i] = queue[f][i]
      BY <2>1, <2>2, AppendedLast
    <3>3. queue[f] # <<>> => queue'[f] # <<>> /\ Head(queue'[f]) = Head(queue[f])
      <4>1. /\ Append(queue[f], "other") # <<>>
            /\ queue[f] # <<>> => Head(Append(queue[f], "other")) = Head(queue[f])
        BY <2>2, AppendedLast
      <4> QED
        BY <2>1, <4>1
    <3> QED
      BY <3>1, <3>2, <3>3
  <2>4. IsNext(f) => IsNext(f)'
    BY <2>1, <2>3 DEF IsNext
  <2>5. OnItsWay(f) => OnItsWay(f)'
    BY <2>1, <2>3 DEF OnItsWay
  <2> QED
    BY <1>1, <2>1, <2>4, <2>5 DEF OwnClaim
<1>14. CASE Take(f)
  <2>1. /\ queue[f] # <<>> /\ writer[f] = "recv" /\ writer'[f] = "write"
        /\ frame'[f] = Head(queue[f]) /\ queue'[f] = Tail(queue[f])
        /\ UNCHANGED <<stage, reader, was, claims, queued, answer, flush>>
    BY <1>14 DEF Take, Writer, signalVars, readerVars
  <2>2. IsNext(f) => IsNext(f)'
    BY <2>1 DEF IsNext
  <2>3. OnItsWay(f) => OnItsWay(f)'
    <3> SUFFICES ASSUME OnItsWay(f) PROVE OnItsWay(f)'
      OBVIOUS
    <3>1. queue[f] \in Seq(Frame) /\ \E i \in 1 .. Len(queue[f]) : queue[f][i] = "accepting"
      BY <2>1 DEF OnItsWay
    <3>2. \/ Head(queue[f]) = "accepting"
          \/ \E i \in 1 .. Len(Tail(queue[f])) : Tail(queue[f])[i] = "accepting"
      BY <2>1, <3>1, HeadOrTail
    <3> QED
      BY <2>1, <3>2 DEF OnItsWay
  <2> QED
    BY <1>1, <2>1, <2>2, <2>3 DEF OwnClaim
<1>15. CASE Write(f) \/ WriteFails(f)
  <2>1. CASE WriteFails(f)
    BY <2>1 DEF WriteFails, Writer, IsSettled
  <2>2. CASE Write(f) /\ frame[f] = "accepting"
    BY <2>2 DEF Write, IsSettled
  <2>3. CASE Write(f) /\ frame[f] # "accepting"
    <3>1. /\ writer[f] = "write"
          /\ UNCHANGED <<stage, reader, was, claims, queued, answer, queue, flush>>
      BY <2>3 DEF Write, Writer, signalVars, readerVars
    <3>2. ~flush[f]
      BY <1>1, <2>3, <3>1 DEF IsNext
    <3>3. OnItsWay(f) => OnItsWay(f)'
      BY <2>3, <3>1 DEF OnItsWay
    <3> QED
      BY <1>1, <3>1, <3>2, <3>3 DEF OwnClaim
  <2> QED
    BY <1>15, <2>1, <2>2, <2>3
<1>16. CASE Landed(f)
  <2>1. /\ writer[f] = "landed" /\ ~flush'[f]
        /\ UNCHANGED <<reader, was, claims, queued, answer, queue>>
    BY <1>16 DEF Landed, Writer, readerVars
  <2>2. ~flush[f]
    BY <1>1, <2>1 DEF IsNext
  <2>3. stage' = "requested"
    BY <1>1, <1>16, <2>2 DEF Landed, MayExit
  <2>4. OnItsWay(f) => OnItsWay(f)'
    BY <2>1 DEF OnItsWay
  <2> QED
    BY <1>1, <2>1, <2>3, <2>4 DEF OwnClaim
<1> QED
  BY <1>5, <1>6, <1>7, <1>8, <1>9, <1>10, <1>11, <1>12, <1>13, <1>14, <1>15, <1>16
  DEF ReaderStep, WriterStep, Handle

\* Who hangs up aborts the writer, and no writer comes back.
LEMMA HungUpStep == TypeOK /\ HungUpInv /\ [Next]_vars => HungUpInv'
<1> SUFFICES ASSUME TypeOK, HungUpInv, [Next]_vars, NEW c \in Conn, reader'[c] = "flush"
             PROVE  writer'[c] = "gone"
  BY DEF HungUpInv
<1> USE DEF TypeOK, HungUpInv
<1>1. CASE HangUp(c)
  BY <1>1 DEF HangUp
<1>2. CASE ~HangUp(c)
  <2>1. reader[c] = "flush"
    BY <1>2
    DEF Next, ReaderStep, WriterStep, Handle, Query, HandleShutdown, HandleOther, Check, Send,
        Arm, HangUp, Release, Push, Take, Write, WriteFails, Landed, CloseListener, Exit,
        vars, readerVars, writerVars, historyVars, Reader
  <2>2. writer[c] = "gone" => writer'[c] = "gone"
    BY DEF Next, ReaderStep, WriterStep, Handle, Query, HandleShutdown, HandleOther, Check, Send,
           Arm, HangUp, Release, Push, Take, Write, WriteFails, Landed, CloseListener, Exit,
           vars, readerVars, writerVars, historyVars, Writer
  <2> QED
    BY <2>1, <2>2
<1> QED
  BY <1>1, <1>2

\* A request that nothing crowds waits for its answer from the moment it is accepted.
LEMMA FirstWaits ==
  ASSUME TypeOK, IdleInv, NEW f \in Conn, HandleShutdown(f), f \notin accepted, f \notin crowded'
  PROVE  Waiting(f)'
<1> USE DEF TypeOK
<1>1. /\ stage' = "requested" /\ reader'[f] = "check" /\ answer'[f] = "accepting"
      /\ UNCHANGED <<was, claims, flush>>
      /\ \A d \in Conn \ {f} : reader'[d] = reader[d]
  BY DEF HandleShutdown, Reader, writerVars
<1>2. stage = "idle" /\ \A d \in Conn \ {f} : ~Undecided(d)
  BY DEF HandleShutdown
<1>3. \A d \in Conn : ~claims[d] /\ ~flush[d]
  BY <1>2 DEF IdleInv
<1>4. ASSUME NEW d \in Conn \ {f} PROVE Bystander(d)'
  BY <1>1, <1>2, <1>3 DEF Bystander, Undecided
<1> QED
  BY <1>1, <1>3, <1>4 DEF Waiting, OwnClaim

\* Every request that is accepted and not crowded waits or is settled.
LEMMA AnswerStep == TypeOK /\ AnswerInv /\ [Next]_vars => AnswerInv'
<1> SUFFICES ASSUME TypeOK, AnswerInv, [Next]_vars PROVE AnswerInv'
  OBVIOUS
<1>1. IdleInv' /\ LandedInv' /\ HungUpInv'
  BY IdleStep, LandedStep, HungUpStep DEF AnswerInv
<1>2. ASSUME NEW f \in accepted' \ crowded' PROVE IsSettled(f)' \/ Waiting(f)'
  <2>1. f \in Conn /\ f \notin crowded
    <3>1. crowded \subseteq crowded'
      BY DEF Next, ReaderStep, WriterStep, Handle, Query, HandleShutdown, HandleOther, Check, Send,
             Arm, HangUp, Release, Push, Take, Write, WriteFails, Landed, CloseListener, Exit,
             vars, historyVars
    <3>2. accepted' \subseteq Conn
      BY TypeStep DEF TypeOK
    <3> QED
      BY <1>2, <3>1, <3>2
  <2>2. CASE f \notin accepted
    <3>1. HandleShutdown(f)
      BY <1>2, <2>2
      DEF Next, ReaderStep, WriterStep, Handle, Query, HandleShutdown, HandleOther, Check, Send,
          Arm, HangUp, Release, Push, Take, Write, WriteFails, Landed, CloseListener, Exit,
          vars, historyVars
    <3> QED
      BY <1>2, <2>1, <2>2, <3>1, FirstWaits DEF AnswerInv
  <2>3. CASE f \in accepted /\ IsSettled(f)
    BY <2>1, <2>3, SettledStays
  <2>4. CASE f \in accepted /\ ~IsSettled(f)
    <3>1. Waiting(f)
      BY <2>1, <2>4 DEF AnswerInv
    <3>2. CASE CloseListener \/ Exit \/ UNCHANGED vars
      <4>1. UNCHANGED <<stage, readerVars, writerVars>>
        BY <3>2 DEF CloseListener, Exit, vars, signalVars
      <4> QED
        BY <3>1, <4>1
        DEF Waiting, OwnClaim, OnItsWay, IsNext, Bystander, Undecided, readerVars, writerVars
    <3>3. ASSUME NEW c \in Conn,
                 Query(c) \/ ReaderStep(c) \/ HangUp(c) \/ Push(c) \/ WriterStep(c)
          PROVE  IsSettled(f)' \/ Waiting(f)'
      BY <1>2, <2>1, <2>4, <3>1, <3>3, OthersWait, SelfWaits DEF AnswerInv
    <3> QED
      BY <3>2, <3>3 DEF Next
  <2> QED
    BY <2>2, <2>3, <2>4
<1> QED
  BY <1>1, <1>2 DEF AnswerInv

\* When the stage says that the accepting answer is out, it has been written to the caller's
\* socket, or it cannot be: for every request that came first, while no other connection was
\* in the middle of a query, and whose answer found no other frame before it.
THEOREM UncrowdedAnswered == Spec => []UncrowdedIsAnswered
<1>1. Init => AnswerInv
  BY DEF Init, AnswerInv, IdleInv, LandedInv, HungUpInv
<1>2. AnswerInv => UncrowdedIsAnswered
  BY DEF AnswerInv, UncrowdedIsAnswered, Waiting
<1> QED
  BY <1>1, <1>2, TypeInit, TypeStep, AnswerStep, PTL DEF Spec
===============================================================================
