----------------------------- MODULE SessionsProofs -----------------------------
(***************************************************************************)
(* Sessions is type correct, no session is left behind by a connection     *)
(* that was answered, and a connection that no other one disturbs is       *)
(* registered, for every number of connections, processes and names.       *)
(***************************************************************************)
EXTENDS Sessions, TLAPS

(***************************************************************************)
(* A socket is bound to the session of its own instance only, and a socket *)
(* that is past remove_if_socket is bound to none.  The second conjunct    *)
(* alone is not inductive: remove_if_socket looks at the session of the    *)
(* instance the connection belongs to, so a binding to any other session   *)
(* would survive it.                                                       *)
(***************************************************************************)
BoundToItsOwn == \A i \in Instance : HasSession(i) => inst[session[i]] = i

BoundWhileHere ==
  \A i \in Instance :
    HasSession(i) => \/ pc[session[i]] \notin {"none", "unslot", "gone"}
                     \/ session[i] \in failed

FailedIsGone == \A c \in failed : pc[c] = "gone"

Bindings == BoundToItsOwn /\ BoundWhileHere /\ FailedIsGone

\* The engine boots with empty tables and no connection.
LEMMA TypeInit == Init => TypeOK
<1> USE SessionsAssumption DEF Init, TypeOK, PC, Handshake, Cleanup, Sleeping
<1> QED
  OBVIOUS

\* Every step keeps the types of the tables and of the tasks of main.rs and
\* auth.rs.
LEMMA TypeStep == TypeOK /\ [Next]_vars => TypeOK'
<1> SUFFICES ASSUME TypeOK, [Next]_vars PROVE TypeOK'
  OBVIOUS
<1> USE DEF TypeOK, PC, Handshake, Cleanup, Step, Is, Goto, NameAt, HasSession, Remove, Bind, OthersNamed, connVars, sessionVars, routeVars, signalVars, probeVars, historyVars
<1>1. ASSUME NEW c \in Socket, NEW i \in Instance, Arrive(c, i) PROVE TypeOK'
  BY <1>1, SessionsAssumption DEF Arrive
<1>2. ASSUME NEW c \in Socket, DropOthers(c) PROVE TypeOK'
  BY <1>2, SessionsAssumption DEF DropOthers
<1>3. ASSUME NEW c \in Socket, Claim(c) PROVE TypeOK'
  BY <1>3, SessionsAssumption DEF Claim
<1>4. ASSUME NEW c \in Socket, Rebuild(c) PROVE TypeOK'
  BY <1>4, SessionsAssumption DEF Rebuild
<1>5. ASSUME NEW c \in Socket, FindIncumbent(c) PROVE TypeOK'
  BY <1>5, SessionsAssumption DEF FindIncumbent, Incumbents, slot_owner
<1>6. ASSUME NEW c \in Socket, KillIncumbent(c) PROVE TypeOK'
  BY <1>6, SessionsAssumption DEF KillIncumbent, SwitchOf
<1>7. ASSUME NEW c \in Socket, FreeSlot(c) PROVE TypeOK'
  BY <1>7, SessionsAssumption DEF FreeSlot
<1>8. ASSUME NEW c \in Socket, DropNamed(c) PROVE TypeOK'
  BY <1>8, SessionsAssumption DEF DropNamed
<1>9. ASSUME NEW c \in Socket, Insert(c) PROVE TypeOK'
  BY <1>9, SessionsAssumption DEF Insert
<1>10. ASSUME NEW c \in Socket, Reply(c) PROVE TypeOK'
  BY <1>10, SessionsAssumption DEF Reply
<1>11. ASSUME NEW c \in Socket, TakeSlot(c) PROVE TypeOK'
  BY <1>11, SessionsAssumption DEF TakeSlot, should_shadow, slot_owner
<1>12. ASSUME NEW c \in Socket, RegisterSwitch(c) PROVE TypeOK'
  BY <1>12, SessionsAssumption DEF RegisterSwitch
<1>13. ASSUME NEW c \in Socket, ReplyFails(c) PROVE TypeOK'
  BY <1>13, SessionsAssumption DEF ReplyFails
<1>14. ASSUME NEW c \in Socket, Frame(c) PROVE TypeOK'
  BY <1>14, SessionsAssumption DEF Frame
<1>15. ASSUME NEW c \in Socket, WriterEnds(c) PROVE TypeOK'
  BY <1>15, SessionsAssumption DEF WriterEnds
<1>16. ASSUME NEW c \in Socket, HangUp(c) PROVE TypeOK'
  BY <1>16, SessionsAssumption DEF HangUp
<1>17. ASSUME NEW c \in Socket, AbortWriter(c) PROVE TypeOK'
  BY <1>17, SessionsAssumption DEF AbortWriter
<1>18. ASSUME NEW c \in Socket, Unswitch(c) PROVE TypeOK'
  BY <1>18, SessionsAssumption DEF Unswitch
<1>19. ASSUME NEW c \in Socket, Unbind(c) PROVE TypeOK'
  BY <1>19, SessionsAssumption DEF Unbind, HoldsSession
<1>20. ASSUME NEW c \in Socket, Unslot(c) PROVE TypeOK'
  BY <1>20, SessionsAssumption DEF Unslot, FreesSlot, slot_owner
<1>21. ASSUME NEW i \in Instance, SendProbe(i) PROVE TypeOK'
  BY <1>21, SessionsAssumption DEF SendProbe, Sleeping
<1>22. ASSUME NEW i \in Instance, Elapse(i) PROVE TypeOK'
  BY <1>22, SessionsAssumption DEF Elapse
<1>23. ASSUME NEW i \in Instance, SeeExpired(i) PROVE TypeOK'
  BY <1>23, SessionsAssumption DEF SeeExpired, Sleeping
<1>24. ASSUME MarkUnresponsive PROVE TypeOK'
  BY <1>24, SessionsAssumption DEF MarkUnresponsive
<1>25. ASSUME PullSwitch PROVE TypeOK'
  BY <1>25, SessionsAssumption DEF PullSwitch, Sleeping, SwitchOf
<1>26. ASSUME UNCHANGED vars PROVE TypeOK'
  BY <1>26 DEF vars
<1>. QED
  BY <1>1, <1>2, <1>3, <1>4, <1>5, <1>6, <1>7, <1>8, <1>9, <1>10, <1>11, <1>12, <1>13, <1>14, <1>15, <1>16, <1>17, <1>18, <1>19, <1>20, <1>21, <1>22, <1>23, <1>24, <1>25, <1>26
  DEF Next, HandshakeStep, CleanupStep, ProbeStep

\* The handshakes bind a session to their own connection, remove_if_socket
\* unbinds its own, and nobody else touches a binding.
LEMMA BindingsStep == TypeOK /\ Bindings /\ [Next]_vars => Bindings'
<1> SUFFICES ASSUME TypeOK, Bindings, [Next]_vars PROVE Bindings'
  OBVIOUS
<1> USE SessionsAssumption
    DEF TypeOK, Bindings, BoundToItsOwn, BoundWhileHere, FailedIsGone,
        Step, Is, Goto, HasSession, PC, Handshake, Cleanup,
        connVars, sessionVars, routeVars, signalVars, probeVars, historyVars
<1>1. ASSUME NEW c \in Socket, NEW i \in Instance, Arrive(c, i) PROVE Bindings'
  BY <1>1 DEF Arrive
<1>2. ASSUME NEW c \in Socket, Claim(c) PROVE Bindings'
  BY <1>2 DEF Claim, Bind
<1>3. ASSUME NEW c \in Socket, Rebuild(c) PROVE Bindings'
  BY <1>3 DEF Rebuild, Bind
<1>4. ASSUME NEW c \in Socket, Insert(c) PROVE Bindings'
  BY <1>4 DEF Insert, Bind
<1>5. ASSUME NEW c \in Socket, DropOthers(c) PROVE Bindings'
  BY <1>5 DEF DropOthers, Remove
<1>6. ASSUME NEW c \in Socket, DropNamed(c) PROVE Bindings'
  BY <1>6 DEF DropNamed, Remove
<1>7. ASSUME NEW c \in Socket, ReplyFails(c) PROVE Bindings'
  BY <1>7 DEF ReplyFails
<1>8. ASSUME NEW c \in Socket, KillIncumbent(c) PROVE Bindings'
  BY <1>8 DEF KillIncumbent
<1>9. ASSUME NEW c \in Socket, FreeSlot(c) PROVE Bindings'
  BY <1>9 DEF FreeSlot
<1>10. ASSUME NEW c \in Socket, TakeSlot(c) PROVE Bindings'
  BY <1>10 DEF TakeSlot
<1>11. ASSUME NEW c \in Socket, RegisterSwitch(c) PROVE Bindings'
  BY <1>11 DEF RegisterSwitch
<1>12. ASSUME NEW c \in Socket, Frame(c) PROVE Bindings'
  BY <1>12 DEF Frame
<1>13. ASSUME NEW c \in Socket, WriterEnds(c) PROVE Bindings'
  BY <1>13 DEF WriterEnds
<1>14. ASSUME NEW c \in Socket, HangUp(c) PROVE Bindings'
  BY <1>14 DEF HangUp
<1>15. ASSUME NEW c \in Socket, AbortWriter(c) PROVE Bindings'
  BY <1>15 DEF AbortWriter
<1>16. ASSUME NEW c \in Socket, Unswitch(c) PROVE Bindings'
  BY <1>16 DEF Unswitch
<1>17. ASSUME NEW c \in Socket, FindIncumbent(c) PROVE Bindings'
  BY <1>17 DEF FindIncumbent
<1>18. ASSUME NEW c \in Socket, Reply(c) PROVE Bindings'
  BY <1>18 DEF Reply
<1>19. ASSUME NEW c \in Socket, Unbind(c) PROVE Bindings'
  BY <1>19 DEF Unbind, HoldsSession, Remove
<1>20. ASSUME NEW c \in Socket, Unslot(c) PROVE Bindings'
  BY <1>20 DEF Unslot
<1>21. ASSUME NEW i \in Instance, SendProbe(i) PROVE Bindings'
  BY <1>21 DEF SendProbe
<1>22. ASSUME NEW i \in Instance, Elapse(i) PROVE Bindings'
  BY <1>22 DEF Elapse
<1>23. ASSUME NEW i \in Instance, SeeExpired(i) PROVE Bindings'
  BY <1>23 DEF SeeExpired
<1>24. ASSUME MarkUnresponsive PROVE Bindings'
  BY <1>24 DEF MarkUnresponsive
<1>25. ASSUME PullSwitch PROVE Bindings'
  BY <1>25 DEF PullSwitch
<1>26. ASSUME UNCHANGED vars PROVE Bindings'
  BY <1>26 DEF vars
<1>. QED
  BY <1>1, <1>2, <1>3, <1>4, <1>5, <1>6, <1>7, <1>8, <1>9, <1>10, <1>11, <1>12, <1>13, <1>14, <1>15, <1>16, <1>17, <1>18, <1>19, <1>20, <1>21, <1>22, <1>23, <1>24, <1>25, <1>26
  DEF Next, HandshakeStep, CleanupStep, ProbeStep

\* The tables and tasks of Sessions keep their types.
THEOREM SessionsTypeCorrect == Spec => []TypeOK
<1>1. TypeOK /\ [Next]_vars => TypeOK'
  BY TypeStep
<1>. QED
  BY TypeInit, <1>1, PTL DEF Spec

\* No session outlives the connection it is bound to, unless the reply of the
\* handshake could not be sent: the cleanup of main.rs finds it whatever other
\* connections, the evictions and the probe task did to the tables meanwhile.
THEOREM NoSessionIsLeft == Spec => []NoGhostSession
<1>1. Init => TypeOK /\ Bindings
  <2>1. Init => Bindings
    BY DEF Init, Bindings, BoundToItsOwn, BoundWhileHere, FailedIsGone, HasSession
  <2>. QED
    BY <2>1, TypeInit
<1>2. (TypeOK /\ Bindings) /\ [Next]_vars => (TypeOK /\ Bindings)'
  BY TypeStep, BindingsStep
<1>3. TypeOK /\ Bindings => NoGhostSession
  BY DEF Bindings, BoundWhileHere, NoGhostSession, Is
<1>. QED
  BY <1>1, <1>2, <1>3, PTL DEF Spec

\* The session of an open connection goes with a handshake of its name: the
\* cleanup of another socket of its instance does not pass remove_if_socket.
THEOREM SessionLoss == Spec => SessionIsLostToNewcomers
<1>1. ASSUME TypeOK, [Next]_vars, NEW c \in Socket, LosesSession(c) PROVE IsTaken(c)
  <2> USE <1>1 DEF LosesSession, IsTaken, TypeOK, Step, Is, Goto, HasSession, NameAt,
                   Handshake, sessionVars
  <2>1. ASSUME NEW d \in Socket, DropOthers(d) \/ DropNamed(d) PROVE IsTaken(c)
    BY <2>1 DEF DropOthers, DropNamed, Remove, OthersNamed
  <2>2. ASSUME NEW d \in Socket, Claim(d) \/ Rebuild(d) \/ Insert(d) PROVE IsTaken(c)
    BY <2>2 DEF Claim, Rebuild, Insert, Bind
  <2>3. ASSUME NEW d \in Socket, Unbind(d) PROVE FALSE
    BY <2>3 DEF Unbind, HoldsSession, Remove
  <2>4. ASSUME NEW d \in Socket, NEW i \in Instance,
               \/ Arrive(d, i) \/ ReplyFails(d) \/ Reply(d)
               \/ FindIncumbent(d) \/ KillIncumbent(d) \/ FreeSlot(d)
               \/ TakeSlot(d) \/ RegisterSwitch(d)
        PROVE FALSE
    BY <2>4 DEF Arrive, ReplyFails, Reply, FindIncumbent, KillIncumbent, FreeSlot,
                TakeSlot, RegisterSwitch
  <2>5. ASSUME NEW d \in Socket,
               \/ Frame(d) \/ WriterEnds(d) \/ HangUp(d)
               \/ AbortWriter(d) \/ Unswitch(d) \/ Unslot(d)
        PROVE FALSE
    BY <2>5 DEF Frame, WriterEnds, HangUp, AbortWriter, Unswitch, Unslot
  <2>6. ASSUME NEW i \in Instance, SendProbe(i) \/ Elapse(i) \/ SeeExpired(i) PROVE FALSE
    BY <2>6 DEF SendProbe, Elapse, SeeExpired
  <2>7. ASSUME ProbeStep \/ UNCHANGED vars PROVE FALSE
    BY <2>7 DEF ProbeStep, MarkUnresponsive, PullSwitch, vars
  <2>. QED
    BY <2>1, <2>2, <2>3, <2>4, <2>5, <2>6, <2>7
    DEF Next, HandshakeStep, CleanupStep
<1>2. TypeOK /\ [Next]_vars => [\A c \in Socket : LosesSession(c) => IsTaken(c)]_vars
  BY <1>1
<1>. QED
  BY <1>2, SessionsTypeCorrect, PTL DEF Spec, SessionIsLostToNewcomers

--------------------------------------------------------------------------------
(***************************************************************************)
(* A connection that no other one disturbs.  The others of its name are in *)
(* their loop or in their cleanup, and belong to other instances: what     *)
(* they take out of the tables is their own, so the connection finds the   *)
(* slot free when it comes to it, and keeps what it has put there.         *)
(***************************************************************************)
\* The slot of a name goes to a connection of that name; behind its cleanup it is closed.
SlotFits ==
  \A n \in Name :
    slot[n] # NoSocket =>
      /\ NameAt(slot[n]) = n
      /\ pc[slot[n]] \in {"switch", "open"} \cup Cleanup \cup {"gone"}
      /\ pc[slot[n]] \in {"unswitch", "unbind", "unslot", "gone"} => slot[n] \in closed

Here(c) == pc[c] \notin {"none", "gone"}

Alone(c) ==
  \A d \in Socket \ {c} :
    Here(d) /\ NameAt(d) = NameAt(c) => pc[d] \notin Handshake /\ inst[d] # inst[c]

\* Nothing keeps c from the slot.
SlotIsFree(c) ==
  LET d == slot[NameAt(c)] IN d = NoSocket \/ d \in closed \/ inst[d] = inst[c]

Registers(c) ==
  /\ pc[c] = "rebuild" => session[inst[c]] \in {c, NoSocket}
  /\ pc[c] \in {"reply", "slot", "switch", "open"} => session[inst[c]] = c
  /\ pc[c] \in {"drop_others", "claim", "rebuild", "drop_named", "insert", "reply", "slot"} =>
       SlotIsFree(c)
  /\ pc[c] \in {"switch", "open"} => slot[NameAt(c)] = c
  /\ pc[c] = "open" => kill_map[inst[c]] = c

Undisturbed(c) == c \notin disturbed /\ pc[c] \in Handshake \cup {"open"}

PeaceInv ==
  /\ SlotFits
  /\ \A c \in Socket : Undisturbed(c) => Alone(c) /\ Registers(c)

\* The slot goes from hand to hand as its owners register and clean up.
LEMMA SlotFitsStep == TypeOK /\ SlotFits /\ [Next]_vars => SlotFits'
<1> SUFFICES ASSUME TypeOK, SlotFits, [Next]_vars PROVE SlotFits'
  OBVIOUS
<1> USE SessionsAssumption
    DEF TypeOK, SlotFits, Step, Is, Goto, NameAt, Handshake, Cleanup,
        connVars, sessionVars, routeVars, signalVars, probeVars, historyVars
<1>1. ASSUME NEW c \in Socket, NEW i \in Instance, Arrive(c, i) PROVE SlotFits'
  BY <1>1 DEF Arrive
<1>2. ASSUME NEW c \in Socket,
             \/ DropOthers(c) \/ Claim(c) \/ Rebuild(c) \/ FindIncumbent(c) \/ KillIncumbent(c)
             \/ DropNamed(c) \/ Insert(c) \/ Reply(c) \/ ReplyFails(c)
      PROVE SlotFits'
  BY <1>2 DEF DropOthers, Claim, Rebuild, FindIncumbent, KillIncumbent, DropNamed, Insert, Reply,
              ReplyFails
<1>3. ASSUME NEW c \in Socket, FreeSlot(c) PROVE SlotFits'
  BY <1>3 DEF FreeSlot
<1>4. ASSUME NEW c \in Socket, TakeSlot(c) PROVE SlotFits'
  BY <1>4 DEF TakeSlot
<1>5. ASSUME NEW c \in Socket, RegisterSwitch(c) \/ Frame(c) \/ HangUp(c) PROVE SlotFits'
  BY <1>5 DEF RegisterSwitch, Frame, HangUp
<1>6. ASSUME NEW c \in Socket, WriterEnds(c) \/ AbortWriter(c) PROVE SlotFits'
  BY <1>6 DEF WriterEnds, AbortWriter
<1>7. ASSUME NEW c \in Socket, Unswitch(c) \/ Unbind(c) PROVE SlotFits'
  BY <1>7 DEF Unswitch, Unbind
<1>8. ASSUME NEW c \in Socket, Unslot(c) PROVE SlotFits'
  BY <1>8 DEF Unslot
<1>9. CASE ProbeStep \/ UNCHANGED vars \/ \E i \in Instance : SendProbe(i) \/ Elapse(i) \/ SeeExpired(i)
  BY <1>9 DEF ProbeStep, MarkUnresponsive, PullSwitch, SendProbe, Elapse, SeeExpired, vars
<1> QED
  BY <1>1, <1>2, <1>3, <1>4, <1>5, <1>6, <1>7, <1>8, <1>9 DEF Next, HandshakeStep, CleanupStep

\* The steps of a connection after its arrival.
ConnStep(d) ==
  HandshakeStep(d) \/ ReplyFails(d) \/ Frame(d) \/ WriterEnds(d) \/ HangUp(d) \/ CleanupStep(d)

\* What such a step does to where the connections are.
LEMMA ConnMoves ==
  ASSUME TypeOK, NEW d \in Socket, ConnStep(d)
  PROVE  /\ UNCHANGED <<inst, disturbed>> /\ closed \subseteq closed'
         /\ Here(d) /\ pc'[d] # "none"
         /\ pc[d] \notin Handshake => pc'[d] \notin Handshake
         /\ pc[d] \in Cleanup => pc'[d] \in Cleanup \cup {"gone"}
         /\ \A c \in Socket \ {d} : pc'[c] = pc[c]
<1> USE DEF TypeOK, ConnStep, HandshakeStep, CleanupStep, Step, Is, Goto, Handshake, Here,
            connVars, sessionVars, routeVars, signalVars, probeVars, historyVars
<1>1. UNCHANGED <<inst, disturbed>> /\ closed \subseteq closed'
  BY DEF DropOthers, Claim, Rebuild, FindIncumbent, KillIncumbent, FreeSlot, DropNamed, Insert,
         Reply, TakeSlot, RegisterSwitch, ReplyFails, Frame, WriterEnds, HangUp, AbortWriter,
         Unswitch, Unbind, Unslot
<1>2. Here(d) /\ pc'[d] # "none" /\ (pc[d] \notin Handshake => pc'[d] \notin Handshake)
  BY DEF DropOthers, Claim, Rebuild, FindIncumbent, KillIncumbent, FreeSlot, DropNamed, Insert,
         Reply, TakeSlot, RegisterSwitch, ReplyFails, Frame, WriterEnds, HangUp, AbortWriter,
         Unswitch, Unbind, Unslot
<1>3. pc[d] \in Cleanup => pc'[d] \in Cleanup \cup {"gone"}
  BY DEF DropOthers, Claim, Rebuild, FindIncumbent, KillIncumbent, FreeSlot, DropNamed, Insert,
         Reply, TakeSlot, RegisterSwitch, ReplyFails, Frame, WriterEnds, HangUp, AbortWriter,
         Unswitch, Unbind, Unslot, Cleanup
<1>4. \A c \in Socket \ {d} : pc'[c] = pc[c]
  BY DEF DropOthers, Claim, Rebuild, FindIncumbent, KillIncumbent, FreeSlot, DropNamed, Insert,
         Reply, TakeSlot, RegisterSwitch, ReplyFails, Frame, WriterEnds, HangUp, AbortWriter,
         Unswitch, Unbind, Unslot
<1> QED
  BY <1>1, <1>2, <1>3, <1>4

\* A connection of another name, or one of the same name in its loop or its cleanup,
\* leaves alone what c has in the tables.
LEMMA OthersKeepOut ==
  ASSUME TypeOK, NEW c \in Socket, Undisturbed(c), NEW d \in Socket \ {c}, ConnStep(d),
         NameAt(d) # NameAt(c) \/ (pc[d] \notin Handshake /\ inst[d] # inst[c])
  PROVE  /\ session'[inst[c]] = session[inst[c]]
         /\ kill_map'[inst[c]] = kill_map[inst[c]]
         /\ \/ slot'[NameAt(c)] = slot[NameAt(c)]
            \/ slot'[NameAt(c)] = NoSocket /\ slot[NameAt(c)] # c
<1> USE SessionsAssumption
    DEF TypeOK, NameAt, Undisturbed, Step, Is, Goto, Handshake, Remove, Bind, OthersNamed,
        HasSession, connVars, sessionVars, routeVars, signalVars, probeVars, historyVars
<1>1. inst[c] \in Instance /\ inst[d] \in Instance /\ NameAt(c) \in Name /\ NameAt(d) \in Name
  BY ConnMoves DEF Here
<1>2. session'[inst[c]] = session[inst[c]]
  <2>1. CASE DropOthers(d) \/ DropNamed(d)
    BY <1>1, <2>1 DEF DropOthers, DropNamed
  <2>2. CASE Claim(d) \/ Rebuild(d) \/ Insert(d)
    BY <1>1, <2>2 DEF Claim, Rebuild, Insert
  <2>3. CASE Unbind(d)
    BY <1>1, <2>3 DEF Unbind, HoldsSession
  <2> QED
    BY <2>1, <2>2, <2>3
    DEF ConnStep, HandshakeStep, CleanupStep, FindIncumbent, KillIncumbent, FreeSlot, Reply,
        TakeSlot, RegisterSwitch, ReplyFails, Frame, WriterEnds, HangUp, AbortWriter, Unswitch,
        Unslot
<1>3. kill_map'[inst[c]] = kill_map[inst[c]]
  BY <1>1
  DEF ConnStep, HandshakeStep, CleanupStep, DropOthers, Claim, Rebuild, FindIncumbent,
      KillIncumbent, FreeSlot, DropNamed, Insert, Reply, TakeSlot, RegisterSwitch, ReplyFails,
      Frame, WriterEnds, HangUp, AbortWriter, Unswitch, Unbind, Unslot
<1>4. \/ slot'[NameAt(c)] = slot[NameAt(c)]
      \/ slot'[NameAt(c)] = NoSocket /\ slot[NameAt(c)] # c
  <2>1. CASE FreeSlot(d)
    BY <1>1, <2>1 DEF FreeSlot
  <2>2. CASE TakeSlot(d)
    BY <1>1, <2>2 DEF TakeSlot
  <2>3. CASE Unslot(d)
    <3>1. CASE slot' = slot
      BY <3>1
    <3>2. CASE FreesSlot(d) /\ slot' = [slot EXCEPT ![NameAt(d)] = NoSocket]
      <4>1. CASE NameAt(d) = NameAt(c)
        BY <1>1, <3>2, <4>1 DEF FreesSlot, slot_owner
      <4>2. CASE NameAt(d) # NameAt(c)
        BY <1>1, <3>2, <4>2
      <4> QED
        BY <4>1, <4>2
    <3> QED
      BY <2>3, <3>1, <3>2 DEF Unslot
  <2> QED
    BY <2>1, <2>2, <2>3
    DEF ConnStep, HandshakeStep, CleanupStep, DropOthers, Claim, Rebuild, FindIncumbent,
        KillIncumbent, DropNamed, Insert, Reply, RegisterSwitch, ReplyFails, Frame, WriterEnds,
        HangUp, AbortWriter, Unswitch, Unbind
<1> QED
  BY <1>2, <1>3, <1>4

\* So the others do not keep c from registering.
LEMMA OthersLeave ==
  ASSUME TypeOK, NEW c \in Socket, Undisturbed(c), Alone(c), Registers(c),
         NEW d \in Socket \ {c}, ConnStep(d)
  PROVE  Alone(c)' /\ Registers(c)'
<1>1. /\ UNCHANGED <<inst, disturbed>> /\ closed \subseteq closed' /\ Here(d)
      /\ pc[d] \notin Handshake => pc'[d] \notin Handshake
      /\ \A e \in Socket \ {d} : pc'[e] = pc[e]
  BY ConnMoves
<1>2. NameAt(d) # NameAt(c) \/ (pc[d] \notin Handshake /\ inst[d] # inst[c])
  BY <1>1 DEF Alone
<1>3. Alone(c)'
  BY <1>1, <1>2 DEF Alone, Here, NameAt
<1>4. /\ session'[inst[c]] = session[inst[c]]
      /\ kill_map'[inst[c]] = kill_map[inst[c]]
      /\ \/ slot'[NameAt(c)] = slot[NameAt(c)]
         \/ slot'[NameAt(c)] = NoSocket /\ slot[NameAt(c)] # c
  BY <1>2, OthersKeepOut
<1>5. pc'[c] = pc[c] /\ inst' = inst /\ NameAt(c)' = NameAt(c)
  BY <1>1 DEF NameAt
<1>6. SlotIsFree(c) => SlotIsFree(c)'
  BY <1>1, <1>4, <1>5 DEF SlotIsFree
<1> QED
  BY <1>3, <1>4, <1>5, <1>6 DEF Registers

\* The handshake of an undisturbed connection registers it table by table.
LEMMA RegistersItself ==
  ASSUME TypeOK, NEW c \in Socket, Undisturbed(c), Alone(c), Registers(c), ConnStep(c),
         Undisturbed(c)'
  PROVE  Alone(c)' /\ Registers(c)'
<1> USE SessionsAssumption DEF TypeOK
<1>1. /\ UNCHANGED <<inst, disturbed>> /\ closed \subseteq closed' /\ Here(c)
      /\ \A e \in Socket \ {c} : pc'[e] = pc[e]
  BY ConnMoves
<1>2. Alone(c)'
  BY <1>1 DEF Alone, Here, NameAt
<1>3. inst[c] \in Instance /\ NameAt(c) \in Name /\ NameAt(c)' = NameAt(c) /\ inst' = inst
  BY <1>1 DEF Here, NameAt
<1>4. SlotIsFree(c) /\ slot' = slot => SlotIsFree(c)'
  BY <1>1, <1>3 DEF SlotIsFree
<1> SUFFICES Registers(c)'
  BY <1>2
<1> USE DEF Step, Is, Goto, Registers, Remove, Bind, OthersNamed, HasSession, connVars, sessionVars,
            routeVars, signalVars, probeVars, historyVars
<1>5. CASE DropOthers(c)
  BY <1>3, <1>4, <1>5 DEF DropOthers
<1>6. CASE Claim(c)
  BY <1>3, <1>4, <1>6 DEF Claim
<1>7. CASE Rebuild(c)
  BY <1>3, <1>4, <1>7 DEF Rebuild
<1>8. CASE FindIncumbent(c)
  <2>1. CASE Goto(c, "kill")
    BY <1>3, <1>8, <2>1 DEF FindIncumbent
  <2>2. CASE Incumbents(c) = {} /\ Goto(c, "drop_named")
    <3>1. SlotIsFree(c)
      BY <1>3, <2>2 DEF Incumbents, slot_owner, SlotIsFree
    <3> QED
      BY <1>3, <1>4, <1>8, <2>2, <3>1 DEF FindIncumbent
  <2> QED
    BY <1>8, <2>1, <2>2 DEF FindIncumbent
<1>9. CASE KillIncumbent(c)
  BY <1>3, <1>9 DEF KillIncumbent
<1>10. CASE FreeSlot(c)
  <2>1. slot'[NameAt(c)] = NoSocket
    BY <1>3, <1>10 DEF FreeSlot
  <2>2. SlotIsFree(c)'
    BY <1>3, <2>1 DEF SlotIsFree
  <2> QED
    BY <1>3, <1>10, <2>2 DEF FreeSlot
<1>11. CASE DropNamed(c)
  BY <1>3, <1>4, <1>11 DEF DropNamed
<1>12. CASE Insert(c)
  BY <1>3, <1>4, <1>12 DEF Insert
<1>13. CASE Reply(c)
  BY <1>3, <1>4, <1>13 DEF Reply
<1>14. CASE TakeSlot(c)
  <2>1. pc[c] = "slot" /\ pc'[c] = "switch" /\ session' = session
    BY <1>14 DEF TakeSlot
  <2>2. ~should_shadow(slot[NameAt(c)] \notin closed \cup {NoSocket},
                       slot_owner(NameAt(c)) = inst[c])
    BY <2>1 DEF should_shadow, slot_owner, SlotIsFree
  <2>3. slot'[NameAt(c)] = c
    BY <1>3, <1>14, <2>2 DEF TakeSlot
  <2> QED
    BY <1>3, <2>1, <2>3
<1>15. CASE RegisterSwitch(c)
  BY <1>3, <1>15 DEF RegisterSwitch
<1>16. CASE WriterEnds(c) \/ Frame(c)
  BY <1>3, <1>16 DEF WriterEnds, Frame, Undisturbed, Handshake
<1>17. CASE ReplyFails(c) \/ HangUp(c) \/ CleanupStep(c)
  BY <1>1, <1>17 DEF ReplyFails, HangUp, CleanupStep, AbortWriter, Unswitch, Unbind, Unslot,
                     Undisturbed, Handshake
<1> QED
  BY <1>5, <1>6, <1>7, <1>8, <1>9, <1>10, <1>11, <1>12, <1>13, <1>14, <1>15, <1>16, <1>17
  DEF ConnStep, HandshakeStep

\* Who arrives undisturbed finds nobody of its name in the handshake and, if it returns
\* with a token, nobody at all: the slot has been left or is closed.
LEMMA ArrivesAlone ==
  ASSUME TypeOK, SlotFits, NEW c \in Socket, NEW i \in Instance, Arrive(c, i), c \notin disturbed'
  PROVE  Alone(c)' /\ Registers(c)'
<1> USE SessionsAssumption DEF TypeOK
<1> DEFINE peers == {d \in Socket : pc[d] \notin {"none", "gone"} /\ NameOf[inst[d]] = NameOf[i]}
<1>1. /\ pc[c] = "none" /\ inst'[c] = i /\ NameAt(c)' = NameOf[i] /\ NameOf[i] \in Name
      /\ UNCHANGED <<slot, closed>>
      /\ pc'[c] = IF i \in issued THEN "drop_others" ELSE "find"
      /\ i \notin issued => \A d \in Socket : inst[d] # i
      /\ \A d \in Socket \ {c} : inst'[d] = inst[d] /\ pc'[d] = pc[d]
  BY DEF Arrive, Is, Goto, NameAt, routeVars, signalVars
<1>2. \A d \in peers : pc[d] \notin Handshake /\ i \notin issued
  BY DEF Arrive
<1>3. Alone(c)'
  BY <1>1, <1>2 DEF Alone, Here, NameAt
<1>4. ASSUME i \in issued PROVE SlotIsFree(c)'
  <2>1. \A d \in Socket : NameOf[inst[d]] = NameOf[i] => pc[d] \in {"none", "gone"}
    BY <1>2, <1>4
  <2>2. slot[NameOf[i]] = NoSocket \/ slot[NameOf[i]] \in closed
    BY <1>1, <2>1 DEF SlotFits, NameAt, Cleanup
  <2> QED
    BY <1>1, <2>2 DEF SlotIsFree
<1> QED
  BY <1>1, <1>3, <1>4 DEF Registers

\* An arrival disturbs those of its name, and nobody else.
LEMMA ArrivalLeaves ==
  ASSUME TypeOK, NEW c \in Socket, NEW d \in Socket \ {c}, NEW i \in Instance, Arrive(d, i),
         SlotFits, Undisturbed(c)', Alone(c), Registers(c)
  PROVE  Alone(c)' /\ Registers(c)'
<1> USE SessionsAssumption DEF TypeOK
<1>1. /\ pc'[c] = pc[c] /\ inst'[c] = inst[c] /\ NameAt(c)' = NameAt(c)
      /\ UNCHANGED <<session, slot, kill_map, closed>>
      /\ NameAt(d)' = NameOf[i]
      /\ \A e \in Socket \ {d} : inst'[e] = inst[e] /\ pc'[e] = pc[e]
  BY DEF Arrive, Is, Goto, NameAt, sessionVars, routeVars, signalVars
<1>2. NameOf[i] # NameAt(c)
  BY <1>1 DEF Arrive, Undisturbed, NameAt, Handshake
<1>3. Alone(c)'
  BY <1>1, <1>2 DEF Alone, Here, NameAt
<1>4. SlotIsFree(c) => SlotIsFree(c)'
  <2>1. pc[d] = "none" /\ inst[c] \in Instance /\ NameAt(c) \in Name
    BY <1>1 DEF Arrive, Is, Undisturbed, Handshake, NameAt
  <2>2. slot[NameAt(c)] # d
    BY <2>1 DEF SlotFits, Cleanup
  <2> QED
    BY <1>1, <2>1, <2>2 DEF SlotIsFree
<1> QED
  BY <1>1, <1>3, <1>4 DEF Registers

\* Whoever is undisturbed after a step is alone and registers.
LEMMA PeaceStep == TypeOK /\ PeaceInv /\ [Next]_vars => PeaceInv'
<1> SUFFICES ASSUME TypeOK, PeaceInv, [Next]_vars PROVE PeaceInv'
  OBVIOUS
<1>1. SlotFits'
  BY SlotFitsStep DEF PeaceInv
<1>2. ASSUME NEW c \in Socket, Undisturbed(c)' PROVE Alone(c)' /\ Registers(c)'
  <2>1. ASSUME NEW d \in Socket, NEW i \in Instance, Arrive(d, i) PROVE Alone(c)' /\ Registers(c)'
    <3>1. CASE d = c
      BY <1>2, <2>1, <3>1, ArrivesAlone DEF PeaceInv, Undisturbed
    <3>2. CASE d # c
      <4>1. Undisturbed(c)
        BY <1>2, <2>1, <3>2 DEF Arrive, Undisturbed, Goto, TypeOK
      <4> QED
        BY <1>2, <2>1, <3>2, <4>1, ArrivalLeaves DEF PeaceInv
    <3> QED
      BY <3>1, <3>2
  <2>2. ASSUME NEW d \in Socket, ConnStep(d) PROVE Alone(c)' /\ Registers(c)'
    <3>1. Undisturbed(c)
      <4>1. CASE d = c
        BY <1>2, <2>2, <4>1, ConnMoves DEF Undisturbed, Here, TypeOK, PC, Cleanup, Handshake
      <4>2. CASE d # c
        BY <1>2, <2>2, <4>2, ConnMoves DEF Undisturbed
      <4> QED
        BY <4>1, <4>2
    <3> QED
      BY <1>2, <2>2, <3>1, OthersLeave, RegistersItself DEF PeaceInv
  <2>3. CASE ProbeStep \/ UNCHANGED vars
               \/ \E i \in Instance : SendProbe(i) \/ Elapse(i) \/ SeeExpired(i)
    <3>1. UNCHANGED <<pc, inst, session, slot, kill_map, closed, disturbed>>
      BY <2>3
      DEF ProbeStep, MarkUnresponsive, PullSwitch, SendProbe, Elapse, SeeExpired, vars, connVars,
          sessionVars, routeVars, signalVars, historyVars
    <3>2. Alone(c) /\ Registers(c)
      BY <1>2, <3>1 DEF PeaceInv, Undisturbed
    <3> QED
      BY <3>1, <3>2 DEF Alone, Here, NameAt, Registers, SlotIsFree
  <2> QED
    BY <2>1, <2>2, <2>3 DEF Next, ConnStep
<1> QED
  BY <1>1, <1>2 DEF PeaceInv

\* An open connection that no other one disturbs has its session, its routing slot and its
\* kill switch, whatever the evicted and closed connections of its name clean up meanwhile.
THEOREM UndisturbedRegistered == Spec => []UndisturbedIsRegistered
<1>1. Init => PeaceInv
  BY DEF Init, PeaceInv, SlotFits, Undisturbed, Handshake
<1>2. TypeOK /\ PeaceInv => UndisturbedIsRegistered
  BY DEF PeaceInv, UndisturbedIsRegistered, Undisturbed, Registers, Registered, Is
<1>3. TypeOK /\ PeaceInv /\ [Next]_vars => PeaceInv'
  BY PeaceStep
<1> QED
  BY <1>1, <1>2, <1>3, SessionsTypeCorrect, PTL DEF Spec
===============================================================================
