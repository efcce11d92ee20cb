-------------------------------- MODULE Sessions --------------------------------
(***************************************************************************)
(* The connections of modules: handle_connection in main.rs, AuthStore in  *)
(* auth.rs, and the liveness probe task of main.rs.                        *)
(*                                                                         *)
(* A connection registers in three tables under separate locks:            *)
(*   the session of its instance  (AuthStore.sessions, with the socket     *)
(*                                 token of the connection that holds it)  *)
(*   the routing slot of its name (module_senders and slot_owner)          *)
(*   the kill switch of its instance (kill_map)                            *)
(* and takes itself out of them again, in another order, when its loop     *)
(* ends.  Meanwhile a newcomer may evict it, its own instance may return   *)
(* on another socket, and the probe task may ask for its end.  Each action *)
(* is one lock acquisition of one of these tasks.                          *)
(*                                                                         *)
(* A connection arrives with its PIN accepted and its approval given, or   *)
(* with the token an earlier connection of its instance was given.         *)
(***************************************************************************)
EXTENDS Naturals

CONSTANTS
  Socket,      \* the connections, by socket_token
  NoSocket,
  Instance,    \* module_instance_uuid7 of the module processes
  NoInstance,
  Name,        \* module names
  NameOf,      \* the name an instance connects under; its token is bound to it
  MaxProbes,   \* bound: probes sent
  MaxFailures  \* bound: replies of the handshake that cannot be sent

ASSUME SessionsAssumption ==
  /\ NoSocket \notin Socket
  /\ NoInstance \notin Instance
  /\ NameOf \in [Instance -> Name]
  /\ MaxProbes \in Nat
  /\ MaxFailures \in Nat

VARIABLES
  pc,            \* where the task of a connection is
  inst,          \* the instance a connection belongs to (assigned_uuid)
  incumbent,     \* the instance a newcomer found in the slot
  session,       \* session[i]: the socket bound to the session of i
  probe,         \* the probe window of a session
  unresponsive,  \* sessions flagged by the probe task
  issued,        \* instances that have their token
  slot,          \* slot[n]: the connection that messages for n go to
  kill_map,      \* kill_map[i]: the connection the kill switch of i closes
  killed,        \* connections whose kill switch was pulled
  closed,        \* connections whose outbound channel is closed
  still_owned,   \* connections that removed their own session
  prober,        \* what the probe task is doing
  disturbed,     \* history: see Arrive
  failed,        \* history: connections whose handshake reply failed
  used           \* how much of each bound is spent

connVars    == <<pc, inst, incumbent>>
sessionVars == <<session, probe, unresponsive, issued>>
routeVars   == <<slot, kill_map>>
signalVars  == <<killed, closed, still_owned>>
probeVars   == <<prober>>
historyVars == <<disturbed, failed, used>>

vars == <<connVars, sessionVars, routeVars, signalVars, probeVars, historyVars>>

Handshake == {"drop_others", "claim", "rebuild", "find", "kill", "free",
              "drop_named", "insert", "reply", "slot", "switch"}
Cleanup   == {"abort", "unswitch", "unbind", "unslot"}
PC        == Handshake \cup Cleanup \cup {"none", "open", "gone"}

TypeOK ==
  /\ pc \in [Socket -> PC]
  /\ inst \in [Socket -> Instance \cup {NoInstance}]
  /\ \A c \in Socket : pc[c] # "none" => inst[c] \in Instance
  /\ incumbent \in [Socket -> Instance \cup {NoInstance}]
  /\ \A c \in Socket : pc[c] = "kill" => incumbent[c] \in Instance
  /\ session \in [Instance -> Socket \cup {NoSocket}]
  /\ probe \in [Instance -> {"none", "open", "expired"}]
  /\ unresponsive \subseteq Instance
  /\ issued \subseteq Instance
  /\ slot \in [Name -> Socket \cup {NoSocket}]
  /\ kill_map \in [Instance -> Socket \cup {NoSocket}]
  /\ killed \subseteq Socket
  /\ closed \subseteq Socket
  /\ still_owned \subseteq Socket
  /\ \A n \in Name : slot[n] # NoSocket => inst[slot[n]] \in Instance
  /\ prober \in [pc : {"idle", "mark", "kill"}, inst : Instance \cup {NoInstance}]
  /\ prober.pc # "idle" => prober.inst \in Instance
  /\ disturbed \subseteq Socket
  /\ failed \subseteq Socket
  /\ used \in [probes : Nat, failures : Nat]

Sleeping == [pc |-> "idle", inst |-> NoInstance]

Init ==
  /\ pc = [c \in Socket |-> "none"]
  /\ inst = [c \in Socket |-> NoInstance]
  /\ incumbent = [c \in Socket |-> NoInstance]
  /\ session = [i \in Instance |-> NoSocket]
  /\ probe = [i \in Instance |-> "none"]
  /\ unresponsive = {}
  /\ issued = {}
  /\ slot = [n \in Name |-> NoSocket]
  /\ kill_map = [i \in Instance |-> NoSocket]
  /\ killed = {}
  /\ closed = {}
  /\ still_owned = {}
  /\ prober = Sleeping
  /\ disturbed = {}
  /\ failed = {}
  /\ used = [probes |-> 0, failures |-> 0]

--------------------------------------------------------------------------------
Is(c, p) == pc[c] = p
Goto(c, p) == pc' = [pc EXCEPT ![c] = p]
Step(c, from, to) == Is(c, from) /\ Goto(c, to)

NameAt(c) == NameOf[inst[c]]

\* slot_owner[n]: both maps are written together under both locks.
slot_owner(n) == IF slot[n] = NoSocket THEN NoInstance ELSE inst[slot[n]]

HasSession(i) == session[i] # NoSocket

\* A session that is removed takes its probe window and its flag with it.
Remove(gone) ==
  /\ session' = [i \in Instance |-> IF i \in gone THEN NoSocket ELSE session[i]]
  /\ probe' = [i \in Instance |-> IF i \in gone THEN "none" ELSE probe[i]]
  /\ unresponsive' = unresponsive \ gone
  /\ UNCHANGED issued

\* A session that is bound to c starts over.
Bind(i, c) ==
  /\ session' = [session EXCEPT ![i] = c]
  /\ probe' = [probe EXCEPT ![i] = "none"]
  /\ unresponsive' = unresponsive \ {i}
  /\ UNCHANGED issued

\* Everybody who bears the name of i and is not i.
OthersNamed(i) == {j \in Instance \ {i} : NameOf[j] = NameOf[i]}

--------------------------------------------------------------------------------
(***************************************************************************)
(* The handshake.                                                          *)
(***************************************************************************)
\* A connection is disturbed by another connection of its name that is in its
\* handshake at any time from its arrival on, and, if it returns with a token,
\* by one that is not gone at its arrival: only a first contact evicts.
Arrive(c, i) ==
  LET peers == {d \in Socket : /\ pc[d] \notin {"none", "gone"}
                               /\ NameOf[inst[d]] = NameOf[i]}
      late == \E d \in peers : pc[d] \in Handshake \/ i \in issued
  IN /\ Is(c, "none")
     /\ IF i \in issued
          THEN Goto(c, "drop_others")
          ELSE /\ \A d \in Socket : inst[d] # i
               /\ Goto(c, "find")
     /\ inst' = [inst EXCEPT ![c] = i]
     /\ disturbed' = disturbed \cup peers \cup (IF late THEN {c} ELSE {})
     /\ UNCHANGED <<incumbent, sessionVars, routeVars, signalVars, probeVars,
                    failed, used>>

\* Return with a token: remove_other_sessions_named, update_activity ...
DropOthers(c) ==
  /\ Step(c, "drop_others", "claim")
  /\ Remove(OthersNamed(inst[c]))
  /\ UNCHANGED <<inst, incumbent, routeVars, signalVars, probeVars, historyVars>>

\* ... claim_socket restamps the session, if it is still there ...
Claim(c) ==
  /\ Step(c, "claim", "rebuild")
  /\ IF HasSession(inst[c])
       THEN Bind(inst[c], c)
       ELSE UNCHANGED sessionVars
  /\ UNCHANGED <<inst, incumbent, routeVars, signalVars, probeVars, historyVars>>

\* ... and is built anew if the old socket's cleanup removed it.
Rebuild(c) ==
  /\ Step(c, "rebuild", "reply")
  /\ IF HasSession(inst[c])
       THEN UNCHANGED sessionVars
       ELSE Bind(inst[c], c)
  /\ UNCHANGED <<inst, incumbent, routeVars, signalVars, probeVars, historyVars>>

\* Mutant: a slot nobody holds counts as live.
IncumbentsOfEmpty(c) ==
  {slot_owner(n) : n \in {m \in {NameAt(c)} : slot[m] \notin closed}} \ {inst[c]}

\* First contact: the live connection in the slot, if it is another instance.
Incumbents(c) ==
  {slot_owner(n) : n \in {m \in {NameAt(c)} : slot[m] \notin closed \cup {NoSocket}}}
    \ {inst[c]}

FindIncumbent(c) ==
  /\ Is(c, "find")
  /\ \/ /\ \E i \in Incumbents(c) : incumbent' = [incumbent EXCEPT ![c] = i]
        /\ Goto(c, "kill")
     \/ /\ Incumbents(c) = {}
        /\ Goto(c, "drop_named")
        /\ UNCHANGED incumbent
  /\ UNCHANGED <<inst, sessionVars, routeVars, signalVars, probeVars, historyVars>>

\* The connection whose kill switch is registered under i.
SwitchOf(i) == {kill_map[i]} \ {NoSocket}

\* The incumbent is told to close ...
KillIncumbent(c) ==
  /\ Step(c, "kill", "free")
  /\ killed' = killed \cup SwitchOf(incumbent[c])
  /\ UNCHANGED <<inst, incumbent, sessionVars, routeVars, closed, still_owned,
                 probeVars, historyVars>>

\* ... and the name is freed, whoever holds it by now.
FreeSlot(c) ==
  /\ Step(c, "free", "drop_named")
  /\ slot' = [slot EXCEPT ![NameAt(c)] = NoSocket]
  /\ UNCHANGED <<inst, incumbent, sessionVars, kill_map, signalVars, probeVars,
                 historyVars>>

DropNamed(c) ==
  /\ Step(c, "drop_named", "insert")
  /\ Remove(OthersNamed(inst[c]))
  /\ UNCHANGED <<inst, incumbent, routeVars, signalVars, probeVars, historyVars>>

Insert(c) ==
  /\ Step(c, "insert", "reply")
  /\ Bind(inst[c], c)
  /\ UNCHANGED <<inst, incumbent, routeVars, signalVars, probeVars, historyVars>>

\* The ConnectionRequestReturn brings the module its token.
Reply(c) ==
  /\ Step(c, "reply", "slot")
  /\ issued' = issued \cup {inst[c]}
  /\ UNCHANGED <<inst, incumbent, session, probe, unresponsive, routeVars, signalVars,
                 probeVars, historyVars>>

\* It cannot be sent: the handler returns, and the session stays behind.
ReplyFails(c) ==
  /\ used.failures < MaxFailures
  /\ Step(c, "reply", "gone")
  /\ failed' = failed \cup {c}
  /\ used' = [used EXCEPT !.failures = @ + 1]
  /\ UNCHANGED <<inst, incumbent, sessionVars, routeVars, signalVars, probeVars,
                 disturbed>>

should_shadow(live_incumbent, same_instance) == live_incumbent /\ ~same_instance

\* The routing slot is taken, unless a live connection of another instance
\* holds it.
TakeSlot(c) ==
  LET n == NameAt(c) IN
  /\ Step(c, "slot", "switch")
  /\ IF should_shadow(slot[n] \notin closed \cup {NoSocket}, slot_owner(n) = inst[c])
       THEN UNCHANGED slot
       ELSE slot' = [slot EXCEPT ![n] = c]
  /\ UNCHANGED <<inst, incumbent, sessionVars, kill_map, signalVars, probeVars,
                 historyVars>>

RegisterSwitch(c) ==
  /\ Step(c, "switch", "open")
  /\ kill_map' = [kill_map EXCEPT ![inst[c]] = c]
  /\ UNCHANGED <<inst, incumbent, sessionVars, slot, signalVars, probeVars,
                 historyVars>>

--------------------------------------------------------------------------------
(***************************************************************************)
(* The loop and its end.                                                   *)
(***************************************************************************)
\* A frame of an instance with a session proves that the module is alive;
\* without a session the connection is severed.
Frame(c) ==
  /\ Is(c, "open")
  /\ IF HasSession(inst[c])
       THEN /\ probe' = [probe EXCEPT ![inst[c]] = "none"]
            /\ UNCHANGED pc
       ELSE /\ Goto(c, "abort")
            /\ UNCHANGED probe
  /\ UNCHANGED <<inst, incumbent, session, unresponsive, issued, routeVars,
                 signalVars, probeVars, historyVars>>

\* The writer task ends first: a send failed or timed out.
WriterEnds(c) ==
  /\ Is(c, "open")
  /\ c \notin closed
  /\ closed' = closed \cup {c}
  /\ UNCHANGED <<connVars, sessionVars, routeVars, killed, still_owned, probeVars,
                 historyVars>>

\* The loop ends: the peer closed, the writer is gone, or the kill switch was
\* pulled.
HangUp(c) ==
  /\ Step(c, "open", "abort")
  /\ UNCHANGED <<inst, incumbent, sessionVars, routeVars, signalVars, probeVars,
                 historyVars>>

AbortWriter(c) ==
  /\ Step(c, "abort", "unswitch")
  /\ closed' = closed \cup {c}
  /\ UNCHANGED <<inst, incumbent, sessionVars, routeVars, killed, still_owned,
                 probeVars, historyVars>>

\* The kill switch of the instance is removed.
Unswitch(c) ==
  /\ Step(c, "unswitch", "unbind")
  /\ kill_map' = [kill_map EXCEPT ![inst[c]] = NoSocket]
  /\ UNCHANGED <<inst, incumbent, sessionVars, slot, signalVars, probeVars,
                 historyVars>>

\* Mutant: the session goes whoever holds it.
HoldsAny(c) == HasSession(inst[c])

\* Mutant: only the connection that routes removes its session.
HoldsBoth(c) == session[inst[c]] = c /\ slot[NameAt(c)] = c

\* remove_if_socket: is the session still bound to this socket?
HoldsSession(c) == session[inst[c]] = c

Unbind(c) ==
  /\ Step(c, "unbind", "unslot")
  /\ IF HoldsSession(c)
       THEN Remove({inst[c]}) /\ still_owned' = still_owned \cup {c}
       ELSE UNCHANGED <<sessionVars, still_owned>>
  /\ UNCHANGED <<inst, incumbent, routeVars, killed, closed, probeVars, historyVars>>

\* Mutant: the slot goes with every connection of the name.
FreesAny(c) == TRUE

\* A connection that removed its own session takes the slot of its instance
\* with it.
FreesSlot(c) == c \in still_owned /\ slot_owner(NameAt(c)) = inst[c]

Unslot(c) ==
  /\ Step(c, "unslot", "gone")
  /\ slot' = IF FreesSlot(c) THEN [slot EXCEPT ![NameAt(c)] = NoSocket] ELSE slot
  /\ UNCHANGED <<inst, incumbent, sessionVars, kill_map, signalVars, probeVars,
                 historyVars>>

--------------------------------------------------------------------------------
(***************************************************************************)
(* The probe task.                                                         *)
(***************************************************************************)
\* Dead air: the module is asked to prove that it is alive.
SendProbe(i) ==
  /\ prober = Sleeping
  /\ used.probes < MaxProbes
  /\ HasSession(i) /\ i \notin unresponsive /\ probe[i] # "expired"
  /\ probe' = [probe EXCEPT ![i] = "open"]
  /\ used' = [used EXCEPT !.probes = @ + 1]
  /\ UNCHANGED <<connVars, session, unresponsive, issued, routeVars, signalVars,
                 probeVars, disturbed, failed>>

\* The window closes without an answer.
Elapse(i) ==
  /\ probe[i] = "open"
  /\ probe' = [probe EXCEPT ![i] = "expired"]
  /\ UNCHANGED <<connVars, session, unresponsive, issued, routeVars, signalVars,
                 probeVars, historyVars>>

\* The task sees it in its copy of the sessions, writes the timeline ...
SeeExpired(i) ==
  /\ prober = Sleeping
  /\ HasSession(i) /\ i \notin unresponsive /\ probe[i] = "expired"
  /\ prober' = [pc |-> "mark", inst |-> i]
  /\ UNCHANGED <<connVars, sessionVars, routeVars, signalVars, historyVars>>

\* ... flags the session the instance has by now ...
MarkUnresponsive ==
  /\ prober.pc = "mark"
  /\ prober' = [prober EXCEPT !.pc = "kill"]
  /\ IF HasSession(prober.inst)
       THEN /\ unresponsive' = unresponsive \cup {prober.inst}
            /\ probe' = [probe EXCEPT ![prober.inst] = "none"]
       ELSE UNCHANGED <<unresponsive, probe>>
  /\ UNCHANGED <<connVars, session, issued, routeVars, signalVars, historyVars>>

\* ... and pulls the kill switch the instance has by now.
PullSwitch ==
  /\ prober.pc = "kill"
  /\ killed' = killed \cup SwitchOf(prober.inst)
  /\ prober' = Sleeping
  /\ UNCHANGED <<connVars, sessionVars, routeVars, closed, still_owned, historyVars>>

--------------------------------------------------------------------------------
HandshakeStep(c) ==
  \/ DropOthers(c) \/ Claim(c) \/ Rebuild(c)
  \/ FindIncumbent(c) \/ KillIncumbent(c) \/ FreeSlot(c) \/ DropNamed(c) \/ Insert(c)
  \/ Reply(c) \/ TakeSlot(c) \/ RegisterSwitch(c)

CleanupStep(c) == AbortWriter(c) \/ Unswitch(c) \/ Unbind(c) \/ Unslot(c)

ProbeStep == MarkUnresponsive \/ PullSwitch

Next ==
  \/ \E c \in Socket, i \in Instance : Arrive(c, i)
  \/ \E c \in Socket :
       \/ HandshakeStep(c) \/ ReplyFails(c)
       \/ Frame(c) \/ WriterEnds(c) \/ HangUp(c) \/ CleanupStep(c)
  \/ \E i \in Instance : SendProbe(i) \/ Elapse(i) \/ SeeExpired(i)
  \/ ProbeStep

Spec == Init /\ [][Next]_vars

--------------------------------------------------------------------------------
(***************************************************************************)
(* Properties.                                                             *)
(***************************************************************************)
Registered(c) ==
  /\ session[inst[c]] = c
  /\ slot[NameAt(c)] = c
  /\ kill_map[inst[c]] = c

\* A connection that no other one disturbs has its session, the routing slot
\* and its kill switch for as long as its loop runs, whatever the cleanups of
\* evicted and closed connections of its name do meanwhile: "the evicted
\* socket's async cleanup sees a different owner and leaves it".
UndisturbedIsRegistered ==
  \A c \in Socket \ disturbed : Is(c, "open") => Registered(c)

\* A session never outlives the connection it is bound to, except when the
\* handshake could not be answered: remove_if_socket finds every session that
\* its own socket still holds.
NoGhostSession ==
  \A i \in Instance :
    HasSession(i) => ~Is(session[i], "gone") \/ session[i] \in failed

\* The session of an open connection is taken from it only by a connection of
\* its name in its handshake, never by the cleanup of an old socket.
LosesSession(c) ==
  /\ Is(c, "open") /\ session[inst[c]] = c
  /\ pc'[c] = "open" /\ session'[inst[c]] # c

IsTaken(c) == \E d \in Socket \ {c} : pc[d] \in Handshake /\ NameAt(d) = NameAt(c)

SessionIsLostToNewcomers == [][\A c \in Socket : LosesSession(c) => IsTaken(c)]_vars

\* The probe task can close an open connection that holds the session: "Register
\* a kill switch so the probe task can close this connection".  The code does not
\* keep this (see the README), and no run checks it.
KillSwitchIsRegistered ==
  \A c \in Socket :
    Is(c, "open") /\ session[inst[c]] = c => kill_map[inst[c]] # NoSocket
===============================================================================
