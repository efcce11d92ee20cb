------------------------------ MODULE UserDirectory ------------------------------
(***************************************************************************)
(* Scores, gates and roles, next to the blocks of UserBlocks and over the  *)
(* same connection: permit_module of pipeline.rs, userdb_adjust_score,     *)
(* userdb_set_roles and chat_verify_identity of queries.rs.                *)
(*                                                                         *)
(* A price and a score adjustment are one point each.  What the engine     *)
(* believes happened is kept in a ledger, to be compared with the service. *)
(***************************************************************************)
EXTENDS UserBlocks

CONSTANTS
  Gated  \* whether the module wants a moderator, beyond its price

VARIABLES
  gate,    \* permit_module for one message, then the send
  verify,  \* chat_verify_identity of the terminal chat
  ledger,  \* history: what the engine knows of scores, by user
  said,    \* history: the moderators, by what was last said of each user
  unsure   \* history: users whose role was set without an answer, or written back stale

roleVars == <<verify, said, unsure>>
vars == <<clientVars, blockVars, gate, ledger, roleVars>>

Account0 == [credited |-> 0, served |-> 0, dropped |-> 0, unknown |-> 0]

\* What a platform says of the moderator role, if it says anything.
Claim == {"yes", "no", "none"}

TypeOK ==
  /\ BlocksTypeOK
  /\ gate \in [step : {"idle", "fetch", "pay", "send"}, user : User \cup {Nobody},
               meets : BOOLEAN, paid : BOOLEAN]
  /\ verify \in [step : {"idle", "set"}, user : User \cup {Nobody}, stored : BOOLEAN,
                 claim : Claim]
  /\ ledger \in [User -> [{"credited", "served", "dropped", "unknown"} -> 0 .. MaxOps]]
  /\ {said, unsure} \subseteq SUBSET User

NoGate == [step |-> "idle", user |-> Nobody, meets |-> FALSE, paid |-> FALSE]
NoVerify == [step |-> "idle", user |-> Nobody, stored |-> FALSE, claim |-> "none"]

Init ==
  /\ BlocksInit
  /\ gate = NoGate
  /\ verify = NoVerify
  /\ ledger = [u \in User |-> Account0]
  /\ said = dir.mods /\ unsure = {}

Books(u, entry) == ledger' = [ledger EXCEPT ![u][entry] = @ + 1]

OtherBlocks == UNCHANGED <<cache, bans, task, load, msg, appeal, astray, pardoned>>

--------------------------------------------------------------------------------
(***************************************************************************)
(* permit_module: authority, then rank, then price, and the send.          *)
(***************************************************************************)
StartGate(u) ==
  /\ gate.step = "idle"
  /\ Begin
  /\ gate' = [NoGate EXCEPT !.step = "fetch", !.user = u]
  /\ OtherBlocks /\ UNCHANGED <<clientVars, ledger, roleVars>>

\* The tier of the user; the rank is looked at in the same place.
meets_gate(u) == Gated => u \in dir.mods

\* Mutant: the price is asked of anyone, the rest of the gate looked at later.
is_charged(meets) == meets \in BOOLEAN

is_charged_last(meets) == meets

\* One lookup for roles, rank and score; when it fails the module is not held up.
FetchForGate ==
  LET r == [op |-> "get", user |-> gate.user]
  IN /\ gate.step = "fetch"
     /\ \/ /\ request(r)
           /\ gate' = IF gate.user \in dir.known /\ is_charged_last(meets_gate(gate.user))
                        THEN [gate EXCEPT !.step = "pay", !.meets = meets_gate(gate.user)]
                        ELSE NoGate
        \/ /\ request_fails(r)
           /\ gate' = [gate EXCEPT !.step = "send"]
     /\ OtherBlocks /\ UNCHANGED <<ops, ledger, roleVars>>

\* deduct_score: without an answer the module is skipped, charged or not.
Pay ==
  LET u == gate.user
      r == [op |-> "deduct", user |-> u]
  IN /\ gate.step = "pay"
     /\ \/ /\ request(r)
           /\ gate' = IF gate.meets /\ Accepts(dir, r)
                        THEN [gate EXCEPT !.step = "send", !.paid = TRUE] ELSE NoGate
           /\ UNCHANGED ledger
        \/ /\ request_fails(r)
           /\ gate' = NoGate
           /\ Books(u, "unknown")
     /\ OtherBlocks /\ UNCHANGED <<ops, roleVars>>

\* send_to_module: a send that is dropped is not refunded.
SendGated ==
  /\ gate.step = "send"
  /\ gate' = NoGate
  /\ IF gate.paid THEN Books(gate.user, "served") \/ Books(gate.user, "dropped")
                  ELSE UNCHANGED ledger
  /\ OtherBlocks /\ UNCHANGED <<clientVars, ops, roleVars>>

\* userdb_adjust_score, with the multiplier taken as one.
AdjustScore(u) ==
  LET r == [op |-> "credit", user |-> u]
  IN /\ Begin
     /\ \/ /\ request(r)
           /\ IF Accepts(dir, r) THEN Books(u, "credited") ELSE UNCHANGED ledger
        \/ request_fails(r) /\ Books(u, "unknown")
     /\ OtherBlocks /\ UNCHANGED <<gate, roleVars>>

--------------------------------------------------------------------------------
(***************************************************************************)
(* Roles: set by the operator, or vouched for by a platform.               *)
(***************************************************************************)
SetRole(u, on) == [op |-> IF on THEN "mod" ELSE "unmod", user |-> u]

Say(u, on) == said' = IF on THEN said \cup {u} ELSE said \ {u}

\* A verification that preserves what it has read writes it back over this.
userdb_set_roles(u, on) ==
  /\ task[Tui].step = "idle" /\ u \in dir.known
  /\ Begin
  /\ \/ /\ request(SetRole(u, on))
        /\ Say(u, on)
        /\ unsure' = IF verify.user = u /\ verify.claim = "none" THEN unsure \cup {u} ELSE unsure
     \/ /\ request_fails(SetRole(u, on))
        /\ unsure' = unsure \cup {u}
        /\ UNCHANGED said
  /\ OtherBlocks /\ UNCHANGED <<gate, ledger, verify>>

\* Mutant: the claim is joined with what is stored.
union_of_roles(stored, claim) == stored \/ claim = "yes"

\* The claim exactly; without one what is stored, as it was read.
roles_to_set(stored, claim) == IF claim = "none" THEN stored ELSE claim = "yes"

\* chat_verify_identity: add_user finds the account or creates it.
VerifyFind(h, u, claim) ==
  LET r == [op |-> "add_user", channel |-> h, user |-> u]
  IN /\ verify.step = "idle"
     /\ Begin
     /\ \/ /\ request(r)
           /\ verify' = [step |-> "set", user |-> u, stored |-> u \in dir.mods, claim |-> claim]
           /\ astray' = IF dir' # dir THEN astray \cup Inherits(dir', u, h) ELSE astray
        \/ /\ request_fails(r)
           /\ astray' = IF dir.owner[h] = Nobody THEN astray \cup {u} ELSE astray
           /\ UNCHANGED verify
     /\ UNCHANGED <<cache, bans, task, load, msg, appeal, pardoned, gate, ledger, said, unsure>>

VerifySet ==
  LET u == verify.user
      r == SetRole(u, roles_to_set(verify.stored, verify.claim))
  IN /\ verify.step = "set"
     /\ verify' = NoVerify
     /\ \/ /\ request(r)
           /\ IF verify.claim = "none" THEN UNCHANGED said ELSE Say(u, verify.claim = "yes")
           /\ UNCHANGED unsure
        \/ /\ request_fails(r)
           /\ unsure' = unsure \cup {u}
           /\ UNCHANGED said
     /\ OtherBlocks /\ UNCHANGED <<ops, gate, ledger>>

--------------------------------------------------------------------------------
BlockStep == Blocks /\ UNCHANGED <<gate, ledger, roleVars>>

ServiceStep == CarriedOutLate /\ UNCHANGED <<blockVars, gate, ledger, roleVars>>

Gates == (\E u \in User : StartGate(u)) \/ FetchForGate \/ Pay \/ SendGated

Scores == \E u \in User : AdjustScore(u)

Roles ==
  \/ \E u \in User, on \in BOOLEAN : userdb_set_roles(u, on)
  \/ \E h \in Handle, claim \in Claim : \E u \in AccountOf(h) : VerifyFind(h, u, claim)
  \/ VerifySet

Next == BlockStep \/ ServiceStep \/ Gates \/ Scores \/ Roles

Spec == Init /\ [][Next]_vars

--------------------------------------------------------------------------------
\* A score moves by what was paid for a send or credited, and by nothing else; only a
\* request without an answer leaves a doubt, one point each, and a price is asked only
\* of a sender who meets the rest of the gate (pipeline.rs:1021-1035).
ScoreIsAccounted ==
  \A u \in User :
    LET entry == ledger[u]
        inHand == IF gate.user = u /\ gate.paid THEN 1 ELSE 0
        booked == StartScore + entry.credited - entry.served - entry.dropped - inHand
    IN dir.score[u] \in booked - entry.unknown .. booked + entry.unknown

\* A role is what the operator or a platform last said, however verifications and the
\* operator's changes meet (queries.rs:3241-3247), unless one was not answered or wrote
\* back an older reading.
RolesAreAsSaid == \A u \in dir.known \ unsure : u \in dir.mods <=> u \in said
================================================================================
