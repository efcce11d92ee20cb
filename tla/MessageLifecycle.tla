---------------------------- MODULE MessageLifecycle ----------------------------
(***************************************************************************)
(* What the pipeline promises about one message, whatever tasks run it.    *)
(*                                                                         *)
(* The row is inserted once and finished once; nothing takes it out of an  *)
(* outcome but a review, and nothing but the operator takes it out of a    *)
(* review.  While the row is queued the message visits the stages in       *)
(* order, and a stage sends it to a module at most once per boot; a        *)
(* message that is finished or held visits nothing.                        *)
(***************************************************************************)
EXTENDS CommandRouting

VARIABLES
  status,   \* status[m]: the pipeline_status of the row
  sent      \* sent[m]: the <<stage, module>> m was sent to in this boot

lifecycleVars == <<status, sent>>

Rank(stage) ==
  CASE stage = "pre_process"  -> 1
    [] stage = "in_process"   -> 2
    [] stage = "post_process" -> 3

\* The modules configured for a stage.
ModulesOf(stage) ==
  CASE stage = "pre_process"  -> PreModules
    [] stage = "in_process"   -> InModuleSet
    [] stage = "post_process" -> PostModules

ChainPosition(x) == CHOOSE i \in 1..Len(InModules) : InModules[i] = x

\* May a message that was sent to p be sent to q afterwards?
Precedes(p, q) ==
  \/ Rank(p[1]) < Rank(q[1])
  \/ p[1] = q[1] /\ p[1] # "in_process" /\ p[2] # q[2]
  \/ p[1] = q[1] /\ p[1] = "in_process" /\ ChainPosition(p[2]) < ChainPosition(q[2])

LifecycleInit ==
  /\ status = [m \in Msg |-> "none"]
  /\ sent = [m \in Msg |-> {}]

Insert(m) ==
  /\ status[m] = "none"
  /\ status' = [status EXCEPT ![m] = "queued"]
  /\ UNCHANGED sent

Send(m, stage, x) ==
  /\ status[m] = "queued"
  /\ x \in ModulesOf(stage)
  /\ \A p \in sent[m] : Precedes(p, <<stage, x>>)
  /\ sent' = [sent EXCEPT ![m] = @ \cup {<<stage, x>>}]
  /\ UNCHANGED status

Finish(m, outcome) ==
  /\ status[m] = "queued"
  /\ status' = [status EXCEPT ![m] = outcome]
  /\ UNCHANGED sent

HoldForReview(m) ==
  /\ status[m] \notin {"none", "audit"}
  /\ status' = [status EXCEPT ![m] = "audit"]
  /\ UNCHANGED sent

Review(m, verdict) ==
  /\ status[m] = "audit"
  /\ status' = [status EXCEPT ![m] = verdict]
  /\ UNCHANGED sent

\* After a crash every stage may be visited again.
Reboot ==
  /\ sent' = [m \in Msg |-> {}]
  /\ UNCHANGED status

LifecycleNext ==
  \/ \E m \in Msg :
       \/ Insert(m)
       \/ \E stage \in Stage, x \in Module : Send(m, stage, x)
       \/ \E outcome \in {"complete", "failed", "dropped"} : Finish(m, outcome)
       \/ HoldForReview(m)
       \/ \E verdict \in {"complete", "failed"} : Review(m, verdict)
  \/ Reboot

LifecycleSpec == LifecycleInit /\ [][LifecycleNext]_lifecycleVars
===============================================================================
