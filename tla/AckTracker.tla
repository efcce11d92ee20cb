------------------------------ MODULE AckTracker ------------------------------
(***************************************************************************)
(* The acknowledgements the pipeline waits for: AckTracker in pipeline.rs. *)
(* For every message the tracker holds the entries of the modules that     *)
(* were sent a stage message and have not answered it.                     *)
(*                                                                         *)
(* An entry's clock (sent_at, timeout) is kept as its answer: the budget   *)
(* is not spent yet, or it has run out.                                    *)
(*                                                                         *)
(* The code keeps the entries of one message in a Vec; here they are a set.*)
(* Every operation that removes an entry removes its equals with it.  The  *)
(* one that changes an entry, mark_receipt, changes the first one of the   *)
(* module: any of them here, and equal ones together.                      *)
(***************************************************************************)
EXTENDS EngineBase, Naturals

CONSTANT MaxResends   \* MAX_ACK_RESENDS

ASSUME MaxResendsAssumption == MaxResends \in Nat

Entry == [ stage   : Stage,
           mod     : Module,
           receipt : BOOLEAN,                      \* receipt_received
           resends : 0..MaxResends,                \* resend_count
           clock   : {"live", "expired"} ]

VARIABLE pending   \* pending[m]: the entries of message m

TrackerTypeOK == pending \in [Msg -> SUBSET Entry]

NewEntry(stage, x, resends) ==
  [stage |-> stage, mod |-> x, receipt |-> FALSE, resends |-> resends,
   clock |-> "live"]

Expired(e) == e.clock # "live"

EntriesOf(m, x) == {e \in pending[m] : e.mod = x}

is_pending_for(m, x, stage) == \E e \in EntriesOf(m, x) : e.stage = stage

--------------------------------------------------------------------------------

track(m, stage, x) ==
  pending' = [pending EXCEPT ![m] = @ \cup {NewEntry(stage, x, 0)}]

\* Mutant: the resend count is not carried over.
re_track_from_zero(m, stage, x, resends) ==
  pending' = [pending EXCEPT ![m] = @ \cup {NewEntry(stage, x, 0)}]

re_track(m, stage, x, resends) ==
  pending' = [pending EXCEPT ![m] = @ \cup {NewEntry(stage, x, resends + 1)}]

mark_receipt(m, x) ==
  \E e \in EntriesOf(m, x) :
    pending' = [pending EXCEPT
                  ![m] = (@ \ {e}) \cup {[e EXCEPT !.receipt = TRUE]}]

\* Removes every entry of x for m, whatever its stage.
ack_module(m, x) == pending' = [pending EXCEPT ![m] = @ \ EntriesOf(m, x)]

\* Mutant: the answer is taken before the removal.
still_pending_before_ack(m, x) == pending[m] # {}

still_pending_after_ack(m, x) == pending[m] # EntriesOf(m, x)

\* Drops everything still awaited for a finished message.
ack(m) == pending' = [pending EXCEPT ![m] = {}]

\* One expired entry as the sweep receives it, with the answer to "is
\* anything still pending for this message?" taken under the same lock.
Drained ==
  [msg : Msg, entry : Entry, still : BOOLEAN]

ExpiredEntries ==
  UNION { { [msg |-> m, entry |-> e,
             still |-> \E live \in pending[m] : ~Expired(live)]
            : e \in {d \in pending[m] : Expired(d)} } : m \in Msg }

\* Mutant: the expired entries are reported but stay in the tracker.
peek_timeouts == UNCHANGED pending

check_timeouts == pending' = [m \in Msg |-> {e \in pending[m] : ~Expired(e)}]

restart_clocks ==
  pending' = [m \in Msg |-> {[e EXCEPT !.clock = "live"] : e \in pending[m]}]

\* The budget of one entry runs out.
RunOut(m, e) ==
  /\ e \in pending[m]
  /\ ~Expired(e)
  /\ pending' = [pending EXCEPT
                   ![m] = (@ \ {e}) \cup {[e EXCEPT !.clock = "expired"]}]
===============================================================================
