------------------------------ MODULE Delivery ------------------------------
(***************************************************************************)
(* What a swarm promises whoever relies on its plan, whatever it retries,  *)
(* rejects or blocks, and wherever it crashes.  A task is begun only when  *)
(* all that it awaits is delivered, on a branch that was cut when it was.  *)
(* Its work lands in the base branch when it is ready; it is called merged *)
(* when it has landed; and what is merged or kept stays so.                *)
(* SwarmDelivery shows how runs of the orchestrator keep this promise.     *)
(***************************************************************************)
CONSTANTS Task, NoBranch

VARIABLES
    awaits,  \* for each task, those that are to be delivered before it
    life,    \* "open", "running", "ready", "blocked", or Delivered
    cut,     \* for each task, what its branch was cut from, if it has one
    base     \* the tasks whose work is in the base branch

deliveryVars == <<awaits, life, cut, base>>

\* A satisfied task had nothing left to do; the work of a kept one stays on its branch.
Delivered == {"merged", "kept", "satisfied"}

Free(t) == \A d \in awaits[t] : d \in Task /\ life[d] \in Delivered

Becomes(S, l) == life' = [t \in Task |-> IF t \in S THEN l ELSE life[t]]
MayDrop(t) == cut' \in {cut, [cut EXCEPT ![t] = NoBranch]}

DeliveryInit ==
    /\ life = [t \in Task |-> "open"]
    /\ cut = [t \in Task |-> NoBranch]
    /\ base = {}

\* The branch is cut, or cut anew.
Cut(t) ==
    /\ life[t] = "open"
    /\ Free(t)
    /\ cut' = [cut EXCEPT ![t] = base]
    /\ UNCHANGED <<awaits, life, base>>

Begin(t) ==
    /\ life[t] = "open"
    /\ Free(t)
    /\ cut[t] # NoBranch
    /\ Becomes({t}, "running")
    /\ UNCHANGED <<awaits, cut, base>>

\* The attempt ends; what is to be used keeps its branch.
End(t) ==
    /\ life[t] = "running"
    /\ \/ \E l \in {"ready", "kept"} : Becomes({t}, l) /\ UNCHANGED cut
       \/ \E l \in {"open", "satisfied"} : Becomes({t}, l) /\ MayDrop(t)
    /\ UNCHANGED <<awaits, base>>

Land(t) ==
    /\ life[t] = "ready"
    /\ cut[t] # NoBranch
    /\ base' = base \cup {t}
    /\ UNCHANGED <<awaits, life, cut>>

Record(t) ==
    /\ life[t] = "ready"
    /\ t \in base
    /\ Becomes({t}, "merged")
    /\ MayDrop(t)
    /\ UNCHANGED <<awaits, base>>

\* Some of what was ready is not taken; the branches go one by one.
GiveUp(t) ==
    /\ life[t] \in {"ready", "open"}
    /\ \E S \in SUBSET {u \in Task : life[u] = "ready"} : Becomes(S, "open")
    /\ MayDrop(t)
    /\ UNCHANGED <<awaits, base>>

\* What a crash has left running is open again.
Recover ==
    /\ Becomes({t \in Task : life[t] = "running"}, "open")
    /\ UNCHANGED <<awaits, cut, base>>

\* Nothing is begun any more of what is neither merged nor kept.
Block ==
    /\ \E S \in SUBSET {t \in Task : life[t] \in {"open", "ready", "satisfied"}} :
         Becomes(S, "blocked")
    /\ UNCHANGED <<awaits, cut, base>>

DeliveryNext ==
    \/ \E t \in Task : Cut(t) \/ Begin(t) \/ End(t) \/ Land(t) \/ Record(t) \/ GiveUp(t)
    \/ Recover \/ Block

DeliverySpec == DeliveryInit /\ [][DeliveryNext]_deliveryVars

\* What follows: merged work is in the base branch, and a branch has the merged work
\* of all that its task awaits.
Sound ==
    /\ \A t \in Task : life[t] = "merged" => t \in base
    /\ \A t \in Task : cut[t] # NoBranch =>
         \A d \in awaits[t] : life[d] = "merged" => d \in cut[t]
=============================================================================
