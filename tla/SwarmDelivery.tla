--------------------------- MODULE SwarmDelivery ----------------------------
(***************************************************************************)
(* Runs of the orchestrator, with their rounds, batches, gates, cleanups   *)
(* and crashes, implement what module Delivery promises about a plan.      *)
(***************************************************************************)
EXTENDS Swarm

\* A test that is expected to fail is not awaited.
Awaits(t) == plan.deps[t] \ plan.red

\* What a status means to those who depend on the task.
LifeOf(s) ==
    CASE s = "in_progress" -> "running"
      [] s \in {"ready_for_merge", "merge_conflict"} -> "ready"
      [] s = "done" -> "merged"
      [] s = "completed_unverified" -> "kept"
      [] s = "already_satisfied" -> "satisfied"
      [] s = "blocked_integration" -> "blocked"
      [] OTHER -> "open"

D == INSTANCE Delivery WITH
       awaits <- [t \in Task |-> Awaits(t)],
       life <- [t \in Task |-> LifeOf(status[t])],
       cut <- view

\* No run, crash or restart does with a task what the promise excludes: begin it too
\* early or on a branch without what it awaits, call it merged before it has landed,
\* land what was not ready, or take back what is merged or kept.
ImplementsDelivery == D!DeliverySpec
=============================================================================
