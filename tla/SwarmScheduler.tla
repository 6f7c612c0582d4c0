--------------------------- MODULE SwarmScheduler ---------------------------
(***************************************************************************)
(* compute_schedule, step by step: one look at every task in plan order     *)
(* (select_task_candidates), the cut of --max-tasks, and one placement per  *)
(* runnable task (build_batches).                                           *)
(***************************************************************************)
EXTENDS SwarmRules

CONSTANT Jobs     \* the calls of compute_schedule that are considered

VARIABLES
    job,          \* the arguments of this call
    phase,        \* "select", "place" or "done"
    pos,          \* the next task of the plan to look at
    runnable,     \* the tasks selected so far, in plan order
    waiting,      \* the tasks reported as ready for merge
    skipped,      \* the tasks reported as skipped
    unplaced,     \* the runnable tasks that are in no batch yet
    batches       \* the batches built so far

vars == <<job, phase, pos, runnable, waiting, skipped, unplaced, batches>>

Plan == [order : Seq(Task), deps : [Task -> SUBSET Nat],
         files : [Task -> SUBSET File], vague : SUBSET Task,
         group : [Task -> Group \cup {NoGroup}],
         red : SUBSET Task, impl : SUBSET Task]

Options == [retryFailed : BOOLEAN, retryChanges : BOOLEAN,
            maxAttempts : Nat \cup {NoLimit}, maxTasks : Nat \cup {NoLimit},
            only : SUBSET Task]

Job == [plan : Plan, opt : Options, status : [Task -> Status],
        attempts : [Task -> Nat], parallel : Int]

ASSUME JobsAssumption ==
    /\ Jobs \subseteq Job
    /\ \A j \in Jobs : IsInjective(j.plan.order)

Init ==
    /\ job \in Jobs
    /\ phase = "select"
    /\ pos = 1
    /\ runnable = <<>>
    /\ waiting = {}
    /\ skipped = {}
    /\ unplaced = {}
    /\ batches = <<>>

-----------------------------------------------------------------------------
(* select_task_candidates *)

Chosen(t) == Selected(job.plan, job.opt, job.status, job.attempts, t)
Awaiting(t) == AwaitingMerge(job.opt, job.status, t)

Inspect ==
    /\ phase = "select"
    /\ pos <= Len(job.plan.order)
    /\ LET t == job.plan.order[pos]
       IN  \/ /\ Chosen(t)
              /\ runnable' = Append(runnable, t)
              /\ UNCHANGED <<waiting, skipped>>
           \/ /\ Awaiting(t)
              /\ waiting' = waiting \cup {t}
              /\ UNCHANGED <<runnable, skipped>>
           \/ /\ ~Chosen(t)
              /\ ~Awaiting(t)
              /\ skipped' = skipped \cup {t}
              /\ UNCHANGED <<runnable, waiting>>
    /\ pos' = pos + 1
    /\ UNCHANGED <<job, phase, unplaced, batches>>

Truncate ==
    /\ phase = "select"
    /\ pos > Len(job.plan.order)
    /\ runnable' = Cut(job.opt, runnable)
    /\ unplaced' = ToSet(runnable')
    /\ phase' = "place"
    /\ UNCHANGED <<job, pos, waiting, skipped, batches>>

-----------------------------------------------------------------------------
(* build_batches *)

\* Mutant of IsNext: plan order instead of the sorted order.
IsFirstInPlan(t) ==
    /\ t \in unplaced
    /\ LET at(u) == CHOOSE i \in DOMAIN runnable : runnable[i] = u
       IN  \A u \in unplaced \ {t} : at(t) < at(u)

IsNext(t) ==
    /\ t \in unplaced
    /\ \A u \in unplaced \ {t} : PlacedBefore(job.plan, t, u)

Place ==
    /\ phase = "place"
    /\ \E t \in unplaced :
         /\ IsNext(t)
         /\ batches' = Put(job.plan, job.parallel, batches, t)
         /\ unplaced' = unplaced \ {t}
    /\ UNCHANGED <<job, phase, pos, runnable, waiting, skipped>>

Finish ==
    /\ phase = "place"
    /\ unplaced = {}
    /\ phase' = "done"
    /\ UNCHANGED <<job, pos, runnable, waiting, skipped, unplaced, batches>>

Next == Inspect \/ Truncate \/ Place \/ Finish

Spec == Init /\ [][Next]_vars
-----------------------------------------------------------------------------
(* Properties *)

\* The variables have their types; what is to be placed was selected and cut.
TypeOK ==
    /\ job \in Jobs
    /\ phase \in {"select", "place", "done"}
    /\ pos \in Nat \ {0}
    /\ runnable \in Seq(Task)
    /\ waiting \subseteq Task
    /\ skipped \subseteq Task
    /\ unplaced \subseteq ToSet(runnable)
    /\ batches \in Seq(SUBSET Task)

\* Two tasks that will run at the same time claim disjoint precise paths and
\* are not of one parallel group, and no batch is wider than --parallel: the
\* workers of a batch never write the same file (build_batches, _pair_safe).
SafeBatches ==
    \A k \in DOMAIN batches :
      /\ Cardinality(batches[k]) \in 1 .. Width(job.parallel)
      /\ \A a, b \in batches[k] : a # b => PairSafe(job.plan, a, b)

\* Every runnable task is in exactly one place: still to be placed, or in one
\* batch; none is run twice and none is forgotten (build_batches).
PlacedOnce ==
    /\ phase # "select" =>
         \A t \in Task : \/ t \notin ToSet(runnable)
                         \/ t \in unplaced
                         \/ \E k \in DOMAIN batches : t \in batches[k]
    /\ phase = "done" => unplaced = {}
    /\ \A k \in DOMAIN batches : batches[k] \subseteq ToSet(runnable) \ unplaced
    /\ \A j, k \in DOMAIN batches : j # k => batches[j] \cap batches[k] = {}

\* No task waits for a later batch although an earlier one would take it
\* (the first fit of build_batches).
NoNeedlessBatch ==
    \A j, k \in DOMAIN batches : j < k =>
      \A t \in batches[k] : ~Fits(job.plan, job.parallel, t, batches[j])

\* No task of a schedule depends on another task of the same schedule, so the
\* batches may run in any order and side by side (_deps_done against
\* _runnable_status).
IndependentRunnables ==
    \A a, b \in ToSet(runnable) : b \notin job.plan.deps[a]

\* The loops find what the rules say of a schedule as a whole, which is where the
\* orchestrator model takes its batches from: the first --max-tasks of the tasks
\* that may run, in plan order, and their batches by first fit.
ScheduleAgrees ==
    phase = "done" =>
      LET all == Candidates(job.plan, job.opt, job.status, job.attempts)
      IN  /\ runnable \in Sorted(all, LAMBDA a, b : InOrder(job.plan, a, b))
          /\ FirstFit(job.plan, job.parallel, all, batches)
=============================================================================
