----------------------------- MODULE SwarmRules -----------------------------
(***************************************************************************)
(* The rules by which a swarm picks tasks and puts them side by side        *)
(* (swarm_scheduler.py).  A task is a number, its identifier; identifiers   *)
(* are compared when batches are built.                                     *)
(*                                                                          *)
(* A plan p is a record                                                     *)
(*   order   the tasks in plan order                                        *)
(*   deps    for each task, its effective dependencies (the declared ones,  *)
(*           or the one inferred when none is declared)                     *)
(*   files   for each task, the precise paths it claims                     *)
(*   vague   the tasks that also claim a pattern                            *)
(*   group   for each task, its parallel_group, NoGroup if it has none      *)
(*   red     the expected-red regression tests                              *)
(*   impl    the tasks that claim a primary implementation path             *)
(* and the options o of a run are a record                                  *)
(*   retryFailed, retryChanges     Booleans                                 *)
(*   maxAttempts, maxTasks         NoLimit if there is none                 *)
(*   only                          the tasks that --only lets through       *)
(*                                                                          *)
(* What the code sorts is stated by its order, not by how it is sorted:     *)
(* Sorted and FirstFit say of a list or a schedule that it is the one.      *)
(***************************************************************************)
EXTENDS Integers, Sequences, FiniteSets, SequencesExt

CONSTANTS Task, File, Group, NoGroup, NoLimit

ASSUME RulesAssumption ==
    /\ Task \subseteq Nat
    /\ IsFiniteSet(Task)
    /\ NoGroup \notin Group
    /\ NoLimit \notin Nat

\* The lists of S in which everything is Before what follows: one, if Before is a
\* strict order that compares any two members of S.
Sorted(S, Before(_, _)) ==
    {s \in [1 .. Cardinality(S) -> S] :
       ToSet(s) = S /\ \A i, j \in DOMAIN s : i < j => Before(s[i], s[j])}

-----------------------------------------------------------------------------
(* Statuses *)

\* The statuses that release the tasks that depend on this one.
SuccessfulTerminal == {"done", "already_satisfied", "completed_unverified"}

Status ==
    SuccessfulTerminal \cup
    {"planned", "in_progress", "interrupted", "cancelled", "ready_for_merge",
     "failed", "verify_failed", "candidate_rejected", "changes_requested",
     "merge_conflict", "blocked_integration"}

RunnableStatus(s, o) ==
    \/ s \in {"planned", "interrupted", "cancelled"}
    \/ s \in {"failed", "verify_failed", "candidate_rejected"} /\ o.retryFailed
    \/ s = "changes_requested" /\ o.retryChanges

-----------------------------------------------------------------------------
(* Which tasks may run *)

\* Mutant of DepDone: an interrupted dependency counts as done.
DepDoneIfInterrupted(p, status, t, d) ==
    /\ d \in Task
    /\ status[d] \in SuccessfulTerminal \cup {"interrupted"}

\* A red test that waits for its fix does not hold back the fix.
DepDone(p, status, t, d) ==
    /\ d \in Task
    /\ \/ status[d] \in SuccessfulTerminal
       \/ status[d] = "ready_for_merge" /\ d \in p.red /\ t \in p.impl

DepsDone(p, status, t) == \A d \in p.deps[t] : DepDone(p, status, t, d)

\* Mutant of Selected: the dependencies are not looked at.
SelectedRegardless(p, o, status, attempts, t) ==
    /\ t \in o.only
    /\ RunnableStatus(status[t], o)
    /\ o.maxAttempts # NoLimit => attempts[t] < o.maxAttempts

Selected(p, o, status, attempts, t) ==
    /\ t \in o.only
    /\ RunnableStatus(status[t], o)
    /\ o.maxAttempts # NoLimit => attempts[t] < o.maxAttempts
    /\ DepsDone(p, status, t)

\* The tasks of a plan, in plan order.
Listed(p) == ToSet(p.order)
InOrder(p, a, b) == \E i, j \in DOMAIN p.order : i < j /\ p.order[i] = a /\ p.order[j] = b

AwaitingMerge(o, status, t) == t \in o.only /\ status[t] = "ready_for_merge"

Unlimited(o) == o.maxTasks \in {NoLimit, 0}

\* --max-tasks cuts the list in plan order, before any batch is built.
Cut(o, runnable) ==
    IF Unlimited(o) \/ Len(runnable) <= o.maxTasks
    THEN runnable ELSE SubSeq(runnable, 1, o.maxTasks)

\* The tasks of a schedule: those that may run, but only the first maxTasks.
Candidates(p, o, status, attempts) ==
    LET able == {t \in Listed(p) : Selected(p, o, status, attempts, t)}
    IN  {t \in able : \/ Unlimited(o)
                      \/ Cardinality({u \in able : InOrder(p, u, t)}) < o.maxTasks}

-----------------------------------------------------------------------------
(* Which tasks may run side by side *)

Precise(p, t) == p.files[t] # {} /\ t \notin p.vague

\* Mutant of PairSafe: the parallel groups are not compared.
PairSafeAcrossGroups(p, a, b) ==
    /\ Precise(p, a)
    /\ Precise(p, b)
    /\ p.files[a] \cap p.files[b] = {}

\* Mutant of PairSafe: the claimed files are not compared.
PairSafeAcrossFiles(p, a, b) ==
    /\ Precise(p, a)
    /\ Precise(p, b)
    /\ p.group[a] = NoGroup \/ p.group[a] # p.group[b]

PairSafe(p, a, b) ==
    /\ Precise(p, a)
    /\ Precise(p, b)
    /\ p.files[a] \cap p.files[b] = {}
    /\ p.group[a] = NoGroup \/ p.group[a] # p.group[b]

\* Tasks with a precise scope come first, then by identifier.
PlacedBefore(p, a, b) ==
    \/ Precise(p, a) /\ ~Precise(p, b)
    \/ (Precise(p, a) <=> Precise(p, b)) /\ a < b

\* Mutant of Fits: one task too many.
FitsOneMore(p, parallel, t, batch) ==
    /\ Precise(p, t)
    /\ Cardinality(batch) <= (IF parallel <= 0 THEN 1 ELSE parallel)
    /\ \A other \in batch : PairSafe(p, t, other)

Width(parallel) == IF parallel <= 0 THEN 1 ELSE parallel

Fits(p, parallel, t, batch) ==
    /\ Precise(p, t)
    /\ Cardinality(batch) < Width(parallel)
    /\ \A other \in batch : PairSafe(p, t, other)

Joinable(p, parallel, t, batches) ==
    {k \in DOMAIN batches : Fits(p, parallel, t, batches[k])}

\* Mutant of Put: only the newest batch is tried.
PutInNewest(p, parallel, batches, t) ==
    LET n == Len(batches)
    IN  IF n \in Joinable(p, parallel, t, batches)
        THEN [batches EXCEPT ![n] = @ \cup {t}]
        ELSE Append(batches, {t})

\* First fit: the earliest batch that takes the task, else a new one.
Put(p, parallel, batches, t) ==
    LET ks == Joinable(p, parallel, t, batches)
    IN  IF ks = {} THEN Append(batches, {t})
        ELSE LET k == CHOOSE k \in ks : \A j \in ks : k <= j
             IN  [batches EXCEPT ![k] = @ \cup {t}]

-----------------------------------------------------------------------------
(* The whole schedule at once *)

\* Those of a batch that were there when t was placed.
Met(p, t, batch) == {u \in batch : PlacedBefore(p, u, t)}

\* bs is what first fit makes of R: each task was refused by the batches before
\* its own, which existed by then, and either opened its own or fitted in.
FirstFit(p, parallel, R, bs) ==
    /\ UNION ToSet(bs) = R
    /\ \A k \in DOMAIN bs : bs[k] # {}
    /\ \A j, k \in DOMAIN bs : j # k => bs[j] \cap bs[k] = {}
    /\ \A k \in DOMAIN bs : \A t \in bs[k] :
         /\ \A j \in DOMAIN bs : j < k =>
              Met(p, t, bs[j]) # {} /\ ~Fits(p, parallel, t, Met(p, t, bs[j]))
         /\ Met(p, t, bs[k]) = {} \/ Fits(p, parallel, t, Met(p, t, bs[k]))

Schedules(p, parallel, R) ==
    {bs \in UNION {[1 .. n -> SUBSET R] : n \in 0 .. Cardinality(R)} :
       FirstFit(p, parallel, R, bs)}
=============================================================================
