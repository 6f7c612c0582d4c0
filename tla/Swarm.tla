------------------------------- MODULE Swarm --------------------------------
(***************************************************************************)
(* run_swarm (swarm_orchestrator.py): one process at a time executes the    *)
(* plan of a Forge run.  It starts a thread per task of a batch, each in a  *)
(* git worktree of its own, judges what they return, and merges what was    *)
(* accepted into the base branch.  The plan file, the worktrees and the     *)
(* base branch survive a crash; everything else is lost with the process.   *)
(* The workspace guard of RunLock lets no second run in.                    *)
(*                                                                          *)
(* A plan and the options of a run are the records of SwarmRules, with      *)
(*   declared   the dependencies a task declares (a subset of its deps)     *)
(* in the plan, and in the options                                          *)
(*   merge          "auto" or "review"                                      *)
(*   gate           the integration gate: "off", "warn" or "strict"         *)
(*   keep           --keep-worktrees                                        *)
(*   review, strictVerify, strictRemote, retryConflicts     Booleans        *)
(*   cancellable    the host passed a cancellation event                    *)
(***************************************************************************)
EXTENDS SwarmRules

CONSTANTS
    Plans,            \* the plans that are considered
    RunOptions,       \* the options a run may be started with
    DefaultAttempts,  \* the attempt limit of a retrying run without one (3)
    AttemptCap,       \* attempts are counted up to this number
    NoBranch, NoRun   \* model values

ASSUME SwarmAssumption ==
    /\ DefaultAttempts \in Nat
    /\ AttemptCap \in Nat
    /\ DefaultAttempts <= AttemptCap
    /\ \A o \in RunOptions : o.maxAttempts # NoLimit => o.maxAttempts <= AttemptCap
    /\ \A p \in Plans : p.order \in Seq(Task) /\ IsInjective(p.order)
    /\ \A S \in SUBSET Task : S # NoBranch

VARIABLES
    plan,             \* the task graph, which a run does not change
    status, attempts, \* the plan file
    view,             \* for each task, what was merged when its branch was cut
    work,             \* the tasks whose branch has commits of a worker
    edits,            \* the tasks whose worktree has uncommitted changes
    dirty,            \* the tasks whose last cleanup is incomplete
    base,             \* the tasks whose work is in the base branch
    torn,             \* history: a crash hid that this task was merged
    pc, todo, back,   \* where the run is, what this stage has left, what follows
    opt, cancelled,   \* the options of the run, its cancellation event
    blocked,          \* the strict gate has stopped this run
    executed, avoid,  \* results so far (if limited), tasks not to try again
    queue, batch,     \* the batches left of a schedule, the tasks of this one
    worker,           \* the workers of this batch, or their results
    items             \* the tasks that go through the gate together

file == <<status, attempts>>
trees == <<view, work, edits, dirty>>
run == <<opt, cancelled, blocked, executed, avoid>>
crew == <<queue, batch, worker>>
vars == <<plan, file, trees, base, torn, pc, todo, back, run, crew, items>>

Result == {"changed", "unverified", "noop", "failed", "verify_failed",
           "interrupted", "crashed"}

Working == Result \cup {"none", "queued", "busy", "committed"}

NobodyWorks == [t \in Task |-> "none"]

Init ==
    /\ plan \in Plans
    /\ status = [t \in Task |-> "planned"]
    /\ attempts = [t \in Task |-> 0]
    /\ view = [t \in Task |-> NoBranch]
    /\ work = {} /\ edits = {} /\ dirty = {}
    /\ base = {} /\ torn = {}
    /\ pc = "idle" /\ todo = <<>> /\ back = "loop"
    /\ opt = NoRun /\ cancelled = FALSE
    /\ blocked = FALSE /\ executed = 0 /\ avoid = {}
    /\ queue = <<>> /\ batch = {} /\ worker = NobodyWorks
    /\ items = <<>>

-----------------------------------------------------------------------------
(* Helpers *)

\* The one list of these tasks in plan order, and by identifier.
InPlanOrder(S) == Sorted(S \cap Listed(plan), LAMBDA a, b : InOrder(plan, a, b))
ById(S) == Sorted(S, <)

Mark(t, s) == status' = [status EXCEPT ![t] = s]

\* The next task of this stage, or the next stage.
Advance(next) ==
    /\ todo' = Tail(todo)
    /\ pc' = IF Len(todo) = 1 THEN next ELSE pc

\* The process is gone: its memory with it.
Halt ==
    /\ pc' = "idle" /\ todo' = <<>> /\ back' = "loop"
    /\ opt' = NoRun /\ cancelled' = FALSE
    /\ blocked' = FALSE /\ executed' = 0 /\ avoid' = {}
    /\ queue' = <<>> /\ batch' = {} /\ worker' = NobodyWorks
    /\ items' = <<>>

Unbranch(t) ==
    /\ view' = [view EXCEPT ![t] = NoBranch]
    /\ work' = work \ {t}
    /\ edits' = edits \ {t}

\* The workspace of a task that was not accepted.  It stays if worktrees are
\* kept, if not even the marker of an incomplete cleanup can be written, or if
\* the process dies before the cleanup.
CleanupFailed(t) ==
    \/ UNCHANGED trees
    \/ ~opt.keep /\ Unbranch(t) /\ UNCHANGED dirty
    \/ /\ ~opt.keep
       /\ dirty' = dirty \cup {t}
       /\ edits' \in {edits, edits \ {t}}
       /\ UNCHANGED <<view, work>>

\* The workspace of a task that was accepted; an incomplete cleanup is only
\* reported, and git refuses to delete a branch that is not merged.
CleanupAccepted(t) ==
    \/ UNCHANGED trees
    \/ ~opt.keep /\ edits' = edits \ {t} /\ UNCHANGED <<view, work, dirty>>
    \/ ~opt.keep /\ t \notin work \ base /\ Unbranch(t) /\ UNCHANGED dirty

\* An expected-red test waits while a task that declared it is unfinished.
UnfinishedDependent(st, t) ==
    \E u \in Task : t \in plan.declared[u] /\ st[u] \in {"planned", "in_progress"}

\* Mutant of Deferred: the test is merged as soon as it is written.
NeverDeferred(st, t) == FALSE

Deferred(st, t) == t \in plan.red /\ UnfinishedDependent(st, t)

-----------------------------------------------------------------------------
(* Startup *)

Pending(st, o) ==
    {t \in Task : \/ st[t] = "ready_for_merge" /\ ~Deferred(st, t)
                  \/ st[t] = "merge_conflict" /\ o.retryConflicts}

\* Mutant of Recovered: what a crashed run left in progress stays so.
NotRecovered == status

Recovered == [t \in Task |-> IF status[t] = "in_progress" THEN "failed" ELSE status[t]]

StartRun ==
    /\ pc = "idle"
    /\ \E o \in RunOptions :
         /\ opt' = o
         /\ cancelled' \in IF o.cancellable THEN BOOLEAN ELSE {FALSE}
         /\ status' = Recovered
         /\ todo' \in IF o.merge = "auto" /\ ~cancelled'
                      THEN InPlanOrder(Pending(Recovered, o)) ELSE {<<>>}
         /\ pc' = IF todo' = <<>> THEN "loop" ELSE "pending"
    /\ back' = "loop"
    /\ UNCHANGED <<plan, attempts, trees, base, torn, blocked, executed, avoid, crew,
                   items>>

\* What strict remote sync and the review gate may say of a result.
Verdicts ==
    (IF opt.strictRemote \/ opt.review THEN {"failed"} ELSE {}) \cup
    (IF opt.review THEN {"changes_requested"} ELSE {})

AfterPending(ready) == IF ready = <<>> THEN "loop" ELSE "gate"

KeepPending ==
    /\ pc = "pending"
    /\ view[Head(todo)] # NoBranch
    /\ items' = Append(items, Head(todo))
    /\ Advance(AfterPending(items'))
    /\ UNCHANGED <<plan, file, trees, base, torn, back, run, crew>>

DropPending ==
    /\ pc = "pending"
    /\ LET t == Head(todo)
       IN  /\ \E s \in Verdicts \cup (IF view[t] = NoBranch THEN {"failed"} ELSE {}) :
                Mark(t, s)
           /\ CleanupFailed(t)
    /\ Advance(AfterPending(items))
    /\ UNCHANGED <<plan, attempts, base, torn, back, run, crew, items>>

-----------------------------------------------------------------------------
(* The integration gate: the items are merged into a candidate first *)

\* The candidate passes, or its failure is tolerated, or there is no gate.
Accept ==
    /\ pc = "gate"
    /\ opt.gate # "off" => \A t \in ToSet(items) : view[t] # NoBranch
    /\ pc' = "merge"
    /\ todo' = items
    /\ UNCHANGED <<plan, file, trees, base, torn, back, run, crew, items>>

\* The candidate cannot be assembled, or fails.
Refuse ==
    /\ pc = "gate"
    /\ opt.gate # "off"
    /\ pc' = "reject"
    /\ todo' = items
    /\ UNCHANGED <<plan, file, trees, base, torn, back, run, crew, items>>

Rejected(S) == [t \in Task |-> IF t \in S THEN "candidate_rejected" ELSE status[t]]

\* "drop": the candidate is given up because a deferred test is missing.  The
\* plan is saved early only to record that a cleanup is incomplete.
RejectCleanup ==
    /\ pc \in {"reject", "drop"}
    /\ todo # <<>>
    /\ LET t == Head(todo)
       IN  /\ CleanupFailed(t)
           /\ status' = IF ~opt.keep /\ view'[t] # NoBranch
                        THEN Rejected(ToSet(items) \ ToSet(Tail(todo))) ELSE status
    /\ todo' = Tail(todo)
    /\ UNCHANGED <<plan, attempts, base, torn, pc, back, run, crew, items>>

RejectSave ==
    /\ pc \in {"reject", "drop"}
    /\ todo = <<>>
    /\ status' = Rejected(ToSet(items))
    /\ pc' = IF pc = "reject" /\ opt.gate = "strict" THEN "block" ELSE back
    /\ items' = <<>>
    /\ UNCHANGED <<plan, attempts, trees, base, torn, todo, back, run, crew>>

\* Mutant of Settled: done is missing from it.
SettledWithoutDone == {"failed", "verify_failed", "candidate_rejected",
                       "changes_requested", "merge_conflict", "interrupted"}

\* The statuses that a strict gate leaves alone.
Settled == {"done", "completed_unverified", "failed", "verify_failed",
            "candidate_rejected", "changes_requested", "merge_conflict",
            "blocked_integration", "interrupted", "cancelled"}

BlockRemaining ==
    /\ pc = "block"
    /\ status' = [t \in Task |->
                    IF t \in ToSet(plan.order) \cap opt.only /\ status[t] \notin Settled
                    THEN "blocked_integration" ELSE status[t]]
    /\ blocked' = TRUE
    /\ pc' = "loop"
    /\ UNCHANGED <<plan, attempts, trees, base, torn, todo, back, opt, cancelled,
                   executed, avoid, crew, items>>

-----------------------------------------------------------------------------
(* Merging into the base branch, item by item *)

\* The merge commit exists; the plan does not say so yet.
Apply ==
    /\ pc = "merge"
    /\ view[Head(todo)] # NoBranch
    /\ base' = base \cup {Head(todo)}
    /\ pc' = "applied"
    /\ UNCHANGED <<plan, file, trees, torn, todo, back, run, crew, items>>

EndMerge == items' = IF Len(todo) = 1 THEN <<>> ELSE items

MarkDone ==
    /\ pc = "applied"
    /\ LET t == Head(todo)
       IN  /\ Mark(t, "done")
           /\ CleanupAccepted(t)
           /\ torn' = torn \ {t}
    /\ todo' = Tail(todo)
    /\ pc' = IF Len(todo) = 1 THEN back ELSE "merge"
    /\ EndMerge
    /\ UNCHANGED <<plan, attempts, base, back, run, crew>>

\* Mutant of MergeConflicts: a conflict that was aborted counts as resolved.
ConflictTakenForDone ==
    /\ pc = "merge"
    /\ Mark(Head(todo), "done")
    /\ Advance(back)
    /\ EndMerge
    /\ UNCHANGED <<plan, attempts, trees, base, torn, back, run, crew>>

\* The conflict is aborted; the branch stays for a person or a retry.
MergeConflicts ==
    /\ pc = "merge"
    /\ Mark(Head(todo), "merge_conflict")
    /\ Advance(back)
    /\ EndMerge
    /\ UNCHANGED <<plan, attempts, trees, base, torn, back, run, crew>>

MergeFails ==
    /\ pc = "merge"
    /\ Mark(Head(todo), "failed")
    /\ CleanupFailed(Head(todo))
    /\ Advance(back)
    /\ EndMerge
    /\ UNCHANGED <<plan, attempts, base, torn, back, run, crew>>

-----------------------------------------------------------------------------
(* The main loop: a schedule, its batches *)

\* Mutant of EffectiveMaxAttempts: no limit unless one is asked for.
OnlyTheGivenLimit(o) == o.maxAttempts

\* A run that retries has a limit even if none is asked for.
EffectiveMaxAttempts(o) ==
    IF o.maxAttempts = NoLimit /\ (o.retryFailed \/ o.retryChanges)
    THEN DefaultAttempts ELSE o.maxAttempts

Limited == opt.maxTasks \notin {NoLimit, 0}

ThisRound ==
    [opt EXCEPT !.maxAttempts = EffectiveMaxAttempts(opt),
                !.maxTasks = IF Limited THEN opt.maxTasks - executed ELSE NoLimit]

Runnables == Candidates(plan, ThisRound, status, attempts)

GoesOn ==
    /\ ~blocked
    /\ Limited => executed < opt.maxTasks
    /\ ~(Runnables \subseteq avoid)

Schedule ==
    /\ pc = "loop"
    /\ GoesOn
    /\ queue' \in Schedules(plan, opt.parallel, Runnables)
    /\ pc' = "batches"
    /\ UNCHANGED <<plan, file, trees, base, torn, todo, back, run, batch, worker, items>>

FinishRun ==
    /\ pc = "loop"
    /\ ~GoesOn
    /\ Halt
    /\ UNCHANGED <<plan, file, trees, base, torn>>

\* Nothing of this batch is tried again in this run.
SkipBatch ==
    /\ pc = "batches"
    /\ queue # <<>>
    /\ Head(queue) \subseteq avoid
    /\ queue' = Tail(queue)
    /\ UNCHANGED <<plan, file, trees, base, torn, pc, todo, back, run, batch, worker, items>>

NextBatch ==
    /\ pc = "batches"
    /\ queue # <<>>
    /\ ~(Head(queue) \subseteq avoid)
    /\ todo' \in ById(Head(queue) \ avoid)
    /\ queue' = Tail(queue)
    /\ batch' = {}
    /\ pc' = "prepare"
    /\ UNCHANGED <<plan, file, trees, base, torn, back, run, worker, items>>

EndOfSchedule ==
    /\ pc = "batches"
    /\ queue = <<>>
    /\ pc' = "loop"
    /\ UNCHANGED <<plan, file, trees, base, torn, todo, back, run, crew, items>>

\* An incomplete cleanup is finished first; a branch that is still there is
\* used again; a worktree that is not clean is made anew.
Prepare ==
    /\ pc = "prepare"
    /\ LET t == Head(todo)
       IN  /\ IF t \in dirty \/ view[t] = NoBranch
              THEN /\ view' = [view EXCEPT ![t] = base]
                   /\ work' = work \ {t}
              ELSE UNCHANGED <<view, work>>
           /\ dirty' = dirty \ {t}
           /\ edits' = edits \ {t}
           /\ batch' = batch \cup {t}
    /\ IF Len(todo) = 1
       THEN pc' = "start" /\ todo' \in ById(batch')
       ELSE pc' = "prepare" /\ todo' = Tail(todo)
    /\ UNCHANGED <<plan, file, base, torn, back, run, queue, worker, items>>

PrepareFails ==
    /\ pc = "prepare"
    /\ Mark(Head(todo), "failed")
    /\ avoid' = avoid \cup {Head(todo)}
    /\ edits' \in {edits, edits \ {Head(todo)}}
    /\ IF Len(todo) = 1
       THEN /\ pc' = IF batch = {} THEN "batches" ELSE "start"
            /\ todo' \in ById(batch)
       ELSE pc' = "prepare" /\ todo' = Tail(todo)
    /\ UNCHANGED <<plan, attempts, view, work, dirty, base, torn, back, opt, cancelled,
                   blocked, executed, crew, items>>

StartTask ==
    /\ pc = "start"
    /\ LET t == Head(todo)
       IN  /\ attempts' = [attempts EXCEPT ![t] = IF @ < AttemptCap THEN @ + 1 ELSE @]
           /\ Mark(t, "in_progress")
           /\ worker' = [worker EXCEPT ![t] = "queued"]
    /\ Advance("work")
    /\ UNCHANGED <<plan, trees, base, torn, back, run, queue, batch, items>>

-----------------------------------------------------------------------------
(* The workers of a batch, side by side (swarm_worker.py) *)

Report(t, r) == worker' = [worker EXCEPT ![t] = r]

\* A worker first looks whether the run is cancelled, unless its setup fails.
WorkerBegins(t) ==
    /\ pc = "work"
    /\ worker[t] = "queued"
    /\ \E r \in IF cancelled THEN {"interrupted", "failed"} ELSE {"busy"} : Report(t, r)
    /\ UNCHANGED <<plan, file, trees, base, torn, pc, todo, back, run, queue, batch, items>>

WorkerEdits(t) ==
    /\ pc = "work"
    /\ worker[t] = "busy"
    /\ t \notin edits
    /\ edits' = edits \cup {t}
    /\ UNCHANGED <<plan, file, view, work, dirty, base, torn, pc, todo, back, run, crew, items>>

WorkerCommits(t) ==
    /\ pc = "work"
    /\ worker[t] = "busy"
    /\ t \in edits
    /\ edits' = edits \ {t}
    /\ work' = work \cup {t}
    /\ Report(t, "committed")
    /\ UNCHANGED <<plan, file, view, dirty, base, torn, pc, todo, back, run, queue, batch, items>>

\* A worker that changed nothing finds the task already satisfied; one that
\* committed is verified, if there is a command for it; an agent stops at its
\* next checkpoint after a cancellation.
MayReturn(t, r) ==
    CASE r = "noop" -> worker[t] = "busy" /\ t \notin edits
      [] r = "changed" -> worker[t] = "committed"
      [] r = "unverified" -> worker[t] = "committed" /\ opt.strictVerify
      [] r = "verify_failed" -> worker[t] = "committed"
      [] r = "interrupted" -> worker[t] = "busy" /\ cancelled
      [] OTHER -> TRUE

WorkerReturns(t) ==
    /\ pc = "work"
    /\ worker[t] \in {"busy", "committed"}
    /\ \E r \in Result : MayReturn(t, r) /\ Report(t, r)
    /\ UNCHANGED <<plan, file, trees, base, torn, pc, todo, back, run, queue, batch, items>>

AllReturned == \A t \in batch : worker[t] \in Result

PoolEnds ==
    /\ pc = "work"
    /\ AllReturned
    /\ \A t \in batch : worker[t] # "crashed"
    /\ pc' = "collect"
    /\ UNCHANGED <<plan, file, trees, base, torn, todo, back, run, crew, items>>

\* An exception of a worker ends the run, once its other workers have ended.
Abort ==
    /\ pc = "work"
    /\ AllReturned
    /\ \E t \in batch : worker[t] = "crashed"
    /\ Halt
    /\ UNCHANGED <<plan, file, trees, base, torn>>

-----------------------------------------------------------------------------
(* What becomes of the results, in the order in which they arrived *)

\* Mutant of Judged: the kind of the result is taken for a status.
JudgedAsReported(r) == {r}

\* The status a result leads to.
Judged(r) ==
    CASE r \in {"failed", "verify_failed", "interrupted"} -> {r}
      [] r = "noop" -> {"already_satisfied"} \cup (IF opt.strictVerify THEN {"verify_failed"} ELSE {})
      [] OTHER ->
           {IF r = "unverified" THEN "completed_unverified" ELSE "ready_for_merge"} \cup
           (IF opt.strictVerify THEN {"verify_failed"} ELSE {}) \cup
           (IF opt.review THEN {"failed", "changes_requested"} ELSE {})

Collect(t) ==
    /\ pc = "collect"
    /\ worker[t] \in Result
    /\ \E s \in Judged(worker[t]) :
         /\ Mark(t, s)
         /\ CASE s = "already_satisfied" -> CleanupAccepted(t)
              [] s \in {"failed", "verify_failed", "changes_requested"} -> CleanupFailed(t)
              [] OTHER -> UNCHANGED trees
    /\ executed' = IF Limited THEN executed + 1 ELSE executed
    /\ Report(t, "none")
    /\ UNCHANGED <<plan, attempts, base, torn, pc, todo, back, opt, cancelled, blocked,
                   avoid, queue, batch, items>>

Collected ==
    /\ pc = "collect"
    /\ \A t \in batch : worker[t] = "none"
    /\ todo' \in ById({t \in batch : status[t] = "ready_for_merge"})
    /\ batch' = {}
    /\ pc' = IF todo' = <<>> THEN "batches" ELSE "sync"
    /\ back' = "batches"
    /\ UNCHANGED <<plan, file, trees, base, torn, run, queue, worker, items>>

Sync ==
    /\ pc = "sync"
    /\ LET t == Head(todo)
       IN  \/ /\ items' = Append(items, t)
              /\ UNCHANGED <<file, trees>>
           \/ /\ opt.strictRemote
              /\ Mark(t, "failed")
              /\ CleanupFailed(t)
              /\ UNCHANGED <<attempts, items>>
    /\ Advance("assemble")
    /\ UNCHANGED <<plan, base, torn, back, run, crew>>

\* The expected-red tests that the accepted items have waited for.
Awaited(ready) ==
    {d \in Task : /\ \E t \in ready : d \in plan.declared[t]
                  /\ d \notin ready
                  /\ status[d] = "ready_for_merge"
                  /\ d \in plan.red}

\* Expected-red tests wait for their fix; a fix takes its tests along.
Assemble ==
    /\ pc = "assemble"
    /\ LET ready == {t \in ToSet(items) : ~Deferred(status, t)}
       IN  IF opt.merge = "review" \/ ready = {}
           THEN /\ pc' = "batches" /\ items' = <<>> /\ todo' = <<>>
                /\ UNCHANGED status
           ELSE \E lost \in SUBSET {d \in Awaited(ready) : view[d] = NoBranch} :
                  /\ status' = [t \in Task |-> IF t \in lost THEN "failed" ELSE status[t]]
                  /\ \E tests \in InPlanOrder(Awaited(ready) \ lost), fixes \in ById(ready) :
                       items' = tests \o fixes
                  /\ IF lost = {} THEN pc' = "gate" /\ todo' = <<>>
                     ELSE pc' = "drop" /\ todo' = items'
    /\ UNCHANGED <<plan, attempts, trees, base, torn, back, run, crew>>

-----------------------------------------------------------------------------
(* The environment *)

Cancel ==
    /\ pc # "idle"
    /\ opt.cancellable
    /\ ~cancelled
    /\ cancelled' = TRUE
    /\ UNCHANGED <<plan, file, trees, base, torn, pc, todo, back, opt, blocked,
                   executed, avoid, crew, items>>

Crash ==
    /\ pc # "idle"
    /\ torn' = IF pc = "applied" THEN torn \cup {Head(todo)} ELSE torn
    /\ Halt
    /\ UNCHANGED <<plan, file, trees, base>>

-----------------------------------------------------------------------------

Proceed ==
    \/ KeepPending \/ DropPending
    \/ Accept \/ Refuse \/ RejectCleanup \/ RejectSave \/ BlockRemaining
    \/ Apply \/ MarkDone \/ MergeConflicts \/ MergeFails
    \/ Schedule \/ FinishRun \/ SkipBatch \/ NextBatch \/ EndOfSchedule
    \/ Prepare \/ PrepareFails \/ StartTask
    \/ \E t \in Task : \/ WorkerBegins(t) \/ WorkerEdits(t) \/ WorkerCommits(t)
                       \/ WorkerReturns(t) \/ Collect(t)
    \/ PoolEnds \/ Abort \/ Collected \/ Sync \/ Assemble

Next == StartRun \/ Proceed \/ Cancel \/ Crash

Spec == Init /\ [][Next]_vars

\* A live process keeps running and its workers end; nobody has to start a run,
\* to cancel it or to crash it.
FairSpec == Spec /\ WF_vars(Proceed)

-----------------------------------------------------------------------------
(* Properties *)

Stage == {"idle", "pending", "gate", "reject", "drop", "block", "merge", "applied",
          "loop", "batches", "prepare", "start", "work", "collect", "sync", "assemble"}

\* The variables have their types.
TypeOK ==
    /\ plan \in Plans
    /\ status \in [Task -> Status]
    /\ attempts \in [Task -> 0 .. AttemptCap]
    /\ view \in [Task -> (SUBSET Task) \cup {NoBranch}]
    /\ work \subseteq Task /\ edits \subseteq Task /\ dirty \subseteq Task
    /\ base \subseteq Task /\ torn \subseteq base
    /\ pc \in Stage /\ todo \in Seq(Task) /\ back \in {"loop", "batches"}
    /\ opt \in RunOptions \cup {NoRun}
    /\ cancelled \in BOOLEAN /\ blocked \in BOOLEAN
    /\ executed \in Nat /\ avoid \subseteq Task
    /\ queue \in Seq(SUBSET Task) /\ batch \subseteq Task
    /\ worker \in [Task -> Working]
    /\ items \in Seq(Task)

\* What the plan calls done is in the base branch.
DoneIsMerged == \A t \in Task : status[t] = "done" => t \in base

\* The plan says done exactly for what is in the base branch.  The one gap is
\* between the merge and the save of the plan (_merge_task): a crash there
\* leaves a merged task that the plan still reports otherwise (torn).
MergedIsDone ==
    /\ DoneIsMerged
    /\ \A t \in base : \/ status[t] = "done"
                       \/ t \in torn
                       \/ pc = "applied" /\ t = Head(todo)

Works(t) == worker[t] \in {"busy", "committed"}

\* A worker builds on the work of every task it depends on that is done: its
\* branch, be it left over from an earlier attempt, was cut after the merge.
\* An expected-red test is not awaited, so it may be missing.
SeesDependencies ==
    \A t \in Task : Works(t) =>
      \A d \in plan.deps[t] \ plan.red : status[d] = "done" => d \in view[t]

\* Two workers that are at work at the same time claim no file together and
\* both know exactly what they claim.
NeverTogether ==
    \A a, b \in Task : a # b /\ Works(a) /\ Works(b) =>
      /\ plan.files[a] \cap plan.files[b] = {}
      /\ a \notin plan.vague /\ b \notin plan.vague

\* In a live run, what the plan calls in progress has a worker: what a crashed
\* run left behind is recovered before anything else (_recover_stale_in_progress).
InProgressHasWorker ==
    pc # "idle" => \A t \in Task : status[t] = "in_progress" => worker[t] # "none"

\* When a task is started, not only when it was scheduled, every task it
\* depends on has been completed; expected-red tests excepted.
StartsReleased ==
    [][\A t \in Task :
         status[t] # "in_progress" /\ status'[t] = "in_progress" =>
           \A d \in plan.deps[t] \ plan.red :
             d \in Task /\ status[d] \in SuccessfulTerminal]_vars

\* What was merged, or kept unverified, never changes its status again, whatever
\* later runs retry, reject or block.
CompletedStays ==
    [][\A t \in Task : status[t] \in {"done", "completed_unverified"} =>
                         status'[t] = status[t]]_vars

\* An expected-red test that is ready is not merged while a task that declared it
\* is unfinished, unless one of these is merged with it; only a test that failed
\* to merge before is merged again whatever waits for it (run_swarm, retries of
\* merge conflicts).
ExpectedRedWaits ==
    [][\A r \in plan.red \cap (base' \ base) :
         status[r] = "ready_for_merge" /\ UnfinishedDependent(status, r) =>
           \E u \in ToSet(items) : r \in plan.declared[u]]_vars

\* A run that is neither cancelled nor crashed comes to its end: retries are
\* limited, and no task is started again and again.
RunEnds == (pc # "idle") ~> (pc = "idle" \/ cancelled)

-----------------------------------------------------------------------------
(* What the code or its comments promise and the code does not keep *)

\* A cancelled run stops.
CancelledRunEnds == cancelled ~> (pc = "idle")
=============================================================================
