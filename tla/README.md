# Sylliptor in TLA+

This directory is a verification project for Sylliptor, a local command-line
coding agent (`src/src/sylliptor_agent_cli/`). It holds TLA+ modules translated
from the Python source, TLC configurations that model-check them on small
instances, and TLAPS proofs of theorems that hold for every instance. All source
paths below are relative to `src/src/sylliptor_agent_cli/`.

## 1. The system

Sylliptor runs an agent session in a workspace: a model is called in a loop, its
tool calls are executed under a permission policy, and the results go back to
the model. On top of that, *Forge* plans a piece of work as a graph of tasks and
executes the graph with a *swarm*: several workers, one git worktree each, whose
results are verified, reviewed and merged into the base branch. A server mode runs
sessions as jobs over HTTP. Many of these parts share files, threads and child
processes, and that is where the hard behaviour is.

| part | source | state | operations | hard behaviour |
|---|---|---|---|---|
| run mutation lock | `run_lock.py`, `atomic_io.py`, `cli_impl/forge_recovery.py` | lock file, recovery claim file, heartbeat thread | acquire, wait, recover, refresh, release, `forge unlock` | several processes on two files without file locks; crashes; suspend; late heartbeats |
| swarm scheduler | `swarm_scheduler.py` | none (pure) | select candidates, pair safety, batches, truncation | what may run beside what; when a dependency counts as done |
| swarm orchestrator | `swarm_orchestrator.py` | the plan file: status and attempts of every task; worktrees | run batches, collect results, gate, merge, block, recover | worker results in any order; partial failure of a batch; crash and restart; attempts |
| swarm worker, git backend | `swarm_worker.py`, `swarm_backend.py`, `git_worktrees.py` | a worktree | one task's agent loop, verification, commit | retries |
| snapshot backend, write guard | `swarm_backend.py`, `execution_shared.py`, `swarm_write_guard.py` | a copy of the workspace per task, with a repository of its own | copy, reuse, assemble the candidate, copy back | copies that are older than the workspace; a crash half way through copying back |
| gates | `integration_gate.py`, `review_gate.py`, `verify_gate.py`, `conflict_auto_resolver.py` | none | verify candidate merge, review, resolve conflicts | strict and warn modes, unavailable verification |
| Forge planning | `plan_assistant.py`, `plan_validation.py`, `plan_repair.py`, `replanning.py`, `plan_reconciliation.py`, `forge.py` | plan and run pointer | create, repair, replan, validate | plan edits while a run is active |
| run lifecycle | `run_state.py`, `forge.py`, `cli_impl/forge.py`, `cli_impl/forge_recovery.py` | `current_run.json` pointer | start, finish, interrupt, reconcile, resume | a pointer that outlives its process |
| job server | `server/*.py` | job table, queue, worker threads, job directories | start, cancel, status, close | cancel racing start and finish; a status that runs ahead of the files; worker threads that die |
| background terminals | `terminal_manager.py`, `terminal_ownership.py`, `background_runner.py`, `process_reaping.py` | process table, output buffers, ledger of ownership files | start, read, kill, shut down, scavenge | reader, waiter and killer threads; a session that dies before its children |
| durable services | `durable_service_manager.py` | one owner file per service | start, stop, adopt | a detached process without a parent |
| MCP client | `mcp/*.py` | connections, request tables, tool catalogue, tokens | connect, call, close | answers later than their deadline; the reader and the waiter give up at the same time |
| sessions and usage | `session_store.py`, `usage_tracker.py` | session and usage files | append, load, rotate | concurrent writers, truncated files |
| model providers | `llm/`, `provider_limits.py`, `provider_auth.py`, `profiles*` | limits, credentials | call, retry, back off | retry after a late answer |
| tools, policy, sandbox | `tools/`, `permission_policy.py`, `approval_scope.py`, `safety/`, `sandbox_runner.py` | approvals of the session | decide, execute | a cached approval that no longer applies |
| session runtime and UI | `agent/`, `cli_impl/`, `surface/` | conversation | turn, compact, render | cancellation in the middle of a turn |

How they interact. A Forge execution takes the **run lock** of its run directory,
loads the plan and calls `run_swarm`. The **orchestrator** asks the **scheduler**
for batches, prepares a workspace per task (**worktree backend**), starts a
**worker** thread per task, judges the results when all of a batch are back, takes
the accepted ones through the **gates**, merges them one after the other and
writes the plan file at every change of a status. In a workspace without a commit the **snapshot
backend** gives each task a copy instead of a worktree, and copies back what is accepted. Everything that must survive a
crash is in the plan file and in git. The **job server** runs such commands in
child processes, follows their output and shares nothing with them but files. `forge run`, `forge exec` and
`forge resume` write the **pointer** to the current run, and saves of the plan bring it up to date; it says what
the run is doing to whoever asks, and outlives the command. (The chat's `/execute plan`,
`cli_impl/chat/commands.py:1914-2252`, runs the swarm under the lock and never marks the pointer.) In a session, the model's tools start **background
terminals** and call **MCP servers** from several threads; both subsystems serve them with
threads of their own.

`PROJECT.json` lists every component with what is modelled of it, and every
hazard at the line where it bites.

What makes the parts correct:

- *run lock*: two processes never hold the guard; what a holder wrote stays on
  disk; a lock is taken away only from a process that is gone; a failed attempt
  leaves nothing that locks others out for good; a dead owner blocks nobody for ever.
- *scheduler*: tasks that run side by side claim nothing together; no task is in
  the schedule of one it depends on; every runnable task is placed once, as early
  as it fits.
- *orchestrator*: the plan says done exactly for what is in the base branch; no
  worker starts before, or without seeing, what its task depends on; what is
  completed stays completed; what a crash left behind is recovered; a run ends.
- *snapshot backend*: what the plan calls done is in the workspace, all of it, whatever was retried or
  crashed; copying back overwrites nobody's changes; what was tested together is what the workspace
  becomes.
- *run lifecycle*: a run is put on record as completed only when nothing is left to do; what a run executes is
  what its fingerprint says; after a wait, nothing is begun that another run has done; no run is shown
  as running when nobody executes it.
- *background terminals*: the limit on processes holds; while a child lives the ledger forgets it only
  where the best-effort cleanup of a later session fails; a kill ends.
- *MCP transport*: every request that waits is answered, timed out or told that the connection
  is dead; a slow server is not taken for a broken one.
- *job server*: a cancellation is never lost; the end of a job is final, on record
  and what clients are told; accepted jobs end.

## 2. Modules

| module | extends | what it is |
|---|---|---|
| `RunLock` | | the run lock, one step per system call on its two files |
| `Guard` | | the abstract lock: one holder, taken when free, given back by release or death |
| `RunLockGuard` | `RunLock` | the mapping under which `RunLock` implements `Guard` |
| `RunLockProofs` | `RunLockGuard` | theorems about it: under every fault; in the envelope where it excludes, and implements `Guard` |
| `ForgeRun` | `Guard` | plan file, run pointer and the Forge commands that share them |
| `ForgeRunProofs` | `ForgeRun` | theorems about it |
| `SwarmRules` | | which tasks are selected and which fit together, as operators |
| `SwarmScheduler` | `SwarmRules` | `compute_schedule` as a sequence of steps |
| `SwarmSchedulerProofs` | `SwarmScheduler` | theorems about schedules |
| `Swarm` | `SwarmRules` | runs of the orchestrator with its workers, worktrees and base branch |
| `Delivery` | | what a run promises about the tasks of its plan: an abstract life-cycle |
| `SwarmDelivery` | `Swarm` | the mapping under which `Swarm` implements `Delivery` |
| `SwarmProofs` | `SwarmDelivery` | theorems about runs, and that they implement `Delivery` |
| `SwarmSnapshot` | | the snapshot backend with the runs, workers and gate that use it |
| `SwarmSnapshotProofs` | `SwarmSnapshot` | theorems about it |
| `JobRunner`, `JobRunnerProofs` | | the job server and theorems about it |
| `Terminals` | | background processes, their threads and the ledger |
| `TerminalsProofs` | `Terminals` | theorems about it |
| `McpStdio` | | the request path of the MCP stdio transport |
| `McpStdioProofs` | `McpStdio` | theorems about it |
| `MC*` | each of these | constants for TLC |

`Swarm` takes its schedules from the same rules that `SwarmScheduler` executes step
by step; `ScheduleAgrees` is the contract between the two. `Guard` is the contract of the run lock:
`RunLockGuard` instantiates it `WITH holder <- Holder`, the process between the return of
`acquire_run_mutation_guard` and the beginning of its release; the run `lock_safety` checks `G!GuardSpec` and
`LockIsGuard` proves it in the envelope of section 5. `ForgeRun` extends `Guard` and uses `Take` and
`Give` in its own actions, so that what it relies on is what the lock was shown to provide.
`Swarm` relies on the same contract: one run at a time works on a plan. `Delivery` is the contract of the
orchestrator with whoever relies on a plan: `SwarmDelivery` instantiates it, `life <- [t \in Task |-> LifeOf(status[t])]`
(what a status means to dependents), `cut <- view`, and `base` for itself.

### RunLock

One member of `Proc` is one call of `acquire_run_mutation_guard` in a process of
its own. `pc` is the next system call of its main thread, so anything can happen
between a load of a file and what is done with it. `lock` and `claim` are the two
files with owner, whether their text is there yet, and the age of the stamp.
`same` holds the processes whose remembered text is still the text on disk (the
code compares texts; a refresh or a new lock changes the text). `hb`, `due` and
`missed` are the heartbeat thread, `nap` is the grace interval a recovering
process sleeps, `op` is a `forge unlock`. `waited` holds those whose queued wait has no end on record yet: they
go through `Announce` (`pc` "announce"), between their lock on disk and the guard, where the event may fail to be
written (`EventFails`) and the acquisition with it. Time is relative: ages saturate just above
`TTL`, so no clock bound is needed. `Tick` is held back while some process is
between two adjacent system calls, and by a heartbeat that is due; the
faults `slow`, `sleep` and `beatfail` lift these assumptions, and every disturbance
of `Faults` is switched on by its name.

Left out: the contents of the queued-wait record and of the event log, which nobody reads back (that they
cannot be written is not left out: `diskfull`); exceptions raised into an acquisition from outside (Ctrl-C); transient errors while a file is read; locks of older versions without a heartbeat contract; the reuse of a process id.

### SwarmRules and SwarmScheduler

A task is a number. Of a task record the rules keep the effective dependencies,
the claimed precise paths, whether it also claims patterns, its group, and whether
it is an expected-red test or touches an implementation path. `Inspect`,
`Truncate`, `Place` and `Finish` are the loops of `select_task_candidates`, the
`--max-tasks` cut and the first fit of `build_batches`. Plans with two tasks of
one identifier are excluded, as the plan validation does. `SwarmRules` also says what the loops
compute, without a loop: `Sorted` holds the list of a set in a given order, `FirstFit` says of a
sequence of batches that every task was refused by the batches before its own and fitted into its own, with those
that were placed before it, and `Schedules` holds the sequences of which that is true. A loop is an induction
over data, which the prover cannot do; a condition on its result can be reasoned about.

### Swarm

`pc` is the stage of `run_swarm`: the startup merge queue (`pending`), then rounds
of scheduling (`loop`), batches, and per batch `prepare`, `start`, `work`,
`collect`, `sync`, `assemble`, `gate`, `merge`. `status` and `attempts` are the plan file.
`view`, `work`, `edits` and `dirty` are what git has of a task: what was merged when
its branch was cut, commits, uncommitted changes, an incomplete cleanup. `base` is
the base branch, as the set of tasks whose work it holds. A worker is what the
orchestrator can see of it: it begins, edits, commits, returns a result, and may
look at the cancellation event. A crash leaves the plan file and git and drops the rest;
`StartRun` begins the next run, with any options, by recovering. Verdicts of
commands, models and reviewers are choices.

The schedule of a round is one of `Schedules`, `SkipBatch` passes over a batch in which nothing can be
started any more, and `Awaited` is the set of expected-red tests that the ready tasks declare; the items of a gate are
these tests in plan order and then what is ready, by identifier.

Left out: replanning, the dry run, the final gate (it only records), the
knowledge, remote and review records. The snapshot backend has a module of its own. Saving a status and
removing the worktree that goes with it are one step where nothing reads either in
between; an agent's own commits count as the worker's.

`Delivery` leaves out rounds, batches, gates, options and crashes. A task is open, running, ready, merged, kept, satisfied or
blocked. Its branch is cut from the base branch (`Cut`), it begins (`Begin`), its attempt ends (`End`), its work lands
(`Land`) and is recorded (`Record`); some of what was ready is given up again (`GiveUp`), a crash makes what runs open again
(`Recover`), the strict gate blocks (`Block`). `Cut` and `Begin` ask that all the task awaits is delivered at
that moment. Two steps are looser than the code, which only means that less is promised: `GiveUp` drops any set of ready
tasks, `Block` any set of those it may touch.

### SwarmSnapshot

The contents of a file are a set: the tasks whose changes are in it. `root` is the workspace; `copy[t]` is the
copy that task `t` works in, with its working tree (`tree`), the head of its branch (`head`), the files that branch and
baseline differ in (`since`) and the branch that is checked out (`on`). `MakeCopy` takes a copy of the
workspace, `Reuse` goes on with what an earlier attempt has left, on the workspace as it was then. `Write`,
`Commit` and `Return` are a worker; `Assembled` is the candidate of the gate; `Merge` is the merge within the copy, `Sync`
copies one file back, `MarkDone` follows when none is left. Of the orchestrator there is what decides which copies are
made, kept and applied when: recovery, the queue of what is ready, batches, collection, the gate, cleanup. With
`auto` FALSE a run leaves its work ready (review strategy), for a later run to apply. `status`, `changed` and
the copies outlive a crash. `fresh`, `made`, `cand` and `lost` are history: whose copy was made for this batch, what
a task has committed since its copy was made, the candidate that passed, and what copying back has overwritten.

A merge within a copy cannot conflict, since the base branch of the copy never moves; `MergeFails` is git
failing for other reasons. `Claims` is a set of assignments of files to tasks; `Strays` allows writes that the write
guard does not see. Left out: attempt limits and dependencies (see `Swarm`), deleting files, excluded paths, the user's
own edits while a run is under way.

### ForgeRun

One member of `Proc` is a terminal in which commands are given one after the other; `cmd` is the
command, `pc` its next step, `mem` the plan it has loaded, `waited` whether it queued for the guard.
`plan` is `plan.json`: a definition (a number that grows with each change) and the status of each
task, "absent" for one that is not in the plan, or retired. An edit of the current plan (in the chat: `/goal`, `/task`, `/plan edit`, a turn of the
planner) may give any task any status and change the definition, in a save or with an editor (`Edit`). `pointer` is `current_run.json` with its fingerprint, which is the definition it was computed
from. `edits` is the number of the latest definition, so that two commands never make the same change.
`set_current_run_status` reads the file and then writes it, hence `Record` takes a command through
`Stamp` and `Put`; `save_plan` writes the plan and may go on to rewrite the pointer (`Save`, `Sync`): `Synced` leaves open whether the readiness gate calls a plan that has not begun approved or
a draft. After the guard `Reload` takes the plan again if the command waited, and `forge run` may save what its
reconciliation has changed.
`Look`, `Probe` and `Demote` are `reconcile_current_run_status`, in a command or in the `Viewer`, which
stands for every surface that shows the run. `Judge`, `Rearm` and `Remaining` are `forge resume`, which
then starts over as `forge run`. A crash forgets what is in memory and frees the guard.

Left out: several runs in one workspace, run events and reports, what a task does
(its verdict is a choice), attempt counters, and pointer writes that fail.

### Terminals

`at` and `target` say what a thread of the agent is doing with which process: a start goes through the
reservation of a place, `runner.start`, the ledger, the threads and the registration; a kill
through `_kill_lock`, `_send_terminate`, the wait, `_send_kill` and a second wait. `reader` and
`waiter` are the three threads of each process; `status`, `killed`, `failed`, `cleaned` and `locked` are the fields
they share. `child`, `kin` and `doomed` are what the operating system knows: the spawned process, descendants that
hold its pipes, and to which SIGKILL was sent. `record` is the ledger on disk. The next session takes some of it
(`Open`: any of the records, since it looks at 256 at most and leaves those it cannot judge), and `Scavenge` is what becomes of each: it cannot be read and goes
(`Misreads`), its child is terminated (`Terminates`), cannot be signalled (`Refused`) or is dead (`Absent`). `lost` is history: records that went although
their child may live on, because they could not be read, or because the container could not be removed and its client got a SIGTERM only. `mode` is how the runner's processes are terminated: by process group (host and
bubblewrap), or directly and with a container to be removed (docker).

`Cleaning` may fail unnoticed.

Left out: the output and reading it, SIGTERM beyond the permission that a child may die, containers that outlive their client, Windows, the reuse of process
ids, `prune()` (nobody calls it), and a reap that fails.

### McpStdio

`at` and `mine` are the threads inside `request()`, `queue` their response queues. `pending`, `states` and
`retired` are the three tables that all threads share under one lock; every critical section is one
step. `reader` is the reader thread, `deferred` the answers it holds back until stdout has been
quiet, and `telling` the queues that `_set_fatal_error` still has to serve after it has dropped the
lock. `stdin` and `stdout` are bounded pipes, so a write may block. The server answers in any order and may do
what `Conduct` lists besides. Deadlines may pass whenever the code looks at them. `Flush` speaks of the positions
of what is held back: `settled` are those before the first unknown id, and what has expired is retired in the order in
which it was held back (`InOrderOf`).

Left out: the handshake, notifications, stderr, the manager above (its leases serialise calls; the
transport has locks of its own and is checked without that help), HTTP and OAuth.

### JobRunner

What a request or a worker does under `_jobs_lock` is one step, everything else a step
of its own. `call` is the progress of a `start_job`; `status`, `started`, `requested`
and `handle` are the fields of `JobState`; `process` is the child process; `meta` and
`result` are the statuses in the two files; `queue` is `_job_queue`, in which `None`
ends a worker; `pc` and `on` say what a worker or a cancelling request is about to
do, and with which job. `Visible` is the answer of `get_status`. An error while a file is
written ends the thread it happens in (`dead`): `_worker_loop` has no handler.
Jobs are in memory only, so there is no restart to model.

## 3. What the runs show

`PROJECT.json` lists the properties of each run, and for each a mutant of the code, a plausible
slip, under which TLC finds it violated.

| run | instance | what it shows |
|---|---|---|
| `lock_safety` | 3 processes on one host, 1 on another, all waiting; crashes of holders, 2 lost beats in a row, new files that stay empty and events that cannot be written; TTL 3, interval 1 | exclusion, ownership, no holder is ever called stale, only those that are gone lose their lock; the lock implements `Guard` |
| `lock_faults` | 2 processes that come after nobody, or after a holder and its recoverer that both died (`AfterDeaths`); crashes between any two system calls, suspend, refreshes in flight, `forge unlock` with and without force, full disks; fair | a failed attempt leaves no claim, and no lock but one that others may take away; an owner or recoverer that is dead or has failed blocks nobody for ever |
| `lock_inflight` | 3 processes, refreshes in flight across `release()` | **violation** of exclusion, see section 6 |
| `sched_all` | all pairs of statuses of 2 tasks with all options and dependencies (also on itself and on a missing task); 4 tasks with all claims over 2 files, patterns, groups, widths 0, 2, 3 | schedules are independent, conflict-free and greedy; the loops compute the closed form |
| `swarm_runs` | 4 plans of 2 tasks (chain, pair, clash, expected-red test with its fix) with 7 kinds of runs in any order, crashes anywhere; 2 plans of 3 tasks, 2 of them on the first and in conflict, with warning and strict gate | the plan and the base branch agree; workers see their dependencies; no two workers on one file; nothing starts before it is released; completed work stays; recovery; runs implement `Delivery` |
| `swarm_live` | chain and clash, retrying and strict runs; fair | every run ends |
| `swarm_cancel` | a cancelled run; fair | **violation**, see section 6 |
| `snapshot_all` | 2 tasks with a file each, or rivals for one of 2 files; any number of runs, attempts and crashes, applying or leaving what is ready | what is done is whole; fresh copies overwrite nothing; what was tested is what is applied |
| `jobs_all` | 2 jobs, 2 workers, 1 cancelling request, failing writes, output that is not text, shutdown; fair | cancellation is not lost; ends are final, recorded and told in order; jobs end |
| `forge_run` | 2 terminals, 2 commands of any of the five kinds, 2 tasks in a chain, 1 new definition and any statuses set by edits, a viewer, crashes anywhere; fair viewer | "completed" is recorded honestly; the fingerprint is that of what runs; what is begun after a wait is right; no phantom run |
| `mcp_calls` | 2 threads, 2 requests, pipes of 1 message, a server that may do one wrong thing, `close()` at any moment; fair | late answers are tolerated; no request is forgotten; the death of the server is told |
| `terminals_session` | 2 threads, 2 processes, a limit of 1, both modes, 1 crash and restart, 1 of 8 mishaps; fair | the limit; records until the child is gone, or lost by a counted failure of a later session; kills end |

Bounds and why they are enough:

- `lock_*`: a recovery race needs the dead owner, the recoverer and a rival (3
  processes); the fourth, on another host, is there for the rule that its lock is
  never judged. `TTL` 3 with 2 missed beats is the tightest schedule
  in which a beat is still in time; `TTL` 2 is the least that the assumption allows.
  For other numbers of processes and other timings there are the theorems of section 5.
  `MachineSleep` jumps past `TTL` in one step.
- `lock_faults`: a wait that never ends needs a lock or claim left by the dead and a living process; a wait
  behind *both* needs two dead, and with `AfterDeaths` these need not be explored: `Remains` lists what they
  can leave. Two living processes are a waiter and a rival. `slow` and `beatfail` are off here; the
  theorems `ClaimsAccounted` and `LosersLeaveNoTrap` cover them.
- `sched_all`: dependencies and statuses matter in pairs; placement is decided by the tasks
  before, so 4 tasks and 2 files reach a full batch, a conflict with
  one of two batches, and a third batch.
- `swarm_*`: `AttemptCap` and `DefaultAttempts` are 2 (the code's default is 3):
  a first try, a retry, and no more. Two tasks give every pair of roles (dependency and
  dependent, rivals for a file, test and fix); three are needed for a
  schedule with several batches after a merge. Runs follow one another without bound.
- `snapshot_all`: two tasks are a batch side by side or two batches in turn, two files the least that can be half copied; nothing
  else is bounded, since a file's contents are a set and a second change by the same task adds nothing to it. The theorems cover other numbers.
- `jobs_all`: two workers can meet in the queue, with a request between them; a job cares
  only about its own worker and requests, whose number is arbitrary in the theorems.

- `forge_run`: every hazard of the pointer is a race of two of its writers, or a crash and the command after it: two
  commands and the viewer give each such pair. One of the two tasks waits for the other, which makes the
  question after a wait a real one. Commands that take no guard (`edit`, `resume`) are given alone here, and the plan does not change
  between a load and a free guard (faults `overlap` and `stale` off): section 6 says what happens otherwise.
- `mcp_calls`: two requests share the tables, the reader, the pipes and the connection; a third adds only a longer queue. A
  pipe of one message is full after one, so every write may block. `Retain` is 3, one less than
  twice as many as the requests, the bound of `Remembers`: see section 6 for why it may not be 2.
- `terminals_session`: a limit of 1 with 2 processes is the tightest race for a place; killer, second killer and shutdown are
  two threads; one mishap at a time is what a cleanup must survive; one crash gives two sessions.

`SYMMETRY` is used in `lock_safety` and `lock_inflight`, over the processes of one
host, with safety properties only. Deadlock is checked where the system has to go on; the
scheduler, the job server, the terminals and the MCP transport come to rest when their bounds are used up, and there it is not. Types that
a theorem covers (`TypeCorrect`) are not checked again.

## 4. Fairness

Weak fairness, and only of what goes on by itself. `RunLock`: a process
that is acquiring keeps polling, heartbeat threads run, a release that has begun goes on, and
time passes. A holder need not release, nobody has to start, crash or unlock. `Swarm`: a live
run and its worker threads proceed; nobody has to start, cancel or crash one. Its
worker's agent loop is bounded by its step budget, which is why `WorkerReturns` is fair.
`JobRunner`: threads with something to do go on and child processes end; nobody has to
start, cancel or close. `ForgeRun`: only the viewer, since a user interface that shows a run polls; no
command has to go on. `McpStdio`: the reader thread runs, and a thread that waits takes what is in its
queue; deadlines need not pass and the server need not do anything, so `ExitIsTold` does not hold thanks to a
timeout. `Terminals`: the steps of a kill that has begun (its waits are bounded), the three threads of each
process, and that what got SIGKILL dies; no process ends by itself and no session has to open.
No property assumes strong fairness.

## 5. What is proved

All theorems hold for every value of the constants that satisfies the assumptions of
the modules: `RunLockAssumption` (timings are natural numbers, `TTL` at least twice the
interval, as `heartbeat_ttl_s` makes it), `RulesAssumption`, `JobsAssumption` (calls
of the scheduler are well-typed, no plan has an identifier twice), `SwarmAssumption`
(attempt limits are counted; a plan lists no task twice, which plan validation sees to; the mark for "no branch" is no set of tasks), `McpAssumption`
(limits and bounds are natural numbers, a pipe holds something), `JobAssumption` (finitely many workers), `GuardAssumption` and
`ForgeAssumption` (nobody and the viewer are no terminals; dependencies are among the tasks), `TerminalsAssumption`
(the limit is a natural number, nobody is no process) and `SnapshotAssumption` (finitely many tasks; no copy is no
copy). TLC evaluates them in every run.

| module | theorem | statement |
|---|---|---|
| `RunLockProofs` | `TypeCorrect`, `ClaimsAccounted`, `LosersLeaveNoTrap` | types; under *every* combination of faults |
| `RunLockProofs` | `Mutex`, `HoldersOwn`, `HoldersStayFresh`, `RecoveriesJustified` | exclusion and what it rests on, under `Envelope` |
| `RunLockProofs` | `LockIsGuard` | the lock implements `Guard`, under `Envelope`: a refinement |
| `ForgeRunProofs` | `TypeCorrect`, `Completed`, `Fingerprinted`, `QueuedRight` | any plan, terminals and commands; the last three when `Undisturbed` |
| `SwarmSchedulerProofs` | `TypeCorrect`, `Independence`, `BatchSafety`, `Partition`, `Greedy` | schedules of any size |
| `SwarmSchedulerProofs` | `LoopsAgree` | the loops compute what `SwarmRules` says of the whole, for any plan |
| `SwarmProofs` | `TypeCorrect`, `MergedWorkIsDone`, `NoneLeftInProgress`, `WorkersSeeDependencies`, `WorkersNeverMeet` | any plan, options, runs, crashes and number of tasks |
| `SwarmProofs` | `CompletedWorkStays`, `StartsAreReleased`, `ExpectedRedTestsWait` | the same, of every step |
| `SwarmProofs` | `RunsDeliver` | a run implements `Delivery`: a refinement |
| `SwarmProofs` | `PromiseIsSound` | what `Delivery` implies, for any number of tasks: merged work is in the base branch and in every branch that builds on it |
| `SwarmSnapshotProofs` | `TypeCorrect`, `DoneWhole`, `TestedIsAppliedAll` | any tasks, files and claims, with or without `Strays` |
| `SwarmSnapshotProofs` | `FreshKeepsAll` | any tasks, files and claims, `Strays` FALSE |
| `JobRunnerProofs` | `TypeCorrect`, `EndsOnRecord`, `CancelsArrive`, `OrderKept` | any number of jobs, workers and requests |
| `TerminalsProofs` | `TypeCorrect`, `LimitHolds`, `RecordsLast` | any threads, processes, limit, crashes and mishaps; the last but for what is `lost` |
| `McpStdioProofs` | `TypeCorrect`, `NobodyIsForgotten` | any threads, requests, pipes, deeds of the server and memory |
| `McpStdioProofs` | `LateAnswersAreTolerated` | the same, when the transport remembers one less than twice as many requests as are made (`Remembers`) |

The arguments:

- *Run lock, under all faults.* `Accounted` says at which labels a process can be
  while a file carries its token, with the outcome it is returning and a refresh in
  flight. `ClaimAccounted` alone is not inductive: it needs that a
  claim whose text was due is readable, since the `finally` recognises its own claim by the text. An attempt that fails with its lock
  on disk has queued (`LockHeld`, `QueuedAnnounce`), and its text was written before the event: the lock can be read, and with no heartbeat it becomes stale.
- *Run lock, exclusion.* `Envelope` is what exclusion needs: only holders
  crash, beats get lost and texts of new files or events fail to be written, the heartbeat is on, and `(MaxMissed + 1) * Interval <= TTL`.
  `MInv` then ties the lock on disk to one winner in both directions (`OwnerIsWinner`), bounds the
  age of its stamp by the missed beats (`OwnerIsFresh`, arithmetic), makes recovery exclusive
  (`ClaimIsExclusive`), and concludes that what a recovery unlinks belongs to a process that is gone, dead or failed
  (`UnlinksTheGone`). Every fault that `Envelope` excludes breaks exclusion: `sleep`, `slow`, `inflight`,
  `operator` and `force` with three processes and `midcrash` with four (TLC finds each within minutes when
  `Faults` of an instance like `lock_inflight` is set to it).
- *Run lock, refinement.* By `Mutex` the holder is unique, so `Holder` names it. Every step that adds a
  process at `hold` starts without one (`Take`), every step that removes one leaves none (`Give`), all others
  stutter (`OneAtATime`).
- *Forge runs.* `Undisturbed` means that `overlap` and `stale` are not among `Faults`; crashes may be. `Inv` says who may be where
  at the same time (a command without guard works alone), that a guard holder at work has the plan on disk in
  memory (`Knows`), and what `todo` and `seen` hold between `Stamp` and `Put` (`Course`). `CompletedIsHonest` follows step by
  step (`CompletedStep`), and not without these: "completed" is decided in one step, from memory, and written two steps later. It cannot be a
  state invariant: the code lets an edit leave "completed" over unfinished tasks (section 6).
  For `QueuedBeginsRight`: an exec that had to wait found, in the plan it reloaded, that its task may begin, and since it
  holds the guard from then on the plan on disk says so until `Begin` (`Entered`).
- *Schedules.* `Selection`: what is runnable was selected, and a runnable status never
  releases a dependent. `BatchesOK`: `Put` changes one batch, a full or conflicting batch
  stays so (`FullStaysFull`), hence first fit is never regretted. `LoopsAgree` needs two more: `Listing` (what was
  selected so far is in plan order, and the cut takes a prefix of it) and `Placing` (every task in a batch was refused by the earlier
  batches *as they were then*; since a batch only grows by later tasks, those placed before a task stay the same set).
- *Swarm.* `Inv` has three layers. `Moves` says what becomes of a status in any step and is the same in every part of the run:
  `done` and `completed_unverified` are left by nobody, `done` is entered by a merge only. `Stages`, `Merging`, `InHand`, `Crew` and
  `RedTests` hold in one stage because of the stage before, a lemma per step. `Scheduled` and `Views` reach
  further: a task that was released when the schedule was made is released when its turn comes, because what released it is final;
  and a branch that is kept through failures, retries and crashes was cut when everything its task depends on was
  complete, hence has the work of what is done. `SeesDependencies` is not inductive without the last: a retry reuses a
  branch that was cut runs ago. `MergedIsDone` excepts the merge that a crash cut off from its save (`torn`); the next
  run finds that task ready and merges it again.
- *Swarm, refinement.* A lemma per step maps it to an action of `Delivery` or to a stutter, under `Inv`: `Prepare` is a `Cut`
  and `StartTask` a `Begin` because what a batch holds is open and released (`InHand`); `Apply`, `MarkDone` and what fails in a
  list are a `Land`, `Record` and `GiveUp` because what is listed is ready (`Merging`); a task that the strict gate blocks is neither running (no
  worker is left by then), merged nor kept; a conflict leaves its task ready, hence stutters. `PromiseIsSound` is about the
  life-cycle only. Its invariant `PromiseInv` says that what a branch was cut for is still delivered, or was satisfied and is blocked since:
  a `Cut` sees the base branch of the moment, and what it awaits can be merged neither later nor again.
- *Snapshot backend.* `Copies` says what a copy is worth at each stage: its head has all that its task has committed, `since` names
  those files as long as the branch is checked out, and the tree is the head whenever nobody works in it. With `Ready` (what is
  ready has its copy, and `changed` is all of it) an application, begun or begun again, copies everything: `Applied` follows it
  file by file. Without `changed` a crash after `Merge` would leave nothing to compare. `Tested` is kept by `Sync`
  because the file it copies belongs to the first item, whose contents count in `Assembled` only through its copy, and
  by `MarkDone` because by then the workspace has the first item's part (`RestAssembled`). `FreshKeeps` rests on `Apart` (claims in a batch are
  disjoint, writes stay within them) and `UpToDate` (until its turn nobody else changes what a task claims).
- *Terminals.* Registered processes that live and threads with a reserved place are counted together (`PlacesCounted`); that the sum
  never grows past the limit needs that a process being made is unknown to the manager and in one thread's hands
  (`TargetsKnown`). `RecordUntilGone`: only what is dead is reaped (`ReapedDead`), between sessions nothing runs that could
  release a record (`DownRests`), and a session that opens consumes the record of a living child only by killing it, or by one of the two failures that `lost` counts.
- *MCP transport.* Three layers. `Base`: who owns which request, and what the tables may hold; no answer is held back
  twice. `Attended`: whoever has registered is in the tables, is about to be told, or has the item that ends its wait, and what was
  observed is held back. It needs that nothing is read while queues are being told. `Flow`, until `close()` begins and for a server that does not
  stray: the answer to a request is in one place at a time (`stdin`, `todo`, `stdout`: `Once`) and not yet held back, and wherever it
  is the transport waits for it or remembers that it gave up (`Known`). For the last nothing that can still be answered may be forgotten: `Counted`
  bounds the remembered requests by those of which nothing is left to come (`Spent`) plus those whose thread has left, since the
  reader retires a request only when it lets go of its answer, and the thread when it leaves. By `Remembers` that exceeds `Retain`
  only when everything is spent (`Room`), and then there is nothing to know (`NothingLeft`). The bound is exact: TLC finds
  the property violated with one less, `Retain` 2 for 2 requests and 4 for 3 (section 6).
- *Jobs.* `Inv` gives every job at most one owner (`OneOwner`): the worker that runs it
  or whoever writes down its end. `OwnersKnow` says what the owner may rely on; `StatusTells` what
  the status says of the files. A second owner would have to find the job queued
  although it is running or has ended.

Only model-checked: all liveness (`DeadOwnerNeverBlocks`, `RunEnds`, `JobsEnd`, `NoPhantom`, `ExitIsTold`, `KillEnds`), which is out of
the prover's reach. Every invariant and every action property that a passing run checks is stated by a theorem, for the run
lock's exclusion, the Forge runs, `FreshKeeps` and `LateAnswersTolerated` under the hypothesis named in the table.

## 6. Where the code departs from what it says

Two runs end in a violation:

- `lock_inflight`. `run_lock.py:1`: the lock "keeps two Forge executions off one workspace".
  `release()` sets the stop event and does not wait for the heartbeat thread
  (128-129, 169-188). A refresh that has loaded the lock replaces the file after the release
  has removed it, and after a successor has created its own (196). A third process may then find
  the lock of a dead or finished owner. Two processes hold the guard.
- `swarm_cancel`. `cancellation.py:4-7` promises a cooperative stop. The main loop of
  `run_swarm` (2766) never looks at the event; interrupted tasks are runnable, their workers return
  at once, and unless an attempt limit applies this goes on for ever.

Further departures, met while modelling and visible in the models, without a run of their own:

- `run_lock.py:860-861`, 464: with the heartbeat switched off a lock still declares an interval and a
  time to live, and no thread keeps it fresh; a working owner is then judged `stale`, which 519 defines
  as "provably gone". `Envelope` has the heartbeat on.
- `run_lock.py:961`: several contenders may each clear the same stale claim; the second one deletes
  the claim of the first, and two recover at once. Hence `midcrash` is outside `Envelope`.
- `run_lock.py:1028`: the grace is cut to a maximum that may be below the declared interval, so a machine
  that came back from sleep may not "get to prove it is alive" (15-17).
- `run_lock.py:424-441`: an acquisition that has queued writes an event when its lock is on disk and its guard does not exist yet. If that
  fails (disk full), the call raises and its lock stays, with a living process and no heartbeat: others wait until it
  expires or the process ends. `LoserLeavesNoTrap` says that it is no worse.
- `run_lock.py:693`: `forge unlock` deletes whatever lock is there by then, although 673 says "when it
  is provably stale".
- `swarm_worker.py:1111`, 1769: successful work is integrated (`docs/forge.md:34-36`). A worker commits, the run crashes, the retry
  reuses the branch and compares with the head it found there; there is nothing left to do, the task becomes `already_satisfied` and
  releases its dependents, its commits unmerged (or, with the snapshot backend, not copied back). TLC finds it in `Swarm` and
  `SwarmSnapshot` as a task that is `already_satisfied` with commits outside base branch or workspace.
- `swarm_scheduler.py:43-45` says that unverified work "landed and was kept". `swarm_orchestrator.py:3283-3320`
  keeps it on the task branch and never merges it; dependents are released and do not see it. `SeesDependencies` is
  about dependencies that are `done`.
- `swarm_orchestrator.py:1148-1159`: `already_satisfied` is missing among the statuses that a strict block leaves alone;
  a satisfied task becomes blocked. `CompletedStays` is about `done` and `completed_unverified`.
- `swarm_orchestrator.py:2321-2340`: an expected-red test whose merge failed is merged again at the
  next start whatever waits for it.
- `server/worker_runner.py:586`: `_cancel_requested` is read before the lock is taken, and not at all when reading
  the output failed (610): a job whose cancellation was accepted may end `succeeded` or `failed`,
  against `docs/server.md:107-108`.
- `server/worker_runner.py:610`: output that is not UTF-8 ends a job with its process alive and unknown to
  `cancel_job`; the worker goes on to the next job, and more processes run than `SYLLIPTOR_SERVER_MAX_JOBS`
  allows (`docs/server.md:82-85`).
- `server/worker_runner.py:521-537`: an error while metadata is written ends the worker thread for good;
  the pool is one smaller until the server restarts.
- `server/worker_runner.py:416-422`: a `start_job` that passed the check before `close()` may enqueue behind the messages that
  end the workers; its job stays queued.

*Forge runs.* In `forge_run` the faults `overlap` and `stale` are off. With either of them TLC finds, within minutes:

- With `overlap`, `CompletedIsHonest` and `RunningIsFingerprinted` fail, and with three commands `QueuedBeginsRight`. Edits of a plan and the
  re-arming of `forge resume` save it without asking for the guard (`cli_impl/forge_recovery.py`, `forge.py:1215`), from a copy loaded
  before. A chat that stays open while something else runs is such an edit.
- With `stale`, `CompletedIsHonest` fails: a command that did not have to wait acts on the plan it loaded
  before it asked (`cli_impl/forge.py:3731-3740`), and saves it over what another run wrote in between.

Without either:

- An edit of a completed run adds tasks or makes them planned again, and the pointer says "completed" on
  (`forge.py:1539-1540` only knows drafts and approved plans), until the next run marks it. `CompletedIsHonest` excepts the edit.
- `/plan edit` lets an editor write the file; the save after it finds nothing changed and syncs nothing, so an approved plan may be a draft on disk
  and the other way round.
- `forge run` saves what its reconciliation changed before it refuses or stops at a dry run (`cli_impl/forge.py:4177-4270`). After an interrupted
  run the definition is then no longer that of the pointer, and `forge resume` reports a drift that nobody made.
- Pointer writes are best-effort: `_mark_run_status` (`cli_impl/forge.py`) swallows every error and `save_plan` those of its sync. A status that is not
  written is stale until somebody writes another; the model writes all of them.
- `forge.py:1575-1589`: reconciliation reads the pointer, looks at the lock and writes the pointer. A run that
  begins in between is shown as interrupted; one that completes in between loses its "completed".
- `forge.py:1475-1500`, 1508-1538: both writers of the pointer read first. A sync that read "running" before the run finished makes it
  running again, until somebody reconciles it.
- A crash between `save_plan` and its sync leaves a definition on disk that the pointer does not know: the run's own amendment then
  looks like somebody else's change, and `resume` asks for a new approval.
- A crash leaves its task `in_progress`. Plain `forge run` passes it over (`cli_impl/forge.py:196-239`), finds nothing to begin and ends
  "approved"; `forge resume`, which would re-arm the task, then refuses because the run is not interrupted
  (`cli_impl/forge_recovery.py:239-246`).

*Snapshot backend.* What TLC finds in `SwarmSnapshot` when one asks for more than the properties say:

- Copying back compares with nothing. A copy that an earlier attempt has made, or that a review-strategy or crashed run has left
  ready, overwrites what rivals have applied since (`swarm_backend.py:774-789`, `execution_shared.py:1068`): `lost = {}` fails without a message.
  `cleanup_failed_task_workspace` keeps the branch and the old baseline (946-969), although the orchestrator's trace calls the workspace and its
  branch state "cleaned ... for future reruns". Hence `fresh` in `FreshKeeps`.
- A crash while files are copied back, followed by a start at which the item is rejected or its copy is gone, leaves half of a task's
  changes in the workspace, and the plan says failed.
- With `Strays` (a scope check that warns, or writes by shell commands) `FreshKeeps` fails: the scheduler knows only the claims.
- The user's own changes are not compared with either: `_raise_if_untracked_overwrite_conflict` (`swarm_orchestrator.py:1614`) is
  reached only in a repository with a commit.

*MCP transport.* `tests/test_mcp_stdio.py:693` expects that a recent late answer is discarded, `:456` that the death of the server is told at once.

- `mcp/transport_stdio.py:53-65`: what is remembered of requests that are over is bounded. When the reader and the
  waiter both give up on one request its id is remembered twice, so the bound is used up twice as fast; then a late answer to a
  forgotten request is "unknown" and ends the connection for everybody. TLC finds it with `Retain` 2 and 2 requests, and with `Retain` 4,
  1 thread and 3 requests; the code's bound is 1024.
- 110-144 and 828: an answer released between the waiter's last look and its retirement is lost as a timeout.
- A server that answers and exits within the quiet window: the answers held back are not released before the connection is declared
  dead, and the request fails although it was answered.
- 297: a request that registers after the declaration is told nothing and waits for its whole timeout. `close()` empties the tables
  and wakes nobody: waiters there end by their timeout too. `NobodyForgotten` is about an open transport.
- 1110, 972: a write to the server has no timeout. The reader writes the replies to requests of the server itself; with both pipes full, reader,
  server and writers wait for one another.
- The state "completed" is never kept, so a second answer to a completed request is reported as unknown. Ids and `start()` are
  not locked; the manager's leases (`mcp/manager.py:184-224`) make up for that.

*Background terminals.*

- `docs/terminals.md:146`: "When the chat session closes, all running background processes are terminated." `shutdown_all`
  (`terminal_manager.py:599`) takes those that are registered: a start that is under way is missed, and its child lives on with a record.
- A child whose object cannot be made gives its place back before it is terminated (526-560), and its record stays in the ledger until a later session
  finds it dead.
- A ledger that cannot be written, or a crash between `Popen` and the write, leaves a child that no session will find. `RecordUntilGone`
  is about those that were recorded.
- `docs/terminals.md:163` calls the cleanup best-effort, and it is. `docker kill` and `docker rm -f` may time out or fail, and nobody looks
  (`sandbox_runner.py:773-805`, `terminal_ownership.py:447-460`). While the session lives the client is killed all the same, and its record released though the container
  may run on. A later session only sends the client a SIGTERM and consumes the record (389-395): the client may live on, unrecorded.
- `terminal_ownership.py:69-73`: a record that cannot be read, for whatever error (`EMFILE` included), is unlinked, and a living child of it is forgotten.
  `RecordUntilGone` holds but for these two (`lost`).
- 65: only the first 256 records are looked at when a session opens. 426-444: an error of the last `killpg` other than "no such process" ends the scavenging and
  the opening of the session with it; the records stay.
- The cleanup runs once, in whichever thread comes first; the others go on while it is under way. The waiter may release the record
  before the container is gone.
- A descendant that left the process group and kept the pipes holds the readers: the process stays "running", takes a
  place, and a kill does not end it. `KillEnds` excludes it (`escape`).
- `terminal_ownership.py`: `scavenge_stale` judges by the child; descendants of a dead child live on without a record. A record
  whose process id was reused is consumed without removing its container.

## 7. What is not modelled, and the plan

`PROJECT.json` gives the reason for each component. Left aside for good are the parts whose
content is text or external services (planning, providers, compaction, presentation) and one-shot file operations.
By lines these are most of the repository: the modules cover the parts that keep shared state between
processes, threads or restarts, and these are small beside the prompts, menus, parsers and catalogues.

Candidates for later modules, in this order:

1. Replanning in `Swarm`, whose steps must then keep the promise of `Delivery` for a plan that changes.
2. `DurableServices` (`durable_service_manager.py`) and skill installation (`skills/transactions.py`): transactions on files.
3. A second run of a workspace (`create_plan_run`) in `ForgeRun`, and the manager's leases above `McpStdio`.

Theorems next: that `SwarmSnapshot` implements `Delivery` too, its copies in the place of branches.
