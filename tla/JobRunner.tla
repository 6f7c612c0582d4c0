----------------------------- MODULE JobRunner ------------------------------
(***************************************************************************)
(* JobRunner (server/worker_runner.py): jobs queue for a fixed pool of       *)
(* worker threads, each of which runs one job at a time in a process and     *)
(* follows its output to the end.  Requests of the HTTP API run in threads   *)
(* of their own beside them: start_job, cancel_job, get_status.  What a      *)
(* request or a worker does under _jobs_lock is one step; everything between *)
(* two such sections, and every file that is written, is a step of its own.  *)
(*                                                                           *)
(* A job comes into being with its start_job call, so the progress of that   *)
(* call is kept per job.  A client knows the job's id, and can cancel it or  *)
(* ask for it, once the call has put it into the queue and returns.          *)
(***************************************************************************)
EXTENDS Integers, Sequences, FiniteSets

CONSTANTS
    Job,         \* the start_job calls that may happen
    Worker,      \* the threads of the pool (SYLLIPTOR_SERVER_MAX_JOBS of them)
    Caller,      \* the API threads that may be cancelling a job
    None,
    Faults       \* what may happen: "disk", writing a file fails; "text", a process
                 \* prints what is not text; "close", the server is shut down

ASSUME JobAssumption ==
    /\ IsFiniteSet(Worker)
    /\ Worker \cap Caller = {}
    /\ None \notin Job
    /\ Faults \subseteq {"disk", "text", "close"}

VARIABLES
    call,        \* start_job of each job
    status,      \* JobState.status
    started,     \* the jobs whose started_at is set
    requested,   \* the jobs whose _cancel_requested is set
    handle,      \* the jobs whose _process is set
    process,     \* the process of each job
    meta, result,\* the status in meta.json and in result.json
    queue,       \* _job_queue; None tells a worker to end
    pc, on,      \* what each thread is about to do, and with which job
    closed,      \* close() was called
    pills,       \* how many times close() still has to put None
    hurt         \* history: an error has ended a request or a worker

memory == <<status, started, requested, handle>>
files == <<meta, result>>
threads == <<pc, on>>
pool == <<queue, closed, pills>>
vars == <<call, memory, process, files, pool, threads, hurt>>

Thread == Worker \cup Caller

Terminal == {"succeeded", "failed", "cancelled"}

Init ==
    /\ call = [j \in Job |-> "new"]
    /\ status = [j \in Job |-> "none"]
    /\ started = {} /\ requested = {} /\ handle = {}
    /\ process = [j \in Job |-> "none"]
    /\ meta = [j \in Job |-> "none"]
    /\ result = [j \in Job |-> "none"]
    /\ queue = <<>> /\ closed = FALSE /\ pills = 0
    /\ pc = [x \in Thread |-> "idle"]
    /\ on = [x \in Thread |-> None]
    /\ hurt = FALSE

At(x, here) == pc[x] = here
Goto(x, there, j) ==
    /\ pc' = [pc EXCEPT ![x] = there]
    /\ on' = [on EXCEPT ![x] = j]

\* atomic_write_json replaces the file with the state as it is now.
WriteMeta(j) == meta' = [meta EXCEPT ![j] = status[j]] /\ UNCHANGED result
WriteResult(j) == result' = [result EXCEPT ![j] = status[j]] /\ UNCHANGED meta

DiskFails ==
    /\ "disk" \in Faults
    /\ hurt' = TRUE
    /\ UNCHANGED files

\* Popen.terminate, after a look at whether the process is still there.
Terminate(j) ==
    process' = [process EXCEPT ![j] = IF @ = "running" THEN "signalled" ELSE @]

-----------------------------------------------------------------------------
(* start_job and close *)

Register(j) ==
    /\ call[j] = "new"
    /\ IF closed
       THEN call' = [call EXCEPT ![j] = "refused"] /\ UNCHANGED status
       ELSE /\ call' = [call EXCEPT ![j] = "registered"]
            /\ status' = [status EXCEPT ![j] = "queued"]
    /\ UNCHANGED <<started, requested, handle, process, files, pool, threads, hurt>>

Describe(j) ==
    /\ call[j] = "registered"
    /\ \/ /\ WriteMeta(j)
          /\ call' = [call EXCEPT ![j] = "described"]
          /\ UNCHANGED hurt
       \/ /\ DiskFails
          /\ call' = [call EXCEPT ![j] = "refused"]
    /\ UNCHANGED <<memory, process, pool, threads>>

Enqueue(j) ==
    /\ call[j] = "described"
    /\ call' = [call EXCEPT ![j] = "returned"]
    /\ queue' = Append(queue, j)
    /\ UNCHANGED <<memory, process, files, closed, pills, threads, hurt>>

Close ==
    /\ "close" \in Faults
    /\ ~closed
    /\ closed' = TRUE
    /\ pills' = Cardinality(Worker)
    /\ UNCHANGED <<call, memory, process, files, queue, threads, hurt>>

PutPill ==
    /\ pills > 0
    /\ pills' = pills - 1
    /\ queue' = Append(queue, None)
    /\ UNCHANGED <<call, memory, process, files, closed, threads, hurt>>

-----------------------------------------------------------------------------
(* cancel_job *)

Cancel(c, j) ==
    /\ At(c, "idle")
    /\ call[j] = "returned"
    /\ status[j] \notin Terminal
    /\ requested' = requested \cup {j}
    /\ \/ /\ status[j] = "queued"
          /\ status' = [status EXCEPT ![j] = "cancelled"]
          /\ Goto(c, "meta", j)
       \/ /\ status[j] = "running"
          /\ IF j \in handle THEN Goto(c, "signal", j) ELSE UNCHANGED threads
          /\ UNCHANGED status
    /\ UNCHANGED <<call, started, handle, process, files, pool, hurt>>

CancelSignal(c) ==
    /\ At(c, "signal")
    /\ Terminate(on[c])
    /\ Goto(c, "idle", None)
    /\ UNCHANGED <<call, memory, files, pool, hurt>>

-----------------------------------------------------------------------------
(* The end of a job, in a worker or in cancel_job: two files, in this order *)

\* Mutant of WriteEndMeta: only a worker writes a result.
WriteMetaOnly(x) ==
    /\ At(x, "meta")
    /\ WriteMeta(on[x])
    /\ IF x \in Worker THEN Goto(x, "result", on[x]) ELSE Goto(x, "idle", None)
    /\ UNCHANGED <<call, memory, process, pool, hurt>>

WriteEndMeta(x) ==
    /\ At(x, "meta")
    /\ WriteMeta(on[x])
    /\ Goto(x, "result", on[x])
    /\ UNCHANGED <<call, memory, process, pool, hurt>>

WriteEndResult(x) ==
    /\ At(x, "result")
    /\ WriteResult(on[x])
    /\ Goto(x, "idle", None)
    /\ UNCHANGED <<call, memory, process, pool, hurt>>

\* An error ends a request, and it ends a worker thread for good: _worker_loop
\* catches nothing.
WriteFails(x) ==
    /\ pc[x] \in {"describe", "spawn", "meta", "result"}
    /\ DiskFails
    /\ Goto(x, IF x \in Worker THEN "dead" ELSE "idle", None)
    /\ UNCHANGED <<call, memory, process, pool>>

-----------------------------------------------------------------------------
(* _worker_loop and _run_job_inner *)

Take(w) ==
    /\ At(w, "idle")
    /\ queue # <<>>
    /\ queue' = Tail(queue)
    /\ IF Head(queue) = None THEN Goto(w, "gone", None) ELSE Goto(w, "claim", Head(queue))
    /\ UNCHANGED <<call, memory, process, files, closed, pills, hurt>>

\* Mutant of Claim: the status is not looked at again.
ClaimRegardless(w) ==
    /\ At(w, "claim")
    /\ LET j == on[w]
       IN  /\ status' = [status EXCEPT ![j] = "running"]
           /\ started' = started \cup {j}
           /\ Goto(w, "describe", j)
    /\ UNCHANGED <<call, requested, handle, process, files, pool, hurt>>

\* A job that was cancelled while it waited is skipped.
Claim(w) ==
    /\ At(w, "claim")
    /\ LET j == on[w]
       IN  IF status[j] = "queued"
           THEN /\ status' = [status EXCEPT ![j] = "running"]
                /\ started' = started \cup {j}
                /\ Goto(w, "describe", j)
           ELSE UNCHANGED <<status, started>> /\ Goto(w, "idle", None)
    /\ UNCHANGED <<call, requested, handle, process, files, pool, hurt>>

DescribeRunning(w) ==
    /\ At(w, "describe")
    /\ WriteMeta(on[w])
    /\ Goto(w, "spawn", on[w])
    /\ UNCHANGED <<call, memory, process, pool, hurt>>

Spawn(w) ==
    /\ At(w, "spawn")
    /\ \/ /\ process' = [process EXCEPT ![on[w]] = "running"]
          /\ Goto(w, "attach", on[w])
       \/ /\ Goto(w, "except", on[w])
          /\ UNCHANGED process
    /\ UNCHANGED <<call, memory, files, pool, hurt>>

\* Mutant of Attach: a request that came during the spawn is overlooked.
AttachOnly(w) ==
    /\ At(w, "attach")
    /\ handle' = handle \cup {on[w]}
    /\ Goto(w, "read", on[w])
    /\ UNCHANGED <<call, status, started, requested, process, files, pool, hurt>>

\* The process becomes known to cancel_job, and what came too early is seen.
Attach(w) ==
    /\ At(w, "attach")
    /\ handle' = handle \cup {on[w]}
    /\ Goto(w, IF on[w] \in requested THEN "stop" ELSE "read", on[w])
    /\ UNCHANGED <<call, status, started, requested, process, files, pool, hurt>>

Stop(w) ==
    /\ At(w, "stop")
    /\ Terminate(on[w])
    /\ Goto(w, "read", on[w])
    /\ UNCHANGED <<call, memory, files, pool, hurt>>

\* The output is copied until it ends.  An error on the way, in the log file or
\* in a line that is not text, leaves the process alone.
Read(w) ==
    /\ At(w, "read")
    /\ \/ process[on[w]] = "exited" /\ Goto(w, "judge", on[w])
       \/ Faults \cap {"disk", "text"} # {} /\ Goto(w, "except", on[w])
    /\ UNCHANGED <<call, memory, process, files, pool, hurt>>

\* _cancel_requested is read without the lock.
Judge(w) ==
    /\ At(w, "judge")
    /\ Goto(w, IF on[w] \in requested THEN "cancelled" ELSE "reported", on[w])
    /\ UNCHANGED <<call, memory, process, files, pool, hurt>>

\* What the worker process reported in its last terminal event, or else its
\* exit code, decides.
Verdicts(w) ==
    CASE pc[w] = "cancelled" -> {"cancelled"}
      [] pc[w] = "reported" -> {"succeeded", "failed"}
      [] pc[w] = "except" -> {"failed"}

Conclude(w) ==
    /\ pc[w] \in {"cancelled", "reported", "except"}
    /\ \E verdict \in Verdicts(w) : status' = [status EXCEPT ![on[w]] = verdict]
    /\ handle' = handle \ {on[w]}
    /\ Goto(w, "meta", on[w])
    /\ UNCHANGED <<call, started, requested, process, files, pool, hurt>>

-----------------------------------------------------------------------------
(* The processes; their clients *)

Exit(j) ==
    /\ process[j] \in {"running", "signalled"}
    /\ process' = [process EXCEPT ![j] = "exited"]
    /\ UNCHANGED <<call, memory, files, pool, threads, hurt>>

\* Mutant of Visible: a job without a result is always reported as queued.
VisibleQueued(j) ==
    IF status[j] \in Terminal /\ result[j] = "none" THEN "queued" ELSE status[j]

\* get_status: a job has not ended before its result is there to be read.
Visible(j) ==
    IF status[j] \in Terminal /\ result[j] = "none"
    THEN IF j \in started THEN "running" ELSE "queued"
    ELSE status[j]

-----------------------------------------------------------------------------

Calling(j) == Register(j) \/ Describe(j) \/ Enqueue(j)

Ending(x) == WriteEndMeta(x) \/ WriteEndResult(x) \/ WriteFails(x)

Working(w) ==
    \/ Take(w) \/ Claim(w) \/ DescribeRunning(w) \/ Spawn(w) \/ Attach(w) \/ Stop(w)
    \/ Read(w) \/ Judge(w) \/ Conclude(w) \/ Ending(w)

Cancelling(c) == CancelSignal(c) \/ Ending(c)

Next ==
    \/ \E j \in Job : Calling(j) \/ Exit(j)
    \/ \E w \in Worker : Working(w)
    \/ \E c \in Caller : Cancelling(c) \/ \E j \in Job : Cancel(c, j)
    \/ Close \/ PutPill

Spec == Init /\ [][Next]_vars

\* Threads that have something to do go on, and processes end of themselves or
\* when they are told to; nobody has to start, cancel or close anything.
Fairness ==
    /\ \A j \in Job : WF_vars(Exit(j))
    /\ \A w \in Worker : WF_vars(Working(w))
    /\ \A c \in Caller : WF_vars(Cancelling(c))

FairSpec == Spec /\ Fairness

-----------------------------------------------------------------------------
(* Properties *)

Statuses == {"none", "queued", "running"} \cup Terminal

CallStages == {"new", "refused", "registered", "described", "returned"}

Places == {"idle", "gone", "dead", "claim", "describe", "spawn", "attach", "stop",
           "read", "judge", "cancelled", "reported", "except", "meta", "result",
           "signal"}

\* The variables have their types.
TypeOK ==
    /\ call \in [Job -> CallStages]
    /\ status \in [Job -> Statuses]
    /\ started \subseteq Job /\ requested \subseteq Job /\ handle \subseteq Job
    /\ process \in [Job -> {"none", "running", "signalled", "exited"}]
    /\ meta \in [Job -> Statuses] /\ result \in [Job -> Statuses]
    /\ queue \in Seq(Job \cup {None})
    /\ pc \in [Thread -> Places]
    /\ on \in [Thread -> Job \cup {None}]
    /\ closed \in BOOLEAN /\ pills \in Nat /\ hurt \in BOOLEAN

\* The result of a job is written once, when all is said: what is there agrees
\* with the description of the job and with its status, from then on and for
\* ever, and a client that is told that a job has ended finds it.  So no worker
\* takes up a job that was cancelled in the queue.
EndIsOnRecord ==
    \A j \in Job :
      /\ result[j] # "none" => result[j] \in Terminal /\ status[j] = result[j] /\ meta[j] = result[j]
      /\ Visible(j) \in Terminal => result[j] = Visible(j)

\* A cancellation is never lost between the request and the process: when both
\* are there, the process was told to end, or somebody is about to tell it,
\* whichever of cancel_job and the worker came first.
CancelReachesProcess ==
    \A j \in requested \cap handle :
      process[j] = "running" =>
        \E x \in Thread : on[x] = j /\ pc[x] \in {"signal", "stop"}

Rank(s) == CASE s = "none" -> 0 [] s = "queued" -> 1 [] s = "running" -> 2 [] OTHER -> 3

\* What clients are told about a job only moves on, and its end is final
\* ("queued -> running -> succeeded|failed|cancelled", docs/server.md).
ToldInOrder ==
    [][\A j \in Job : Visible(j)' # Visible(j) => Rank(Visible(j)) < Rank(Visible(j)')]_vars

\* Every job that a client was given an id for ends, and is reported as ended,
\* unless the pool was closed or an error has ended a worker or a request.
JobsEnd ==
    \A j \in Job :
      call[j] = "returned" ~> Visible(j) \in Terminal \/ closed \/ hurt
=============================================================================
