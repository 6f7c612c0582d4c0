-------------------------- MODULE JobRunnerProofs ---------------------------
(***************************************************************************)
(* Proofs about JobRunner, for every number of jobs, workers and API        *)
(* threads, with and without failing disks and a closed pool.               *)
(***************************************************************************)
EXTENDS JobRunner, FiniteSetTheorems, TLAPS

\* Where a worker runs a job that it has claimed and not yet concluded.
Running == {"describe", "spawn", "attach", "stop", "read", "judge",
            "cancelled", "reported", "except"}

Ended == {"meta", "result"}

Owns(x, j) == on[x] = j /\ pc[x] \in Running \cup Ended

\* Callers only cancel, workers do everything else; whoever has something to do
\* has a job.
Duties ==
    /\ \A c \in Caller : pc[c] \in {"idle", "signal"} \cup Ended
    /\ \A w \in Worker : pc[w] # "signal"
    /\ \A x \in Thread : pc[x] \in Running \cup Ended \cup {"claim", "signal"} => on[x] \in Job

\* A job has at most one owner: the worker that runs it or whoever writes down
\* its end.
OneOwner == \A x, y \in Thread : \A j \in Job : Owns(x, j) /\ Owns(y, j) => x = y

\* What the owner of a job knows of it.
OwnersKnow ==
    \A x \in Thread : \A j \in Job : on[x] = j =>
      /\ pc[x] \in Running => status[j] = "running"
      /\ pc[x] \in {"describe", "spawn", "attach"} => j \notin handle
      /\ pc[x] \in Ended => status[j] \in Terminal /\ result[j] = "none"
      /\ pc[x] = "result" => meta[j] = status[j]

\* What the status of a job says of the rest.
StatusTells ==
    \A j \in Job :
      /\ call[j] = "new" => status[j] = "none"
      /\ status[j] \in {"none", "queued"} => j \notin started
      /\ status[j] = "running" => j \in started
      /\ j \in handle => status[j] = "running"
      /\ result[j] # "none" =>
           result[j] \in Terminal /\ status[j] = result[j] /\ meta[j] = result[j]

Inv == TypeOK /\ Duties /\ OneOwner /\ OwnersKnow /\ StatusTells /\ CancelReachesProcess

-----------------------------------------------------------------------------

\* The types, Boolean flags apart: no prover here handles both at once.
Data ==
    /\ call \in [Job -> CallStages]
    /\ status \in [Job -> Statuses]
    /\ started \subseteq Job /\ requested \subseteq Job /\ handle \subseteq Job
    /\ process \in [Job -> {"none", "running", "signalled", "exited"}]
    /\ meta \in [Job -> Statuses] /\ result \in [Job -> Statuses]
    /\ queue \in Seq(Job \cup {None})
    /\ pc \in [Thread -> Places]
    /\ on \in [Thread -> Job \cup {None}]
    /\ pills \in Nat

Flags == closed \in BOOLEAN /\ hurt \in BOOLEAN

LEMMA Types == TypeOK <=> Data /\ Flags
BY DEF TypeOK, Data, Flags

LEMMA InitInv == Init => Inv
<1> SUFFICES ASSUME Init PROVE Inv
  OBVIOUS
<1> USE DEF Init
<1>1. Data
  BY DEF Data, Statuses, CallStages, Places
<1>2. Flags
  BY DEF Flags
<1>3. Duties
  BY DEF Duties, Thread, Running, Ended
<1>4. OneOwner /\ OwnersKnow
  BY DEF OneOwner, OwnersKnow, Owns, Running, Ended
<1>5. StatusTells /\ CancelReachesProcess
  BY DEF StatusTells, CancelReachesProcess
<1>6. QED
  BY <1>1, <1>2, <1>3, <1>4, <1>5, Types DEF Inv

\* Flags are flags.
LEMMA FlagsKept == ASSUME Flags, [Next]_vars PROVE Flags'
BY DEF Flags, Next, Calling, Exit, Working, Cancelling, Ending, Register, Describe, Enqueue, Close,
   PutPill, Cancel, CancelSignal, WriteEndMeta, WriteEndResult, WriteFails, Take, Claim,
   DescribeRunning, Spawn, Attach, Stop, Read, Judge, Conclude, DiskFails, vars, pool

USE JobAssumption DEF memory, files, threads, pool

\* Types survive every step.
LEMMA DataKept == ASSUME Data, Duties, [Next]_vars PROVE Data'
<1> USE DEF Data, Statuses, CallStages, Places, Terminal, Thread, At, Goto, WriteMeta, WriteResult,
            DiskFails, Terminate
<1>1. CASE UNCHANGED vars
  BY <1>1 DEF vars
<1>2. ASSUME NEW j \in Job, Calling(j) \/ Exit(j) PROVE Data'
  <2>1. CASE Register(j)
    BY <2>1 DEF Register
  <2>2. CASE Describe(j)
    BY <2>2 DEF Describe
  <2>3. CASE Enqueue(j)
    BY <2>3 DEF Enqueue
  <2>4. CASE Exit(j)
    BY <2>4 DEF Exit
  <2>5. QED
    BY <1>2, <2>1, <2>2, <2>3, <2>4 DEF Calling
<1>3. ASSUME NEW x \in Thread, Ending(x) PROVE Data'
  BY <1>3 DEF Ending, WriteEndMeta, WriteEndResult, WriteFails, Duties, Running, Ended
<1>4. ASSUME NEW c \in Caller, CancelSignal(c) \/ \E j \in Job : Cancel(c, j) PROVE Data'
  BY <1>4 DEF CancelSignal, Cancel, Duties
<1>5. ASSUME NEW w \in Worker, Working(w), ~Ending(w) PROVE Data'
  <2> USE DEF Duties, Running, Ended
  <2>1. CASE Take(w)
    <3>1. queue # <<>> /\ Head(queue) \in Job \cup {None} /\ Tail(queue) \in Seq(Job \cup {None})
      BY <2>1 DEF Take
    <3>2. CASE Head(queue) = None
      BY <2>1, <3>1, <3>2 DEF Take
    <3>3. CASE Head(queue) # None
      BY <2>1, <3>1, <3>3 DEF Take
    <3>4. QED
      BY <3>2, <3>3
  <2>2. CASE Claim(w)
    <3>1. on[w] \in Job
      BY <2>2 DEF Claim
    <3>2. CASE status[on[w]] = "queued"
      BY <2>2, <3>1, <3>2 DEF Claim
    <3>3. CASE status[on[w]] # "queued"
      BY <2>2, <3>1, <3>3 DEF Claim
    <3>4. QED
      BY <3>2, <3>3
  <2>3. CASE DescribeRunning(w)
    BY <2>3 DEF DescribeRunning
  <2>4. CASE Spawn(w)
    BY <2>4 DEF Spawn
  <2>5. CASE Attach(w)
    BY <2>5 DEF Attach
  <2>6. CASE Stop(w)
    BY <2>6 DEF Stop
  <2>7. CASE Read(w)
    BY <2>7 DEF Read
  <2>8. CASE Judge(w)
    BY <2>8 DEF Judge
  <2>9. CASE Conclude(w)
    BY <2>9 DEF Conclude, Verdicts
  <2>10. QED
    BY <1>5, <2>1, <2>2, <2>3, <2>4, <2>5, <2>6, <2>7, <2>8, <2>9 DEF Working
<1>6. CASE Close
  BY <1>6, FS_CardinalityType DEF Close
<1>7. CASE PutPill
  BY <1>7 DEF PutPill
<1>8. QED
  BY <1>1, <1>2, <1>3, <1>4, <1>5, <1>6, <1>7 DEF Next, Cancelling, Working

-----------------------------------------------------------------------------

\* The parts of Inv that relate the threads, the jobs and the files.
Rest == Duties /\ OneOwner /\ OwnersKnow /\ StatusTells /\ CancelReachesProcess

\* Whoever is about to signal a process still is when the step is another's.
LEMMA StillTold ==
  ASSUME CancelReachesProcess, UNCHANGED <<requested, handle, process>>,
         \A x \in Thread : pc[x] \in {"signal", "stop"} => pc'[x] = pc[x] /\ on'[x] = on[x]
  PROVE  CancelReachesProcess'
BY DEF CancelReachesProcess

\* The steps of start_job, and the end of a process.
LEMMA StartingKeeps ==
  ASSUME Data, Rest, NEW j \in Job,
         Register(j) \/ Describe(j) \/ Enqueue(j) \/ Exit(j)
  PROVE  Rest'
<1> USE DEF Data, Rest, Duties, OneOwner, Owns, OwnersKnow, StatusTells, CancelReachesProcess,
            Statuses, CallStages, Terminal, Thread, Running, Ended, At, Goto, WriteMeta, WriteResult,
            DiskFails, Terminate
<1>1. CASE Register(j)
  BY <1>1 DEF Register
<1>2. CASE Describe(j)
  BY <1>2 DEF Describe
<1>3. CASE Enqueue(j)
  BY <1>3 DEF Enqueue
<1>4. CASE Exit(j)
  BY <1>4 DEF Exit
<1>5. QED
  BY <1>1, <1>2, <1>3, <1>4

\* The steps of cancel_job.
LEMMA CancelKeeps ==
  ASSUME Data, Rest, NEW c \in Caller, NEW j \in Job, Cancel(c, j)
  PROVE  Rest'
<1> USE DEF Data, Rest, Duties, OneOwner, Owns, OwnersKnow, StatusTells, CancelReachesProcess,
            Statuses, CallStages, Terminal, Thread, Running, Ended, At, Goto, WriteMeta, WriteResult,
            DiskFails, Terminate
<1>1. pc[c] = "idle" /\ c \in Thread /\ requested' = requested \cup {j}
      /\ UNCHANGED <<call, started, handle, process, meta, result>>
  BY DEF Cancel
<1>2. CASE status[j] = "queued"
  <2>1. Goto(c, "meta", j) /\ status' = [status EXCEPT ![j] = "cancelled"]
    BY <1>2 DEF Cancel
  <2>2. Duties' /\ OneOwner' /\ StatusTells'
    BY <1>1, <1>2, <2>1
  <2>3. OwnersKnow'
    BY <1>1, <1>2, <2>1
  <2>4. CancelReachesProcess'
    BY <1>1, <1>2, <2>1
  <2>5. QED
    BY <2>2, <2>3, <2>4
<1>3. CASE status[j] = "running" /\ j \in handle
  <2>1. Goto(c, "signal", j) /\ status' = status
    BY <1>3 DEF Cancel
  <2>2. QED
    BY <1>1, <2>1
<1>4. CASE status[j] = "running" /\ j \notin handle
  <2>1. UNCHANGED <<pc, on, status>>
    BY <1>4 DEF Cancel
  <2>2. QED
    BY <1>1, <1>4, <2>1
<1>5. QED
  BY <1>2, <1>3, <1>4 DEF Cancel

LEMMA CancelSignalKeeps ==
  ASSUME Data, Rest, NEW c \in Caller, CancelSignal(c)
  PROVE  Rest'
BY DEF CancelSignal, Data, Rest, Duties, OneOwner, Owns, OwnersKnow, StatusTells,
       CancelReachesProcess, Statuses, CallStages, Terminal, Thread, Running, Ended, At, Goto, Terminate

\* Writing down the end of a job.
LEMMA EndingKeeps ==
  ASSUME Data, Rest, NEW x \in Thread,
         WriteEndMeta(x) \/ WriteEndResult(x) \/ WriteFails(x)
  PROVE  Rest'
<1> USE DEF Data, Rest, Duties, OneOwner, Owns, OwnersKnow, StatusTells, CancelReachesProcess,
            Statuses, CallStages, Terminal, Thread, Running, Ended, At, Goto, WriteMeta, WriteResult,
            DiskFails, Terminate
<1>1. CASE WriteEndMeta(x)
  BY <1>1 DEF WriteEndMeta
<1>2. CASE WriteEndResult(x)
  <2>1. Duties'
    BY <1>2 DEF WriteEndResult
  <2>2. OneOwner'
    BY <1>2 DEF WriteEndResult
  <2>3. OwnersKnow'
    BY <1>2 DEF WriteEndResult
  <2>4. StatusTells'
    BY <1>2 DEF WriteEndResult
  <2>5. CancelReachesProcess'
    BY <1>2 DEF WriteEndResult
  <2>6. QED
    BY <2>1, <2>2, <2>3, <2>4, <2>5
<1>3. CASE WriteFails(x)
  BY <1>3 DEF WriteFails
<1>4. QED
  BY <1>1, <1>2, <1>3

\* A step that only moves a worker on, to a new job or in a running one.
LEMMA MovesOnly ==
  ASSUME Data, Rest, NEW w \in Worker, NEW there, NEW j,
         Goto(w, there, j), UNCHANGED <<call, memory, process, files>>,
         \/ pc[w] = "idle" /\ there = "gone"
         \/ pc[w] = "idle" /\ there = "claim" /\ j \in Job
         \/ pc[w] = "claim" /\ there = "idle"
         \/ pc[w] \in {"read", "judge"} /\ j = on[w]
            /\ there \in {"judge", "cancelled", "reported", "except"}
  PROVE  Rest'
<1> USE DEF Data, Rest, Thread, Goto, Running, Ended
<1>1. Duties'
  BY DEF Duties
<1>2. OneOwner'
  BY DEF OneOwner, Owns
<1>3. OwnersKnow'
  BY DEF OwnersKnow
<1>4. StatusTells'
  BY DEF StatusTells
<1>5. CancelReachesProcess'
  BY StillTold
<1>6. QED
  BY <1>1, <1>2, <1>3, <1>4, <1>5

\* The steps of a worker that only move it on.
LEMMA MovingKeeps ==
  ASSUME Data, Rest, NEW w \in Worker, Take(w) \/ Read(w) \/ Judge(w)
  PROVE  Rest'
<1>1. ASSUME Take(w), Head(queue) = None PROVE Rest'
  <2>1. Goto(w, "gone", None) /\ pc[w] = "idle" /\ UNCHANGED <<call, memory, process, files>>
    BY <1>1 DEF Take, At
  <2>2. QED
    BY <2>1, MovesOnly
<1>2. ASSUME Take(w), Head(queue) # None PROVE Rest'
  <2>1. Head(queue) \in Job
    BY <1>2 DEF Take, Data
  <2>2. Goto(w, "claim", Head(queue)) /\ pc[w] = "idle" /\ UNCHANGED <<call, memory, process, files>>
    BY <1>2 DEF Take, At
  <2>3. QED
    BY <2>1, <2>2, MovesOnly
<1>3. ASSUME Read(w) PROVE Rest'
  BY <1>3, MovesOnly DEF Read, At
<1>4. ASSUME Judge(w) PROVE Rest'
  BY <1>4, MovesOnly DEF Judge, At
<1>5. QED
  BY <1>1, <1>2, <1>3, <1>4

\* A worker claims a job.
LEMMA ClaimKeeps == ASSUME Data, Rest, NEW w \in Worker, Claim(w) PROVE Rest'
<1>1. on[w] \in Job /\ pc[w] = "claim" /\ w \in Thread
  BY DEF Claim, At, Rest, Duties, Thread
<1>2. CASE status[on[w]] = "queued"
  <2>1. /\ status' = [status EXCEPT ![on[w]] = "running"] /\ started' = started \cup {on[w]}
        /\ Goto(w, "describe", on[w])
        /\ UNCHANGED <<call, requested, handle, process, meta, result>>
    BY <1>2 DEF Claim, files
  <2> USE <1>1, <1>2, <2>1 DEF Data, Rest, Thread, Goto, Running, Ended
  <2>2. Duties'
    BY DEF Duties
  <2>3. OneOwner'
    <3>1. \A x \in Thread : ~Owns(x, on[w])
      BY DEF Owns, OwnersKnow, Terminal
    <3>2. \A x \in Thread : x # w => pc'[x] = pc[x] /\ on'[x] = on[x]
      OBVIOUS
    <3>3. QED
      BY <3>1, <3>2 DEF OneOwner, Owns
  <2>4. OwnersKnow'
    BY DEF OwnersKnow, Terminal, StatusTells
  <2>5. StatusTells'
    BY DEF StatusTells, Terminal
  <2>6. CancelReachesProcess'
    BY StillTold
  <2>7. QED
    BY <2>2, <2>3, <2>4, <2>5, <2>6
<1>3. CASE status[on[w]] # "queued"
  <2>1. Goto(w, "idle", None) /\ UNCHANGED <<call, memory, process, files>>
    BY <1>3 DEF Claim
  <2>2. QED
    BY <1>1, <2>1, MovesOnly
<1>4. QED
  BY <1>2, <1>3

\* The steps of a worker in a job.
LEMMA WorkingKeeps ==
  ASSUME Data, Rest, NEW w \in Worker,
         DescribeRunning(w) \/ Spawn(w) \/ Attach(w) \/ Stop(w) \/ Conclude(w)
  PROVE  Rest'
<1> USE DEF Data, Rest, Duties, OneOwner, Owns, OwnersKnow, StatusTells, CancelReachesProcess,
            Statuses, CallStages, Terminal, Thread, Running, Ended, At, Goto, WriteMeta, WriteResult,
            DiskFails, Terminate
<1>1. CASE DescribeRunning(w)
  BY <1>1 DEF DescribeRunning
<1>2. CASE Spawn(w)
  BY <1>2 DEF Spawn
<1>3. CASE Attach(w)
  BY <1>3 DEF Attach
<1>4. CASE Stop(w)
  BY <1>4 DEF Stop
<1>5. CASE Conclude(w)
  BY <1>5 DEF Conclude, Verdicts
<1>6. QED
  BY <1>1, <1>2, <1>3, <1>4, <1>5

\* The relations survive every step.
LEMMA RestKept == ASSUME Data, Rest, [Next]_vars PROVE Rest'
<1>1. CASE UNCHANGED vars
  BY <1>1 DEF vars, Rest, Duties, OneOwner, Owns, OwnersKnow, StatusTells, CancelReachesProcess
<1>2. CASE Close \/ PutPill
  BY <1>2 DEF Close, PutPill, Rest, Duties, OneOwner, Owns, OwnersKnow, StatusTells,
              CancelReachesProcess
<1>3. ASSUME NEW j \in Job, Calling(j) \/ Exit(j) PROVE Rest'
  BY <1>3, StartingKeeps DEF Calling
<1>4. ASSUME NEW w \in Worker, Working(w) PROVE Rest'
  BY <1>4, MovingKeeps, ClaimKeeps, WorkingKeeps, EndingKeeps DEF Working, Ending, Thread
<1>5. ASSUME NEW c \in Caller, Cancelling(c) \/ \E j \in Job : Cancel(c, j) PROVE Rest'
  BY <1>5, CancelKeeps, CancelSignalKeeps, EndingKeeps DEF Cancelling, Ending, Thread
<1>6. QED
  BY <1>1, <1>2, <1>3, <1>4, <1>5 DEF Next

LEMMA InvHolds == Spec => []Inv
<1>1. ASSUME Inv, [Next]_vars PROVE Inv'
  <2>1. Data /\ Flags /\ Rest
    BY <1>1, Types DEF Inv, Rest
  <2>2. Data' /\ Flags' /\ Rest'
    BY <1>1, <2>1, DataKept, FlagsKept, RestKept DEF Rest
  <2>3. QED
    BY <2>2, Types DEF Inv, Rest, TypeOK, Data, Flags
<1>2. QED
  BY <1>1, InitInv, PTL DEF Spec

-----------------------------------------------------------------------------

\* The variables have their types.
THEOREM TypeCorrect == Spec => []TypeOK
<1>1. Inv => TypeOK
  BY DEF Inv
<1>2. QED
  BY <1>1, InvHolds, PTL

\* What is on record of the end of a job is final and agrees, and nobody is told
\* of an end that is not on record (get_status, _run_job_inner, cancel_job).
THEOREM EndsOnRecord == Spec => []EndIsOnRecord
<1>1. Inv => EndIsOnRecord
  BY DEF Inv, StatusTells, EndIsOnRecord, Visible, Terminal
<1>2. QED
  BY <1>1, InvHolds, PTL

\* A cancellation and a starting process cannot miss each other (cancel_job,
\* _run_job_inner).
THEOREM CancelsArrive == Spec => []CancelReachesProcess
<1>1. Inv => CancelReachesProcess
  BY DEF Inv
<1>2. QED
  BY <1>1, InvHolds, PTL

\* What a client sees of a job depends on these.
LEMMA Unseen ==
  ASSUME NEW j \in Job, UNCHANGED <<status, started, result>>
  PROVE  Visible(j)' = Visible(j)
BY DEF Visible

\* What clients are told moves on only (get_status beside all the others).
LEMMA MovesOn ==
  ASSUME Inv, [Next]_vars, NEW j \in Job, Visible(j)' # Visible(j)
  PROVE  Rank(Visible(j)) < Rank(Visible(j)')
<1> USE DEF StatusTells, Statuses, Terminal, Visible, Rank
<1>1. Data /\ Duties /\ OwnersKnow /\ StatusTells
  BY Types DEF Inv
<1>2. ASSUME NEW i \in Job, Register(i) PROVE Rank(Visible(j)) < Rank(Visible(j)')
  BY <1>1, <1>2 DEF Register, Data
<1>3. ASSUME NEW x \in Thread, WriteEndResult(x) PROVE Rank(Visible(j)) < Rank(Visible(j)')
  BY <1>1, <1>3 DEF WriteEndResult, WriteResult, At, Data, Duties, OwnersKnow, Ended
<1>4. ASSUME NEW w \in Worker, Claim(w) PROVE Rank(Visible(j)) < Rank(Visible(j)')
  <2>1. on[w] \in Job /\ status[on[w]] = "queued" /\ status' = [status EXCEPT ![on[w]] = "running"]
        /\ started' = started \cup {on[w]} /\ result' = result
    BY <1>1, <1>4, Unseen DEF Claim, At, Duties, Thread
  <2>2. QED
    BY <1>1, <2>1 DEF Data
<1>5. ASSUME NEW w \in Worker, Conclude(w) PROVE Rank(Visible(j)) < Rank(Visible(j)')
  BY <1>1, <1>5 DEF Conclude, Verdicts, Data, Duties, OwnersKnow, Running, Thread
<1>6. ASSUME NEW c \in Caller, NEW i \in Job, Cancel(c, i) PROVE Rank(Visible(j)) < Rank(Visible(j)')
  BY <1>1, <1>6 DEF Cancel, Data
<1>7. ~ UNCHANGED <<status, started, result>>
  BY Unseen
<1>8. QED
  BY <1>2, <1>3, <1>4, <1>5, <1>6, <1>7
  DEF Next, vars, Calling, Working, Cancelling, Ending, Thread, Describe, Enqueue, Exit, Close, PutPill,
      Take, DescribeRunning, Spawn, Attach, Stop, Read, Judge, CancelSignal, WriteEndMeta, WriteFails,
      WriteMeta, DiskFails

\* What clients are told about a job only moves on, and its end is final.
THEOREM OrderKept == Spec => ToldInOrder
<1>1. Inv /\ [Next]_vars =>
        [\A j \in Job : Visible(j)' # Visible(j) => Rank(Visible(j)) < Rank(Visible(j)')]_vars
  BY MovesOn
<1>2. QED
  BY <1>1, InvHolds, PTL DEF Spec, ToldInOrder
=============================================================================
