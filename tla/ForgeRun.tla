------------------------------ MODULE ForgeRun ------------------------------
(***************************************************************************)
(* The life of a workspace's current Forge run: the plan file, the pointer *)
(* current_run.json with the status of the run, and the commands that read *)
(* and write both (cli_impl/forge.py, cli_impl/forge_recovery.py, forge.py,*)
(* run_state.py).                                                          *)
(*                                                                         *)
(* Each member of Proc is a terminal, in which one command after another   *)
(* is given: `forge run`, `forge exec`, `forge resume` (also with          *)
(* --reapprove), or an edit of the current plan (in the chat: /goal, /task,*)
(* /plan edit, a turn of the planner).  The Viewer is any surface that     *)
(* shows the run, again and again.  Executions are serialised by the guard *)
(* of module Guard; loads of the plan before the guard is taken, edits,    *)
(* the re-arming of resume and every write of the pointer are not.         *)
(* Reading the pointer and writing it are two steps.                       *)
(***************************************************************************)
EXTENDS Guard, Integers, FiniteSets

CONSTANTS
    Viewer,       \* forge show, the chat panels, a user interface that polls
    Task,         \* the tasks of the plan
    Needs,        \* the tasks each task depends on
    Commands,     \* the commands given in this instance
    MaxCommands,  \* bound: commands given
    MaxEdit,      \* bound: changes of the plan's definition
    Faults        \* the disturbances of this instance

FaultKinds ==
    { "crash",      \* a command dies between two steps
      "overlap",    \* an edit or a resume is given while another command works
      "stale" }     \* the plan changes, and the guard is free again, between a
                    \* command's load and its asking for the guard

ASSUME ForgeAssumption ==
    /\ Viewer \notin Proc
    /\ None \notin Task
    /\ Needs \in [Task -> SUBSET Task]
    /\ Commands \subseteq {"run", "exec", "resume", "reapprove", "edit"}
    /\ MaxCommands \in Nat
    /\ MaxEdit \in Nat
    /\ Faults \subseteq FaultKinds

VARIABLES
    left,     \* commands that may still be given
    pc,       \* the next step of each terminal and of the viewer
    cmd,      \* the command given in each; "rerun" is the run that a resume starts
    plan,     \* plan.json: definition and task statuses
    edits,    \* the latest definition: goal, tasks, dependencies, write scopes
    mem,      \* the plan each command has in memory
    waited,   \* those whose guard was acquired_after_wait
    pointer,  \* current_run.json: status, and fingerprint of a definition
    seen,     \* the pointer as each of them last read it
    todo,     \* what is about to be recorded, and where to go on after that
    task,     \* the task in hand
    tried,    \* the tasks attempted
    bad       \* the commands with a task that was not accepted

vars == <<holder, left, pc, cmd, plan, edits, mem, waited, pointer, seen, todo, task,
          tried, bad>>
work == <<task, tried, bad>>

-----------------------------------------------------------------------------
(* Plans and pointers *)

Actor == Proc \cup {Viewer}
Unguarded == {"resume", "reapprove", "edit"}
Keep == -1
Def == 0 .. MaxEdit

\* An absent task is not in the plan, or retired: superseded or invalidated.
TaskStatus == {"absent", "planned", "in_progress", "interrupted", "failed", "done"}
RunStatus == {"draft", "approved", "running", "interrupted", "completed", "failed"}

Plan == [def : Def, st : [Task -> TaskStatus]]
Pointer == [status : RunStatus, fp : Def]

Unfinished(st) == {t \in Task : st[t] \notin {"done", "absent"}}
Released(st, t) == \A d \in Needs[t] : st[d] = "done"
With(pl, t, s) == [pl EXCEPT !.st[t] = s]

\* What a change of the plan may make of its definition d.
Versions(d) == {d, edits + 1} \cap Def
Amend(d, new) == edits' = IF new = d THEN edits ELSE new

\* What the command may begin next.  A run takes them in plan order, but --only
\* and --max-attempts may pass over any; a resumed run retries what failed.
Candidates(p) ==
    {t \in Task \ tried[p] :
       \/ cmd[p] = "exec" /\ t = task[p]
       \/ /\ cmd[p] # "exec"
          /\ \/ mem[p].st[t] \in {"planned", "interrupted"}
             \/ mem[p].st[t] = "failed" /\ cmd[p] = "rerun"
          /\ Released(mem[p].st, t)}

\* _reset_in_flight_tasks.
InFlight(pl) == {t \in Task : pl.st[t] = "in_progress"}
Rearmed(pl) ==
    [pl EXCEPT !.st = [t \in Task |-> IF t \in InFlight(pl) THEN "interrupted" ELSE @[t]]]

Labels == { "look", "probe", "demote", "load", "judge", "rearm", "remaining", "edit",
            "ask", "got", "check", "next", "working", "conclude", "stamp", "put", "sync",
            "leave", "release", "end", "idle" }

TypeOK ==
    /\ holder \in Proc \cup {None}
    /\ left \in 0 .. MaxCommands
    /\ pc \in [Actor -> Labels]
    /\ cmd \in [Proc -> Commands \cup {"none", "rerun"}]
    /\ plan \in Plan
    /\ edits \in Def
    /\ mem \in [Proc -> Plan]
    /\ waited \subseteq Proc
    /\ pointer \in Pointer
    /\ seen \in [Actor -> Pointer]
    /\ todo \in [Proc -> [status : RunStatus, fp : Def \cup {Keep}, then : Labels]]
    /\ task \in [Proc -> Task \cup {None}]
    /\ tried \in [Proc -> SUBSET Task]
    /\ bad \subseteq Proc

Fresh == [def |-> 0, st |-> [t \in Task |-> "planned"]]
Approved == [status |-> "approved", fp |-> 0]
Nothing == [status |-> "approved", fp |-> Keep, then |-> "end"]

\* A plan that has just passed the acceptance gate, with any of the tasks.
Init ==
    /\ GuardInit
    /\ left = MaxCommands
    /\ pc = [a \in Actor |-> IF a = Viewer THEN "look" ELSE "idle"]
    /\ cmd = [p \in Proc |-> "none"]
    /\ \E st \in [Task -> {"absent", "planned"}] : plan = [Fresh EXCEPT !.st = st]
    /\ edits = 0
    /\ mem = [p \in Proc |-> Fresh]
    /\ waited = {}
    /\ pointer = Approved
    /\ seen = [a \in Actor |-> Approved]
    /\ todo = [p \in Proc |-> Nothing]
    /\ task = [p \in Proc |-> None]
    /\ tried = [p \in Proc |-> {}]
    /\ bad = {}

Goto(a, l) == pc' = [pc EXCEPT ![a] = l]

\* set_current_run_status(status, plan) as a detour: Stamp reads, Put writes.
Record(p, status, fp, next) ==
    /\ todo' = [todo EXCEPT ![p] = [status |-> status, fp |-> fp, then |-> next]]
    /\ Goto(p, "stamp")

\* Mutant of Synced: saves leave the pointer alone.
SyncedNever(ptr, pl) == {ptr}

\* What sync_current_run_plan_status may want the pointer to be when plan pl has been
\* saved: a running run gets its fingerprint, and one that has not begun is ready or
\* a draft, as the readiness gate finds.  All others stay as they are.
Synced(ptr, pl) ==
    CASE ptr.status = "running"  -> {[ptr EXCEPT !.fp = pl.def]}
      [] ptr.status = "approved" -> {ptr, [ptr EXCEPT !.status = "draft"]}
      [] ptr.status = "draft"    -> {ptr, [status |-> "approved", fp |-> pl.def]}
      [] OTHER                   -> {ptr}

Overwrite(p, pl) ==
    /\ mem' = [mem EXCEPT ![p] = pl]
    /\ plan' = pl

\* save_plan writes the file, if the plan has changed, reads the pointer, and goes on
\* to rewrite it if it is not as it should be.
Save(p, pl, next) ==
    /\ Overwrite(p, pl)
    /\ \E want \in Synced(pointer, pl) \cup (IF pl = plan THEN {pointer} ELSE {}) :
         \/ want = pointer /\ Goto(p, next) /\ UNCHANGED <<seen, todo>>
         \/ /\ want # pointer
            /\ seen' = [seen EXCEPT ![p] = want]
            /\ todo' = [todo EXCEPT ![p].then = next]
            /\ Goto(p, "sync")

-----------------------------------------------------------------------------
(* A command begins: it shows the run, hence reconciles it, and loads the plan *)

Idle(p) == pc[p] = "idle"
Alone(p, c) ==
    \A q \in Proc \ {p} : Idle(q) \/ (c \notin Unguarded /\ cmd[q] \notin Unguarded)

Start(p) ==
    /\ Idle(p) /\ left > 0
    /\ left' = left - 1
    /\ \E c \in Commands :
         /\ "overlap" \in Faults \/ Alone(p, c)
         /\ cmd' = [cmd EXCEPT ![p] = c]
    /\ Goto(p, "look")
    /\ UNCHANGED <<holder, plan, edits, mem, waited, pointer, seen, todo, work>>

Shown(a) == IF a = Viewer THEN "look" ELSE "load"

\* reconcile_current_run_status: reads the pointer, then looks at the lock, then
\* writes what it read with another status.
Look(a) ==
    /\ pc[a] = "look"
    /\ a = Viewer => pointer.status = "running"
    /\ seen' = [seen EXCEPT ![a] = pointer]
    /\ Goto(a, IF pointer.status = "running" THEN "probe" ELSE Shown(a))
    /\ UNCHANGED <<holder, left, cmd, plan, edits, mem, waited, pointer, todo, work>>

\* Mutant of Probe: only commands reconcile, not the surfaces that show the run.
ProbeByCommands(a) ==
    /\ pc[a] = "probe"
    /\ Goto(a, IF holder = None /\ a # Viewer THEN "demote" ELSE Shown(a))
    /\ UNCHANGED <<holder, left, cmd, plan, edits, mem, waited, pointer, seen, todo, work>>

Probe(a) ==
    /\ pc[a] = "probe"
    /\ Goto(a, IF holder = None THEN "demote" ELSE Shown(a))
    /\ UNCHANGED <<holder, left, cmd, plan, edits, mem, waited, pointer, seen, todo, work>>

Demote(a) ==
    /\ pc[a] = "demote"
    /\ pointer' = [seen[a] EXCEPT !.status = "interrupted"]
    /\ Goto(a, Shown(a))
    /\ UNCHANGED <<holder, left, cmd, plan, edits, mem, waited, seen, todo, work>>

\* `forge exec` stops at a task that is not there or whose dependencies are not done.
Load(p) ==
    /\ pc[p] = "load"
    /\ mem' = [mem EXCEPT ![p] = plan]
    /\ \/ cmd[p] \in {"run", "rerun"} /\ Goto(p, "ask") /\ UNCHANGED task
       \/ cmd[p] \in {"resume", "reapprove"} /\ Goto(p, "judge") /\ UNCHANGED task
       \/ cmd[p] = "edit" /\ Goto(p, "edit") /\ UNCHANGED task
       \/ /\ cmd[p] = "exec"
          /\ \E t \in Task :
               /\ task' = [task EXCEPT ![p] = t]
               /\ Goto(p, IF plan.st[t] # "absent" /\ Released(plan.st, t) THEN "ask" ELSE "end")
    /\ UNCHANGED <<holder, left, cmd, plan, edits, waited, pointer, seen, todo, tried, bad>>

\* A change of the current plan, outside any run: it may add a task, retire one or
\* give it another status, and change the definition.  /plan edit writes the file
\* with an editor, so the save that follows finds nothing new and syncs nothing.
Edit(p) ==
    /\ pc[p] = "edit"
    /\ \E t \in Task, s \in TaskStatus, d \in Versions(mem[p].def) :
         LET pl == With([mem[p] EXCEPT !.def = d], t, s) IN
         /\ Amend(mem[p].def, d)
         /\ \/ Save(p, pl, "end")
            \/ Overwrite(p, pl) /\ Goto(p, "end") /\ UNCHANGED <<seen, todo>>
    /\ UNCHANGED <<holder, left, cmd, waited, pointer, work>>

-----------------------------------------------------------------------------
(* forge resume *)

Resumable == {"interrupted", "failed"}

Judge(p) ==
    /\ pc[p] = "judge"
    /\ \/ /\ pointer.status \notin Resumable
          /\ Goto(p, "end") /\ UNCHANGED todo
       \/ /\ pointer.status \in Resumable /\ pointer.fp = mem[p].def
          /\ Goto(p, "rearm") /\ UNCHANGED todo
       \/ /\ pointer.status \in Resumable /\ pointer.fp # mem[p].def
          /\ \/ cmd[p] = "reapprove" /\ Record(p, "approved", mem[p].def, "rearm")
             \/ cmd[p] = "resume" /\ Goto(p, "end") /\ UNCHANGED todo
    /\ UNCHANGED <<holder, left, cmd, plan, edits, mem, waited, pointer, seen, work>>

Rearm(p) ==
    /\ pc[p] = "rearm"
    /\ \/ InFlight(mem[p]) # {} /\ Save(p, Rearmed(mem[p]), "remaining")
       \/ /\ InFlight(mem[p]) = {} /\ Goto(p, "remaining")
          /\ UNCHANGED <<mem, plan, seen, todo>>
    /\ UNCHANGED <<holder, left, cmd, edits, waited, pointer, work>>

\* The rest is forge_run_impl, from its beginning.
Remaining(p) ==
    /\ pc[p] = "remaining"
    /\ \/ /\ Unfinished(mem[p].st) = {}
          /\ Record(p, "completed", Keep, "end") /\ UNCHANGED cmd
       \/ /\ Unfinished(mem[p].st) # {}
          /\ cmd' = [cmd EXCEPT ![p] = "rerun"]
          /\ Goto(p, "look") /\ UNCHANGED todo
    /\ UNCHANGED <<holder, left, plan, edits, mem, waited, pointer, seen, work>>

-----------------------------------------------------------------------------
(* The guard, and what is checked under it *)

Ask(p) ==
    /\ pc[p] = "ask"
    /\ \/ /\ p \in waited \/ mem[p] = plan \/ "stale" \in Faults
          /\ Take(p) /\ Goto(p, "got") /\ UNCHANGED waited
       \/ /\ holder # None /\ p \notin waited
          /\ waited' = waited \cup {p} /\ UNCHANGED <<holder, pc>>
    /\ UNCHANGED <<left, cmd, plan, edits, mem, pointer, seen, todo, work>>

\* The wait is interrupted.
GiveUp(p) ==
    /\ pc[p] = "ask" /\ p \in waited
    /\ Goto(p, "end")
    /\ UNCHANGED <<holder, left, cmd, plan, edits, mem, waited, pointer, seen, todo, work>>

\* Mutant of Reloaded: the plan loaded before the wait is used after it.
ReloadedNever(p) == mem[p]

\* One that waited loads the plan again.
Reloaded(p) == IF p \in waited THEN plan ELSE mem[p]

\* `forge run` then brings the plan's write scopes up to date with the workspace, and
\* saves it if that changed its definition.
Reload(p) ==
    /\ pc[p] = "got"
    /\ \/ /\ mem' = [mem EXCEPT ![p] = Reloaded(p)]
          /\ Goto(p, "check") /\ UNCHANGED <<plan, edits, seen, todo>>
       \/ /\ cmd[p] # "exec" /\ edits < MaxEdit
          /\ edits' = edits + 1
          /\ Save(p, [Reloaded(p) EXCEPT !.def = edits'], "check")
    /\ UNCHANGED <<holder, left, cmd, waited, pointer, work>>

\* `forge exec` asks again, after a wait, whether its task may begin.
StillRight(p) ==
    p \in waited /\ cmd[p] = "exec" =>
        mem[p].st[task[p]] \notin {"done", "absent"} /\ Released(mem[p].st, task[p])

Got(p) ==
    /\ pc[p] = "check"
    /\ StillRight(p)
    /\ Record(p, "running", mem[p].def, "next")
    /\ UNCHANGED <<holder, left, cmd, plan, edits, mem, waited, pointer, seen, work>>

\* Not right any more, the plan is invalid, or nothing but a dry run was asked for.
Refuse(p) ==
    /\ pc[p] = "check"
    /\ Goto(p, "leave")
    /\ UNCHANGED <<holder, left, cmd, plan, edits, mem, waited, pointer, seen, todo, work>>

-----------------------------------------------------------------------------
(* The tasks, one after another *)

Begin(p) ==
    /\ pc[p] = "next"
    /\ \E t \in Candidates(p) :
         /\ task' = [task EXCEPT ![p] = t]
         /\ tried' = [tried EXCEPT ![p] = @ \cup {t}]
         /\ Save(p, With(mem[p], t, "in_progress"), "working")
    /\ UNCHANGED <<holder, left, cmd, edits, waited, pointer, bad>>

\* No candidate is left, or --max-tasks or --only leave those there are.
Stop(p) ==
    /\ pc[p] = "next"
    /\ cmd[p] = "exec" => Candidates(p) = {}
    /\ Goto(p, "conclude")
    /\ UNCHANGED <<holder, left, cmd, plan, edits, mem, waited, pointer, seen, todo, work>>

\* execute_forge_task saves its verdict, and with it the amendments of the
\* task's write scope: a change of the definition by the run itself.
Work(p) ==
    /\ pc[p] = "working"
    /\ \E verdict \in {"done", "failed"}, d \in Versions(mem[p].def), keepGoing \in BOOLEAN :
         /\ Amend(mem[p].def, d)
         /\ bad' = IF verdict = "failed" THEN bad \cup {p} ELSE bad
         /\ Save(p, With([mem[p] EXCEPT !.def = d], task[p], verdict),
                 IF verdict = "failed" /\ ~keepGoing THEN "conclude" ELSE "next")
    /\ UNCHANGED <<holder, left, cmd, waited, pointer, task, tried>>

\* An exception, or Ctrl-C: the task stays as it is.
Raise(p) ==
    /\ pc[p] \in {"next", "working"}
    /\ Goto(p, "leave")
    /\ UNCHANGED <<holder, left, cmd, plan, edits, mem, waited, pointer, seen, todo, work>>

\* Mutant of TerminalStatus: nothing failed, so everything is done.
TerminalWithoutRemaining(p) == IF p \in bad THEN "failed" ELSE "completed"

\* _terminal_run_status_for.
TerminalStatus(p) ==
    IF p \in bad THEN "failed"
    ELSE IF Unfinished(mem[p].st) # {} THEN "approved" ELSE "completed"

Conclude(p) ==
    /\ pc[p] = "conclude"
    /\ Record(p, TerminalStatus(p), Keep, "leave")
    /\ UNCHANGED <<holder, left, cmd, plan, edits, mem, waited, pointer, seen, work>>

\* _mark_run_interrupted_if_still_running, in the finally.
Leave(p) ==
    /\ pc[p] = "leave"
    /\ \/ pointer.status = "running" /\ Record(p, "interrupted", Keep, "release")
       \/ pointer.status # "running" /\ Goto(p, "release") /\ UNCHANGED todo
    /\ UNCHANGED <<holder, left, cmd, plan, edits, mem, waited, pointer, seen, work>>

Release(p) ==
    /\ pc[p] = "release"
    /\ Give(p)
    /\ Goto(p, "end")
    /\ UNCHANGED <<left, cmd, plan, edits, mem, waited, pointer, seen, todo, work>>

-----------------------------------------------------------------------------
(* Writing the pointer *)

Stamp(p) ==
    /\ pc[p] = "stamp"
    /\ seen' = [seen EXCEPT ![p] = pointer]
    /\ Goto(p, "put")
    /\ UNCHANGED <<holder, left, cmd, plan, edits, mem, waited, pointer, todo, work>>

Put(p) ==
    /\ pc[p] = "put"
    /\ pointer' = [status |-> todo[p].status,
                   fp |-> IF todo[p].fp = Keep THEN seen[p].fp ELSE todo[p].fp]
    /\ todo' = [todo EXCEPT ![p] = Nothing]
    /\ Goto(p, todo[p].then)
    /\ UNCHANGED <<holder, left, cmd, plan, edits, mem, waited, seen, work>>

Sync(p) ==
    /\ pc[p] = "sync"
    /\ pointer' = seen[p]
    /\ todo' = [todo EXCEPT ![p] = Nothing]
    /\ Goto(p, todo[p].then)
    /\ UNCHANGED <<holder, left, cmd, plan, edits, mem, waited, seen, work>>

\* The command ends, or dies with whatever lock it held: what it knew is gone.
Forget(p) ==
    /\ Goto(p, "idle")
    /\ cmd' = [cmd EXCEPT ![p] = "none"]
    /\ mem' = [mem EXCEPT ![p] = Fresh]
    /\ waited' = waited \ {p}
    /\ seen' = [seen EXCEPT ![p] = Approved]
    /\ todo' = [todo EXCEPT ![p] = Nothing]
    /\ task' = [task EXCEPT ![p] = None]
    /\ tried' = [tried EXCEPT ![p] = {}]
    /\ bad' = bad \ {p}
    /\ UNCHANGED <<left, plan, edits, pointer>>

Exit(p) == pc[p] = "end" /\ Forget(p) /\ UNCHANGED holder

Crash(p) ==
    /\ "crash" \in Faults
    /\ ~Idle(p)
    /\ IF holder = p THEN Give(p) ELSE UNCHANGED holder
    /\ Forget(p)

-----------------------------------------------------------------------------
(* The specification *)

Step(p) ==
    \/ Start(p) \/ Look(p) \/ Probe(p) \/ Demote(p) \/ Load(p) \/ Edit(p)
    \/ Judge(p) \/ Rearm(p) \/ Remaining(p)
    \/ Ask(p) \/ GiveUp(p) \/ Reload(p) \/ Got(p) \/ Refuse(p)
    \/ Begin(p) \/ Stop(p) \/ Work(p) \/ Raise(p) \/ Conclude(p)
    \/ Leave(p) \/ Release(p) \/ Stamp(p) \/ Put(p) \/ Sync(p) \/ Exit(p) \/ Crash(p)

View == Look(Viewer) \/ Probe(Viewer) \/ Demote(Viewer)

Next == (\E p \in Proc : Step(p)) \/ View

\* A surface that shows the run keeps showing it; nothing is promised of commands.
Spec == Init /\ [][Next]_vars /\ WF_vars(View)
-----------------------------------------------------------------------------
(* Properties *)

\* A run is put on record as completed only when the plan on disk has no unfinished
\* task, whatever died before and whoever records it (the run itself, or a resume that
\* found nothing to do), and no command but an edit of the plan can make unfinished
\* work of one that is completed: an edit leaves "completed" standing
\* (forge.py:1539-1540).
CompletedIsHonest ==
    [][pointer'.status = "completed" =>
         \/ Unfinished(plan'.st) = {}
         \/ pointer.status = "completed" /\ Unfinished(plan'.st) \subseteq Unfinished(plan.st)
         \/ \E p \in Proc : Edit(p)]_vars

\* A run on record as running has the definition that it executes on record, also
\* after it amended it: otherwise a resume after a crash would take the run's own
\* change for a drift, or a drift for approved (forge.py:1511-1520).
RunningIsFingerprinted ==
    \A p \in Proc :
        holder = p /\ pc[p] \in {"next", "working", "conclude"} /\ pointer.status = "running"
        => pointer.fp = mem[p].def

\* What is begun after a wait is right by the plan on disk, which others wrote
\* meanwhile: still there, not done already, and with everything it needs done.
QueuedBeginsRight ==
    [][\A p \in waited, t \in Task :
         tried'[p] = tried[p] \cup {t} /\ t \notin tried[p]
         => plan.st[t] \notin {"done", "absent"} /\ Released(plan.st, t)]_vars

\* A run that nobody executes is not shown as running for ever.
NoPhantom ==
    pointer.status = "running" /\ holder = None ~> pointer.status # "running" \/ holder # None
=============================================================================
