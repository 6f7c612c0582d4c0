----------------------------- MODULE Terminals -----------------------------
(***************************************************************************)
(* Background terminals (terminal_manager.py) and the ledger that outlives *)
(* their session (terminal_ownership.py).                                  *)
(*                                                                         *)
(* A background process has three threads of its own: two readers, one per *)
(* stream, and the waiter, which alone reaps the child and decides how it  *)
(* ended.  Threads of the agent start processes, kill them and shut all of *)
(* them down.  When the session dies without shutdown_all(), its children  *)
(* live on: the next session finds a record of each one in the ledger and  *)
(* terminates it as well as it can.                                        *)
(*                                                                         *)
(* Left out: the output itself, SIGTERM (the child may end at any time),   *)
(* cleanups that raise (docker's never does), a failing wait() of the only *)
(* thread that reaps, containers that outlive their client, Windows, and   *)
(* prune(), which has no caller.                                           *)
(***************************************************************************)
EXTENDS Integers, FiniteSets

CONSTANTS
    Actor,       \* threads of the agent that use the manager
    Process,     \* bound: the processes of a behaviour
    None,
    Max,         \* background_max_concurrent
    Modes,       \* how a runner's processes are terminated: host and bubblewrap
                 \* runners by process group, the docker runner directly
    MaxCrashes,  \* bound: how often the session dies
    Faults,      \* what may go wrong: see AllFaults
    MaxFaults    \* bound: how many of them do, once each

\* A runner that cannot start, a ledger that cannot write, threads that cannot
\* be started, a reader that fails, a descendant that left the process group but
\* kept the pipes, a container that cannot be removed, a record that cannot be
\* read, and an orphan that cannot be signalled.
AllFaults == {"spawn", "untracked", "wrap", "reader", "escape", "removal", "unreadable", "refused"}
AllModes == {"process_group", "direct"}

ASSUME TerminalsAssumption ==
    /\ None \notin Actor \cup Process
    /\ Max \in Nat
    /\ MaxCrashes \in Nat
    /\ MaxFaults \in Nat
    /\ Modes \subseteq AllModes
    /\ Faults \subseteq AllFaults

Stream == {"stdout", "stderr"}
Terminal == {"exited", "killed", "failed"}      \* _TERMINAL_STATUSES

VARIABLES
    mode,       \* of the runner
    \* The operating system.
    child,      \* the process that was spawned
    kin,        \* whether it has descendants that hold its pipes
    doomed,     \* it was sent SIGKILL, or its container was removed
    mishaps,    \* what of Faults has happened
    \* The ledger.
    record,     \* the processes that have a record
    tracked,    \* those that ever had one
    stale,      \* the records that scavenge_stale() is still to look at
    lost,       \* those whose record it consumed although their child may live on
    \* The session and its manager.
    session,
    crashes,
    known,      \* _processes
    pending,    \* _pending_starts
    \* The threads of the agent.
    at, target,
    todo,       \* the processes that shutdown_all() is still to kill
    \* Each process object.
    status, killed, failed,     \* status, _kill_requested, _failure_requested
    locked,     \* the thread that has _kill_lock
    cleaned,    \* _cleanup_called
    reader,     \* [process -> [stream -> where its thread is]]
    waiter

osVars == <<mode, child, kin, doomed, mishaps>>
ledgerVars == <<record, tracked, stale, lost>>
managerVars == <<session, crashes, known, pending>>
actorVars == <<at, target, todo>>
objectVars == <<status, killed, failed, locked, cleaned, reader, waiter>>
vars == <<osVars, ledgerVars, managerVars, actorVars, objectVars>>

\* The threads that have a place, and no registered process yet.
Starters == {a \in Actor : at[a] \in {"spawn", "wrap", "threads", "register"}}

Types ==
    /\ mode \in AllModes
    /\ child \in [Process -> {"none", "alive", "dead"}]
    /\ kin \in [Process -> {"none", "group", "escaped"}]
    /\ doomed \subseteq Process
    /\ mishaps \subseteq Faults
    /\ record \subseteq tracked /\ tracked \subseteq Process /\ stale \subseteq record
    /\ lost \subseteq tracked
    /\ session \in {"up", "down", "opening"}
    /\ crashes \in 0 .. MaxCrashes
    /\ known \subseteq Process
    /\ at \in [Actor -> {"idle", "spawn", "wrap", "threads", "register", "undo", "pick",
                         "terminate", "cleanup", "grace", "kill", "last"}]
    /\ target \in [Actor -> Process \cup {None}]
    /\ todo \in [Actor -> SUBSET Process]
    /\ status \in [Process -> {"none", "running"} \cup Terminal]
    /\ killed \subseteq Process /\ failed \subseteq Process /\ cleaned \subseteq Process
    /\ locked \in [Process -> Actor \cup {None}]
    /\ reader \in [Process -> [Stream -> {"none", "read", "kill", "cleanup", "done"}]]
    /\ waiter \in [Process -> {"none", "wait", "drain", "cleanup", "release", "settle", "done"}]

TypeOK == Types /\ pending = Cardinality(Starters)

NoReader == [s \in Stream |-> "none"]

Init ==
    /\ mode \in Modes
    /\ child = [p \in Process |-> "none"]
    /\ kin = [p \in Process |-> "none"]
    /\ doomed = {}
    /\ mishaps = {}
    /\ record = {} /\ tracked = {} /\ stale = {} /\ lost = {}
    /\ session = "up" /\ crashes = 0
    /\ known = {} /\ pending = 0
    /\ at = [a \in Actor |-> "idle"]
    /\ target = [a \in Actor |-> None]
    /\ todo = [a \in Actor |-> {}]
    /\ status = [p \in Process |-> "none"]
    /\ killed = {} /\ failed = {} /\ cleaned = {}
    /\ locked = [p \in Process |-> None]
    /\ reader = [p \in Process |-> NoReader]
    /\ waiter = [p \in Process |-> "none"]

-----------------------------------------------------------------------------
\* Helpers.

Ended(p) == status[p] \in Terminal          \* is_terminal

Mishap(fault) ==
    /\ fault \in Faults \ mishaps
    /\ Cardinality(mishaps) < MaxFaults
    /\ mishaps' = mishaps \cup {fault}

\* Thread a is done with its process.
Rest(a) ==
    /\ at' = [at EXCEPT ![a] = IF todo[a] = {} THEN "idle" ELSE "pick"]
    /\ target' = [target EXCEPT ![a] = None]

Goes(a, to) == at' = [at EXCEPT ![a] = to]

\* _send_kill, after the cleanup: a process group with all that is left of it,
\* or the child alone unless it was reaped.
SendKill(p) ==
    doomed' = IF mode = "direct" /\ child[p] = "dead" THEN doomed ELSE doomed \cup {p}

\* The cleanup of a directly terminated process removes its container, and with
\* it goes the client that is the child; but docker may fail or take too long, and
\* nobody looks.
Cleaning(p) ==
    \/ doomed' = doomed \cup {p} /\ UNCHANGED mishaps
    \/ Mishap("removal") /\ UNCHANGED doomed

-----------------------------------------------------------------------------
\* TerminalManager.start, by thread a.

\* Mutant of Reserve: the limit counts the registered processes only.
ReserveByRunning(a) ==
    /\ session = "up"
    /\ at[a] = "idle"
    /\ Cardinality({p \in known : ~Ended(p)}) < Max
    /\ pending' = pending + 1
    /\ Goes(a, "spawn")
    /\ UNCHANGED <<osVars, ledgerVars, session, crashes, known, target, todo, objectVars>>

\* The limit counts what runs and what others are about to start.
Reserve(a) ==
    /\ session = "up"
    /\ at[a] = "idle"
    /\ Cardinality({p \in known : ~Ended(p)}) + pending < Max
    /\ pending' = pending + 1
    /\ Goes(a, "spawn")
    /\ UNCHANGED <<osVars, ledgerVars, session, crashes, known, target, todo, objectVars>>

\* runner.start, outside the manager's lock.
Spawn(a) ==
    /\ at[a] = "spawn"
    /\ \E p \in Process :
         /\ child[p] = "none"
         /\ child' = [child EXCEPT ![p] = "alive"]
         /\ target' = [target EXCEPT ![a] = p]
    /\ Goes(a, "wrap")
    /\ UNCHANGED <<mode, kin, doomed, mishaps, ledgerVars, managerVars, todo, objectVars>>

SpawnFails(a) ==
    /\ at[a] = "spawn"
    /\ Mishap("spawn") \/ ((\A p \in Process : child[p] # "none") /\ UNCHANGED mishaps)
    /\ pending' = pending - 1
    /\ Goes(a, "idle")
    /\ UNCHANGED <<mode, child, kin, doomed, ledgerVars, session, crashes, known, target, todo,
                   objectVars>>

\* BackgroundProcess.__init__ up to the ledger, which may fail to write.
Track(a) ==
    /\ at[a] = "wrap"
    /\ LET p == target[a]
       IN  /\ \/ record' = record \cup {p} /\ tracked' = tracked \cup {p} /\ UNCHANGED mishaps
              \/ Mishap("untracked") /\ UNCHANGED <<record, tracked>>
           /\ status' = [status EXCEPT ![p] = "running"]
    /\ Goes(a, "threads")
    /\ UNCHANGED <<mode, child, kin, doomed, stale, lost, managerVars, target, todo, killed, failed, locked,
                   cleaned, reader, waiter>>

\* The rest of it.
StartThreads(a) ==
    /\ at[a] = "threads"
    /\ reader' = [reader EXCEPT ![target[a]] = [s \in Stream |-> "read"]]
    /\ waiter' = [waiter EXCEPT ![target[a]] = "wait"]
    /\ Goes(a, "register")
    /\ UNCHANGED <<osVars, ledgerVars, managerVars, target, todo, status, killed, failed, locked,
                   cleaned>>

\* The object could not be made: the place is given back, then the child is
\* terminated.  A record of it stays in the ledger.
WrapFails(a) ==
    /\ at[a] = "threads"
    /\ Mishap("wrap")
    /\ pending' = pending - 1
    /\ status' = [status EXCEPT ![target[a]] = "none"]
    /\ Goes(a, "undo")
    /\ UNCHANGED <<mode, child, kin, doomed, ledgerVars, session, crashes, known, target, todo,
                   killed, failed, locked, cleaned, reader, waiter>>

Undo(a) ==
    /\ at[a] = "undo"
    /\ doomed' = IF child[target[a]] = "alive" THEN doomed \cup {target[a]} ELSE doomed
    /\ Rest(a)
    /\ UNCHANGED <<mode, child, kin, mishaps, ledgerVars, managerVars, todo, objectVars>>

\* The process takes the place that was reserved for it.
Register(a) ==
    /\ at[a] = "register"
    /\ known' = known \cup {target[a]}
    /\ pending' = pending - 1
    /\ Rest(a)
    /\ UNCHANGED <<osVars, ledgerVars, session, crashes, todo, objectVars>>

-----------------------------------------------------------------------------
\* kill() and shutdown_all(), by thread a.

\* It has the kill lock: a process that has ended is left alone.  A process group
\* gets its SIGTERM at once.
Begin(a, p) ==
    /\ locked[p] = None
    /\ IF Ended(p)
         THEN /\ UNCHANGED <<locked, killed, target>>
              /\ Goes(a, IF todo'[a] = {} THEN "idle" ELSE "pick")
         ELSE /\ locked' = [locked EXCEPT ![p] = a]
              /\ killed' = killed \cup {p}
              /\ target' = [target EXCEPT ![a] = p]
              /\ Goes(a, IF mode = "direct" THEN "terminate" ELSE "grace")

Kill(a) ==
    /\ session = "up"
    /\ at[a] = "idle"
    /\ \E p \in known : ~Ended(p) /\ UNCHANGED todo /\ Begin(a, p)
    /\ UNCHANGED <<osVars, ledgerVars, managerVars, status, failed, cleaned, reader, waiter>>

\* Those that shutdown_all() finds: a start that is under way is none of them.
Shutdown(a) ==
    /\ session = "up"
    /\ at[a] = "idle"
    /\ known # {}
    /\ todo' = [todo EXCEPT ![a] = known]
    /\ Goes(a, "pick")
    /\ UNCHANGED <<osVars, ledgerVars, managerVars, target, objectVars>>

ShutdownNext(a) ==
    /\ at[a] = "pick"
    /\ \E p \in todo[a] :
         /\ todo' = [todo EXCEPT ![a] = @ \ {p}]
         /\ Begin(a, p)
    /\ UNCHANGED <<osVars, ledgerVars, managerVars, status, failed, cleaned, reader, waiter>>

\* _send_terminate of a directly terminated process.
Terminate(a) ==
    /\ at[a] = "terminate"
    /\ IF target[a] \notin cleaned
         THEN cleaned' = cleaned \cup {target[a]} /\ Goes(a, "cleanup")
         ELSE UNCHANGED cleaned /\ Goes(a, "grace")
    /\ UNCHANGED <<osVars, ledgerVars, managerVars, target, todo, status, killed, failed, locked,
                   reader, waiter>>

Cleanup(a) ==
    /\ at[a] = "cleanup"
    /\ Cleaning(target[a])
    /\ Goes(a, "grace")
    /\ UNCHANGED <<mode, child, kin, ledgerVars, managerVars, target, todo, objectVars>>

\* wait_for_exit sees the end.
SeesEnd(a) ==
    /\ at[a] \in {"grace", "last"}
    /\ Ended(target[a])
    /\ locked' = [locked EXCEPT ![target[a]] = None]
    /\ Rest(a)
    /\ UNCHANGED <<osVars, ledgerVars, managerVars, todo, status, killed, failed, cleaned, reader,
                   waiter>>

\* Mutant of Escalate: a child that has exited needs no SIGKILL.
EscalateTheLiving(a) ==
    /\ at[a] = "grace"
    /\ ~Ended(target[a])
    /\ IF child[target[a]] = "alive" THEN SendKill(target[a]) ELSE UNCHANGED doomed
    /\ Goes(a, "last")
    /\ UNCHANGED <<mode, child, kin, mishaps, ledgerVars, managerVars, target, todo, objectVars>>

\* Its time is up: _send_kill, to a process group also when the child is gone.
Escalate(a) ==
    /\ at[a] = "grace"
    /\ ~Ended(target[a])
    /\ SendKill(target[a])
    /\ Goes(a, "last")
    /\ UNCHANGED <<mode, child, kin, mishaps, ledgerVars, managerVars, target, todo, objectVars>>

StopsWaiting(a) ==
    /\ at[a] = "last"
    /\ ~Ended(target[a])
    /\ locked' = [locked EXCEPT ![target[a]] = None]
    /\ Rest(a)
    /\ UNCHANGED <<osVars, ledgerVars, managerVars, todo, status, killed, failed, cleaned, reader,
                   waiter>>

-----------------------------------------------------------------------------
\* The threads of process p.

Reads(p, s, from, to) ==
    /\ reader[p][s] = from
    /\ reader' = [reader EXCEPT ![p][s] = to]
    /\ UNCHANGED <<mode, child, kin, ledgerVars, managerVars, actorVars, status, locked, waiter>>

\* Nobody has the other end of the pipe any more.
ReaderEnds(p, s) ==
    /\ child[p] = "dead" /\ kin[p] = "none"
    /\ Reads(p, s, "read", "done")
    /\ UNCHANGED <<doomed, mishaps, killed, failed, cleaned>>

\* _fail_reader_and_request_kill; a stream that breaks while its process is being
\* killed is only its end.
ReaderFails(p, s) ==
    /\ Mishap("reader")
    /\ \/ /\ failed' = failed \cup {p}
          /\ killed' = IF status[p] = "running" THEN killed \cup {p} ELSE killed
          /\ Reads(p, s, "read", IF status[p] = "running" THEN "kill" ELSE "done")
       \/ p \in killed /\ Reads(p, s, "read", "done") /\ UNCHANGED <<killed, failed>>
    /\ UNCHANGED <<doomed, cleaned>>

\* Its _send_kill.
ReaderCleans(p, s) ==
    /\ mode = "direct" /\ p \notin cleaned
    /\ cleaned' = cleaned \cup {p}
    /\ Reads(p, s, "kill", "cleanup")
    /\ UNCHANGED <<doomed, mishaps, killed, failed>>

\* The client is killed whether or not its container could be removed.
ReaderKills(p, s) ==
    /\ SendKill(p)
    /\ \/ ~(mode = "direct" /\ p \notin cleaned) /\ Reads(p, s, "kill", "done") /\ UNCHANGED mishaps
       \/ Reads(p, s, "cleanup", "done") /\ (Mishap("removal") \/ UNCHANGED mishaps)
    /\ UNCHANGED <<killed, failed, cleaned>>

Waits(p, from, to) ==
    /\ waiter[p] = from
    /\ waiter' = [waiter EXCEPT ![p] = to]
    /\ UNCHANGED <<mode, child, kin, tracked, stale, lost, managerVars, actorVars, killed, failed,
                   locked, reader>>

Reap(p) ==
    /\ child[p] = "dead"
    /\ Waits(p, "wait", "drain")
    /\ UNCHANGED <<doomed, mishaps, record, status, cleaned>>

\* Both readers are done; the cleanup is left to whoever has begun it, and that
\* of a process group does nothing.
Drained(p) ==
    /\ \A s \in Stream : reader[p][s] = "done"
    /\ Waits(p, "drain", IF mode = "direct" /\ p \notin cleaned THEN "cleanup" ELSE "release")
    /\ cleaned' = cleaned \cup {p}
    /\ UNCHANGED <<doomed, mishaps, record, status>>

WaiterCleans(p) ==
    /\ Cleaning(p)
    /\ Waits(p, "cleanup", "release")
    /\ UNCHANGED <<record, status, cleaned>>

Release(p) ==
    /\ Waits(p, "release", "settle")
    /\ record' = record \ {p}
    /\ UNCHANGED <<doomed, mishaps, status, cleaned>>

Settle(p) ==
    /\ Waits(p, "settle", "done")
    /\ status' = [status EXCEPT ![p] = CASE p \in failed -> "failed"
                                         [] p \in killed -> "killed"
                                         [] OTHER -> "exited"]
    /\ UNCHANGED <<doomed, mishaps, record, cleaned>>

-----------------------------------------------------------------------------
\* The operating system.

System(p) ==
    /\ UNCHANGED <<mode, doomed, ledgerVars, managerVars, actorVars, objectVars>>

Dies(p) ==
    /\ child[p] = "alive"
    /\ child' = [child EXCEPT ![p] = "dead"]
    /\ UNCHANGED <<kin, mishaps>>
    /\ System(p)

Forks(p) ==
    /\ mode = "process_group"
    /\ child[p] = "alive" /\ kin[p] = "none" /\ p \notin doomed
    /\ \/ kin' = [kin EXCEPT ![p] = "group"] /\ UNCHANGED mishaps
       \/ kin' = [kin EXCEPT ![p] = "escaped"] /\ Mishap("escape")
    /\ UNCHANGED child
    /\ System(p)

KinDies(p) ==
    /\ kin[p] # "none"
    /\ kin' = [kin EXCEPT ![p] = "none"]
    /\ UNCHANGED <<child, mishaps>>
    /\ System(p)

\* What SIGKILL has been sent to does not live on.
Perishes(p) ==
    /\ p \in doomed
    /\ Dies(p) \/ (kin[p] = "group" /\ KinDies(p))

-----------------------------------------------------------------------------
\* The session dies, with all its threads; the next one opens.

Crash ==
    /\ session # "down"
    /\ crashes < MaxCrashes
    /\ crashes' = crashes + 1
    /\ session' = "down"
    /\ known' = {} /\ pending' = 0 /\ stale' = {}
    /\ at' = [a \in Actor |-> "idle"]
    /\ target' = [a \in Actor |-> None]
    /\ todo' = [a \in Actor |-> {}]
    /\ status' = [p \in Process |-> "none"]
    /\ killed' = {} /\ failed' = {} /\ cleaned' = {}
    /\ locked' = [p \in Process |-> None]
    /\ reader' = [p \in Process |-> NoReader]
    /\ waiter' = [p \in Process |-> "none"]
    /\ UNCHANGED <<osVars, record, tracked, lost>>

\* TerminalManager.__init__: the owner of every record is dead.  Those beyond the
\* first _MAX_RECORDS are left for another time, and so are those whose owner or
\* child cannot be judged, or whose child dies between two looks: any of them.
Open ==
    /\ session = "down"
    /\ session' = "opening"
    /\ stale' \in SUBSET record
    /\ UNCHANGED <<osVars, record, tracked, lost, crashes, known, pending, actorVars, objectVars>>

\* The record cannot be read: it is taken for rubbish.
Misreads(p) ==
    /\ Mishap("unreadable")
    /\ record' = record \ {p}
    /\ lost' = IF child[p] = "alive" THEN lost \cup {p} ELSE lost
    /\ UNCHANGED doomed

\* _terminate_owned_process, and the record is consumed: SIGKILL for a process
\* group; else the container goes, and where it does not, a SIGTERM has to do.
Terminates(p) ==
    /\ child[p] = "alive"
    /\ IF mode = "direct" THEN Cleaning(p) ELSE SendKill(p) /\ UNCHANGED mishaps
    /\ record' = record \ {p}
    /\ lost' = IF p \in doomed' THEN lost ELSE lost \cup {p}

\* Mutant of Refused: the record goes, whatever became of the orphan.
RefusedOnce(p) ==
    /\ child[p] = "alive"
    /\ Mishap("refused")
    /\ doomed' = doomed \/ (mode = "direct" /\ doomed' = doomed \cup {p})
    /\ record' = record \ {p}
    /\ UNCHANGED lost

\* The same, but the signal cannot be sent: the record stays, whether or not a
\* container went.
Refused(p) ==
    /\ child[p] = "alive"
    /\ Mishap("refused")
    /\ doomed' = doomed \/ (mode = "direct" /\ doomed' = doomed \cup {p})
    /\ UNCHANGED <<record, lost>>

\* The record of a child that is dead goes.
Absent(p) ==
    /\ child[p] = "dead"
    /\ record' = record \ {p}
    /\ UNCHANGED <<doomed, mishaps, lost>>

\* scavenge_stale for one record.
Scavenge(p) ==
    /\ session = "opening"
    /\ p \in stale
    /\ stale' = stale \ {p}
    /\ Misreads(p) \/ Terminates(p) \/ Refused(p) \/ Absent(p)
    /\ UNCHANGED <<mode, child, kin, tracked, managerVars, actorVars, objectVars>>

Opened ==
    /\ session = "opening"
    /\ stale = {}
    /\ session' = "up"
    /\ UNCHANGED <<osVars, ledgerVars, crashes, known, pending, actorVars, objectVars>>

-----------------------------------------------------------------------------
Starts(a) ==
    \/ Reserve(a) \/ Spawn(a) \/ SpawnFails(a) \/ Track(a) \/ StartThreads(a) \/ WrapFails(a)
    \/ Undo(a) \/ Register(a)
Killing(a) ==
    Terminate(a) \/ Cleanup(a) \/ SeesEnd(a) \/ Escalate(a) \/ StopsWaiting(a)
Threads(p) ==
    \/ \E s \in Stream : ReaderEnds(p, s) \/ ReaderCleans(p, s) \/ ReaderKills(p, s)
    \/ Reap(p) \/ Drained(p) \/ WaiterCleans(p) \/ Release(p) \/ Settle(p)
Next ==
    \/ \E a \in Actor : Starts(a) \/ Kill(a) \/ Shutdown(a) \/ ShutdownNext(a) \/ Killing(a)
    \/ \E p \in Process :
         \/ Threads(p)
         \/ \E s \in Stream : ReaderFails(p, s)
         \/ Dies(p) \/ Forks(p) \/ KinDies(p)
         \/ Scavenge(p)
    \/ Crash \/ Open \/ Opened

\* Threads run, timeouts pass and SIGKILL works; nobody has to start or kill
\* anything, no process has to end by itself, no session has to open.
Fairness ==
    /\ \A a \in Actor : WF_vars(Killing(a))
    /\ \A p \in Process : WF_vars(Threads(p)) /\ WF_vars(Perishes(p))

Spec == Init /\ [][Next]_vars /\ Fairness

-----------------------------------------------------------------------------
\* Properties.

\* However starts and ends interleave, no more processes run, or have been
\* spawned and not yet been wrapped, than background_max_concurrent.
LimitKept ==
    Cardinality({p \in Process : status[p] = "running" \/ \E a \in Actor : at[a] = "wrap" /\ target[a] = p})
        <= Max

\* A child that was recorded stays recorded until it is dead, or killed beyond
\* escape, whoever ends it and whenever the session dies: a later session can
\* still find it.  What the cleanup, "best-effort" (docs/terminals.md:163), may
\* lose is no more than a record that cannot be read when a session opens, and
\* the client of a container that cannot be removed then.
RecordUntilGone ==
    \A p \in tracked : child[p] = "alive" => p \in record \cup doomed \cup lost

\* A kill that was requested, by a thread of the agent or by a reader that
\* failed, ends in a terminal status, unless the session dies first or a
\* descendant outside the process group keeps the pipes open.
KillEnds ==
    \A p \in Process :
        (p \in killed) ~> (Ended(p) \/ session # "up" \/ kin[p] = "escaped")
=============================================================================
