------------------------------ MODULE RunLock ------------------------------
(***************************************************************************)
(* The file lock that serialises Forge executions (run_lock.py).           *)
(*                                                                         *)
(* Two files of one directory are shared by all processes: the lock        *)
(* (active_execution.lock.json) and the recovery claim                     *)
(* (active_execution.recovering.json).  Every system call on them is one   *)
(* step, so a load, the decision taken from it and the unlink or replace   *)
(* that follows can be separated by steps of other processes.              *)
(*                                                                         *)
(* Each member of Proc stands for one call of acquire_run_mutation_guard   *)
(* in a process of its own (one owner token) and for the guard's life      *)
(* after it, with the daemon thread that refreshes the heartbeat.          *)
(*                                                                         *)
(* Time is counted in ticks.  A file carries the age of its stamp,         *)
(* saturating just above TTL, so that the state space is finite without a  *)
(* bound on the clock.  Faults selects which disturbances may happen.      *)
(***************************************************************************)
EXTENDS Integers

CONSTANTS
    Proc,         \* one per call of acquire_run_mutation_guard
    None,         \* "no owner": the file does not exist
    Host,         \* the host each process runs on
    Waiters,      \* the processes that call with wait=True
    HeartbeatOn,  \* heartbeat_enabled()
    Interval,     \* heartbeat_interval_s, in ticks
    TTL,          \* heartbeat_ttl_s, in ticks
    MaxGrace,     \* _MAX_RECOVERY_GRACE_S, in ticks
    MaxMissed,    \* bound: beats in a row that may fail to reach the disk
    Faults        \* the disturbances of this instance

FaultKinds ==
    { "crash",     \* a process dies while it holds the guard
      "midcrash",  \* a process dies between two system calls
      "sleep",     \* the machine is suspended for longer than TTL
      "slow",      \* ticks may pass between two adjacent system calls
      "inflight",  \* release() may run while a refresh is between load and replace
      "beatfail",  \* a refresh may fail to reach the disk
      "diskfull",  \* the text of a new file, or an event, cannot be written
      "operator",  \* somebody runs `forge unlock`
      "force" }    \* ... with --force

ASSUME RunLockAssumption ==
    /\ None \notin Proc
    /\ Waiters \subseteq Proc
    /\ HeartbeatOn \in BOOLEAN
    /\ Interval \in Nat \ {0}
    /\ TTL \in Nat
    /\ TTL >= 2 * Interval
    /\ MaxGrace \in Nat
    /\ MaxMissed \in Nat
    /\ Faults \subseteq FaultKinds

VARIABLES
    alive,    \* the processes whose pid resolves
    pc,       \* the next system call of each process's main thread
    outcome,  \* where the `finally` that drops the claim returns to
    kind,     \* staleness kind the process found when it loaded the lock
    same,     \* the processes whose remembered text is still the lock's text
    waited,   \* the processes whose queued wait has no end on record yet
    nap,      \* ticks a recovering process has slept of its grace interval
    lock,     \* the lock file
    claim,    \* the recovery claim file
    hb,       \* heartbeat thread: "off", "wait", or "loaded" (before the replace)
    due,      \* ticks since the heartbeat thread last stamped
    missed,   \* beats in a row that did not reach the disk
    op        \* the operator's `forge unlock`

vars == <<alive, pc, outcome, kind, same, waited, nap, lock, claim, hb, due, missed, op>>

-----------------------------------------------------------------------------
(* Files and verdicts *)

Absent == [owner |-> None, text |-> FALSE, age |-> 0]
Created(p) == [owner |-> p, text |-> FALSE, age |-> 0]
Written(p, a) == [owner |-> p, text |-> TRUE, age |-> a]

File == [owner : Proc \cup {None}, text : BOOLEAN, age : 0 .. TTL + 1]

Exists(f) == f.owner # None
Readable(f) == Exists(f) /\ f.text
OwnedBy(f, p) == Readable(f) /\ f.owner = p

\* Slips of assess_lock_staleness that a run must notice: the heartbeat limit
\* taken as inclusive, the pid probed without regard to the host, and a verdict
\* that never finds a lock stale.
StaleAtLimit(h, f) == Host[f.owner] = h /\ (f.owner \notin alive \/ f.age >= TTL)
StaleOnAnyHost(h, f) == Host[f.owner] # h \/ f.owner \notin alive \/ f.age > TTL
NeverStale(h, f) == FALSE

\* assess_lock_staleness, asked on host h about a file that could be loaded.
Stale(h, f) ==
    /\ Host[f.owner] = h
    /\ f.owner \notin alive \/ f.age > TTL

StaleKind(f) == IF f.owner \notin alive THEN "dead_pid" ELSE "heartbeat_expired"

Grace == IF Interval < MaxGrace THEN Interval ELSE MaxGrace

WithAge(f, a) == [owner |-> f.owner, text |-> f.text, age |-> a]

Aged(f) == IF Exists(f) /\ f.age <= TTL THEN WithAge(f, f.age + 1) ELSE f
Expired(f) == IF Exists(f) THEN WithAge(f, TTL + 1) ELSE f

-----------------------------------------------------------------------------
Labels == { "start", "clearClaim", "create", "write", "read",
            "stake", "stakeWrite", "rival", "rivalClear",
            "grace", "recheck", "unlink", "recreate", "rewrite",
            "unstake", "unstakeUnlink", "announce", "hold", "releaseUnlink",
            "failed", "done" }

\* The claim on disk is this process's, or is about to be.
Recovering == { "stakeWrite", "grace", "recheck", "unlink", "recreate",
                "rewrite", "unstake", "unstakeUnlink" }

\* The main thread sleeps, works or is gone: no system call of it is pending.
Resting == {"start", "grace", "hold", "failed", "done"}

TypeOK ==
    /\ alive \subseteq Proc
    /\ pc \in [Proc -> Labels]
    /\ outcome \in [Proc -> {"hold", "failed", "done"}]
    /\ kind \in [Proc -> {"dead_pid", "heartbeat_expired"}]
    /\ same \subseteq Proc
    /\ waited \subseteq Waiters
    /\ nap \in [Proc -> 0 .. Grace]
    /\ lock \in File
    /\ claim \in File
    /\ hb \in [Proc -> {"off", "wait", "loaded"}]
    /\ due \in [Proc -> 0 .. Interval]
    /\ missed \in [Proc -> 0 .. MaxMissed]
    /\ op \in {"idle", "clearLock", "clearClaim"}

Init ==
    /\ alive = Proc
    /\ pc = [p \in Proc |-> "start"]
    /\ outcome = [p \in Proc |-> "failed"]
    /\ kind = [p \in Proc |-> "dead_pid"]
    /\ same = {}
    /\ waited = {}
    /\ nap = [p \in Proc |-> 0]
    /\ lock = Absent
    /\ claim = Absent
    /\ hb = [p \in Proc |-> "off"]
    /\ due = [p \in Proc |-> 0]
    /\ missed = [p \in Proc |-> 0]
    /\ op = "idle"

At(p, l) == p \in alive /\ pc[p] = l
Goto(p, l) == pc' = [pc EXCEPT ![p] = l]

thread == <<hb, due, missed>>

-----------------------------------------------------------------------------
(* acquire_run_mutation_guard: the fast path *)

\* _clear_stale_recovery_claim at the head of the loop loads the claim; a live
\* claim raises the conflict, an unreadable one does not.
Start(p) ==
    /\ At(p, "start")
    /\ Goto(p, IF ~Readable(claim) THEN "create"
               ELSE IF Stale(Host[p], claim) THEN "clearClaim" ELSE "failed")
    /\ UNCHANGED <<alive, outcome, kind, same, waited, nap, lock, claim, thread, op>>

\* ... and unlinks whatever file has that name by then.
ClearClaim(p) ==
    /\ At(p, "clearClaim")
    /\ claim' = Absent
    /\ Goto(p, "create")
    /\ UNCHANGED <<alive, outcome, kind, same, waited, nap, lock, thread, op>>

\* os.open(O_CREAT | O_EXCL) on the lock.
CreateLock(p) ==
    /\ At(p, "create")
    /\ IF Exists(lock)
         THEN Goto(p, "read") /\ UNCHANGED <<lock, same>>
         ELSE Goto(p, "write") /\ lock' = Created(p) /\ same' = {}
    /\ UNCHANGED <<alive, outcome, kind, waited, nap, claim, thread, op>>

\* The text reaches the file created above, if it still has that name.
FillLock(p) == lock' = IF lock.owner = p THEN Written(p, 0) ELSE lock

StartHeartbeat(p) ==
    /\ hb' = [hb EXCEPT ![p] = IF HeartbeatOn THEN "wait" ELSE "off"]
    /\ due' = [due EXCEPT ![p] = 0]
    /\ missed' = [missed EXCEPT ![p] = 0]

\* With the lock on disk the guard object and its heartbeat thread are made and
\* the call returns; one that has queued first appends the end of its wait to the
\* event log.
Granted(p) ==
    IF p \in waited
      THEN Goto(p, "announce") /\ UNCHANGED thread
      ELSE Goto(p, "hold") /\ StartHeartbeat(p)

WriteLock(p) ==
    /\ At(p, "write")
    /\ FillLock(p)
    /\ Granted(p)
    /\ UNCHANGED <<alive, outcome, kind, same, waited, nap, claim, op>>

Announce(p) ==
    /\ At(p, "announce")
    /\ Goto(p, "hold")
    /\ StartHeartbeat(p)
    /\ waited' = waited \ {p}
    /\ UNCHANGED <<alive, outcome, kind, same, nap, lock, claim, op>>

\* The lock existed: load it.  Unreadable is a conflict; a lock that is not
\* stale is waited for, until the timeout or a record of the wait that cannot be
\* written, only with wait=True.
ReadLock(p) ==
    /\ At(p, "read")
    /\ \/ /\ ~Readable(lock)
          /\ Goto(p, "failed")
          /\ UNCHANGED <<kind, same, waited>>
       \/ /\ Readable(lock)
          /\ ~Stale(Host[p], lock)
          /\ \/ Goto(p, "failed") /\ waited' = waited \ {p}
             \/ p \in Waiters /\ Goto(p, "start") /\ waited' = waited \cup {p}
          /\ UNCHANGED <<kind, same>>
       \/ /\ Readable(lock)
          /\ Stale(Host[p], lock)
          /\ kind' = [kind EXCEPT ![p] = StaleKind(lock)]
          /\ same' = same \cup {p}
          /\ Goto(p, "stake")
          /\ UNCHANGED waited
    /\ UNCHANGED <<alive, outcome, nap, lock, claim, thread, op>>

-----------------------------------------------------------------------------
(* acquire_run_mutation_guard: recovery of a stale lock *)

\* Leave through the `finally` that drops the claim.
Leave(p, result) ==
    /\ outcome' = [outcome EXCEPT ![p] = result]
    /\ Goto(p, "unstake")

CreateClaim(p) ==
    /\ At(p, "stake")
    /\ IF Exists(claim)
         THEN Goto(p, "rival") /\ UNCHANGED claim
         ELSE Goto(p, "stakeWrite") /\ claim' = Created(p)
    /\ UNCHANGED <<alive, outcome, kind, same, waited, nap, lock, thread, op>>

WriteClaim(p) ==
    /\ At(p, "stakeWrite")
    /\ claim' = IF claim.owner = p THEN Written(p, 0) ELSE claim
    /\ nap' = [nap EXCEPT ![p] = 0]
    /\ Goto(p, IF kind[p] = "heartbeat_expired" THEN "grace" ELSE "recheck")
    /\ UNCHANGED <<alive, outcome, kind, same, waited, lock, thread, op>>

\* A slip: _write_exclusive without its cleanup leaves an empty lock.
TextFailsEmpty(p) ==
    /\ pc[p] = "write"
    /\ Goto(p, "failed")
    /\ UNCHANGED <<lock, same, claim, outcome>>

\* _write_exclusive could not write the text of the file it created: it unlinks
\* the name and raises.  Of what is written that way only the recreated lock is
\* inside the `try ... finally` that drops the claim.
TextFails(p) ==
    \/ /\ pc[p] = "write"
       /\ lock' = Absent /\ same' = {}
       /\ Goto(p, "failed")
       /\ UNCHANGED <<claim, outcome>>
    \/ /\ pc[p] = "stakeWrite"
       /\ claim' = Absent
       /\ Goto(p, "failed")
       /\ UNCHANGED <<lock, same, outcome>>
    \/ /\ pc[p] = "rewrite"
       /\ lock' = Absent /\ same' = {}
       /\ Leave(p, "failed")
       /\ UNCHANGED claim

\* _append_event raises.  The event of a recovery is appended between unlink and
\* recreation, inside the `try`; the end of a wait is appended when the lock is on
\* disk and no guard exists that could release it, and nothing handles that.
EventFails(p) ==
    /\ \/ pc[p] = "recreate" /\ Leave(p, "failed")
       \/ pc[p] = "announce" /\ Goto(p, "failed") /\ UNCHANGED outcome
    /\ UNCHANGED <<lock, same, claim>>

WriteFails(p) ==
    /\ "diskfull" \in Faults
    /\ p \in alive
    /\ TextFails(p) \/ EventFails(p)
    /\ UNCHANGED <<alive, kind, waited, nap, thread, op>>

\* Somebody else holds a claim: clear it if it is stale, then the conflict.
MeetRival(p) ==
    /\ At(p, "rival")
    /\ Goto(p, IF Readable(claim) /\ Stale(Host[p], claim)
                 THEN "rivalClear" ELSE "failed")
    /\ UNCHANGED <<alive, outcome, kind, same, waited, nap, lock, claim, thread, op>>

ClearRival(p) ==
    /\ At(p, "rivalClear")
    /\ claim' = Absent
    /\ Goto(p, "failed")
    /\ UNCHANGED <<alive, outcome, kind, same, waited, nap, lock, thread, op>>

EndGrace(p) ==
    /\ At(p, "grace")
    /\ nap[p] = Grace
    /\ Goto(p, "recheck")
    /\ UNCHANGED <<alive, outcome, kind, same, waited, nap, lock, claim, thread, op>>

\* A slip: recovery that trusts what it loaded before it took the claim.
TrustFirstLoad(p) == Exists(lock)

StillTheStaleLock(p) == Readable(lock) /\ p \in same /\ Stale(Host[p], lock)

Recheck(p) ==
    /\ At(p, "recheck")
    /\ IF StillTheStaleLock(p)
         THEN Goto(p, "unlink") /\ UNCHANGED outcome
         ELSE Leave(p, "failed")
    /\ UNCHANGED <<alive, kind, same, waited, nap, lock, claim, thread, op>>

\* lock_path.unlink() raises when the file is gone by then.
UnlinkLock(p) ==
    /\ At(p, "unlink")
    /\ IF Exists(lock)
         THEN lock' = Absent /\ same' = {} /\ Goto(p, "recreate") /\ UNCHANGED outcome
         ELSE UNCHANGED <<lock, same>> /\ Leave(p, "failed")
    /\ UNCHANGED <<alive, kind, waited, nap, claim, thread, op>>

RecreateLock(p) ==
    /\ At(p, "recreate")
    /\ IF Exists(lock)
         THEN Leave(p, "failed") /\ UNCHANGED <<lock, same>>
         ELSE Goto(p, "rewrite") /\ lock' = Created(p) /\ same' = {} /\ UNCHANGED outcome
    /\ UNCHANGED <<alive, kind, waited, nap, claim, thread, op>>

RewriteLock(p) ==
    /\ At(p, "rewrite")
    /\ FillLock(p)
    /\ Leave(p, "hold")
    /\ UNCHANGED <<alive, kind, same, waited, nap, claim, thread, op>>

\* The `finally`: load the claim, unlink it if it carries the own token.
Return(p, result) ==
    IF result = "hold" THEN Granted(p) ELSE Goto(p, result) /\ UNCHANGED thread

\* A slip: an error path that skips the `finally`.
UnstakeOnSuccessOnly(p) ==
    /\ At(p, "unstake")
    /\ IF OwnedBy(claim, p) /\ outcome[p] # "failed"
         THEN Goto(p, "unstakeUnlink") /\ UNCHANGED thread
         ELSE Return(p, outcome[p])
    /\ UNCHANGED <<alive, outcome, kind, same, waited, nap, lock, claim, op>>

Unstake(p) ==
    /\ At(p, "unstake")
    /\ IF OwnedBy(claim, p)
         THEN Goto(p, "unstakeUnlink") /\ UNCHANGED thread
         ELSE Return(p, outcome[p])
    /\ UNCHANGED <<alive, outcome, kind, same, waited, nap, lock, claim, op>>

UnlinkOwnClaim(p) ==
    /\ At(p, "unstakeUnlink")
    /\ claim' = Absent
    /\ Return(p, outcome[p])
    /\ UNCHANGED <<alive, outcome, kind, same, waited, nap, lock, op>>

Acquire(p) ==
    \/ Start(p) \/ ClearClaim(p) \/ CreateLock(p) \/ WriteLock(p) \/ ReadLock(p)
    \/ Announce(p)
    \/ CreateClaim(p) \/ WriteClaim(p) \/ MeetRival(p) \/ ClearRival(p)
    \/ EndGrace(p) \/ Recheck(p) \/ UnlinkLock(p) \/ RecreateLock(p)
    \/ RewriteLock(p) \/ Unstake(p) \/ UnlinkOwnClaim(p)

-----------------------------------------------------------------------------
(* The guard: heartbeat thread and release *)

\* refresh_heartbeat loads the lock and stamps the loaded copy.
BeatLoad(p) ==
    /\ At(p, "hold")
    /\ hb[p] = "wait"
    /\ hb' = [hb EXCEPT ![p] = IF OwnedBy(lock, p) THEN "loaded" ELSE "wait"]
    /\ due' = [due EXCEPT ![p] = 0]
    /\ UNCHANGED <<alive, pc, outcome, kind, same, waited, nap, lock, claim, missed, op>>

\* atomic_write_json replaces whatever file has the lock's name.  The loop
\* notices release() only when it comes back to stop.wait().
BeatReplace(p) ==
    /\ p \in alive
    /\ hb[p] = "loaded"
    /\ lock' = Written(p, due[p])
    /\ same' = {}
    /\ hb' = [hb EXCEPT ![p] = IF pc[p] = "hold" THEN "wait" ELSE "off"]
    /\ missed' = [missed EXCEPT ![p] = 0]
    /\ UNCHANGED <<alive, pc, outcome, kind, waited, nap, claim, due, op>>

\* A refresh that fails (or cannot load the file) is retried on the next tick
\* of the loop, forever.
BeatFails(p) ==
    /\ "beatfail" \in Faults
    /\ At(p, "hold")
    /\ hb[p] = "wait"
    /\ missed[p] < MaxMissed
    /\ missed' = [missed EXCEPT ![p] = @ + 1]
    /\ due' = [due EXCEPT ![p] = 0]
    /\ UNCHANGED <<alive, pc, outcome, kind, same, waited, nap, lock, claim, hb, op>>

Heartbeat(p) == BeatLoad(p) \/ BeatReplace(p) \/ BeatFails(p)

\* release(): set the stop event, load the lock and compare the token.  stop()
\* does not join the thread.
Release(p) ==
    /\ At(p, "hold")
    /\ "inflight" \in Faults \/ hb[p] # "loaded"
    /\ Goto(p, IF OwnedBy(lock, p) THEN "releaseUnlink" ELSE "done")
    /\ hb' = [hb EXCEPT ![p] = IF @ = "loaded" THEN @ ELSE "off"]
    /\ UNCHANGED <<alive, outcome, kind, same, waited, nap, lock, claim, due, missed, op>>

\* ... unlink it, then drop a recovery claim that carries the own token.
ReleaseUnlink(p) ==
    /\ At(p, "releaseUnlink")
    /\ lock' = Absent
    /\ same' = {}
    /\ Leave(p, "done")
    /\ UNCHANGED <<alive, kind, waited, nap, claim, thread, op>>

\* RunMutationGuard.__del__: once the heartbeat thread is gone nothing but a
\* reference cycle keeps the guard, and collecting it releases a second time.
Finalize(p) ==
    /\ At(p, "done")
    /\ hb[p] = "off"
    /\ OwnedBy(lock, p)
    /\ Goto(p, "releaseUnlink")
    /\ UNCHANGED <<alive, outcome, kind, same, waited, nap, lock, claim, thread, op>>

-----------------------------------------------------------------------------
(* forge unlock: describe_run_mutation_lock, then clear_run_mutation_lock *)

OperatorDescribe ==
    /\ op = "idle"
    /\ Exists(lock)
    /\ \/ /\ "operator" \in Faults
          /\ Readable(lock)
          /\ \E p \in Proc : Stale(Host[p], lock)
       \/ "force" \in Faults
    /\ op' = "clearLock"
    /\ UNCHANGED <<alive, pc, outcome, kind, same, waited, nap, lock, claim, thread>>

OperatorClearLock ==
    /\ op = "clearLock"
    /\ lock' = Absent
    /\ same' = {}
    /\ op' = "clearClaim"
    /\ UNCHANGED <<alive, pc, outcome, kind, waited, nap, claim, thread>>

OperatorClearClaim ==
    /\ op = "clearClaim"
    /\ claim' = Absent
    /\ op' = "idle"
    /\ UNCHANGED <<alive, pc, outcome, kind, same, waited, nap, lock, thread>>

-----------------------------------------------------------------------------
(* Processes, machine and clock *)

\* The process ends: normally once its call has failed or its guard is
\* released, by a crash otherwise.  Its daemon thread ends with it.
Exit(p) ==
    /\ p \in alive
    /\ \/ pc[p] \in {"failed", "done"}
       \/ "crash" \in Faults /\ pc[p] = "hold"
       \/ "midcrash" \in Faults
    /\ alive' = alive \ {p}
    /\ hb' = [hb EXCEPT ![p] = "off"]
    /\ UNCHANGED <<pc, outcome, kind, same, waited, nap, lock, claim, due, missed, op>>

\* Suspend to disk or lid closed: the wall clock jumps past TTL while no
\* process runs and no monotonic timer advances.
MachineSleep ==
    /\ "sleep" \in Faults
    /\ lock' = Expired(lock)
    /\ claim' = Expired(claim)
    /\ UNCHANGED <<alive, pc, outcome, kind, same, waited, nap, thread, op>>

\* The heartbeat thread of a holder beats at least every Interval.
BeatInTime(p) == (pc[p] = "hold" /\ hb[p] # "off") => due[p] < Interval

\* Without "slow", pending system calls take no time against a tick.
NothingPending(p) == pc[p] \in Resting /\ hb[p] # "loaded"

Tick ==
    /\ \A p \in alive :
         /\ BeatInTime(p)
         /\ "slow" \in Faults \/ NothingPending(p)
         /\ pc[p] = "grace" => nap[p] < Grace
    /\ lock' = Aged(lock)
    /\ claim' = Aged(claim)
    /\ due' = [p \in Proc |-> IF hb[p] # "off" /\ due[p] < Interval THEN due[p] + 1 ELSE due[p]]
    /\ nap' = [p \in Proc |-> IF pc[p] = "grace" /\ nap[p] < Grace THEN nap[p] + 1 ELSE nap[p]]
    /\ UNCHANGED <<alive, pc, outcome, kind, same, waited, hb, missed, op>>

Operator == OperatorDescribe \/ OperatorClearLock \/ OperatorClearClaim

Next ==
    \/ \E p \in Proc :
         \/ Acquire(p) \/ WriteFails(p) \/ Heartbeat(p)
         \/ Release(p) \/ ReleaseUnlink(p) \/ Finalize(p) \/ Exit(p)
    \/ Operator
    \/ MachineSleep
    \/ Tick

Spec == Init /\ [][Next]_vars

\* Processes that are not dead keep running, their heartbeat threads too, and
\* time passes.  A holder need not begin to release.
Fairness ==
    /\ \A p \in Proc : /\ WF_vars(Acquire(p))
                      /\ WF_vars(Heartbeat(p))
                      /\ WF_vars(ReleaseUnlink(p))
    /\ WF_vars(Tick)

FairSpec == Spec /\ Fairness

-----------------------------------------------------------------------------
(* Properties *)

\* "The lock that keeps two Forge executions off one workspace": no two
\* processes have acquired the guard and not yet begun to release it.
MutualExclusion ==
    \A p, q \in Proc : At(p, "hold") /\ At(q, "hold") => p = q

\* A holder's lock file stays on disk under the holder's own token, so every
\* later acquirer, inspector and `forge unlock` sees who is executing.
HolderOwnsLock == \A p \in Proc : At(p, "hold") => OwnedBy(lock, p)

\* "stale -- the owner is provably gone": the verdict never calls the lock of
\* a process stale that still holds the guard.
StaleMeansGone ==
    \A p \in Proc : At(p, "hold") /\ OwnedBy(lock, p) => ~Stale(Host[p], lock)

\* A recovery claim never outlives the attempt that made it, unless that process
\* died: a leftover would turn every later acquirer away.
ClaimAccounted == \A p \in alive : claim.owner = p => pc[p] \in Recovering

\* An attempt that ended without the guard locks nobody out for good: it leaves
\* no claim, and no lock unless the end of its wait could not be recorded; such a
\* lock can be read, hence is stale when nobody has refreshed it for TTL.
LoserLeavesNoTrap ==
    \A p \in alive : pc[p] = "failed" =>
      /\ claim.owner # p
      /\ lock.owner = p => p \in waited /\ Readable(lock)

\* Neither has the guard nor will ever have it.
Gone(p) == p \notin alive \/ pc[p] = "failed"

\* What recovery unlinks is, at the instant of the unlink, the lock of a process
\* of the same host that is gone: whatever was checked before still holds.
RecoveryJustified ==
    [][\A p \in Proc :
         UnlinkLock(p) /\ Exists(lock) =>
           Host[lock.owner] = Host[p] /\ Gone(lock.owner)]_vars

\* A process that asked to wait is not kept waiting by an owner that is gone: it
\* has been given the guard or the conflict, or somebody owns the lock who has the
\* guard or may still get it.
DeadOwnerNeverBlocks ==
    \A p \in Waiters :
      (p \in alive) ~> \/ p \notin alive
                       \/ pc[p] \in {"hold", "releaseUnlink", "failed", "done"}
                       \/ Exists(lock) /\ ~Gone(lock.owner)
=============================================================================
