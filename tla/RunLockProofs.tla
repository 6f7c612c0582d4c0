-------------------------- MODULE RunLockProofs ---------------------------
(***************************************************************************)
(* What holds of the run lock for any number of processes and any timing   *)
(* constants: first whatever happens, that is under every combination of   *)
(* Faults; then in the envelope in which the lock does what it is for, and *)
(* implements Guard.                                                       *)
(***************************************************************************)
EXTENDS RunLockGuard, TLAPS

-----------------------------------------------------------------------------
(* The strengthening: which labels a process can be at while a file on disk  *)
(* carries its token.                                                        *)

Returning == {"unstake", "unstakeUnlink"}

\* A claim on disk belongs to a recovery in progress; once its text has been
\* due, the owner will recognise it in the `finally`.
ClaimHeld ==
    \A p \in alive : claim.owner = p =>
        /\ pc[p] \in Recovering
        /\ pc[p] # "stakeWrite" => claim.text

\* A lock on disk belongs to an attempt that won, or that could not record the end
\* of its wait; from then on its text is there.
LockHeld ==
    \A p \in alive : lock.owner = p =>
        /\ pc[p] \in {"write", "rewrite", "announce", "hold", "releaseUnlink", "done", "failed"}
                      \cup Returning
        /\ pc[p] \in Returning => outcome[p] # "failed"
        /\ pc[p] \in Returning \cup {"announce", "failed"} => lock.text
        /\ pc[p] = "failed" => p \in waited

\* Only those who have queued announce the end of a wait.
QueuedAnnounce == \A p \in alive : pc[p] = "announce" => p \in waited

\* A refresh can only be in flight once the guard was granted.
BeatGranted ==
    \A p \in alive : hb[p] = "loaded" =>
        /\ pc[p] \in {"hold", "releaseUnlink", "done"} \cup Returning
        /\ pc[p] \in Returning => outcome[p] = "done"

Accounted == ClaimHeld /\ LockHeld /\ QueuedAnnounce /\ BeatGranted

-----------------------------------------------------------------------------
(* Types *)

LEMMA FreshFiles ==
    /\ Absent \in File
    /\ \A p \in Proc : Created(p) \in File
    /\ \A p \in Proc : \A a \in 0 .. Interval : Written(p, a) \in File
  BY RunLockAssumption, SMT DEF Absent, Created, Written, File

LEMMA OldFiles ==
    ASSUME NEW f \in File
    PROVE  /\ Aged(f) \in File /\ Aged(f).owner = f.owner /\ Aged(f).text = f.text
           /\ Expired(f) \in File /\ Expired(f).owner = f.owner /\ Expired(f).text = f.text
  BY RunLockAssumption, SMT DEF File, Aged, Expired, WithAge, Exists

LEMMA TypeInit == Init => TypeOK
  BY RunLockAssumption, FreshFiles, SMT
     DEF Init, TypeOK, Labels, Grace

LEMMA TypeStep == TypeOK /\ [Next]_vars => TypeOK'
<1> SUFFICES ASSUME TypeOK, [Next]_vars PROVE TypeOK'
  OBVIOUS
<1> USE RunLockAssumption, FreshFiles DEF TypeOK, Labels, Grace, At, Goto, thread
<1>1. ASSUME NEW p \in Proc,
             \/ Acquire(p) \/ WriteFails(p) \/ Heartbeat(p)
             \/ Release(p) \/ ReleaseUnlink(p) \/ Finalize(p) \/ Exit(p)
      PROVE  TypeOK'
  <2>1. CASE Start(p)
    BY <2>1, SMT DEF Start
  <2>2. CASE ClearClaim(p)
    BY <2>2, SMT DEF ClearClaim
  <2>3. CASE CreateLock(p)
    BY <2>3, SMT DEF CreateLock
  <2>4. CASE WriteLock(p)
    BY <2>4, SMT DEF WriteLock, FillLock, Granted, StartHeartbeat
  <2>5. CASE ReadLock(p)
    BY <2>5, SMT DEF ReadLock, StaleKind
  <2>6. CASE CreateClaim(p)
    BY <2>6, SMT DEF CreateClaim
  <2>7. CASE WriteClaim(p)
    BY <2>7, SMT DEF WriteClaim
  <2>8. CASE MeetRival(p)
    BY <2>8, SMT DEF MeetRival
  <2>9. CASE ClearRival(p)
    BY <2>9, SMT DEF ClearRival
  <2>10. CASE EndGrace(p)
    BY <2>10, SMT DEF EndGrace
  <2>11. CASE Recheck(p)
    BY <2>11, SMT DEF Recheck, Leave
  <2>12. CASE UnlinkLock(p)
    BY <2>12, SMT DEF UnlinkLock, Leave
  <2>13. CASE RecreateLock(p)
    BY <2>13, SMT DEF RecreateLock, Leave
  <2>14. CASE RewriteLock(p)
    BY <2>14, SMT DEF RewriteLock, FillLock, Leave
  <2>15. CASE Unstake(p)
    BY <2>15, SMT DEF Unstake, Return, Granted, StartHeartbeat
  <2>16. CASE UnlinkOwnClaim(p)
    BY <2>16, SMT DEF UnlinkOwnClaim, Return, Granted, StartHeartbeat
  <2>17. CASE WriteFails(p)
    BY <2>17, SMT DEF WriteFails, TextFails, EventFails, Leave
  <2>18. CASE BeatLoad(p)
    BY <2>18, SMT DEF BeatLoad
  <2>19. CASE BeatReplace(p)
    BY <2>19, SMT DEF BeatReplace
  <2>20. CASE BeatFails(p)
    BY <2>20, SMT DEF BeatFails
  <2>21. CASE Release(p)
    BY <2>21, SMT DEF Release
  <2>22. CASE ReleaseUnlink(p)
    BY <2>22, SMT DEF ReleaseUnlink, Leave
  <2>23. CASE Finalize(p)
    BY <2>23, SMT DEF Finalize
  <2>24. CASE Exit(p)
    BY <2>24, SMT DEF Exit
  <2>25. CASE Announce(p)
    BY <2>25, SMT DEF Announce, StartHeartbeat
  <2> QED
    BY <1>1, <2>1, <2>2, <2>3, <2>4, <2>5, <2>6, <2>7, <2>8, <2>9, <2>10, <2>11, <2>12, <2>13, <2>14, <2>15, <2>16, <2>17, <2>18, <2>19, <2>20, <2>21, <2>22, <2>23, <2>24, <2>25
       DEF Acquire, Heartbeat
<1>2. CASE Operator
  BY <1>2, SMT DEF Operator, OperatorDescribe, OperatorClearLock, OperatorClearClaim
<1>3. CASE MachineSleep
  BY <1>3, OldFiles, SMT DEF MachineSleep
<1>4. CASE Tick
  <2>1. lock' \in File /\ claim' \in File
    BY <1>4, OldFiles DEF Tick
  <2> QED
    BY <1>4, <2>1, SMT DEF Tick
<1>5. CASE UNCHANGED vars
  BY <1>5 DEF vars
<1> QED
  BY <1>1, <1>2, <1>3, <1>4, <1>5 DEF Next

-----------------------------------------------------------------------------
(* The inductive invariant *)

LEMMA AccountedStep == TypeOK /\ Accounted /\ [Next]_vars => Accounted'
<1> SUFFICES ASSUME TypeOK, Accounted, [Next]_vars PROVE Accounted'
  OBVIOUS
<1> USE RunLockAssumption
    DEF TypeOK, Labels, Recovering, Returning, At, Goto, thread,
        Accounted, ClaimHeld, LockHeld, QueuedAnnounce, BeatGranted,
        File, Absent, Created, Written, OwnedBy, Readable, Exists
<1>1. ASSUME NEW p \in Proc,
             \/ Acquire(p) \/ WriteFails(p) \/ Heartbeat(p)
             \/ Release(p) \/ ReleaseUnlink(p) \/ Finalize(p) \/ Exit(p)
      PROVE  Accounted'
  <2>1. CASE Start(p)
    BY <2>1, SMT DEF Start
  <2>2. CASE ClearClaim(p)
    BY <2>2, SMT DEF ClearClaim
  <2>3. CASE CreateLock(p)
    BY <2>3, SMT DEF CreateLock
  <2>4. CASE WriteLock(p)
    BY <2>4, SMT DEF WriteLock, FillLock, Granted, StartHeartbeat
  <2>5. CASE ReadLock(p)
    BY <2>5, SMT DEF ReadLock
  <2>6. CASE CreateClaim(p)
    BY <2>6, SMT DEF CreateClaim
  <2>7. CASE WriteClaim(p)
    BY <2>7, SMT DEF WriteClaim
  <2>8. CASE MeetRival(p)
    BY <2>8, SMT DEF MeetRival
  <2>9. CASE ClearRival(p)
    BY <2>9, SMT DEF ClearRival
  <2>10. CASE EndGrace(p)
    BY <2>10, SMT DEF EndGrace
  <2>11. CASE Recheck(p)
    BY <2>11, SMT DEF Recheck, Leave
  <2>12. CASE UnlinkLock(p)
    BY <2>12, SMT DEF UnlinkLock, Leave
  <2>13. CASE RecreateLock(p)
    BY <2>13, SMT DEF RecreateLock, Leave
  <2>14. CASE RewriteLock(p)
    BY <2>14, SMT DEF RewriteLock, FillLock, Leave
  <2>15. CASE Unstake(p)
    <3>1. CASE outcome[p] = "hold" /\ p \in waited
      BY <2>15, <3>1, SMT DEF Unstake, Return, Granted
    <3>2. CASE ~(outcome[p] = "hold" /\ p \in waited)
      BY <2>15, <3>2, SMT DEF Unstake, Return, Granted, StartHeartbeat
    <3> QED
      BY <3>1, <3>2
  <2>16. CASE UnlinkOwnClaim(p)
    <3>1. CASE outcome[p] = "hold" /\ p \in waited
      BY <2>16, <3>1, SMT DEF UnlinkOwnClaim, Return, Granted
    <3>2. CASE ~(outcome[p] = "hold" /\ p \in waited)
      BY <2>16, <3>2, SMT DEF UnlinkOwnClaim, Return, Granted, StartHeartbeat
    <3> QED
      BY <3>1, <3>2
  <2>17. CASE WriteFails(p)
    BY <2>17, SMT DEF WriteFails, TextFails, EventFails, Leave
  <2>18. CASE BeatLoad(p)
    BY <2>18, SMT DEF BeatLoad
  <2>19. CASE BeatReplace(p)
    BY <2>19, SMT DEF BeatReplace
  <2>20. CASE BeatFails(p)
    BY <2>20, SMT DEF BeatFails
  <2>21. CASE Release(p)
    BY <2>21, SMT DEF Release
  <2>22. CASE ReleaseUnlink(p)
    BY <2>22, SMT DEF ReleaseUnlink, Leave
  <2>23. CASE Finalize(p)
    BY <2>23, SMT DEF Finalize
  <2>24. CASE Exit(p)
    BY <2>24, SMT DEF Exit
  <2>25. CASE Announce(p)
    BY <2>25, SMT DEF Announce, StartHeartbeat
  <2> QED
    BY <1>1, <2>1, <2>2, <2>3, <2>4, <2>5, <2>6, <2>7, <2>8, <2>9, <2>10, <2>11, <2>12, <2>13, <2>14, <2>15, <2>16, <2>17, <2>18, <2>19, <2>20, <2>21, <2>22, <2>23, <2>24, <2>25
       DEF Acquire, Heartbeat
<1>2. CASE Operator
  BY <1>2, SMT DEF Operator, OperatorDescribe, OperatorClearLock, OperatorClearClaim
<1>3. CASE MachineSleep
  BY <1>3, OldFiles, SMT DEF MachineSleep
<1>4. CASE Tick
  BY <1>4, OldFiles, SMT DEF Tick
<1>5. CASE UNCHANGED vars
  BY <1>5 DEF vars
<1> QED
  BY <1>1, <1>2, <1>3, <1>4, <1>5 DEF Next

LEMMA AccountedInit == Init => Accounted
  BY RunLockAssumption, SMT
     DEF Init, Accounted, ClaimHeld, LockHeld, QueuedAnnounce, BeatGranted, Absent

LEMMA Inductive == Spec => [](TypeOK /\ Accounted)
<1>1. Init => TypeOK /\ Accounted
  BY TypeInit, AccountedInit
<1>2. (TypeOK /\ Accounted) /\ [Next]_vars => (TypeOK /\ Accounted)'
  BY TypeStep, AccountedStep
<1> QED
  BY <1>1, <1>2, PTL DEF Spec

-----------------------------------------------------------------------------
(* The theorems *)

\* Every variable keeps its type; in particular no age ever passes TTL + 1.
THEOREM TypeCorrect == Spec => []TypeOK
<1> QED
  BY Inductive, PTL

\* Whatever crashes, sleeps, fails or races: a recovery claim on disk belongs to
\* a recovery in progress or to a dead process (the `finally` of
\* acquire_run_mutation_guard).
THEOREM ClaimsAccounted == Spec => []ClaimAccounted
<1>1. TypeOK /\ Accounted => ClaimAccounted
  BY DEF Accounted, ClaimHeld, ClaimAccounted
<1> QED
  BY Inductive, <1>1, PTL

\* Whatever happens: an attempt that ended in an error has no claim on disk, and no
\* lock but one that can be judged, hence recovered (run_lock.py:415, 424-441).
THEOREM LosersLeaveNoTrap == Spec => []LoserLeavesNoTrap
<1>1. TypeOK /\ Accounted => LoserLeavesNoTrap
  BY RunLockAssumption, SMT
     DEF TypeOK, Accounted, ClaimHeld, LockHeld, LoserLeavesNoTrap, Recovering, Returning,
         Readable, Exists
<1> QED
  BY Inductive, <1>1, PTL

-----------------------------------------------------------------------------
(* The envelope: holders may crash, beats may be lost, up to MaxMissed in a  *)
(* row, and the text of a new file or an event may fail to be written;       *)
(* recoveries do not crash, the machine does not sleep, release() waits for  *)
(* a refresh in flight, no operator interferes and the heartbeat is on.      *)

Envelope ==
    /\ Faults \subseteq {"crash", "beatfail", "diskfull"}
    /\ HeartbeatOn
    /\ (MaxMissed + 1) * Interval <= TTL

-----------------------------------------------------------------------------
(* The inductive invariant *)

Owning(p) ==
    \/ pc[p] \in {"write", "rewrite", "announce", "hold", "releaseUnlink"}
    \/ pc[p] \in Returning /\ outcome[p] = "hold"

\* The lock on disk and the winner's label agree, in both directions, but for the
\* lock of an attempt that failed when it had it.
OwnerIsWinner ==
    \A p \in alive :
      /\ Owning(p) => lock.owner = p
      /\ lock.owner = p => Owning(p) \/ pc[p] = "failed"
      /\ Owning(p) /\ pc[p] \notin {"write", "rewrite"} => lock.text

\* A winner's lock is younger than the beats it may have missed account for.
OwnerIsFresh ==
    \A p \in alive : lock.owner = p /\ pc[p] # "failed" =>
      /\ lock.age <= TTL
      /\ pc[p] \in Returning \cup {"announce"} => lock.age = 0
      /\ pc[p] = "hold" /\ hb[p] = "wait" => lock.age <= missed[p] * Interval + due[p]

\* A holder's heartbeat thread runs, and is in a refresh only while it holds.
HolderBeats ==
    \A p \in alive :
      /\ pc[p] = "hold" => hb[p] # "off"
      /\ hb[p] = "loaded" => pc[p] = "hold"

\* One recovery at a time, by a live process, and its claim never looks stale.
ClaimIsExclusive ==
    /\ \A p \in alive :
         /\ pc[p] \in Recovering \ {"unstake"} => claim.owner = p
         /\ pc[p] \notin {"clearClaim", "rivalClear"}
    /\ Exists(claim) => claim.owner \in alive
    /\ claim.age <= Grace
    /\ \A p \in alive : claim.owner = p /\ pc[p] = "grace" => claim.age <= nap[p]

\* What a recovery is about to unlink is the lock of a process that is gone.
UnlinksTheGone ==
    \A p \in alive : pc[p] = "unlink" =>
      Exists(lock) /\ Gone(lock.owner) /\ Host[lock.owner] = Host[p]

NoOperator == op = "idle"

MInv == /\ OwnerIsWinner /\ OwnerIsFresh /\ HolderBeats
        /\ ClaimIsExclusive /\ UnlinksTheGone /\ NoOperator

-----------------------------------------------------------------------------
(* Arithmetic of missed beats *)

LEMMA OneMoreBeat ==
    ASSUME NEW m \in Nat, NEW i \in Nat
    PROVE  (m + 1) * i = m * i + i /\ m * i \in Nat
  BY SMT

LEMMA MissedInTime ==
    ASSUME Envelope, NEW m \in 0 .. MaxMissed
    PROVE  m * Interval + Interval <= TTL
<1>1. /\ MaxMissed \in Nat /\ Interval \in Nat /\ TTL \in Nat /\ m \in Nat
      /\ m <= MaxMissed
  BY RunLockAssumption, SMT
<1>2. m * Interval <= MaxMissed * Interval
  BY <1>1, SMT
<1>3. (MaxMissed + 1) * Interval = MaxMissed * Interval + Interval
  BY <1>1, OneMoreBeat
<1>4. (MaxMissed + 1) * Interval <= TTL
  BY DEF Envelope
<1> QED
  BY <1>1, <1>2, <1>3, <1>4, OneMoreBeat, SMT

LEMMA MutexInit == Envelope /\ Init => MInv
  BY RunLockAssumption, SMT
     DEF Init, MInv, Owning, OwnerIsWinner, OwnerIsFresh, HolderBeats, ClaimIsExclusive,
         UnlinksTheGone, Gone, NoOperator, Returning, Recovering, Absent, Exists, Grace

-----------------------------------------------------------------------------
LEMMA MutexStep ==
    Envelope /\ TypeOK /\ Accounted /\ MInv /\ [Next]_vars => MInv'
<1> SUFFICES ASSUME Envelope, TypeOK, Accounted, MInv, [Next]_vars PROVE MInv'
  OBVIOUS
<1> USE RunLockAssumption
    DEF TypeOK, Labels, Recovering, Resting, Returning, At, Goto, thread,
        MInv, Owning, OwnerIsWinner, OwnerIsFresh, HolderBeats, ClaimIsExclusive,
        UnlinksTheGone, Gone, NoOperator, Grace,
        File, Absent, Created, Written, OwnedBy, Readable, Exists
<1>0. /\ "midcrash" \notin Faults /\ "sleep" \notin Faults /\ "slow" \notin Faults
      /\ "inflight" \notin Faults /\ "operator" \notin Faults /\ "force" \notin Faults
      /\ HeartbeatOn
  BY SMT DEF Envelope
<1>1. ASSUME NEW p \in Proc,
             \/ Acquire(p) \/ WriteFails(p) \/ Heartbeat(p)
             \/ Release(p) \/ ReleaseUnlink(p) \/ Finalize(p) \/ Exit(p)
      PROVE  MInv'
  <2>1. CASE Start(p)
    BY <1>0, <2>1, SMT DEF Start, Stale
  <2>2. CASE ClearClaim(p)
    BY <1>0, <2>2, SMT DEF ClearClaim
  <2>3. CASE CreateLock(p)
    BY <1>0, <2>3, SMT DEF CreateLock
  <2>4. CASE WriteLock(p)
    BY <1>0, <2>4, SMT DEF WriteLock, FillLock, Granted, StartHeartbeat
  <2>5. CASE ReadLock(p)
    BY <1>0, <2>5, SMT DEF ReadLock
  <2>6. CASE CreateClaim(p)
    BY <1>0, <2>6, SMT DEF CreateClaim
  <2>7. CASE WriteClaim(p)
    BY <1>0, <2>7, SMT DEF WriteClaim
  <2>8. CASE MeetRival(p)
    BY <1>0, <2>8, SMT DEF MeetRival, Stale
  <2>9. CASE ClearRival(p)
    BY <1>0, <2>9, SMT DEF ClearRival
  <2>10. CASE EndGrace(p)
    BY <1>0, <2>10, SMT DEF EndGrace
  <2>11. CASE Recheck(p)
    BY <1>0, <2>11, SMT DEF Recheck, StillTheStaleLock, Stale, Leave
  <2>12. CASE UnlinkLock(p)
    BY <1>0, <2>12, SMT DEF UnlinkLock, Leave
  <2>13. CASE RecreateLock(p)
    BY <1>0, <2>13, SMT DEF RecreateLock, Leave
  <2>14. CASE RewriteLock(p)
    BY <1>0, <2>14, SMT DEF RewriteLock, FillLock, Leave
  <2>15. CASE Unstake(p)
    BY <1>0, <2>15, SMT DEF Unstake, Return, Granted, StartHeartbeat
  <2>16. CASE UnlinkOwnClaim(p)
    BY <1>0, <2>16, SMT DEF UnlinkOwnClaim, Return, Granted, StartHeartbeat
  <2>17. CASE WriteFails(p)
    BY <1>0, <2>17, SMT DEF WriteFails, TextFails, EventFails, Leave
  <2>18. CASE BeatLoad(p)
    BY <1>0, <2>18, SMT DEF BeatLoad
  <2>19. CASE BeatReplace(p)
    BY <1>0, <2>19, SMT DEF BeatReplace
  <2>20. CASE BeatFails(p)
    <3>1. /\ missed[p] \in Nat /\ Interval \in Nat /\ p \in alive
          /\ (missed[p] + 1) * Interval = missed[p] * Interval + Interval
          /\ missed[p] * Interval \in Nat
      BY <2>20, OneMoreBeat, SMT DEF BeatFails
    <3>2. OwnerIsFresh'
      BY <2>20, <3>1, SMT DEF BeatFails
    <3>3. /\ OwnerIsWinner' /\ HolderBeats' /\ ClaimIsExclusive'
          /\ UnlinksTheGone' /\ NoOperator'
      BY <2>20, SMT DEF BeatFails
    <3> QED
      BY <3>2, <3>3
  <2>21. CASE Release(p)
    BY <1>0, <2>21, SMT DEF Release
  <2>22. CASE ReleaseUnlink(p)
    BY <1>0, <2>22, SMT DEF ReleaseUnlink, Leave
  <2>23. CASE Finalize(p)
    BY <1>0, <2>23, SMT DEF Finalize
  <2>24. CASE Exit(p)
    BY <1>0, <2>24, SMT DEF Exit, Accounted, ClaimHeld
  <2>25. CASE Announce(p)
    BY <1>0, <2>25, SMT DEF Announce, StartHeartbeat
  <2> QED
    BY <1>1, <2>1, <2>2, <2>3, <2>4, <2>5, <2>6, <2>7, <2>8, <2>9, <2>10, <2>11, <2>12, <2>13, <2>14, <2>15, <2>16, <2>17, <2>18, <2>19, <2>20, <2>21, <2>22, <2>23, <2>24, <2>25
       DEF Acquire, Heartbeat
<1>2. CASE Operator
  BY <1>0, <1>2, SMT DEF Operator, OperatorDescribe, OperatorClearLock, OperatorClearClaim
<1>3. CASE MachineSleep
  BY <1>0, <1>3 DEF MachineSleep
<1>4. CASE Tick
  <2>1. /\ lock'.owner = lock.owner /\ lock'.text = lock.text
        /\ lock'.age \in Nat /\ lock'.age <= lock.age + 1
        /\ claim'.owner = claim.owner
        /\ claim'.age \in Nat /\ claim'.age <= claim.age + 1
        /\ ~Exists(claim) => claim'.age = claim.age
    BY <1>4, SMT DEF Tick, Aged, WithAge
  <2>2. \A p \in alive : pc[p] \in Resting /\ hb[p] # "loaded"
    BY <1>0, <1>4 DEF Tick, NothingPending
  <2>3. OwnerIsWinner' /\ HolderBeats' /\ UnlinksTheGone' /\ NoOperator'
    BY <1>4, <2>1, SMT DEF Tick
  <2>4. OwnerIsFresh'
    <3> SUFFICES ASSUME NEW p \in alive, lock.owner = p, pc[p] # "failed"
                 PROVE  /\ lock'.age <= TTL
                        /\ pc[p] = "hold"
                        /\ lock'.age <= missed[p] * Interval + due'[p]
      BY <1>4, <2>1, SMT DEF Tick
    <3>1. pc[p] = "hold" /\ hb[p] = "wait" /\ p \in Proc
      BY <2>2, SMT
    <3>2. due[p] < Interval /\ due'[p] = due[p] + 1
      BY <1>4, <3>1, SMT DEF Tick, BeatInTime
    <3>3. missed[p] * Interval \in Nat /\ missed[p] * Interval + Interval <= TTL
      BY <3>1, MissedInTime, OneMoreBeat, SMT
    <3>4. lock.age <= missed[p] * Interval + due[p]
      BY <3>1
    <3> QED
      BY <2>1, <3>1, <3>2, <3>3, <3>4, SMT
  <2>5. ClaimIsExclusive'
    <3>1. CASE ~Exists(claim)
      BY <1>4, <2>1, <3>1, SMT DEF Tick
    <3>2. CASE Exists(claim)
      <4> DEFINE q == claim.owner
      <4>1. q \in alive /\ q \in Proc /\ pc[q] = "grace"
        BY <2>2, <3>2, SMT DEF Accounted, ClaimHeld
      <4>2. nap[q] < Grace /\ nap'[q] = nap[q] + 1
        BY <1>4, <4>1, SMT DEF Tick
      <4>3. claim.age <= nap[q]
        BY <4>1
      <4> QED
        BY <1>4, <2>1, <4>1, <4>2, <4>3, SMT DEF Tick
    <3> QED
      BY <3>1, <3>2
  <2> QED
    BY <2>3, <2>4, <2>5
<1>5. CASE UNCHANGED vars
  BY <1>5 DEF vars
<1> QED
  BY <1>1, <1>2, <1>3, <1>4, <1>5 DEF Next

LEMMA MutexInductive ==
    ASSUME Envelope PROVE Spec => [](TypeOK /\ Accounted /\ MInv)
<1>1. Init => TypeOK /\ Accounted /\ MInv
  BY TypeInit, AccountedInit, MutexInit
<1>2. (TypeOK /\ Accounted /\ MInv) /\ [Next]_vars => (TypeOK /\ Accounted /\ MInv)'
  BY TypeStep, AccountedStep, MutexStep
<1> QED
  BY <1>1, <1>2, PTL DEF Spec

-----------------------------------------------------------------------------
(* The theorems *)

\* In the envelope no two processes ever hold the guard together: the promise of
\* run_lock.py's first line, for any number of processes.
THEOREM Mutex == ASSUME Envelope PROVE Spec => []MutualExclusion
<1>1. MInv => MutualExclusion
  BY SMT DEF MInv, OwnerIsWinner, Owning, MutualExclusion, At
<1> QED
  BY MutexInductive, <1>1, PTL

\* In the envelope a holder's lock file stays on disk, readable, under its token.
THEOREM HoldersOwn == ASSUME Envelope PROVE Spec => []HolderOwnsLock
<1>1. TypeOK /\ MInv => HolderOwnsLock
  BY RunLockAssumption, SMT
     DEF TypeOK, MInv, OwnerIsWinner, Owning, HolderOwnsLock, At, OwnedBy, Readable, Exists
<1> QED
  BY MutexInductive, <1>1, PTL

\* In the envelope no holder is ever judged stale: MaxMissed beats may be lost in
\* a row as long as (MaxMissed + 1) * Interval <= TTL (7 with the defaults 15 s
\* and 120 s).
THEOREM HoldersStayFresh == ASSUME Envelope PROVE Spec => []StaleMeansGone
<1>1. TypeOK /\ MInv => StaleMeansGone
  BY RunLockAssumption, SMT
     DEF TypeOK, File, MInv, OwnerIsFresh, StaleMeansGone, Stale, At, OwnedBy, Readable, Exists
<1> QED
  BY MutexInductive, <1>1, PTL

\* In the envelope every recovery unlinks the lock of a process of its own host
\* that is gone: no check-then-unlink window is left open.
THEOREM RecoveriesJustified == ASSUME Envelope PROVE Spec => RecoveryJustified
<1> DEFINE Justified ==
      \A p \in Proc : UnlinkLock(p) /\ Exists(lock) =>
        Host[lock.owner] = Host[p] /\ Gone(lock.owner)
<1>1. MInv => Justified
  BY SMT DEF MInv, UnlinksTheGone, UnlinkLock, At
<1>2. MInv /\ [Next]_vars => [Justified]_vars
  BY <1>1
<1> QED
  BY MutexInductive, <1>2, PTL DEF Spec, RecoveryJustified

-----------------------------------------------------------------------------
(* The refinement *)

\* Not touched by a step.
Untouched(q) == pc'[q] = pc[q] /\ (q \in alive' <=> q \in alive)

\* A step is a step of one process, or of none.
LEMMA OneAtATime ==
    ASSUME TypeOK, [Next]_vars
    PROVE  \/ \A q \in Proc : Untouched(q)
           \/ \E p \in Proc : \A q \in Proc \ {p} : Untouched(q)
<1> USE DEF TypeOK, Untouched, Goto, Leave, Return, Granted
<1>1. ASSUME NEW p \in Proc, Acquire(p) PROVE \A q \in Proc \ {p} : Untouched(q)
  <2>1. CASE Start(p) \/ ClearClaim(p) \/ CreateLock(p) \/ WriteLock(p) \/ ReadLock(p)
          \/ Announce(p)
    BY <2>1, SMT DEF Start, ClearClaim, CreateLock, WriteLock, ReadLock, Announce
  <2>2. CASE CreateClaim(p) \/ WriteClaim(p) \/ MeetRival(p) \/ ClearRival(p)
    BY <2>2, SMT DEF CreateClaim, WriteClaim, MeetRival, ClearRival
  <2>3. CASE EndGrace(p) \/ Recheck(p) \/ UnlinkLock(p) \/ RecreateLock(p)
    BY <2>3, SMT DEF EndGrace, Recheck, UnlinkLock, RecreateLock
  <2>4. CASE RewriteLock(p) \/ Unstake(p) \/ UnlinkOwnClaim(p)
    BY <2>4, SMT DEF RewriteLock, Unstake, UnlinkOwnClaim
  <2>5. QED
    BY <1>1, <2>1, <2>2, <2>3, <2>4 DEF Acquire
<1>2. ASSUME NEW p \in Proc, WriteFails(p) PROVE \A q \in Proc \ {p} : Untouched(q)
  BY <1>2, SMT DEF WriteFails, TextFails, EventFails
<1>3. ASSUME NEW p \in Proc, Heartbeat(p) PROVE \A q \in Proc : Untouched(q)
  BY <1>3, SMT DEF Heartbeat, BeatLoad, BeatReplace, BeatFails
<1>4. ASSUME NEW p \in Proc, Release(p) \/ ReleaseUnlink(p) \/ Finalize(p) \/ Exit(p)
      PROVE  \A q \in Proc \ {p} : Untouched(q)
  BY <1>4, SMT DEF Release, ReleaseUnlink, Finalize, Exit
<1>5. CASE Operator \/ MachineSleep \/ Tick \/ UNCHANGED vars
  BY <1>5, SMT DEF Operator, OperatorDescribe, OperatorClearLock, OperatorClearClaim,
     MachineSleep, Tick, vars
<1>6. QED
  BY <1>1, <1>2, <1>3, <1>4, <1>5, Zenon DEF Next

\* With at most one holder, the holder is the one who holds.
LEMMA TheHolder ==
    ASSUME MutualExclusion
    PROVE  /\ \A p \in Proc : At(p, "hold") <=> Holder = p
           /\ Holder \in Proc \cup {None}
  BY RunLockAssumption DEF MutualExclusion, Holder

LEMMA TheHolderNext ==
    ASSUME MutualExclusion'
    PROVE  /\ \A p \in Proc : At(p, "hold")' <=> Holder' = p
           /\ Holder' \in Proc \cup {None}
  BY RunLockAssumption DEF MutualExclusion, Holder

LEMMA GuardStep ==
    ASSUME TypeOK, MutualExclusion, MutualExclusion', [Next]_vars
    PROVE  [G!GuardNext]_Holder
<1>1. \A q \in Proc : Untouched(q) => (At(q, "hold")' <=> At(q, "hold"))
  BY DEF Untouched, At
<1>2. CASE \A q \in Proc : Untouched(q)
  BY <1>1, <1>2, TheHolder, TheHolderNext, RunLockAssumption
<1>3. ASSUME NEW p \in Proc, \A q \in Proc \ {p} : Untouched(q)
      PROVE  [G!GuardNext]_Holder
  <2>1. \A q \in Proc \ {p} : Holder' = q <=> Holder = q
    BY <1>1, <1>3, TheHolder, TheHolderNext
  <2>2. \/ Holder' = Holder
        \/ Holder = None /\ Holder' = p
        \/ Holder = p /\ Holder' = None
    <3>1. Holder \in Proc \cup {None} /\ Holder' \in Proc \cup {None}
      BY TheHolder, TheHolderNext
    <3>2. CASE Holder \in Proc \ {p}
      BY <2>1, <3>2
    <3>3. CASE Holder' \in Proc \ {p}
      BY <2>1, <3>3
    <3>4. QED
      BY <3>1, <3>2, <3>3
  <2>3. QED
    BY <2>2 DEF G!GuardNext, G!Take, G!Give
<1>4. QED
  BY <1>2, <1>3, OneAtATime

\* In the envelope the run lock implements the guard, for any number of processes:
\* whoever builds on acquire_run_mutation_guard may reason with module Guard.
THEOREM LockIsGuard == ASSUME Envelope PROVE Spec => ImplementsGuard
<1>1. Init => G!GuardInit
  BY SMT DEF Init, G!GuardInit, Holder, At
<1>2. TypeOK /\ MInv => MutualExclusion
  BY SMT DEF MInv, OwnerIsWinner, Owning, MutualExclusion, At
<1>3. (TypeOK /\ MInv) /\ (TypeOK /\ MInv)' /\ [Next]_vars => [G!GuardNext]_Holder
  <2>1. MInv' => MutualExclusion'
    BY SMT DEF MInv, OwnerIsWinner, Owning, MutualExclusion, At
  <2>2. QED
    BY <1>2, <2>1, GuardStep
<1> QED
  BY MutexInductive, <1>1, <1>3, PTL DEF Spec, ImplementsGuard, G!GuardSpec
=============================================================================
