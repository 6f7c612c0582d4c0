-------------------------- MODULE TerminalsProofs --------------------------
(***************************************************************************)
(* What holds of background terminals for any number of threads, processes *)
(* and crashes, any limit, and every mishap: the limit is kept, and the    *)
(* ledger forgets no child that lives but those that a later session lost. *)
(***************************************************************************)
EXTENDS Terminals, FiniteSetTheorems, TLAPS

\* A thread that has a process which nobody else knows, or one that it ends.
Making == {"wrap", "threads", "register", "undo"}
Ending == {"terminate", "cleanup", "grace", "last"}

Live == {p \in known : ~Ended(p)}

\* The parts of the inductive invariant.
PlacesCounted ==
    /\ IsFiniteSet(Starters) /\ IsFiniteSet(Live)
    /\ Cardinality(Live) + Cardinality(Starters) <= Max
TargetsKnown ==
    /\ \A a \in Actor : at[a] \in Making =>
         target[a] \in Process \ known /\ child[target[a]] # "none"
    /\ \A a \in Actor : at[a] \in Ending => target[a] \in Process
    /\ \A a, b \in Actor : at[a] \in Making /\ at[b] \in Making /\ a # b => target[a] # target[b]
RunningPlaced ==
    \A p \in Process : status[p] = "running" =>
        p \in known \/ \E a \in Actor : at[a] \in {"threads", "register"} /\ target[a] = p
KnownSpawned == \A p \in known \cup tracked : child[p] # "none"
DownRests ==
    /\ session # "up" => (\A a \in Actor : at[a] = "idle") /\ \A p \in Process : waiter[p] = "none"
    /\ session = "up" => stale = {}
ReapedDead == \A p \in Process : waiter[p] \notin {"none", "wait"} => child[p] = "dead"

Shape ==
    /\ TargetsKnown /\ RunningPlaced /\ KnownSpawned /\ DownRests /\ ReapedDead
    /\ RecordUntilGone
IInv == TypeOK /\ PlacesCounted /\ Shape

-----------------------------------------------------------------------------
(* Types *)

\* What the beginning of a kill assigns.
LEMMA BeginTypes ==
  ASSUME Types, NEW a \in Actor, NEW p \in Process, Begin(a, p)
  PROVE  /\ at' \in [Actor -> {"idle", "spawn", "wrap", "threads", "register", "undo", "pick",
                               "terminate", "cleanup", "grace", "kill", "last"}]
         /\ target' \in [Actor -> Process \cup {None}]
         /\ locked' \in [Process -> Actor \cup {None}]
         /\ killed' \subseteq Process
<1>1. CASE Ended(p)
  <2>1. Goes(a, "idle") \/ Goes(a, "pick")
    BY <1>1 DEF Begin
  <2>2. UNCHANGED <<locked, killed, target>>
    BY <1>1 DEF Begin
  <2>3. QED
    BY <2>1, <2>2, SMT DEF Types, Goes
<1>2. CASE ~Ended(p)
  <2>1. Goes(a, "terminate") \/ Goes(a, "grace")
    BY <1>2 DEF Begin
  <2>2. /\ locked' = [locked EXCEPT ![p] = a]
        /\ killed' = killed \cup {p}
        /\ target' = [target EXCEPT ![a] = p]
    BY <1>2 DEF Begin
  <2>3. at' \in [Actor -> {"idle", "spawn", "wrap", "threads", "register", "undo", "pick",
                          "terminate", "cleanup", "grace", "kill", "last"}]
    BY <2>1, SMT DEF Types, Goes
  <2>4. /\ target' \in [Actor -> Process \cup {None}]
        /\ locked' \in [Process -> Actor \cup {None}]
    BY <2>2, SMT DEF Types
  <2>5. killed' \subseteq Process
    BY <2>2, SMT DEF Types
  <2>6. QED
    BY <2>3, <2>4, <2>5
<1>3. QED
  BY <1>1, <1>2

\* A step keeps the types, action by action.
LEMMA TypesStep == ASSUME IInv, Next PROVE Types'
<1> USE TerminalsAssumption
    DEF IInv, TypeOK, Types, vars, osVars, ledgerVars, managerVars, actorVars, objectVars,
        Terminal, Stream, NoReader, Rest, Goes, Mishap
<1>1. ASSUME NEW a \in Actor, Reserve(a) PROVE Types'
  BY <1>1, SMT DEF Reserve
<1>2. ASSUME NEW a \in Actor, Spawn(a) PROVE Types'
  BY <1>2, SMT DEF Spawn
<1>3. ASSUME NEW a \in Actor, SpawnFails(a) PROVE Types'
  BY <1>3, SMT DEF SpawnFails
<1>4. ASSUME NEW a \in Actor, Track(a) PROVE Types'
  BY <1>4, SMT DEF Track, Shape, TargetsKnown, Making
<1>5. ASSUME NEW a \in Actor, StartThreads(a) PROVE Types'
  BY <1>5, SMT DEF StartThreads, Shape, TargetsKnown, Making
<1>6. ASSUME NEW a \in Actor, WrapFails(a) PROVE Types'
  BY <1>6, SMT DEF WrapFails, Shape, TargetsKnown, Making
<1>7. ASSUME NEW a \in Actor, Undo(a) PROVE Types'
  BY <1>7, SMT DEF Undo, Shape, TargetsKnown, Making
<1>8. ASSUME NEW a \in Actor, Register(a) PROVE Types'
  BY <1>8, SMT DEF Register, Shape, TargetsKnown, Making
<1>9. ASSUME NEW a \in Actor, Kill(a) PROVE Types'
  <2>1. PICK p \in known : Begin(a, p)
    BY <1>9 DEF Kill
  <2>2. todo' \in [Actor -> SUBSET Process]
    BY <1>9 DEF Kill
  <2>3. QED
    BY <1>9, <2>1, <2>2, BeginTypes, SMT DEF Kill
<1>10. ASSUME NEW a \in Actor, Shutdown(a) PROVE Types'
  BY <1>10, SMT DEF Shutdown
<1>11. ASSUME NEW a \in Actor, ShutdownNext(a) PROVE Types'
  <2>1. PICK p \in todo[a] : todo' = [todo EXCEPT ![a] = @ \ {p}] /\ Begin(a, p)
    BY <1>11 DEF ShutdownNext
  <2>2. p \in Process /\ todo' \in [Actor -> SUBSET Process]
    BY <2>1
  <2>3. QED
    BY <1>11, <2>1, <2>2, BeginTypes, SMT DEF ShutdownNext
<1>12. ASSUME NEW a \in Actor, Terminate(a) PROVE Types'
  BY <1>12, SMT DEF Terminate, Shape, TargetsKnown, Ending
<1>13. ASSUME NEW a \in Actor, Cleanup(a) PROVE Types'
  BY <1>13, SMT DEF Cleanup, Shape, TargetsKnown, Ending, Cleaning
<1>14. ASSUME NEW a \in Actor, SeesEnd(a) PROVE Types'
  BY <1>14, SMT DEF SeesEnd, Shape, TargetsKnown, Ending
<1>15. ASSUME NEW a \in Actor, Escalate(a) PROVE Types'
  BY <1>15, SMT DEF Escalate, Shape, TargetsKnown, Ending, SendKill
<1>16. ASSUME NEW a \in Actor, StopsWaiting(a) PROVE Types'
  BY <1>16, SMT DEF StopsWaiting, Shape, TargetsKnown, Ending
<1>17. ASSUME NEW p \in Process, Reap(p) PROVE Types'
  BY <1>17, SMT DEF Reap, Waits
<1>18. ASSUME NEW p \in Process, Drained(p) PROVE Types'
  BY <1>18, SMT DEF Drained, Waits
<1>19. ASSUME NEW p \in Process, WaiterCleans(p) PROVE Types'
  BY <1>19, SMT DEF WaiterCleans, Waits, Cleaning
<1>20. ASSUME NEW p \in Process, Release(p) PROVE Types'
  BY <1>20, SMT DEF Release, Shape, DownRests, Waits
<1>21. ASSUME NEW p \in Process, Settle(p) PROVE Types'
  BY <1>21, SMT DEF Settle, Waits, Terminal
<1>22. ASSUME NEW p \in Process, Dies(p) PROVE Types'
  BY <1>22, SMT DEF Dies, System
<1>23. ASSUME NEW p \in Process, Forks(p) PROVE Types'
  BY <1>23, SMT DEF Forks, System
<1>24. ASSUME NEW p \in Process, KinDies(p) PROVE Types'
  BY <1>24, SMT DEF KinDies, System
<1>25. ASSUME NEW p \in Process, Scavenge(p) PROVE Types'
  BY <1>25, SMT DEF Scavenge, Misreads, Terminates, Refused, Absent, Cleaning, SendKill
<1>26. ASSUME NEW p \in Process, NEW s \in Stream, ReaderEnds(p, s) PROVE Types'
  BY <1>26, SMT DEF ReaderEnds, Reads
<1>27. ASSUME NEW p \in Process, NEW s \in Stream, ReaderCleans(p, s) PROVE Types'
  BY <1>27, SMT DEF ReaderCleans, Reads
<1>28. ASSUME NEW p \in Process, NEW s \in Stream, ReaderKills(p, s) PROVE Types'
  <2>1. doomed' \subseteq Process
    BY <1>28 DEF ReaderKills, SendKill, Cleaning
  <2>2. CASE Reads(p, s, "kill", "done")
    BY <1>28, <2>1, <2>2, SMT DEF ReaderKills, Reads
  <2>3. CASE Reads(p, s, "cleanup", "done")
    BY <1>28, <2>1, <2>3, SMT DEF ReaderKills, Reads
  <2>4. QED
    BY <1>28, <2>2, <2>3 DEF ReaderKills
<1>29. ASSUME NEW p \in Process, NEW s \in Stream, ReaderFails(p, s) PROVE Types'
  <2>1. killed' \subseteq Process /\ failed' \subseteq Process
    BY <1>29 DEF ReaderFails
  <2>2. mishaps' \subseteq Faults
    BY <1>29 DEF ReaderFails
  <2>3. CASE Reads(p, s, "read", "done")
    BY <1>29, <2>1, <2>2, <2>3, SMT DEF ReaderFails, Reads
  <2>4. CASE Reads(p, s, "read", "kill")
    BY <1>29, <2>1, <2>2, <2>4, SMT DEF ReaderFails, Reads
  <2>5. QED
    BY <1>29, <2>3, <2>4 DEF ReaderFails
<1>30. ASSUME Crash PROVE Types'
  BY <1>30, SMT DEF Crash
<1>31. ASSUME Open PROVE Types'
  BY <1>31, SMT DEF Open
<1>32. ASSUME Opened PROVE Types'
  BY <1>32, SMT DEF Opened
<1>33. QED
  BY <1>1, <1>2, <1>3, <1>4, <1>5, <1>6, <1>7, <1>8, <1>9, <1>10, <1>11, <1>12, <1>13, <1>14, <1>15, <1>16, <1>17, <1>18, <1>19, <1>20, <1>21, <1>22, <1>23, <1>24, <1>25, <1>26, <1>27, <1>28, <1>29, <1>30, <1>31, <1>32
     DEF Next, Starts, Killing, Threads

-----------------------------------------------------------------------------
(* Places *)

\* Most steps neither take nor give back a place, and end processes if anything.
Quiet == Starters' = Starters /\ Live' \subseteq Live /\ UNCHANGED pending

LEMMA PlacesTaken ==
  ASSUME IInv, Next
  PROVE  \/ Quiet
         \/ \E a \in Actor : Reserve(a) \/ SpawnFails(a) \/ WrapFails(a) \/ Register(a)
         \/ Crash
<1> USE DEF IInv, TypeOK, Types, Shape, TargetsKnown, Making, Quiet, Starters, Live, Ended, Terminal,
        osVars, ledgerVars, managerVars, actorVars, objectVars, Rest, Goes
<1>1. ASSUME NEW a \in Actor, Spawn(a) PROVE Quiet
  BY <1>1, SMT DEF Spawn
<1>2. ASSUME NEW a \in Actor, Track(a) PROVE Quiet
  BY <1>2, SMT DEF Track
<1>3. ASSUME NEW a \in Actor, StartThreads(a) PROVE Quiet
  BY <1>3, SMT DEF StartThreads
<1>4. ASSUME NEW a \in Actor, Undo(a) PROVE Quiet
  BY <1>4, SMT DEF Undo
<1>5. ASSUME NEW a \in Actor, Kill(a) PROVE Quiet
  BY <1>5, SMT DEF Kill, Begin
<1>6. ASSUME NEW a \in Actor, Shutdown(a) PROVE Quiet
  BY <1>6, SMT DEF Shutdown
<1>7. ASSUME NEW a \in Actor, ShutdownNext(a) PROVE Quiet
  BY <1>7, SMT DEF ShutdownNext, Begin
<1>8. ASSUME NEW a \in Actor, Terminate(a) PROVE Quiet
  BY <1>8, SMT DEF Terminate
<1>9. ASSUME NEW a \in Actor, Cleanup(a) PROVE Quiet
  BY <1>9, SMT DEF Cleanup
<1>10. ASSUME NEW a \in Actor, SeesEnd(a) PROVE Quiet
  BY <1>10, SMT DEF SeesEnd
<1>11. ASSUME NEW a \in Actor, Escalate(a) PROVE Quiet
  BY <1>11, SMT DEF Escalate
<1>12. ASSUME NEW a \in Actor, StopsWaiting(a) PROVE Quiet
  BY <1>12, SMT DEF StopsWaiting
<1>13. ASSUME NEW p \in Process, Reap(p) PROVE Quiet
  BY <1>13, SMT DEF Reap, Waits
<1>14. ASSUME NEW p \in Process, Drained(p) PROVE Quiet
  BY <1>14, SMT DEF Drained, Waits
<1>15. ASSUME NEW p \in Process, WaiterCleans(p) PROVE Quiet
  BY <1>15, SMT DEF WaiterCleans, Waits
<1>16. ASSUME NEW p \in Process, Release(p) PROVE Quiet
  BY <1>16, SMT DEF Release, Waits
<1>17. ASSUME NEW p \in Process, Settle(p) PROVE Quiet
  BY <1>17, SMT DEF Settle, Waits
<1>18. ASSUME NEW p \in Process, Dies(p) PROVE Quiet
  BY <1>18, SMT DEF Dies, System
<1>19. ASSUME NEW p \in Process, Forks(p) PROVE Quiet
  BY <1>19, SMT DEF Forks, System
<1>20. ASSUME NEW p \in Process, KinDies(p) PROVE Quiet
  BY <1>20, SMT DEF KinDies, System
<1>21. ASSUME NEW p \in Process, Scavenge(p) PROVE Quiet
  BY <1>21, SMT DEF Scavenge
<1>22. ASSUME NEW p \in Process, NEW s \in Stream, ReaderEnds(p, s) PROVE Quiet
  BY <1>22, SMT DEF ReaderEnds, Reads
<1>23. ASSUME NEW p \in Process, NEW s \in Stream, ReaderCleans(p, s) PROVE Quiet
  BY <1>23, SMT DEF ReaderCleans, Reads
<1>24. ASSUME NEW p \in Process, NEW s \in Stream, ReaderKills(p, s) PROVE Quiet
  BY <1>24, SMT DEF ReaderKills, Reads
<1>25. ASSUME NEW p \in Process, NEW s \in Stream, ReaderFails(p, s) PROVE Quiet
  BY <1>25, SMT DEF ReaderFails, Reads
<1>26. ASSUME Open PROVE Quiet
  BY <1>26, SMT DEF Open
<1>27. ASSUME Opened PROVE Quiet
  BY <1>27, SMT DEF Opened
<1>28. QED
  BY <1>1, <1>2, <1>3, <1>4, <1>5, <1>6, <1>7, <1>8, <1>9, <1>10, <1>11, <1>12, <1>13, <1>14, <1>15, <1>16, <1>17, <1>18, <1>19, <1>20, <1>21, <1>22, <1>23, <1>24, <1>25, <1>26, <1>27
     DEF Next, Starts, Killing, Threads

\* The limit is on those that have a place and those that run, together.
LEMMA PlacesStep ==
  ASSUME IInv, Next PROVE PlacesCounted' /\ pending' = Cardinality(Starters')
<1> USE DEF PlacesCounted
<1>0. /\ IsFiniteSet(Starters) /\ IsFiniteSet(Live)
      /\ Cardinality(Starters) \in Nat /\ Cardinality(Live) \in Nat
      /\ pending = Cardinality(Starters)
      /\ Cardinality(Live) + Cardinality(Starters) <= Max
      /\ Max \in Nat
  BY FS_CardinalityType, TerminalsAssumption DEF IInv, TypeOK
<1>1. CASE Quiet
  <2>1. IsFiniteSet(Live') /\ Cardinality(Live') <= Cardinality(Live) /\ Cardinality(Live') \in Nat
    BY <1>0, <1>1, FS_Subset, FS_CardinalityType DEF Quiet
  <2>2. QED
    BY <1>0, <1>1, <2>1 DEF Quiet
<1>2. ASSUME NEW a \in Actor, Reserve(a) PROVE PlacesCounted' /\ pending' = Cardinality(Starters')
  <2>1. Starters' = Starters \cup {a} /\ a \notin Starters
    BY <1>2, SMT DEF IInv, TypeOK, Types, Reserve, Starters, Goes
  <2>2. Live' = Live
    BY <1>2 DEF Reserve, Live, Ended, Terminal, objectVars
  <2>3. Cardinality(Live) + pending < Max /\ pending' = pending + 1
    BY <1>2 DEF Reserve, Live
  <2>4. IsFiniteSet(Starters') /\ Cardinality(Starters') = Cardinality(Starters) + 1
    BY <1>0, <2>1, FS_AddElement
  <2>5. QED
    BY <1>0, <2>2, <2>3, <2>4
<1>3. ASSUME NEW a \in Actor, SpawnFails(a) \/ WrapFails(a)
      PROVE  PlacesCounted' /\ pending' = Cardinality(Starters')
  <2>1. Starters' = Starters \ {a} /\ a \in Starters
    BY <1>3, SMT DEF IInv, TypeOK, Types, SpawnFails, WrapFails, Starters, Goes
  <2>2. Live' \subseteq Live
    BY <1>3, SMT DEF IInv, TypeOK, Types, Shape, TargetsKnown, Making, SpawnFails, WrapFails, Live, Ended,
                     Terminal, objectVars
  <2>3. pending' = pending - 1
    BY <1>3 DEF SpawnFails, WrapFails
  <2>4. IsFiniteSet(Starters') /\ Cardinality(Starters') = Cardinality(Starters) - 1
    BY <1>0, <2>1, FS_RemoveElement
  <2>5. IsFiniteSet(Live') /\ Cardinality(Live') <= Cardinality(Live) /\ Cardinality(Live') \in Nat
    BY <1>0, <2>2, FS_Subset, FS_CardinalityType
  <2>6. QED
    BY <1>0, <2>3, <2>4, <2>5
<1>4. ASSUME NEW a \in Actor, Register(a) PROVE PlacesCounted' /\ pending' = Cardinality(Starters')
  <2>1. Starters' = Starters \ {a} /\ a \in Starters
    BY <1>4, SMT DEF IInv, TypeOK, Types, Register, Starters, Rest
  <2>2. Live' \subseteq Live \cup {target[a]}
    BY <1>4 DEF Register, Live, Ended, Terminal, objectVars
  <2>3. pending' = pending - 1
    BY <1>4 DEF Register
  <2>4. IsFiniteSet(Starters') /\ Cardinality(Starters') = Cardinality(Starters) - 1
    BY <1>0, <2>1, FS_RemoveElement
  <2>5. /\ IsFiniteSet(Live \cup {target[a]})
        /\ Cardinality(Live \cup {target[a]}) <= Cardinality(Live) + 1
        /\ Cardinality(Live \cup {target[a]}) \in Nat
    <3>1. /\ IsFiniteSet(Live \cup {target[a]})
          /\ Cardinality(Live \cup {target[a]}) =
               IF target[a] \in Live THEN Cardinality(Live) ELSE Cardinality(Live) + 1
      BY <1>0, FS_AddElement
    <3>2. QED
      BY <1>0, <3>1, SMT
  <2>6. IsFiniteSet(Live') /\ Cardinality(Live') <= Cardinality(Live) + 1 /\ Cardinality(Live') \in Nat
    <3>1. IsFiniteSet(Live') /\ Cardinality(Live') <= Cardinality(Live \cup {target[a]})
      BY <2>2, <2>5, FS_Subset
    <3>2. QED
      BY <1>0, <2>5, <3>1, FS_CardinalityType
  <2>7. QED
    BY <1>0, <2>3, <2>4, <2>6
<1>5. CASE Crash
  <2>1. Starters' = {} /\ Live' = {} /\ pending' = 0
    BY <1>5 DEF Crash, Starters, Live
  <2>2. QED
    BY <1>0, <2>1, FS_EmptySet
<1>6. QED
  BY <1>1, <1>2, <1>3, <1>4, <1>5, PlacesTaken

-----------------------------------------------------------------------------
(* The rest of the invariant, part by part *)

ChildGoesOn ==
    \A p \in Process :
        /\ child[p] # "none" => child'[p] # "none"
        /\ child[p] = "dead" => child'[p] = "dead"
        /\ child'[p] = "alive" => child[p] \in {"none", "alive"}

\* A process is spawned once and dies once.
LEMMA ChildStep == ASSUME IInv, Next PROVE ChildGoesOn
<1> USE DEF IInv, TypeOK, Types, Shape, osVars, ledgerVars, managerVars, actorVars, objectVars,
        Rest, Goes, ChildGoesOn
<1>1. ASSUME NEW a \in Actor, Reserve(a) PROVE ChildGoesOn
  BY <1>1, SMT DEF Reserve
<1>2. ASSUME NEW a \in Actor, Spawn(a) PROVE ChildGoesOn
  BY <1>2, SMT DEF Spawn
<1>3. ASSUME NEW a \in Actor, SpawnFails(a) PROVE ChildGoesOn
  BY <1>3, SMT DEF SpawnFails
<1>4. ASSUME NEW a \in Actor, Track(a) PROVE ChildGoesOn
  BY <1>4, SMT DEF Track
<1>5. ASSUME NEW a \in Actor, StartThreads(a) PROVE ChildGoesOn
  BY <1>5, SMT DEF StartThreads
<1>6. ASSUME NEW a \in Actor, WrapFails(a) PROVE ChildGoesOn
  BY <1>6, SMT DEF WrapFails
<1>7. ASSUME NEW a \in Actor, Undo(a) PROVE ChildGoesOn
  BY <1>7, SMT DEF Undo
<1>8. ASSUME NEW a \in Actor, Register(a) PROVE ChildGoesOn
  BY <1>8, SMT DEF Register
<1>9. ASSUME NEW a \in Actor, Kill(a) PROVE ChildGoesOn
  BY <1>9, SMT DEF Kill, Begin
<1>10. ASSUME NEW a \in Actor, Shutdown(a) PROVE ChildGoesOn
  BY <1>10, SMT DEF Shutdown
<1>11. ASSUME NEW a \in Actor, ShutdownNext(a) PROVE ChildGoesOn
  BY <1>11, SMT DEF ShutdownNext, Begin
<1>12. ASSUME NEW a \in Actor, Terminate(a) PROVE ChildGoesOn
  BY <1>12, SMT DEF Terminate
<1>13. ASSUME NEW a \in Actor, Cleanup(a) PROVE ChildGoesOn
  BY <1>13, SMT DEF Cleanup
<1>14. ASSUME NEW a \in Actor, SeesEnd(a) PROVE ChildGoesOn
  BY <1>14, SMT DEF SeesEnd
<1>15. ASSUME NEW a \in Actor, Escalate(a) PROVE ChildGoesOn
  BY <1>15, SMT DEF Escalate
<1>16. ASSUME NEW a \in Actor, StopsWaiting(a) PROVE ChildGoesOn
  BY <1>16, SMT DEF StopsWaiting
<1>17. ASSUME NEW p \in Process, Reap(p) PROVE ChildGoesOn
  BY <1>17, SMT DEF Reap, Waits
<1>18. ASSUME NEW p \in Process, Drained(p) PROVE ChildGoesOn
  BY <1>18, SMT DEF Drained, Waits
<1>19. ASSUME NEW p \in Process, WaiterCleans(p) PROVE ChildGoesOn
  BY <1>19, SMT DEF WaiterCleans, Waits
<1>20. ASSUME NEW p \in Process, Release(p) PROVE ChildGoesOn
  BY <1>20, SMT DEF Release, Waits
<1>21. ASSUME NEW p \in Process, Settle(p) PROVE ChildGoesOn
  BY <1>21, SMT DEF Settle, Waits
<1>22. ASSUME NEW p \in Process, Dies(p) PROVE ChildGoesOn
  BY <1>22, SMT DEF Dies, System
<1>23. ASSUME NEW p \in Process, Forks(p) PROVE ChildGoesOn
  BY <1>23, SMT DEF Forks, System
<1>24. ASSUME NEW p \in Process, KinDies(p) PROVE ChildGoesOn
  BY <1>24, SMT DEF KinDies, System
<1>25. ASSUME NEW p \in Process, Scavenge(p) PROVE ChildGoesOn
  BY <1>25, SMT DEF Scavenge
<1>26. ASSUME NEW p \in Process, NEW s \in Stream, ReaderEnds(p, s) PROVE ChildGoesOn
  BY <1>26, SMT DEF ReaderEnds, Reads
<1>27. ASSUME NEW p \in Process, NEW s \in Stream, ReaderCleans(p, s) PROVE ChildGoesOn
  BY <1>27, SMT DEF ReaderCleans, Reads
<1>28. ASSUME NEW p \in Process, NEW s \in Stream, ReaderKills(p, s) PROVE ChildGoesOn
  BY <1>28, SMT DEF ReaderKills, Reads
<1>29. ASSUME NEW p \in Process, NEW s \in Stream, ReaderFails(p, s) PROVE ChildGoesOn
  BY <1>29, SMT DEF ReaderFails, Reads
<1>30. ASSUME Crash PROVE ChildGoesOn
  BY <1>30, SMT DEF Crash
<1>31. ASSUME Open PROVE ChildGoesOn
  BY <1>31, SMT DEF Open
<1>32. ASSUME Opened PROVE ChildGoesOn
  BY <1>32, SMT DEF Opened
<1>33. QED
  BY <1>1, <1>2, <1>3, <1>4, <1>5, <1>6, <1>7, <1>8, <1>9, <1>10, <1>11, <1>12, <1>13, <1>14, <1>15, <1>16, <1>17, <1>18, <1>19, <1>20, <1>21, <1>22, <1>23, <1>24, <1>25, <1>26, <1>27, <1>28, <1>29, <1>30, <1>31, <1>32
     DEF Next, Starts, Killing, Threads

\* What happens to a process outside the agent's own threads.
OfProcess(p) ==
    \/ Threads(p) \/ (\E s \in Stream : ReaderFails(p, s))
    \/ Dies(p) \/ Forks(p) \/ KinDies(p) \/ Scavenge(p)

LEMMA ThreadsFrame ==
  ASSUME IInv, NEW p \in Process, OfProcess(p)
  PROVE  /\ UNCHANGED <<session, known, tracked, at, target>>
         /\ stale' \subseteq stale
         /\ \A q \in Process : waiter[q] = "none" => waiter'[q] = "none"
         /\ \A q \in Process : status'[q] = "running" => status[q] = "running"
<1> DEFINE Goal ==
      /\ UNCHANGED <<session, known, tracked, at, target>>
      /\ stale' \subseteq stale
      /\ \A q \in Process : waiter[q] = "none" => waiter'[q] = "none"
      /\ \A q \in Process : status'[q] = "running" => status[q] = "running"
<1> USE DEF IInv, TypeOK, Types, osVars, ledgerVars, managerVars, actorVars, objectVars
<1>1. CASE Reap(p)
  BY <1>1, SMT DEF Reap, Waits
<1>2. CASE Drained(p)
  BY <1>2, SMT DEF Drained, Waits
<1>3. CASE WaiterCleans(p)
  BY <1>3, SMT DEF WaiterCleans, Waits
<1>4. CASE Release(p)
  BY <1>4, SMT DEF Release, Waits
<1>5. CASE Settle(p)
  BY <1>5, SMT DEF Settle, Waits, Terminal
<1>6. CASE Dies(p)
  BY <1>6, SMT DEF Dies, System
<1>7. CASE Forks(p)
  BY <1>7, SMT DEF Forks, System
<1>8. CASE KinDies(p)
  BY <1>8, SMT DEF KinDies, System
<1>9. CASE Scavenge(p)
  BY <1>9, SMT DEF Scavenge
<1>10. ASSUME NEW s \in Stream, ReaderEnds(p, s) PROVE Goal
  BY <1>10, SMT DEF ReaderEnds, Reads
<1>11. ASSUME NEW s \in Stream, ReaderCleans(p, s) PROVE Goal
  BY <1>11, SMT DEF ReaderCleans, Reads
<1>12. ASSUME NEW s \in Stream, ReaderKills(p, s) PROVE Goal
  BY <1>12, SMT DEF ReaderKills, Reads
<1>13. ASSUME NEW s \in Stream, ReaderFails(p, s) PROVE Goal
  BY <1>13, SMT DEF ReaderFails, Reads
<1>14. QED
  BY <1>1, <1>2, <1>3, <1>4, <1>5, <1>6, <1>7, <1>8, <1>9, <1>10, <1>11, <1>12, <1>13
     DEF OfProcess, Threads

\* Who makes a process, and who ends one.
LEMMA TargetsStep == ASSUME IInv, Next PROVE TargetsKnown'
<1> USE DEF IInv, TypeOK, Types, Shape, osVars, ledgerVars, managerVars, actorVars, objectVars,
        Rest, Goes, TargetsKnown, Making, Ending, ChildGoesOn
<1>1. ASSUME NEW a \in Actor, Reserve(a) PROVE TargetsKnown'
  BY <1>1, ChildStep, SMT DEF Reserve
<1>2. ASSUME NEW a \in Actor, Spawn(a) PROVE TargetsKnown'
  BY <1>2, ChildStep, SMT DEF Spawn, KnownSpawned
<1>3. ASSUME NEW a \in Actor, SpawnFails(a) PROVE TargetsKnown'
  BY <1>3, ChildStep, SMT DEF SpawnFails
<1>4. ASSUME NEW a \in Actor, Track(a) PROVE TargetsKnown'
  BY <1>4, ChildStep, SMT DEF Track
<1>5. ASSUME NEW a \in Actor, StartThreads(a) PROVE TargetsKnown'
  BY <1>5, ChildStep, SMT DEF StartThreads
<1>6. ASSUME NEW a \in Actor, WrapFails(a) PROVE TargetsKnown'
  BY <1>6, ChildStep, SMT DEF WrapFails
<1>7. ASSUME NEW a \in Actor, Undo(a) PROVE TargetsKnown'
  BY <1>7, ChildStep, SMT DEF Undo
<1>8. ASSUME NEW a \in Actor, Register(a) PROVE TargetsKnown'
  BY <1>8, ChildStep, SMT DEF Register
<1>9. ASSUME NEW a \in Actor, Kill(a) PROVE TargetsKnown'
  <2>1. PICK p \in known : Begin(a, p) /\ ~Ended(p)
    BY <1>9 DEF Kill
  <2>2. target' = [target EXCEPT ![a] = p] /\ p \in Process
    BY <2>1 DEF Begin
  <2>3. Goes(a, "terminate") \/ Goes(a, "grace")
    BY <2>1 DEF Begin
  <2>4. UNCHANGED <<known, child>>
    BY <1>9 DEF Kill
  <2>5. QED
    BY <2>2, <2>3, <2>4, SMT
<1>10. ASSUME NEW a \in Actor, Shutdown(a) PROVE TargetsKnown'
  BY <1>10, ChildStep, SMT DEF Shutdown
<1>11. ASSUME NEW a \in Actor, ShutdownNext(a) PROVE TargetsKnown'
  <2>1. PICK p \in todo[a] : Begin(a, p)
    BY <1>11 DEF ShutdownNext
  <2>2. UNCHANGED <<known, child>> /\ p \in Process
    BY <1>11 DEF ShutdownNext
  <2>3. CASE Ended(p)
    <3>1. Goes(a, "idle") \/ Goes(a, "pick")
      BY <2>1, <2>3 DEF Begin
    <3>2. UNCHANGED target
      BY <2>1, <2>3 DEF Begin
    <3>3. CASE Goes(a, "idle")
      BY <2>2, <3>2, <3>3, SMT
    <3>4. CASE Goes(a, "pick")
      BY <2>2, <3>2, <3>4, SMT
    <3>5. QED
      BY <3>1, <3>3, <3>4
  <2>4. CASE ~Ended(p)
    <3>1. target' = [target EXCEPT ![a] = p]
      BY <2>1, <2>4 DEF Begin
    <3>2. Goes(a, "terminate") \/ Goes(a, "grace")
      BY <2>1, <2>4 DEF Begin
    <3>3. CASE Goes(a, "terminate")
      BY <2>2, <3>1, <3>3, SMT
    <3>4. CASE Goes(a, "grace")
      BY <2>2, <3>1, <3>4, SMT
    <3>5. QED
      BY <3>2, <3>3, <3>4
  <2>5. QED
    BY <2>3, <2>4
<1>12. ASSUME NEW a \in Actor, Terminate(a) PROVE TargetsKnown'
  <2>1. Goes(a, "cleanup") \/ Goes(a, "grace")
    BY <1>12 DEF Terminate
  <2>2. UNCHANGED <<known, child, target>> /\ at[a] = "terminate"
    BY <1>12 DEF Terminate
  <2>3. CASE Goes(a, "cleanup")
    BY <2>2, <2>3, SMT
  <2>4. CASE Goes(a, "grace")
    BY <2>2, <2>4, SMT
  <2>5. QED
    BY <2>1, <2>3, <2>4
<1>13. ASSUME NEW a \in Actor, Cleanup(a) PROVE TargetsKnown'
  BY <1>13, ChildStep, SMT DEF Cleanup
<1>14. ASSUME NEW a \in Actor, SeesEnd(a) PROVE TargetsKnown'
  BY <1>14, ChildStep, SMT DEF SeesEnd
<1>15. ASSUME NEW a \in Actor, Escalate(a) PROVE TargetsKnown'
  BY <1>15, ChildStep, SMT DEF Escalate
<1>16. ASSUME NEW a \in Actor, StopsWaiting(a) PROVE TargetsKnown'
  BY <1>16, ChildStep, SMT DEF StopsWaiting
<1>17. ASSUME NEW p \in Process, OfProcess(p) PROVE TargetsKnown'
  BY <1>17, ThreadsFrame, ChildStep, SMT
<1>18. ASSUME Crash PROVE TargetsKnown'
  BY <1>18, ChildStep, SMT DEF Crash
<1>19. ASSUME Open PROVE TargetsKnown'
  BY <1>19, ChildStep, SMT DEF Open
<1>20. ASSUME Opened PROVE TargetsKnown'
  BY <1>20, ChildStep, SMT DEF Opened
<1>21. QED
  BY <1>1, <1>2, <1>3, <1>4, <1>5, <1>6, <1>7, <1>8, <1>9, <1>10, <1>11, <1>12, <1>13, <1>14, <1>15, <1>16, <1>17, <1>18, <1>19, <1>20
     DEF Next, Starts, Killing, Threads, OfProcess

\* Where a running process is known.
LEMMA RunningStep == ASSUME IInv, Next PROVE RunningPlaced'
<1> USE DEF IInv, TypeOK, Types, Shape, osVars, ledgerVars, managerVars, actorVars, objectVars,
        Rest, Goes, RunningPlaced, TargetsKnown, Making, Terminal, NoReader
<1>1. ASSUME NEW a \in Actor, Reserve(a) PROVE RunningPlaced'
  BY <1>1, SMT DEF Reserve
<1>2. ASSUME NEW a \in Actor, Spawn(a) PROVE RunningPlaced'
  BY <1>2, SMT DEF Spawn
<1>3. ASSUME NEW a \in Actor, SpawnFails(a) PROVE RunningPlaced'
  BY <1>3, SMT DEF SpawnFails
<1>4. ASSUME NEW a \in Actor, Track(a) PROVE RunningPlaced'
  BY <1>4, SMT DEF Track
<1>5. ASSUME NEW a \in Actor, StartThreads(a) PROVE RunningPlaced'
  BY <1>5, SMT DEF StartThreads
<1>6. ASSUME NEW a \in Actor, WrapFails(a) PROVE RunningPlaced'
  BY <1>6, SMT DEF WrapFails
<1>7. ASSUME NEW a \in Actor, Undo(a) PROVE RunningPlaced'
  BY <1>7, SMT DEF Undo
<1>8. ASSUME NEW a \in Actor, Register(a) PROVE RunningPlaced'
  BY <1>8, SMT DEF Register
<1>9. ASSUME NEW a \in Actor, Kill(a) PROVE RunningPlaced'
  BY <1>9, SMT DEF Kill, Begin
<1>10. ASSUME NEW a \in Actor, Shutdown(a) PROVE RunningPlaced'
  BY <1>10, SMT DEF Shutdown
<1>11. ASSUME NEW a \in Actor, ShutdownNext(a) PROVE RunningPlaced'
  BY <1>11, SMT DEF ShutdownNext, Begin
<1>12. ASSUME NEW a \in Actor, Terminate(a) PROVE RunningPlaced'
  BY <1>12, SMT DEF Terminate
<1>13. ASSUME NEW a \in Actor, Cleanup(a) PROVE RunningPlaced'
  BY <1>13, SMT DEF Cleanup
<1>14. ASSUME NEW a \in Actor, SeesEnd(a) PROVE RunningPlaced'
  BY <1>14, SMT DEF SeesEnd
<1>15. ASSUME NEW a \in Actor, Escalate(a) PROVE RunningPlaced'
  BY <1>15, SMT DEF Escalate
<1>16. ASSUME NEW a \in Actor, StopsWaiting(a) PROVE RunningPlaced'
  BY <1>16, SMT DEF StopsWaiting
<1>17. ASSUME NEW p \in Process, OfProcess(p) PROVE RunningPlaced'
  BY <1>17, ThreadsFrame, SMT
<1>18. ASSUME Crash PROVE RunningPlaced'
  BY <1>18, SMT DEF Crash
<1>19. ASSUME Open PROVE RunningPlaced'
  BY <1>19, SMT DEF Open
<1>20. ASSUME Opened PROVE RunningPlaced'
  BY <1>20, SMT DEF Opened
<1>21. QED
  BY <1>1, <1>2, <1>3, <1>4, <1>5, <1>6, <1>7, <1>8, <1>9, <1>10, <1>11, <1>12, <1>13, <1>14, <1>15, <1>16, <1>17, <1>18, <1>19, <1>20
     DEF Next, Starts, Killing, Threads, OfProcess

\* What is known, or was recorded, was spawned.
LEMMA SpawnedStep == ASSUME IInv, Next PROVE KnownSpawned'
<1> USE DEF IInv, TypeOK, Types, Shape, osVars, ledgerVars, managerVars, actorVars, objectVars,
        Rest, Goes, KnownSpawned, TargetsKnown, Making, ChildGoesOn
<1>1. ASSUME NEW a \in Actor, Reserve(a) PROVE KnownSpawned'
  BY <1>1, ChildStep, SMT DEF Reserve
<1>2. ASSUME NEW a \in Actor, Spawn(a) PROVE KnownSpawned'
  BY <1>2, ChildStep, SMT DEF Spawn
<1>3. ASSUME NEW a \in Actor, SpawnFails(a) PROVE KnownSpawned'
  BY <1>3, ChildStep, SMT DEF SpawnFails
<1>4. ASSUME NEW a \in Actor, Track(a) PROVE KnownSpawned'
  BY <1>4, ChildStep, SMT DEF Track
<1>5. ASSUME NEW a \in Actor, StartThreads(a) PROVE KnownSpawned'
  BY <1>5, ChildStep, SMT DEF StartThreads
<1>6. ASSUME NEW a \in Actor, WrapFails(a) PROVE KnownSpawned'
  BY <1>6, ChildStep, SMT DEF WrapFails
<1>7. ASSUME NEW a \in Actor, Undo(a) PROVE KnownSpawned'
  BY <1>7, ChildStep, SMT DEF Undo
<1>8. ASSUME NEW a \in Actor, Register(a) PROVE KnownSpawned'
  BY <1>8, ChildStep, SMT DEF Register
<1>9. ASSUME NEW a \in Actor, Kill(a) PROVE KnownSpawned'
  BY <1>9, ChildStep, SMT DEF Kill, Begin
<1>10. ASSUME NEW a \in Actor, Shutdown(a) PROVE KnownSpawned'
  BY <1>10, ChildStep, SMT DEF Shutdown
<1>11. ASSUME NEW a \in Actor, ShutdownNext(a) PROVE KnownSpawned'
  BY <1>11, ChildStep, SMT DEF ShutdownNext, Begin
<1>12. ASSUME NEW a \in Actor, Terminate(a) PROVE KnownSpawned'
  BY <1>12, ChildStep, SMT DEF Terminate
<1>13. ASSUME NEW a \in Actor, Cleanup(a) PROVE KnownSpawned'
  BY <1>13, ChildStep, SMT DEF Cleanup
<1>14. ASSUME NEW a \in Actor, SeesEnd(a) PROVE KnownSpawned'
  BY <1>14, ChildStep, SMT DEF SeesEnd
<1>15. ASSUME NEW a \in Actor, Escalate(a) PROVE KnownSpawned'
  BY <1>15, ChildStep, SMT DEF Escalate
<1>16. ASSUME NEW a \in Actor, StopsWaiting(a) PROVE KnownSpawned'
  BY <1>16, ChildStep, SMT DEF StopsWaiting
<1>17. ASSUME NEW p \in Process, OfProcess(p) PROVE KnownSpawned'
  BY <1>17, ThreadsFrame, ChildStep, SMT
<1>18. ASSUME Crash PROVE KnownSpawned'
  BY <1>18, ChildStep, SMT DEF Crash
<1>19. ASSUME Open PROVE KnownSpawned'
  BY <1>19, ChildStep, SMT DEF Open
<1>20. ASSUME Opened PROVE KnownSpawned'
  BY <1>20, ChildStep, SMT DEF Opened
<1>21. QED
  BY <1>1, <1>2, <1>3, <1>4, <1>5, <1>6, <1>7, <1>8, <1>9, <1>10, <1>11, <1>12, <1>13, <1>14, <1>15, <1>16, <1>17, <1>18, <1>19, <1>20
     DEF Next, Starts, Killing, Threads, OfProcess

\* Between two sessions nothing runs.
LEMMA RestsStep == ASSUME IInv, Next PROVE DownRests'
<1> USE DEF IInv, TypeOK, Types, Shape, osVars, ledgerVars, managerVars, actorVars, objectVars,
        Rest, Goes, DownRests, NoReader
<1>1. ASSUME NEW a \in Actor, Reserve(a) PROVE DownRests'
  BY <1>1, SMT DEF Reserve
<1>2. ASSUME NEW a \in Actor, Spawn(a) PROVE DownRests'
  BY <1>2, SMT DEF Spawn
<1>3. ASSUME NEW a \in Actor, SpawnFails(a) PROVE DownRests'
  BY <1>3, SMT DEF SpawnFails
<1>4. ASSUME NEW a \in Actor, Track(a) PROVE DownRests'
  BY <1>4, SMT DEF Track
<1>5. ASSUME NEW a \in Actor, StartThreads(a) PROVE DownRests'
  BY <1>5, SMT DEF StartThreads
<1>6. ASSUME NEW a \in Actor, WrapFails(a) PROVE DownRests'
  BY <1>6, SMT DEF WrapFails
<1>7. ASSUME NEW a \in Actor, Undo(a) PROVE DownRests'
  BY <1>7, SMT DEF Undo
<1>8. ASSUME NEW a \in Actor, Register(a) PROVE DownRests'
  BY <1>8, SMT DEF Register
<1>9. ASSUME NEW a \in Actor, Kill(a) PROVE DownRests'
  BY <1>9, SMT DEF Kill, Begin
<1>10. ASSUME NEW a \in Actor, Shutdown(a) PROVE DownRests'
  BY <1>10, SMT DEF Shutdown
<1>11. ASSUME NEW a \in Actor, ShutdownNext(a) PROVE DownRests'
  BY <1>11, SMT DEF ShutdownNext, Begin
<1>12. ASSUME NEW a \in Actor, Terminate(a) PROVE DownRests'
  BY <1>12, SMT DEF Terminate
<1>13. ASSUME NEW a \in Actor, Cleanup(a) PROVE DownRests'
  BY <1>13, SMT DEF Cleanup
<1>14. ASSUME NEW a \in Actor, SeesEnd(a) PROVE DownRests'
  BY <1>14, SMT DEF SeesEnd
<1>15. ASSUME NEW a \in Actor, Escalate(a) PROVE DownRests'
  BY <1>15, SMT DEF Escalate
<1>16. ASSUME NEW a \in Actor, StopsWaiting(a) PROVE DownRests'
  BY <1>16, SMT DEF StopsWaiting
<1>17. ASSUME NEW p \in Process, OfProcess(p) PROVE DownRests'
  BY <1>17, ThreadsFrame, SMT
<1>18. ASSUME Crash PROVE DownRests'
  BY <1>18, SMT DEF Crash
<1>19. ASSUME Open PROVE DownRests'
  BY <1>19, SMT DEF Open
<1>20. ASSUME Opened PROVE DownRests'
  BY <1>20, SMT DEF Opened
<1>21. QED
  BY <1>1, <1>2, <1>3, <1>4, <1>5, <1>6, <1>7, <1>8, <1>9, <1>10, <1>11, <1>12, <1>13, <1>14, <1>15, <1>16, <1>17, <1>18, <1>19, <1>20
     DEF Next, Starts, Killing, Threads, OfProcess

\* Only the dead are reaped.
LEMMA ReapedStep == ASSUME IInv, Next PROVE ReapedDead'
<1> USE DEF IInv, TypeOK, Types, Shape, osVars, ledgerVars, managerVars, actorVars, objectVars,
        Rest, Goes, ReapedDead, ChildGoesOn
<1>1. ASSUME NEW a \in Actor, Reserve(a) PROVE ReapedDead'
  BY <1>1, ChildStep, SMT DEF Reserve
<1>2. ASSUME NEW a \in Actor, Spawn(a) PROVE ReapedDead'
  BY <1>2, ChildStep, SMT DEF Spawn
<1>3. ASSUME NEW a \in Actor, SpawnFails(a) PROVE ReapedDead'
  BY <1>3, ChildStep, SMT DEF SpawnFails
<1>4. ASSUME NEW a \in Actor, Track(a) PROVE ReapedDead'
  BY <1>4, ChildStep, SMT DEF Track
<1>5. ASSUME NEW a \in Actor, StartThreads(a) PROVE ReapedDead'
  BY <1>5, ChildStep, SMT DEF StartThreads
<1>6. ASSUME NEW a \in Actor, WrapFails(a) PROVE ReapedDead'
  BY <1>6, ChildStep, SMT DEF WrapFails
<1>7. ASSUME NEW a \in Actor, Undo(a) PROVE ReapedDead'
  BY <1>7, ChildStep, SMT DEF Undo
<1>8. ASSUME NEW a \in Actor, Register(a) PROVE ReapedDead'
  BY <1>8, ChildStep, SMT DEF Register
<1>9. ASSUME NEW a \in Actor, Kill(a) PROVE ReapedDead'
  BY <1>9, ChildStep, SMT DEF Kill, Begin
<1>10. ASSUME NEW a \in Actor, Shutdown(a) PROVE ReapedDead'
  BY <1>10, ChildStep, SMT DEF Shutdown
<1>11. ASSUME NEW a \in Actor, ShutdownNext(a) PROVE ReapedDead'
  BY <1>11, ChildStep, SMT DEF ShutdownNext, Begin
<1>12. ASSUME NEW a \in Actor, Terminate(a) PROVE ReapedDead'
  BY <1>12, ChildStep, SMT DEF Terminate
<1>13. ASSUME NEW a \in Actor, Cleanup(a) PROVE ReapedDead'
  BY <1>13, ChildStep, SMT DEF Cleanup
<1>14. ASSUME NEW a \in Actor, SeesEnd(a) PROVE ReapedDead'
  BY <1>14, ChildStep, SMT DEF SeesEnd
<1>15. ASSUME NEW a \in Actor, Escalate(a) PROVE ReapedDead'
  BY <1>15, ChildStep, SMT DEF Escalate
<1>16. ASSUME NEW a \in Actor, StopsWaiting(a) PROVE ReapedDead'
  BY <1>16, ChildStep, SMT DEF StopsWaiting
<1>17. ASSUME NEW p \in Process, Reap(p) PROVE ReapedDead'
  BY <1>17, ChildStep, SMT DEF Reap, Waits
<1>18. ASSUME NEW p \in Process, Drained(p) PROVE ReapedDead'
  BY <1>18, ChildStep, SMT DEF Drained, Waits
<1>19. ASSUME NEW p \in Process, WaiterCleans(p) PROVE ReapedDead'
  BY <1>19, ChildStep, SMT DEF WaiterCleans, Waits
<1>20. ASSUME NEW p \in Process, Release(p) PROVE ReapedDead'
  BY <1>20, ChildStep, SMT DEF Release, Waits
<1>21. ASSUME NEW p \in Process, Settle(p) PROVE ReapedDead'
  BY <1>21, ChildStep, SMT DEF Settle, Waits
<1>22. ASSUME NEW p \in Process, Dies(p) PROVE ReapedDead'
  BY <1>22, ChildStep, SMT DEF Dies, System
<1>23. ASSUME NEW p \in Process, Forks(p) PROVE ReapedDead'
  BY <1>23, ChildStep, SMT DEF Forks, System
<1>24. ASSUME NEW p \in Process, KinDies(p) PROVE ReapedDead'
  BY <1>24, ChildStep, SMT DEF KinDies, System
<1>25. ASSUME NEW p \in Process, Scavenge(p) PROVE ReapedDead'
  BY <1>25, ChildStep, SMT DEF Scavenge
<1>26. ASSUME NEW p \in Process, NEW s \in Stream, ReaderEnds(p, s) PROVE ReapedDead'
  BY <1>26, ChildStep, SMT DEF ReaderEnds, Reads
<1>27. ASSUME NEW p \in Process, NEW s \in Stream, ReaderCleans(p, s) PROVE ReapedDead'
  BY <1>27, ChildStep, SMT DEF ReaderCleans, Reads
<1>28. ASSUME NEW p \in Process, NEW s \in Stream, ReaderKills(p, s) PROVE ReapedDead'
  BY <1>28, ChildStep, SMT DEF ReaderKills, Reads
<1>29. ASSUME NEW p \in Process, NEW s \in Stream, ReaderFails(p, s) PROVE ReapedDead'
  BY <1>29, ChildStep, SMT DEF ReaderFails, Reads
<1>30. ASSUME Crash PROVE ReapedDead'
  BY <1>30, ChildStep, SMT DEF Crash
<1>31. ASSUME Open PROVE ReapedDead'
  BY <1>31, ChildStep, SMT DEF Open
<1>32. ASSUME Opened PROVE ReapedDead'
  BY <1>32, ChildStep, SMT DEF Opened
<1>33. QED
  BY <1>1, <1>2, <1>3, <1>4, <1>5, <1>6, <1>7, <1>8, <1>9, <1>10, <1>11, <1>12, <1>13, <1>14, <1>15, <1>16, <1>17, <1>18, <1>19, <1>20, <1>21, <1>22, <1>23, <1>24, <1>25, <1>26, <1>27, <1>28, <1>29, <1>30, <1>31, <1>32
     DEF Next, Starts, Killing, Threads

\* The record of a child outlives it, or SIGKILL follows.
LEMMA RecordStep == ASSUME IInv, Next PROVE RecordUntilGone'
<1> USE DEF IInv, TypeOK, Types, Shape, osVars, ledgerVars, managerVars, actorVars, objectVars,
        Rest, Goes, RecordUntilGone, ReapedDead, KnownSpawned, ChildGoesOn, TargetsKnown, Making
<1>1. ASSUME NEW a \in Actor, Reserve(a) PROVE RecordUntilGone'
  BY <1>1, ChildStep, SMT DEF Reserve
<1>2. ASSUME NEW a \in Actor, Spawn(a) PROVE RecordUntilGone'
  BY <1>2, ChildStep, SMT DEF Spawn
<1>3. ASSUME NEW a \in Actor, SpawnFails(a) PROVE RecordUntilGone'
  BY <1>3, ChildStep, SMT DEF SpawnFails
<1>4. ASSUME NEW a \in Actor, Track(a) PROVE RecordUntilGone'
  BY <1>4, ChildStep, SMT DEF Track
<1>5. ASSUME NEW a \in Actor, StartThreads(a) PROVE RecordUntilGone'
  BY <1>5, ChildStep, SMT DEF StartThreads
<1>6. ASSUME NEW a \in Actor, WrapFails(a) PROVE RecordUntilGone'
  BY <1>6, ChildStep, SMT DEF WrapFails
<1>7. ASSUME NEW a \in Actor, Undo(a) PROVE RecordUntilGone'
  BY <1>7, ChildStep, SMT DEF Undo
<1>8. ASSUME NEW a \in Actor, Register(a) PROVE RecordUntilGone'
  BY <1>8, ChildStep, SMT DEF Register
<1>9. ASSUME NEW a \in Actor, Kill(a) PROVE RecordUntilGone'
  BY <1>9, ChildStep, SMT DEF Kill, Begin
<1>10. ASSUME NEW a \in Actor, Shutdown(a) PROVE RecordUntilGone'
  BY <1>10, ChildStep, SMT DEF Shutdown
<1>11. ASSUME NEW a \in Actor, ShutdownNext(a) PROVE RecordUntilGone'
  BY <1>11, ChildStep, SMT DEF ShutdownNext, Begin
<1>12. ASSUME NEW a \in Actor, Terminate(a) PROVE RecordUntilGone'
  BY <1>12, ChildStep, SMT DEF Terminate
<1>13. ASSUME NEW a \in Actor, Cleanup(a) PROVE RecordUntilGone'
  BY <1>13, ChildStep, SMT DEF Cleanup, Cleaning
<1>14. ASSUME NEW a \in Actor, SeesEnd(a) PROVE RecordUntilGone'
  BY <1>14, ChildStep, SMT DEF SeesEnd
<1>15. ASSUME NEW a \in Actor, Escalate(a) PROVE RecordUntilGone'
  BY <1>15, ChildStep, SMT DEF Escalate, SendKill
<1>16. ASSUME NEW a \in Actor, StopsWaiting(a) PROVE RecordUntilGone'
  BY <1>16, ChildStep, SMT DEF StopsWaiting
<1>17. ASSUME NEW p \in Process, Reap(p) PROVE RecordUntilGone'
  BY <1>17, ChildStep, SMT DEF Reap, Waits
<1>18. ASSUME NEW p \in Process, Drained(p) PROVE RecordUntilGone'
  BY <1>18, ChildStep, SMT DEF Drained, Waits
<1>19. ASSUME NEW p \in Process, WaiterCleans(p) PROVE RecordUntilGone'
  BY <1>19, ChildStep, SMT DEF WaiterCleans, Waits, Cleaning
<1>20. ASSUME NEW p \in Process, Release(p) PROVE RecordUntilGone'
  BY <1>20, ChildStep, SMT DEF Release, Waits
<1>21. ASSUME NEW p \in Process, Settle(p) PROVE RecordUntilGone'
  BY <1>21, ChildStep, SMT DEF Settle, Waits
<1>22. ASSUME NEW p \in Process, Dies(p) PROVE RecordUntilGone'
  BY <1>22, ChildStep, SMT DEF Dies, System
<1>23. ASSUME NEW p \in Process, Forks(p) PROVE RecordUntilGone'
  BY <1>23, ChildStep, SMT DEF Forks, System
<1>24. ASSUME NEW p \in Process, KinDies(p) PROVE RecordUntilGone'
  BY <1>24, ChildStep, SMT DEF KinDies, System
<1>25. ASSUME NEW p \in Process, Scavenge(p) PROVE RecordUntilGone'
  BY <1>25, ChildStep, SMT DEF Scavenge, Misreads, Terminates, Refused, Absent, Cleaning, SendKill
<1>26. ASSUME NEW p \in Process, NEW s \in Stream, ReaderEnds(p, s) PROVE RecordUntilGone'
  BY <1>26, ChildStep, SMT DEF ReaderEnds, Reads
<1>27. ASSUME NEW p \in Process, NEW s \in Stream, ReaderCleans(p, s) PROVE RecordUntilGone'
  BY <1>27, ChildStep, SMT DEF ReaderCleans, Reads
<1>28. ASSUME NEW p \in Process, NEW s \in Stream, ReaderKills(p, s) PROVE RecordUntilGone'
  BY <1>28, ChildStep, SMT DEF ReaderKills, Reads, SendKill, Cleaning
<1>29. ASSUME NEW p \in Process, NEW s \in Stream, ReaderFails(p, s) PROVE RecordUntilGone'
  BY <1>29, ChildStep, SMT DEF ReaderFails, Reads
<1>30. ASSUME Crash PROVE RecordUntilGone'
  BY <1>30, ChildStep, SMT DEF Crash
<1>31. ASSUME Open PROVE RecordUntilGone'
  BY <1>31, ChildStep, SMT DEF Open
<1>32. ASSUME Opened PROVE RecordUntilGone'
  BY <1>32, ChildStep, SMT DEF Opened
<1>33. QED
  BY <1>1, <1>2, <1>3, <1>4, <1>5, <1>6, <1>7, <1>8, <1>9, <1>10, <1>11, <1>12, <1>13, <1>14, <1>15, <1>16, <1>17, <1>18, <1>19, <1>20, <1>21, <1>22, <1>23, <1>24, <1>25, <1>26, <1>27, <1>28, <1>29, <1>30, <1>31, <1>32
     DEF Next, Starts, Killing, Threads

-----------------------------------------------------------------------------
(* The theorems *)

LEMMA InvInit == Init => IInv
<1> SUFFICES ASSUME Init PROVE IInv
  OBVIOUS
<1> USE TerminalsAssumption DEF Init
<1>1. Types
  BY SMT DEF Types, AllModes, Terminal, Stream, NoReader
<1>2. Starters = {} /\ Live = {}
  BY DEF Starters, Live
<1>3. pending = Cardinality(Starters) /\ PlacesCounted
  BY <1>2, FS_EmptySet DEF PlacesCounted
<1>4. Shape
  BY DEF Shape, TargetsKnown, Making, Ending, RunningPlaced, KnownSpawned, DownRests, ReapedDead, RecordUntilGone
<1>5. QED
  BY <1>1, <1>3, <1>4 DEF IInv, TypeOK

LEMMA InvStep == ASSUME IInv, [Next]_vars PROVE IInv'
<1>1. CASE Next
  <2>1. Shape'
    BY <1>1, TargetsStep, RunningStep, SpawnedStep, RestsStep, ReapedStep, RecordStep DEF Shape
  <2>2. QED
    BY <1>1, <2>1, TypesStep, PlacesStep DEF IInv, TypeOK
<1>2. CASE UNCHANGED vars
  <2>1. /\ UNCHANGED <<mode, child, kin, doomed, mishaps, record, tracked, stale, lost>>
        /\ UNCHANGED <<session, crashes, known, pending, at, target, todo>>
        /\ UNCHANGED <<status, killed, failed, locked, cleaned, reader, waiter>>
    BY <1>2 DEF vars, osVars, ledgerVars, managerVars, actorVars, objectVars
  <2>2. TypeOK'
    BY <2>1 DEF IInv, TypeOK, Types, Starters
  <2>3. PlacesCounted'
    BY <2>1 DEF IInv, PlacesCounted, Starters, Live, Ended
  <2>4. Shape'
    BY <2>1, Zenon
       DEF IInv, Shape, TargetsKnown, RunningPlaced, KnownSpawned, DownRests, ReapedDead, RecordUntilGone
  <2>5. QED
    BY <2>2, <2>3, <2>4 DEF IInv
<1>3. QED
  BY <1>1, <1>2

LEMMA Invariant == Spec => []IInv
<1>1. IInv /\ [Next]_vars => IInv'
  BY InvStep
<1>2. QED
  BY <1>1, InvInit, PTL DEF Spec

\* Types, and the pending starts are those that are under way, crashes and
\* failures included: no place is lost or given back twice.
THEOREM TypeCorrect == Spec => []TypeOK
<1>1. IInv => TypeOK
  BY DEF IInv
<1>2. QED
  BY <1>1, Invariant, PTL

\* No more processes run than background_max_concurrent, for any number of
\* threads that start and end them.
THEOREM LimitHolds == Spec => []LimitKept
<1>1. ASSUME IInv PROVE LimitKept
  <2> DEFINE Wrapping == {a \in Starters : at[a] # "spawn"}
             Taken == {target[a] : a \in Wrapping}
             Running == {p \in Process : status[p] = "running" \/ \E a \in Actor : at[a] = "wrap" /\ target[a] = p}
  <2> HIDE DEF Wrapping, Taken, Running
  <2>1. IsFiniteSet(Starters) /\ IsFiniteSet(Live) /\ Cardinality(Live) + Cardinality(Starters) <= Max
    BY <1>1 DEF IInv, PlacesCounted
  <2>2. IsFiniteSet(Wrapping) /\ Cardinality(Wrapping) <= Cardinality(Starters)
    BY <2>1, FS_Subset DEF Wrapping
  <2>3. IsFiniteSet(Taken) /\ Cardinality(Taken) <= Cardinality(Wrapping)
    <3>1. [a \in Wrapping |-> target[a]] \in Surjection(Wrapping, Taken)
      BY DEF Taken, Surjection
    <3>2. QED
      BY <2>2, <3>1, FS_Surjection
  <2>4. Running \subseteq Live \cup Taken
    <3>1. ASSUME NEW p \in Running PROVE p \in Live \cup Taken
      <4>1. CASE \E a \in Actor : at[a] \in {"wrap", "threads", "register"} /\ target[a] = p
        BY <4>1 DEF Taken, Wrapping, Starters
      <4>2. CASE p \in known /\ status[p] = "running"
        BY <4>2 DEF Live, Ended, Terminal
      <4>3. QED
        BY <1>1, <3>1, <4>1, <4>2 DEF Running, IInv, Shape, RunningPlaced
    <3>2. QED
      BY <3>1
  <2>5. /\ IsFiniteSet(Live \cup Taken)
        /\ Cardinality(Live \cup Taken) <= Cardinality(Live) + Cardinality(Taken)
    <3>1. /\ IsFiniteSet(Live \cup Taken)
          /\ Cardinality(Live \cup Taken) = Cardinality(Live) + Cardinality(Taken) - Cardinality(Live \cap Taken)
      BY <2>1, <2>3, FS_Union
    <3>2. IsFiniteSet(Live \cap Taken)
      BY <2>1, FS_Intersection
    <3>3. Cardinality(Live \cap Taken) \in Nat /\ Cardinality(Live) \in Nat /\ Cardinality(Taken) \in Nat
      BY <2>1, <2>3, <3>2, FS_CardinalityType
    <3>4. QED
      BY <3>1, <3>3
  <2>6. IsFiniteSet(Running) /\ Cardinality(Running) <= Cardinality(Live \cup Taken)
    BY <2>4, <2>5, FS_Subset
  <2>7. Cardinality(Running) <= Max
    <3>1. /\ Cardinality(Running) \in Nat /\ Cardinality(Live \cup Taken) \in Nat /\ Cardinality(Taken) \in Nat
          /\ Cardinality(Live) \in Nat /\ Cardinality(Starters) \in Nat /\ Cardinality(Wrapping) \in Nat
      BY <2>1, <2>2, <2>3, <2>5, <2>6, FS_CardinalityType
    <3>2. QED
      BY <2>1, <2>2, <2>3, <2>5, <2>6, <3>1, TerminalsAssumption
  <2>8. QED
    BY <2>7 DEF LimitKept, Running
<1>2. QED
  BY <1>1, Invariant, PTL

\* A recorded child keeps its record until it is dead or doomed, whoever ends it
\* and however often the session dies, unless a later session found the record
\* unreadable or could not remove its container.
THEOREM RecordsLast == Spec => []RecordUntilGone
<1>1. IInv => RecordUntilGone
  BY DEF IInv, Shape
<1>2. QED
  BY <1>1, Invariant, PTL
=============================================================================
