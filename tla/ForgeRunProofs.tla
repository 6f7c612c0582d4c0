--------------------------- MODULE ForgeRunProofs ---------------------------
(***************************************************************************)
(* What holds of a workspace's run for any number of terminals, any plan   *)
(* and any number of commands, as long as edits and resumes are given      *)
(* alone and no command starts from a plan that has changed since it was   *)
(* loaded.                                                                 *)
(***************************************************************************)
EXTENDS ForgeRun, TLAPS

\* The types, action by action.
LEMMA TypeInit == Init => TypeOK
<1> SUFFICES ASSUME Init PROVE TypeOK
  OBVIOUS
<1>1. plan \in Plan
  BY ForgeAssumption, SMT DEF Init, Plan, Fresh, Def, TaskStatus
<1>2. QED
  BY <1>1, ForgeAssumption, SMT DEF Init, GuardInit, TypeOK, Actor, Labels, Plan, Pointer, Fresh, Approved,
     Nothing, Def, TaskStatus, RunStatus, Keep

USE DEF Def, Keep

\* A save stores the plan, and either leaves the pointer as it is, or goes on to rewrite
\* that of a run which is not completed, with the fingerprint of this plan if it runs.
LEMMA Saved ==
  ASSUME TypeOK, NEW p \in Proc, NEW pl \in Plan, NEW next, Save(p, pl, next)
  PROVE  /\ mem' = [mem EXCEPT ![p] = pl] /\ plan' = pl
         /\ \/ /\ Goto(p, next) /\ seen' = seen /\ todo' = todo
               /\ pl = plan \/ (pointer.status = "running" => pointer.fp = pl.def)
            \/ /\ Goto(p, "sync")
               /\ todo' = [todo EXCEPT ![p].then = next]
               /\ seen' = [seen EXCEPT ![p] = seen'[p]] /\ seen'[p] \in Pointer
               /\ seen'[p].status # "completed"
               /\ seen'[p].status = "running" => seen'[p].fp = pl.def
<1>1. mem' = [mem EXCEPT ![p] = pl] /\ plan' = pl
  BY DEF Save, Overwrite
<1>2. PICK want \in Synced(pointer, pl) \cup (IF pl = plan THEN {pointer} ELSE {}) :
         \/ want = pointer /\ Goto(p, next) /\ UNCHANGED <<seen, todo>>
         \/ /\ want # pointer
            /\ seen' = [seen EXCEPT ![p] = want]
            /\ todo' = [todo EXCEPT ![p].then = next]
            /\ Goto(p, "sync")
  BY DEF Save
<1>3. CASE want = pointer
  <2>1. pl = plan \/ (pointer.status = "running" => pointer.fp = pl.def)
    BY <1>2, <1>3 DEF Synced, Pointer, TypeOK
  <2>2. QED
    BY <1>1, <1>2, <1>3, <2>1
<1>4. CASE want # pointer
  <2>1. /\ want \in Pointer /\ want.status # "completed"
        /\ want.status = "running" => want.fp = pl.def
    BY <1>2, <1>4 DEF Synced, Pointer, RunStatus, Plan, TypeOK
  <2>2. seen' = [seen EXCEPT ![p] = want]
    BY <1>2, <1>4
  <2>3. seen'[p] = want
    BY <2>2 DEF TypeOK, Actor
  <2>4. QED
    BY <1>1, <1>2, <1>4, <2>1, <2>2, <2>3
<1>5. QED
  BY <1>3, <1>4

\* What saves and records assign.
LEMMA SaveTypes ==
  ASSUME TypeOK, NEW p \in Proc, NEW pl \in Plan, NEW next \in Labels, Save(p, pl, next)
  PROVE  /\ mem' \in [Proc -> Plan]
         /\ plan' \in Plan
         /\ seen' \in [Actor -> Pointer]
         /\ todo' \in [Proc -> [status : RunStatus, fp : Def \cup {Keep}, then : Labels]]
         /\ pc' \in [Actor -> Labels]
<1>1. /\ mem' = [mem EXCEPT ![p] = pl] /\ plan' = pl
      /\ seen' = seen \/ (seen' = [seen EXCEPT ![p] = seen'[p]] /\ seen'[p] \in Pointer)
      /\ todo' = todo \/ todo' = [todo EXCEPT ![p].then = next]
      /\ pc' = [pc EXCEPT ![p] = next] \/ pc' = [pc EXCEPT ![p] = "sync"]
  BY Saved, Zenon DEF Goto
<1>2. mem' \in [Proc -> Plan] /\ plan' \in Plan
  BY <1>1 DEF TypeOK
<1>3. seen' \in [Actor -> Pointer]
  BY <1>1 DEF TypeOK
<1>4. todo' \in [Proc -> [status : RunStatus, fp : Def \cup {Keep}, then : Labels]]
  BY <1>1 DEF TypeOK
<1>5. pc' \in [Actor -> Labels]
  BY <1>1 DEF TypeOK, Labels
<1>6. QED
  BY <1>2, <1>3, <1>4, <1>5

LEMMA RecordTypes ==
  ASSUME TypeOK, NEW p \in Proc, NEW status \in RunStatus, NEW fp \in Def \cup {Keep},
         NEW next \in Labels, Record(p, status, fp, next)
  PROVE  /\ todo' \in [Proc -> [status : RunStatus, fp : Def \cup {Keep}, then : Labels]]
         /\ pc' \in [Actor -> Labels]
  BY DEF TypeOK, Record, Goto, Actor, Labels

LEMMA PlanTypes ==
  ASSUME NEW pl \in Plan
  PROVE  /\ \A t, s : s \in TaskStatus => With(pl, t, s) \in Plan
         /\ \A d \in Def : [pl EXCEPT !.def = d] \in Plan
         /\ Rearmed(pl) \in Plan
  BY DEF Plan, With, Rearmed, TaskStatus

\* A step of a command, or of the viewer, keeps the types.
LEMMA TypeStep == ASSUME TypeOK, [Next]_vars PROVE TypeOK'
<1> USE ForgeAssumption DEF Actor, Labels, Pointer, TaskStatus, RunStatus, Goto
<1>1. ASSUME NEW p \in Proc, Start(p) PROVE TypeOK'
  BY <1>1, SMT DEF TypeOK, Start, work
<1>2. ASSUME NEW a \in Actor, Look(a) PROVE TypeOK'
  BY <1>2, SMT DEF TypeOK, Look, work, Shown
<1>3. ASSUME NEW a \in Actor, Probe(a) PROVE TypeOK'
  BY <1>3, SMT DEF TypeOK, Probe, work, Shown
<1>4. ASSUME NEW a \in Actor, Demote(a) PROVE TypeOK'
  BY <1>4, SMT DEF TypeOK, Demote, work, Shown
<1>5. ASSUME NEW p \in Proc, Load(p) PROVE TypeOK'
  <2>1. mem' \in [Proc -> Plan] /\ task' \in [Proc -> Task \cup {None}]
    <3>1. mem' = [mem EXCEPT ![p] = plan]
      BY <1>5 DEF Load
    <3>2. task' \in [Proc -> Task \cup {None}]
      <4>1. CASE task' = task
        BY <4>1 DEF TypeOK
      <4>2. ASSUME NEW t \in Task, task' = [task EXCEPT ![p] = t] PROVE task' \in [Proc -> Task \cup {None}]
        BY <4>2 DEF TypeOK
      <4>3. QED
        BY <1>5, <4>1, <4>2, Zenon DEF Load
    <3>3. QED
      BY <3>1, <3>2 DEF TypeOK
  <2>2. PICK l \in {"ask", "judge", "edit", "end"} : pc' = [pc EXCEPT ![p] = l]
    BY <1>5, Zenon DEF Load
  <2>3. pc' \in [Actor -> Labels]
    BY <2>2 DEF TypeOK
  <2>4. QED
    BY <1>5, <2>1, <2>3, Zenon DEF TypeOK, Load
<1>6. ASSUME NEW p \in Proc, Edit(p) PROVE TypeOK'
  <2>1. PICK t \in Task, s \in TaskStatus, d \in Versions(mem[p].def) :
          LET pl == With([mem[p] EXCEPT !.def = d], t, s) IN
          /\ Amend(mem[p].def, d)
          /\ \/ Save(p, pl, "end")
             \/ Overwrite(p, pl) /\ Goto(p, "end") /\ UNCHANGED <<seen, todo>>
    BY <1>6, Zenon DEF Edit
  <2> DEFINE pl == With([mem[p] EXCEPT !.def = d], t, s)
  <2>2. pl \in Plan
    <3>1. [mem[p] EXCEPT !.def = d] \in Plan
      BY PlanTypes DEF TypeOK, Versions
    <3>2. QED
      BY <3>1, PlanTypes
  <2>3. edits' \in Def
    BY <2>1 DEF Amend, Versions, TypeOK
  <2> HIDE DEF pl
  <2>4. CASE Save(p, pl, "end")
    BY <1>6, <2>2, <2>3, <2>4, SaveTypes, Zenon DEF TypeOK, Edit, work
  <2>5. CASE Overwrite(p, pl) /\ Goto(p, "end") /\ UNCHANGED <<seen, todo>>
    <3>1. mem' \in [Proc -> Plan] /\ plan' \in Plan /\ pc' \in [Actor -> Labels]
      BY <2>2, <2>5 DEF TypeOK, Overwrite
    <3>2. QED
      BY <1>6, <2>3, <2>5, <3>1, Zenon DEF TypeOK, Edit, work
  <2>6. QED
    BY <2>1, <2>4, <2>5 DEF pl
<1>7. ASSUME NEW p \in Proc, Judge(p) PROVE TypeOK'
  <2>1. mem[p].def \in Def
    BY DEF TypeOK, Plan
  <2>2. CASE Record(p, "approved", mem[p].def, "rearm")
    BY <1>7, <2>1, <2>2, RecordTypes DEF TypeOK, Judge, work
  <2>3. CASE UNCHANGED todo /\ (Goto(p, "end") \/ Goto(p, "rearm"))
    <3>1. pc' \in [Actor -> Labels]
      BY <2>3 DEF TypeOK
    <3>2. QED
      BY <1>7, <2>3, <3>1, Zenon DEF TypeOK, Judge, work
  <2>4. QED
    BY <1>7, <2>2, <2>3 DEF Judge
<1>8. ASSUME NEW p \in Proc, Rearm(p) PROVE TypeOK'
  <2>1. CASE Save(p, Rearmed(mem[p]), "remaining")
    <3>1. mem[p] \in Plan
      BY DEF TypeOK
    <3>2. QED
      BY <1>8, <2>1, <3>1, SaveTypes, PlanTypes DEF TypeOK, Rearm, work
  <2>2. CASE Goto(p, "remaining") /\ UNCHANGED <<mem, plan, seen, todo>>
    <3>1. pc' \in [Actor -> Labels]
      BY <2>2 DEF TypeOK
    <3>2. QED
      BY <1>8, <2>2, <3>1, Zenon DEF TypeOK, Rearm, work
  <2>3. QED
    BY <1>8, <2>1, <2>2 DEF Rearm
<1>9. ASSUME NEW p \in Proc, Remaining(p) PROVE TypeOK'
  <2>1. CASE Record(p, "completed", Keep, "end")
    BY <1>9, <2>1, RecordTypes DEF TypeOK, Remaining, work
  <2>2. CASE Goto(p, "look") /\ UNCHANGED todo /\ cmd' = [cmd EXCEPT ![p] = "rerun"]
    <3>1. pc' \in [Actor -> Labels] /\ cmd' \in [Proc -> Commands \cup {"none", "rerun"}]
      BY <2>2 DEF TypeOK
    <3>2. QED
      BY <1>9, <2>2, <3>1, Zenon DEF TypeOK, Remaining, work
  <2>3. QED
    BY <1>9, <2>1, <2>2 DEF Remaining
<1>10. ASSUME NEW p \in Proc, Ask(p) PROVE TypeOK'
  <2>1. holder' \in Proc \cup {None} /\ waited' \subseteq Proc
    BY <1>10 DEF TypeOK, Ask, Take
  <2>2. pc' \in [Actor -> Labels]
    <3>1. pc' = pc \/ pc' = [pc EXCEPT ![p] = "got"]
      BY <1>10 DEF Ask
    <3>2. QED
      BY <3>1 DEF TypeOK
  <2>3. QED
    BY <1>10, <2>1, <2>2, Zenon DEF TypeOK, Ask, work
<1>11. ASSUME NEW p \in Proc, GiveUp(p) PROVE TypeOK'
  BY <1>11, SMT DEF TypeOK, GiveUp, work
<1>12. ASSUME NEW p \in Proc, Got(p) PROVE TypeOK'
  BY <1>12, SMT DEF TypeOK, Got, work, Record, Plan
<1>13. ASSUME NEW p \in Proc, Refuse(p) PROVE TypeOK'
  BY <1>13, SMT DEF TypeOK, Refuse, work
<1>14. ASSUME NEW p \in Proc, Begin(p) PROVE TypeOK'
  <2>1. PICK t \in Candidates(p) :
          /\ task' = [task EXCEPT ![p] = t]
          /\ tried' = [tried EXCEPT ![p] = @ \cup {t}]
          /\ Save(p, With(mem[p], t, "in_progress"), "working")
    BY <1>14 DEF Begin
  <2>2. t \in Task
    BY <1>14 DEF TypeOK, Candidates, Begin
  <2>3. With(mem[p], t, "in_progress") \in Plan
    BY <2>2, PlanTypes DEF TypeOK
  <2>4. task' \in [Proc -> Task \cup {None}] /\ tried' \in [Proc -> SUBSET Task]
    BY <2>1, <2>2 DEF TypeOK
  <2>5. QED
    BY <1>14, <2>1, <2>3, <2>4, SaveTypes, Zenon DEF TypeOK, Begin
<1>15. ASSUME NEW p \in Proc, Stop(p) PROVE TypeOK'
  BY <1>15, SMT DEF TypeOK, Stop, work
<1>16. ASSUME NEW p \in Proc, Work(p) PROVE TypeOK'
  <2>1. PICK verdict \in {"done", "failed"}, d \in Versions(mem[p].def), keepGoing \in BOOLEAN :
          /\ Amend(mem[p].def, d)
          /\ bad' = IF verdict = "failed" THEN bad \cup {p} ELSE bad
          /\ Save(p, With([mem[p] EXCEPT !.def = d], task[p], verdict),
                  IF verdict = "failed" /\ ~keepGoing THEN "conclude" ELSE "next")
    BY <1>16, Zenon DEF Work
  <2>2. edits' \in Def /\ bad' \subseteq Proc
    BY <2>1 DEF TypeOK, Versions, Amend
  <2>3. With([mem[p] EXCEPT !.def = d], task[p], verdict) \in Plan
    <3>1. [mem[p] EXCEPT !.def = d] \in Plan
      BY PlanTypes DEF TypeOK, Versions
    <3>2. QED
      BY <3>1, <2>1, PlanTypes DEF TaskStatus
  <2>4. (IF verdict = "failed" /\ ~keepGoing THEN "conclude" ELSE "next") \in Labels
    BY Zenon
  <2>5. QED
    BY <1>16, <2>1, <2>2, <2>3, <2>4, SaveTypes, Zenon DEF TypeOK, Work
<1>17. ASSUME NEW p \in Proc, Raise(p) PROVE TypeOK'
  BY <1>17, SMT DEF TypeOK, Raise, work
<1>18. ASSUME NEW p \in Proc, Conclude(p) PROVE TypeOK'
  <2>1. TerminalStatus(p) \in RunStatus
    BY DEF TerminalStatus
  <2>2. QED
    <3>1. Record(p, TerminalStatus(p), Keep, "leave")
      BY <1>18, Zenon DEF Conclude
    <3>2. /\ todo' \in [Proc -> [status : RunStatus, fp : Def \cup {Keep}, then : Labels]]
          /\ pc' \in [Actor -> Labels]
      BY <2>1, <3>1, RecordTypes
    <3>3. QED
      BY <1>18, <3>2, Zenon DEF TypeOK, Conclude, work
<1>19. ASSUME NEW p \in Proc, Leave(p) PROVE TypeOK'
  <2>1. CASE Record(p, "interrupted", Keep, "release")
    BY <1>19, <2>1, RecordTypes DEF TypeOK, Leave, work
  <2>2. CASE Goto(p, "release") /\ UNCHANGED todo
    <3>1. pc' \in [Actor -> Labels]
      BY <2>2 DEF TypeOK
    <3>2. QED
      BY <1>19, <2>2, <3>1, Zenon DEF TypeOK, Leave, work
  <2>3. QED
    BY <1>19, <2>1, <2>2 DEF Leave
<1>20. ASSUME NEW p \in Proc, Release(p) PROVE TypeOK'
  BY <1>20, SMT DEF TypeOK, Release, work, Give
<1>21. ASSUME NEW p \in Proc, Stamp(p) PROVE TypeOK'
  BY <1>21, SMT DEF TypeOK, Stamp, work
<1>22. ASSUME NEW p \in Proc, Put(p) PROVE TypeOK'
  <2>1. pointer' \in Pointer
    BY <1>22 DEF TypeOK, Put
  <2>2. todo' \in [Proc -> [status : RunStatus, fp : Def \cup {Keep}, then : Labels]]
    BY <1>22 DEF TypeOK, Put, Nothing
  <2>3. pc' \in [Actor -> Labels]
    BY <1>22 DEF TypeOK, Put
  <2>4. QED
    BY <1>22, <2>1, <2>2, <2>3, Zenon DEF TypeOK, Put, work
<1>23. ASSUME NEW p \in Proc, Sync(p) PROVE TypeOK'
  <2>1. pointer' \in Pointer
    BY <1>23 DEF TypeOK, Sync
  <2>2. todo' \in [Proc -> [status : RunStatus, fp : Def \cup {Keep}, then : Labels]]
    BY <1>23 DEF TypeOK, Sync, Nothing
  <2>3. pc' \in [Actor -> Labels]
    BY <1>23 DEF TypeOK, Sync
  <2>4. QED
    BY <1>23, <2>1, <2>2, <2>3, Zenon DEF TypeOK, Sync, work
<1>24. ASSUME NEW p \in Proc, Exit(p) PROVE TypeOK'
  BY <1>24, SMT DEF TypeOK, Exit, Forget, Plan, Fresh, Approved, Nothing
<1>25. ASSUME NEW p \in Proc, Crash(p) PROVE TypeOK'
  BY <1>25, SMT DEF TypeOK, Crash, Give, Forget, Plan, Fresh, Approved, Nothing
<1>26. ASSUME UNCHANGED vars PROVE TypeOK'
  BY <1>26, SMT DEF TypeOK, vars
<1>27. ASSUME NEW p \in Proc, Reload(p) PROVE TypeOK'
  <2>1. Reloaded(p) \in Plan
    BY DEF Reloaded, TypeOK
  <2>2. CASE mem' = [mem EXCEPT ![p] = Reloaded(p)] /\ Goto(p, "check")
               /\ UNCHANGED <<plan, edits, seen, todo>>
    <3>1. mem' \in [Proc -> Plan] /\ pc' \in [Actor -> Labels]
      BY <2>1, <2>2 DEF TypeOK
    <3>2. QED
      BY <1>27, <2>2, <3>1, Zenon DEF TypeOK, Reload, work
  <2>3. CASE edits < MaxEdit /\ edits' = edits + 1
               /\ Save(p, [Reloaded(p) EXCEPT !.def = edits'], "check")
    <3>1. edits' \in Def
      BY <2>3, SMT DEF TypeOK
    <3>2. [Reloaded(p) EXCEPT !.def = edits'] \in Plan
      BY <2>1, <3>1, PlanTypes
    <3>3. QED
      BY <1>27, <2>3, <3>1, <3>2, SaveTypes, Zenon DEF TypeOK, Reload, work
  <2>4. QED
    BY <1>27, <2>2, <2>3 DEF Reload
<1>28. QED
  BY <1>1, <1>2, <1>3, <1>4, <1>5, <1>6, <1>7, <1>8, <1>9, <1>10, <1>11, <1>12, <1>13, <1>14,
     <1>15, <1>16, <1>17, <1>18, <1>19, <1>20, <1>21, <1>22, <1>23, <1>24, <1>25, <1>26, <1>27
     DEF Next, Step, View

\* The variables of the run, and those of its commands, have their types.
THEOREM TypeCorrect == Spec => []TypeOK
  BY TypeInit, TypeStep, PTL DEF Spec

-----------------------------------------------------------------------------
(* The inductive invariant *)

Undisturbed == "overlap" \notin Faults /\ "stale" \notin Faults

Guarded == {"got", "check", "next", "working", "conclude", "leave", "release"}
\* Steps of the commands that need no guard, and steps of writing.
Private == {"judge", "rearm", "remaining", "edit"}
Writing == {"stamp", "put"}
Detour == Writing \cup {"sync"}

Free(p) == cmd[p] \in Unguarded
Busy(p) == pc[p] \in Guarded \/ (pc[p] \in Detour /\ ~Free(p))

\* Where a command is, and where it goes on after a detour.
Course(p) ==
    /\ pc[p] \in Private => Free(p)
    /\ pc[p] \in Guarded \cup {"ask"} => ~Free(p)
    /\ pc[p] \in Writing /\ Free(p) => todo[p].then \in {"rearm", "end"}
    /\ pc[p] \in Writing /\ ~Free(p) => todo[p].then \in {"next", "leave", "release"}
    /\ pc[p] = "sync" /\ Free(p) => todo[p].then \in {"remaining", "end"}
    /\ pc[p] = "sync" /\ ~Free(p) => todo[p].then \in {"check", "next", "working", "conclude"}
    /\ pc[p] \in Writing /\ todo[p].status = "completed" => Unfinished(mem[p].st) = {}
    /\ pc[p] \in Writing /\ todo[p].then = "next" =>
         todo[p].status = "running" /\ todo[p].fp = mem[p].def
    /\ pc[p] = "sync" => /\ seen[p].status # "completed"
                         /\ seen[p].status = "running" => seen[p].fp = mem[p].def

\* What a command may count on: the guard, its plan, and the pointer of its run.
Knows(p) ==
    /\ Busy(p) => holder = p
    /\ pc[p] \in Private \cup Detour \cup (Guarded \ {"got"}) => mem[p] = plan
    /\ pc[p] = "got" /\ p \notin waited => mem[p] = plan
    /\ pc[p] \in {"next", "working", "conclude"} =>
         /\ pointer.status # "completed"
         /\ pointer.status = "running" => pointer.fp = mem[p].def

OneAlone == \A p \in Proc : Free(p) /\ ~Idle(p) => \A q \in Proc \ {p} : Idle(q)

Inv ==
    /\ TypeOK
    /\ OneAlone
    /\ \A p \in Proc : Course(p) /\ Knows(p)

\* A step of p that leaves what q is doing alone.
Same(q) ==
    /\ pc'[q] = pc[q] /\ cmd'[q] = cmd[q] /\ mem'[q] = mem[q]
    /\ todo'[q] = todo[q] /\ seen'[q] = seen[q]
    /\ q \in waited' <=> q \in waited

\* While a command is alone or has the guard, no other relies on plan or pointer.
LEMMA OthersOfWriter ==
  ASSUME Inv, NEW p \in Proc, Busy(p) \/ (Free(p) /\ ~Idle(p)),
         NEW q \in Proc \ {p}, Same(q)
  PROVE  Course(q)' /\ Knows(q)'
<1>1. ~Busy(q) /\ ~(Free(q) /\ ~Idle(q))
  BY DEF Inv, Knows, OneAlone, Idle, Busy, Guarded, Detour, Writing
<1>2. pc[q] \notin Private \cup Detour \cup Guarded
  BY <1>1 DEF Inv, Course, Busy, Idle, Private, Detour, Writing, Guarded
<1>3. Course(q)'
  BY DEF Inv, Same, Course, Free
<1>4. Knows(q)'
  BY <1>2 DEF Same, Knows, Busy, Guarded, Private, Detour, Writing
<1>5. QED
  BY <1>3, <1>4

\* A step that touches neither plan nor pointer, except to call a dead run
\* interrupted.
LEMMA OthersOfReader ==
  ASSUME Inv, NEW q \in Proc, Same(q), plan' = plan, holder = q => holder' = q,
         pointer' = pointer \/ pointer'.status = "interrupted"
  PROVE  Course(q)' /\ Knows(q)'
<1>1. Course(q)'
  BY DEF Inv, Same, Course, Free
<1>2. Knows(q)'
  BY DEF Inv, Same, Knows, Busy, Free
<1>3. QED
  BY <1>1, <1>2

\* Commands that go on, or end, leave each other alone.
LEMMA StillAlone ==
  ASSUME Inv, \A q \in Proc : /\ Idle(q) => Idle(q)'
                              /\ Free(q)' /\ ~Idle(q)' => Free(q) /\ ~Idle(q)
  PROVE  OneAlone'
  BY DEF Inv, OneAlone

LEMMA InvInit == Init => Inv
<1> SUFFICES ASSUME Init PROVE Inv
  OBVIOUS
<1>1. TypeOK
  BY TypeInit
<1>2. \A p \in Proc : pc[p] = "idle"
  BY ForgeAssumption DEF Init, Actor
<1>3. OneAlone /\ \A p \in Proc : Course(p) /\ Knows(p)
  BY <1>2 DEF OneAlone, Idle, Course, Knows, Busy, Private, Guarded, Detour, Writing
<1>4. QED
  BY <1>1, <1>3 DEF Inv

\* What is left to show of a step of a command that is alone or has the guard ...
LEMMA WriterStep ==
  ASSUME Inv, [Next]_vars, NEW p \in Proc, Busy(p) \/ (Free(p) /\ ~Idle(p)),
         \A q \in Proc \ {p} : Same(q),
         Free(p)' /\ ~Idle(p)' => Free(p),
         Course(p)' /\ Knows(p)'
  PROVE  Inv'
<1>1. TypeOK'
  BY TypeStep DEF Inv
<1>2. \A q \in Proc : Course(q)' /\ Knows(q)'
  BY OthersOfWriter
<1>3. OneAlone'
  BY StillAlone DEF Same, Free, Idle, Busy, Guarded, Detour, Writing
<1>4. QED
  BY <1>1, <1>2, <1>3 DEF Inv

\* ... and of one that writes neither the plan nor an end of the run.
LEMMA ReaderStep ==
  ASSUME Inv, [Next]_vars, NEW p \in Proc, ~Idle(p),
         \A q \in Proc \ {p} : Same(q) /\ (holder = q => holder' = q),
         Free(p)' /\ ~Idle(p)' => Free(p),
         plan' = plan, pointer' = pointer \/ pointer'.status = "interrupted",
         Course(p)' /\ Knows(p)'
  PROVE  Inv'
<1>1. TypeOK'
  BY TypeStep DEF Inv
<1>2. \A q \in Proc : Course(q)' /\ Knows(q)'
  BY OthersOfReader
<1>3. OneAlone'
  BY StillAlone DEF Same, Free, Idle
<1>4. QED
  BY <1>1, <1>2, <1>3 DEF Inv

\* A save by a command that is alone or has the guard.
LEMMA SaveStep ==
  ASSUME Inv, [Next]_vars, NEW p \in Proc, Busy(p) \/ (Free(p) /\ ~Idle(p)),
         NEW pl \in Plan, NEW next, Save(p, pl, next),
         UNCHANGED <<holder, cmd, waited, pointer>>,
         Free(p) => next \in {"remaining", "end"},
         ~Free(p) => next \in {"check", "next", "working", "conclude"},
         next \in {"next", "working", "conclude"} =>
           pointer.status # "completed" /\ (pointer.status = "running" => pointer.fp = plan.def)
  PROVE  Inv'
<1>1. /\ mem' = [mem EXCEPT ![p] = pl] /\ plan' = pl
      /\ \/ /\ Goto(p, next) /\ seen' = seen /\ todo' = todo
            /\ pl = plan \/ (pointer.status = "running" => pointer.fp = pl.def)
         \/ /\ Goto(p, "sync")
            /\ todo' = [todo EXCEPT ![p].then = next]
            /\ seen' = [seen EXCEPT ![p] = seen'[p]] /\ seen'[p] \in Pointer
            /\ seen'[p].status # "completed"
            /\ seen'[p].status = "running" => seen'[p].fp = pl.def
  BY Saved, Zenon DEF Inv
<1> USE DEF Inv, TypeOK, Actor, Goto
<1>2. Free(p)' <=> Free(p)
  BY DEF Free
<1>3. \A q \in Proc \ {p} : Same(q)
  BY <1>1 DEF Same
<1>4. mem'[p] = pl
  BY <1>1
<1>5. CASE Goto(p, next) /\ seen' = seen /\ todo' = todo
           /\ (pl = plan \/ (pointer.status = "running" => pointer.fp = pl.def))
  <2>1. pc'[p] = next
    BY <1>5
  <2>2. Course(p)'
    BY <1>2, <2>1 DEF Course, Private, Guarded, Detour, Writing
  <2>3. Knows(p)'
    BY <1>1, <1>2, <1>4, <1>5, <2>1 DEF Knows, Busy, Idle, Private, Guarded, Detour, Writing
  <2>4. QED
    BY <1>2, <1>3, <2>2, <2>3, WriterStep
<1>6. CASE /\ Goto(p, "sync") /\ todo' = [todo EXCEPT ![p].then = next]
           /\ seen'[p].status # "completed"
           /\ seen'[p].status = "running" => seen'[p].fp = pl.def
  <2>1. pc'[p] = "sync" /\ todo'[p].then = next
    BY <1>6
  <2>2. Course(p)'
    BY <1>2, <1>4, <1>6, <2>1 DEF Course, Private, Guarded, Detour, Writing
  <2>3. Knows(p)'
    BY <1>1, <1>2, <1>4, <2>1 DEF Knows, Busy, Idle, Private, Guarded, Detour, Writing
  <2>4. QED
    BY <1>2, <1>3, <2>2, <2>3, WriterStep
<1> HIDE DEF Inv, TypeOK, Actor, Goto
<1>7. QED
  BY <1>1, <1>5, <1>6, Zenon

LEMMA ViewerStep ==
  ASSUME Inv, [Next]_vars, View PROVE Inv'
<1>1. TypeOK'
  BY TypeStep DEF Inv
<1>2. /\ plan' = plan /\ holder' = holder
      /\ pointer' = pointer \/ pointer'.status = "interrupted"
  BY DEF View, Look, Probe, Demote, Inv, TypeOK, Pointer, Actor
<1>3. \A q \in Proc : Same(q)
  BY ForgeAssumption DEF View, Look, Probe, Demote, Same, Goto, Inv, TypeOK, Actor, Shown
<1>4. \A q \in Proc : Course(q)' /\ Knows(q)'
  BY <1>2, <1>3, OthersOfReader
<1>5. OneAlone'
  BY <1>3, StillAlone DEF Same, Free, Idle
<1>6. QED
  BY <1>1, <1>4, <1>5 DEF Inv

\* A command that ends, or dies.
LEMMA ForgetStep ==
  ASSUME Inv, [Next]_vars, NEW p \in Proc, ~Idle(p), Forget(p),
         \A q \in Proc \ {p} : holder = q => holder' = q
  PROVE  Inv'
<1>1. pc'[p] = "idle" /\ ~Free(p)'
  BY DEF Forget, Goto, Inv, TypeOK, Actor, Free, Unguarded
<1>2. Course(p)' /\ Knows(p)'
  BY <1>1 DEF Course, Knows, Busy, Guarded, Private, Detour, Writing
<1>3. \A q \in Proc \ {p} : Same(q)
  BY DEF Forget, Goto, Inv, TypeOK, Actor, Same
<1>4. plan' = plan /\ pointer' = pointer
  BY DEF Forget
<1>5. QED
  BY <1>1, <1>2, <1>3, <1>4, ReaderStep

\* The steps of a command, one by one.
LEMMA ReaderSteps ==
  ASSUME Undisturbed, Inv, [Next]_vars, NEW p \in Proc,
         Look(p) \/ Probe(p) \/ Demote(p) \/ Load(p) \/ Ask(p) \/ GiveUp(p)
  PROVE  Inv'
<1> USE ForgeAssumption DEF Inv, TypeOK, Actor, Goto, Shown
<1>1. ~Idle(p) /\ ~Idle(p)'
  BY DEF Look, Probe, Demote, Load, Ask, GiveUp, Idle
<1>2. \A q \in Proc \ {p} : Same(q)
  BY DEF Look, Probe, Demote, Load, Ask, GiveUp, Same
<1>3. \A q \in Proc \ {p} : holder = q => holder' = q
  BY GuardAssumption DEF Look, Probe, Demote, Load, Ask, GiveUp, Take
<1>4. cmd' = cmd /\ plan' = plan
  BY DEF Look, Probe, Demote, Load, Ask, GiveUp
<1>5. pointer' = pointer \/ pointer'.status = "interrupted"
  BY DEF Look, Probe, Demote, Load, Ask, GiveUp, Pointer
<1>6. Course(p)'
  <2>1. CASE Look(p) \/ Probe(p) \/ Demote(p) \/ GiveUp(p)
    BY <2>1 DEF Look, Probe, Demote, GiveUp, Course, Private, Guarded, Writing
  <2>2. CASE Load(p)
    BY <2>2 DEF Load, Course, Private, Guarded, Writing, Free, Unguarded
  <2>3. CASE Ask(p)
    BY <2>3 DEF Ask, Course, Private, Guarded, Writing, Free
  <2>4. QED
    BY <2>1, <2>2, <2>3
<1>7. Knows(p)'
  <2>1. CASE Look(p) \/ Probe(p) \/ Demote(p) \/ GiveUp(p)
    BY <2>1 DEF Look, Probe, Demote, GiveUp, Knows, Busy, Private, Guarded, Detour, Writing
  <2>2. CASE Load(p)
    BY <2>2 DEF Load, Knows, Busy, Private, Guarded, Detour, Writing
  <2>3. CASE Ask(p)
    BY <2>3 DEF Undisturbed, Ask, Take, Knows, Busy, Private, Guarded, Detour, Writing
  <2>4. QED
    BY <2>1, <2>2, <2>3
<1>8. QED
  BY <1>1, <1>2, <1>3, <1>4, <1>5, <1>6, <1>7, ReaderStep DEF Free

LEMMA StartStep ==
  ASSUME Undisturbed, Inv, [Next]_vars, NEW p \in Proc, Start(p) PROVE Inv'
<1> USE ForgeAssumption DEF Inv, TypeOK, Actor, Goto
<1>1. TypeOK'
  BY TypeStep
<1>2. \A q \in Proc \ {p} : Same(q)
  BY DEF Start, Same
<1>3. UNCHANGED <<plan, pointer, holder>>
  BY DEF Start
<1>4. Course(p)' /\ Knows(p)'
  BY DEF Start, Course, Knows, Busy, Private, Guarded, Detour, Writing
<1>5. \A q \in Proc : Course(q)' /\ Knows(q)'
  BY <1>2, <1>3, <1>4, OthersOfReader
<1>6. Alone(p, cmd'[p])
  BY DEF Start, Undisturbed
<1>7. OneAlone'
  BY <1>2, <1>6 DEF OneAlone, Start, Alone, Idle, Free, Same
<1>8. QED
  BY <1>1, <1>5, <1>7, <1>8

LEMMA EditStep ==
  ASSUME Undisturbed, Inv, [Next]_vars, NEW p \in Proc, Edit(p) PROVE Inv'
<1> USE ForgeAssumption DEF Inv, TypeOK, Actor, Goto
<1>1. Free(p) /\ ~Idle(p) /\ UNCHANGED <<holder, cmd, waited, pointer>>
  BY DEF Edit, Course, Idle, Private
<1>2. PICK t \in Task, s \in TaskStatus, d \in Versions(mem[p].def) :
        LET pl == With([mem[p] EXCEPT !.def = d], t, s) IN
        \/ Save(p, pl, "end")
        \/ Overwrite(p, pl) /\ Goto(p, "end") /\ UNCHANGED <<seen, todo>>
  BY Zenon DEF Edit
<1> DEFINE pl == With([mem[p] EXCEPT !.def = d], t, s)
<1>3. pl \in Plan
  <2>1. [mem[p] EXCEPT !.def = d] \in Plan
    BY PlanTypes DEF Versions
  <2>2. QED
    BY <2>1, PlanTypes
<1> HIDE DEF pl
<1>4. CASE Save(p, pl, "end")
  BY <1>1, <1>3, <1>4, SaveStep
<1>5. CASE Overwrite(p, pl) /\ Goto(p, "end") /\ UNCHANGED <<seen, todo>>
  <2>1. \A q \in Proc \ {p} : Same(q)
    BY <1>1, <1>5 DEF Overwrite, Same
  <2>2. Course(p)' /\ Knows(p)'
    BY <1>1, <1>5 DEF Course, Knows, Busy, Private, Guarded, Detour, Writing, Free
  <2>3. QED
    BY <1>1, <2>1, <2>2, WriterStep DEF Free
<1>6. QED
  BY <1>2, <1>4, <1>5 DEF pl

LEMMA JudgeStep ==
  ASSUME Undisturbed, Inv, [Next]_vars, NEW p \in Proc, Judge(p) PROVE Inv'
<1> USE ForgeAssumption DEF Inv, TypeOK, Actor, Goto, Record
<1>1. Busy(p) \/ (Free(p) /\ ~Idle(p))
  BY DEF Judge, Course, Idle, Busy, Private, Guarded, Detour, Writing, Free, Unguarded
<1>2. \A q \in Proc \ {p} : Same(q)
  BY DEF Judge, Same
<1>3. Free(p)' => Free(p)
  BY DEF Judge, Free, Unguarded
<1>4. Course(p)'
  BY DEF Judge, Course, Knows, Busy, Private, Guarded, Detour, Writing, Free, Unguarded
<1>5. Knows(p)'
  BY DEF Judge, Course, Knows, Busy, Private, Guarded, Detour, Writing, Free, Unguarded
<1>6. QED
  BY <1>1, <1>2, <1>3, <1>4, <1>5, WriterStep

LEMMA RearmStep ==
  ASSUME Undisturbed, Inv, [Next]_vars, NEW p \in Proc, Rearm(p) PROVE Inv'
<1> USE ForgeAssumption DEF Inv, TypeOK, Actor, Goto
<1>1. Free(p) /\ ~Idle(p) /\ UNCHANGED <<holder, cmd, waited, pointer>>
  BY DEF Rearm, Course, Idle, Private
<1>2. CASE Save(p, Rearmed(mem[p]), "remaining")
  BY <1>1, <1>2, PlanTypes, SaveStep
<1>3. CASE Goto(p, "remaining") /\ UNCHANGED <<mem, plan, seen, todo>>
  <2>1. \A q \in Proc \ {p} : Same(q)
    BY <1>1, <1>3 DEF Same
  <2>2. Course(p)' /\ Knows(p)'
    BY <1>1, <1>3 DEF Rearm, Course, Knows, Busy, Private, Guarded, Detour, Writing, Free
  <2>3. QED
    BY <1>1, <2>1, <2>2, WriterStep DEF Free
<1>4. QED
  BY <1>2, <1>3 DEF Rearm

LEMMA RemainingStep ==
  ASSUME Undisturbed, Inv, [Next]_vars, NEW p \in Proc, Remaining(p) PROVE Inv'
<1> USE ForgeAssumption DEF Inv, TypeOK, Actor, Goto, Record
<1>1. Busy(p) \/ (Free(p) /\ ~Idle(p))
  BY DEF Remaining, Course, Idle, Busy, Private, Guarded, Detour, Writing, Free, Unguarded
<1>2. \A q \in Proc \ {p} : Same(q)
  BY DEF Remaining, Same
<1>3. Free(p)' => Free(p)
  BY DEF Remaining, Free, Unguarded
<1>4. Course(p)'
  BY DEF Remaining, Course, Knows, Busy, Private, Guarded, Detour, Writing, Free, Unguarded
<1>5. Knows(p)'
  BY DEF Remaining, Course, Knows, Busy, Private, Guarded, Detour, Writing, Free, Unguarded
<1>6. QED
  BY <1>1, <1>2, <1>3, <1>4, <1>5, WriterStep

LEMMA ReloadStep ==
  ASSUME Undisturbed, Inv, [Next]_vars, NEW p \in Proc, Reload(p) PROVE Inv'
<1> USE ForgeAssumption DEF Inv, TypeOK, Actor, Goto
<1>1. Busy(p) /\ ~Free(p) /\ UNCHANGED <<holder, cmd, waited, pointer>>
  BY DEF Reload, Course, Busy, Guarded
<1>2. Reloaded(p) = plan
  BY DEF Reload, Reloaded, Knows
<1>3. CASE mem' = [mem EXCEPT ![p] = Reloaded(p)] /\ Goto(p, "check")
             /\ UNCHANGED <<plan, edits, seen, todo>>
  <2>1. \A q \in Proc \ {p} : Same(q)
    BY <1>1, <1>3 DEF Same
  <2>2. Course(p)' /\ Knows(p)'
    BY <1>1, <1>2, <1>3 DEF Course, Knows, Busy, Private, Guarded, Detour, Writing, Free
  <2>3. QED
    BY <1>1, <2>1, <2>2, WriterStep DEF Free
<1>4. CASE edits < MaxEdit /\ edits' = edits + 1
             /\ Save(p, [Reloaded(p) EXCEPT !.def = edits'], "check")
  <2>1. edits' \in Def
    BY <1>4
  <2>2. [Reloaded(p) EXCEPT !.def = edits'] \in Plan
    BY <1>2, <2>1, PlanTypes
  <2>3. QED
    BY <1>1, <1>4, <2>2, SaveStep
<1>5. QED
  BY <1>3, <1>4 DEF Reload

LEMMA GotStep ==
  ASSUME Undisturbed, Inv, [Next]_vars, NEW p \in Proc, Got(p) PROVE Inv'
<1> USE ForgeAssumption DEF Inv, TypeOK, Actor, Goto, Record
<1>1. Busy(p) \/ (Free(p) /\ ~Idle(p))
  BY DEF Got, Course, Idle, Busy, Private, Guarded, Detour, Writing, Free, Unguarded
<1>2. \A q \in Proc \ {p} : Same(q)
  BY DEF Got, Same
<1>3. Free(p)' => Free(p)
  BY DEF Got, Free, Unguarded
<1>4. Course(p)'
  BY DEF Got, Course, Knows, Busy, Private, Guarded, Detour, Writing, Free, Unguarded
<1>5. Knows(p)'
  BY DEF Got, Course, Knows, Busy, Private, Guarded, Detour, Writing, Free, Unguarded
<1>6. QED
  BY <1>1, <1>2, <1>3, <1>4, <1>5, WriterStep

LEMMA RefuseStep ==
  ASSUME Undisturbed, Inv, [Next]_vars, NEW p \in Proc, Refuse(p) PROVE Inv'
<1> USE ForgeAssumption DEF Inv, TypeOK, Actor, Goto
<1>1. Busy(p) \/ (Free(p) /\ ~Idle(p))
  BY DEF Refuse, Course, Idle, Busy, Private, Guarded, Detour, Writing, Free, Unguarded
<1>2. \A q \in Proc \ {p} : Same(q)
  BY DEF Refuse, Same
<1>3. Free(p)' => Free(p)
  BY DEF Refuse, Free, Unguarded
<1>4. Course(p)'
  BY DEF Refuse, Course, Knows, Busy, Private, Guarded, Detour, Writing, Free, Unguarded
<1>5. Knows(p)'
  BY DEF Refuse, Course, Knows, Busy, Private, Guarded, Detour, Writing, Free, Unguarded
<1>6. QED
  BY <1>1, <1>2, <1>3, <1>4, <1>5, WriterStep

LEMMA BeginStep ==
  ASSUME Undisturbed, Inv, [Next]_vars, NEW p \in Proc, Begin(p) PROVE Inv'
<1> USE ForgeAssumption DEF Inv, TypeOK, Actor, Goto
<1>1. Busy(p) /\ ~Free(p) /\ UNCHANGED <<holder, cmd, waited, pointer>>
  BY DEF Begin, Course, Busy, Guarded
<1>2. PICK t \in Candidates(p) : Save(p, With(mem[p], t, "in_progress"), "working")
  BY DEF Begin
<1>3. With(mem[p], t, "in_progress") \in Plan
  BY PlanTypes DEF TaskStatus
<1>4. /\ pointer.status # "completed"
      /\ pointer.status = "running" => pointer.fp = plan.def
  BY DEF Begin, Knows, Guarded
<1>5. QED
  BY <1>1, <1>2, <1>3, <1>4, SaveStep

LEMMA StopStep ==
  ASSUME Undisturbed, Inv, [Next]_vars, NEW p \in Proc, Stop(p) PROVE Inv'
<1> USE ForgeAssumption DEF Inv, TypeOK, Actor, Goto
<1>1. Busy(p) \/ (Free(p) /\ ~Idle(p))
  BY DEF Stop, Course, Idle, Busy, Private, Guarded, Detour, Writing, Free, Unguarded
<1>2. \A q \in Proc \ {p} : Same(q)
  BY DEF Stop, Same
<1>3. Free(p)' => Free(p)
  BY DEF Stop, Free, Unguarded
<1>4. Course(p)'
  BY DEF Stop, Course, Knows, Busy, Private, Guarded, Detour, Writing, Free, Unguarded
<1>5. Knows(p)'
  BY DEF Stop, Course, Knows, Busy, Private, Guarded, Detour, Writing, Free, Unguarded
<1>6. QED
  BY <1>1, <1>2, <1>3, <1>4, <1>5, WriterStep

LEMMA WorkStep ==
  ASSUME Undisturbed, Inv, [Next]_vars, NEW p \in Proc, Work(p) PROVE Inv'
<1> USE ForgeAssumption DEF Inv, TypeOK, Actor, Goto
<1>1. Busy(p) /\ ~Free(p) /\ UNCHANGED <<holder, cmd, waited, pointer>>
  BY DEF Work, Course, Busy, Guarded
<1>2. PICK verdict \in {"done", "failed"}, d \in Versions(mem[p].def), keepGoing \in BOOLEAN :
        Save(p, With([mem[p] EXCEPT !.def = d], task[p], verdict),
             IF verdict = "failed" /\ ~keepGoing THEN "conclude" ELSE "next")
  BY Zenon DEF Work
<1>3. With([mem[p] EXCEPT !.def = d], task[p], verdict) \in Plan
  <2>1. [mem[p] EXCEPT !.def = d] \in Plan
    BY PlanTypes DEF Versions
  <2>2. QED
    BY <2>1, PlanTypes DEF TaskStatus
<1>4. /\ pointer.status # "completed"
      /\ pointer.status = "running" => pointer.fp = plan.def
  BY DEF Work, Knows, Guarded
<1>5. QED
  BY <1>1, <1>2, <1>3, <1>4, SaveStep

LEMMA RaiseStep ==
  ASSUME Undisturbed, Inv, [Next]_vars, NEW p \in Proc, Raise(p) PROVE Inv'
<1> USE ForgeAssumption DEF Inv, TypeOK, Actor, Goto
<1>1. Busy(p) \/ (Free(p) /\ ~Idle(p))
  BY DEF Raise, Course, Idle, Busy, Private, Guarded, Detour, Writing, Free, Unguarded
<1>2. \A q \in Proc \ {p} : Same(q)
  BY DEF Raise, Same
<1>3. Free(p)' => Free(p)
  BY DEF Raise, Free, Unguarded
<1>4. Course(p)'
  BY DEF Raise, Course, Knows, Busy, Private, Guarded, Detour, Writing, Free, Unguarded
<1>5. Knows(p)'
  BY DEF Raise, Course, Knows, Busy, Private, Guarded, Detour, Writing, Free, Unguarded
<1>6. QED
  BY <1>1, <1>2, <1>3, <1>4, <1>5, WriterStep

LEMMA ConcludeStep ==
  ASSUME Undisturbed, Inv, [Next]_vars, NEW p \in Proc, Conclude(p) PROVE Inv'
<1> USE ForgeAssumption DEF Inv, TypeOK, Actor, Goto, Record
<1>1. Busy(p) \/ (Free(p) /\ ~Idle(p))
  BY DEF Conclude, Course, Idle, Busy, Private, Guarded, Detour, Writing, Free, Unguarded
<1>2. \A q \in Proc \ {p} : Same(q)
  BY DEF Conclude, Same
<1>3. Free(p)' => Free(p)
  BY DEF Conclude, Free, Unguarded
<1>4. Course(p)'
  BY DEF Conclude, Course, Knows, Busy, Private, Guarded, Detour, Writing, Free, Unguarded, TerminalStatus
<1>5. Knows(p)'
  BY DEF Conclude, Course, Knows, Busy, Private, Guarded, Detour, Writing, Free, Unguarded, TerminalStatus
<1>6. QED
  BY <1>1, <1>2, <1>3, <1>4, <1>5, WriterStep

LEMMA LeaveStep ==
  ASSUME Undisturbed, Inv, [Next]_vars, NEW p \in Proc, Leave(p) PROVE Inv'
<1> USE ForgeAssumption DEF Inv, TypeOK, Actor, Goto, Record
<1>1. Busy(p) \/ (Free(p) /\ ~Idle(p))
  BY DEF Leave, Course, Idle, Busy, Private, Guarded, Detour, Writing, Free, Unguarded
<1>2. \A q \in Proc \ {p} : Same(q)
  BY DEF Leave, Same
<1>3. Free(p)' => Free(p)
  BY DEF Leave, Free, Unguarded
<1>4. Course(p)'
  BY DEF Leave, Course, Knows, Busy, Private, Guarded, Detour, Writing, Free, Unguarded
<1>5. Knows(p)'
  BY DEF Leave, Course, Knows, Busy, Private, Guarded, Detour, Writing, Free, Unguarded
<1>6. QED
  BY <1>1, <1>2, <1>3, <1>4, <1>5, WriterStep

LEMMA ReleaseStep ==
  ASSUME Undisturbed, Inv, [Next]_vars, NEW p \in Proc, Release(p) PROVE Inv'
<1> USE ForgeAssumption DEF Inv, TypeOK, Actor, Goto, Give
<1>1. Busy(p) \/ (Free(p) /\ ~Idle(p))
  BY DEF Release, Course, Idle, Busy, Private, Guarded, Detour, Writing, Free, Unguarded
<1>2. \A q \in Proc \ {p} : Same(q)
  BY DEF Release, Same
<1>3. Free(p)' => Free(p)
  BY DEF Release, Free, Unguarded
<1>4. Course(p)'
  BY DEF Release, Course, Knows, Busy, Private, Guarded, Detour, Writing, Free, Unguarded
<1>5. Knows(p)'
  BY DEF Release, Course, Knows, Busy, Private, Guarded, Detour, Writing, Free, Unguarded
<1>6. QED
  BY <1>1, <1>2, <1>3, <1>4, <1>5, WriterStep

LEMMA StampStep ==
  ASSUME Undisturbed, Inv, [Next]_vars, NEW p \in Proc, Stamp(p) PROVE Inv'
<1> USE ForgeAssumption DEF Inv, TypeOK, Actor, Goto
<1>1. Busy(p) \/ (Free(p) /\ ~Idle(p))
  BY DEF Stamp, Course, Idle, Busy, Private, Guarded, Detour, Writing, Free, Unguarded
<1>2. \A q \in Proc \ {p} : Same(q)
  BY DEF Stamp, Same
<1>3. Free(p)' => Free(p)
  BY DEF Stamp, Free, Unguarded
<1>4. Course(p)'
  BY DEF Stamp, Course, Knows, Busy, Private, Guarded, Detour, Writing, Free, Unguarded
<1>5. Knows(p)'
  BY DEF Stamp, Course, Knows, Busy, Private, Guarded, Detour, Writing, Free, Unguarded
<1>6. QED
  BY <1>1, <1>2, <1>3, <1>4, <1>5, WriterStep

LEMMA PutStep ==
  ASSUME Undisturbed, Inv, [Next]_vars, NEW p \in Proc, Put(p) PROVE Inv'
<1> USE ForgeAssumption DEF Inv, TypeOK, Actor, Goto, Nothing
<1>1. Busy(p) \/ (Free(p) /\ ~Idle(p))
  BY DEF Put, Course, Idle, Busy, Private, Guarded, Detour, Writing, Free, Unguarded
<1>2. \A q \in Proc \ {p} : Same(q)
  BY DEF Put, Same
<1>3. Free(p)' => Free(p)
  BY DEF Put, Free, Unguarded
<1>4. Course(p)'
  BY DEF Put, Course, Knows, Busy, Private, Guarded, Detour, Writing, Free, Unguarded, Keep
<1>5. Knows(p)'
  <2>1. mem[p].def # Keep
    BY DEF Plan
  <2>2. QED
    BY <2>1 DEF Put, Course, Knows, Busy, Private, Guarded, Detour, Writing, Free, Unguarded, Keep
<1>6. QED
  BY <1>1, <1>2, <1>3, <1>4, <1>5, WriterStep

LEMMA SyncStep ==
  ASSUME Undisturbed, Inv, [Next]_vars, NEW p \in Proc, Sync(p) PROVE Inv'
<1> USE ForgeAssumption DEF Inv, TypeOK, Actor, Goto, Nothing
<1>1. Busy(p) \/ (Free(p) /\ ~Idle(p))
  BY DEF Sync, Course, Idle, Busy, Private, Guarded, Detour, Writing, Free, Unguarded
<1>2. \A q \in Proc \ {p} : Same(q)
  BY DEF Sync, Same
<1>3. Free(p)' => Free(p)
  BY DEF Sync, Free, Unguarded
<1>4. Course(p)'
  BY DEF Sync, Course, Knows, Busy, Private, Guarded, Detour, Writing, Free, Unguarded
<1>5. Knows(p)'
  BY DEF Sync, Course, Knows, Busy, Private, Guarded, Detour, Writing, Free, Unguarded
<1>6. QED
  BY <1>1, <1>2, <1>3, <1>4, <1>5, WriterStep

LEMMA InvStep == ASSUME Undisturbed, Inv, [Next]_vars PROVE Inv'
<1>1. ASSUME NEW p \in Proc, Exit(p) \/ Crash(p) PROVE Inv'
  <2>1. ~Idle(p) /\ Forget(p)
    BY <1>1 DEF Exit, Crash, Idle
  <2>2. \A q \in Proc \ {p} : holder = q => holder' = q
    BY <1>1 DEF Exit, Crash, Give
  <2>3. QED
    BY <2>1, <2>2, ForgetStep
<1>2. ASSUME NEW p \in Proc, Step(p) PROVE Inv'
  BY <1>1, <1>2, ReaderSteps, StartStep, EditStep, JudgeStep, RearmStep, RemainingStep, ReloadStep, GotStep,
     RefuseStep, BeginStep, StopStep, WorkStep, RaiseStep, ConcludeStep, LeaveStep, ReleaseStep,
     StampStep, PutStep, SyncStep DEF Step
<1>3. CASE UNCHANGED vars
  BY <1>3 DEF vars, Inv, TypeOK, OneAlone, Idle, Free, Course, Knows, Busy
<1>4. QED
  BY <1>2, <1>3, ViewerStep DEF Next

\* Without those disturbances the invariant holds throughout.
LEMMA Invariant == ASSUME Undisturbed PROVE Spec => []Inv
<1>1. Inv /\ [Next]_vars => Inv'
  BY InvStep
<1>2. QED
  BY <1>1, InvInit, PTL DEF Spec

\* Re-arming makes no work, and takes none away.
LEMMA RearmedUnfinished ==
  ASSUME NEW pl \in Plan PROVE Unfinished(Rearmed(pl).st) = Unfinished(pl.st)
  BY DEF Unfinished, Rearmed, InFlight, Plan

\* Whether the run is completed, step by step: a step that leaves pointer and plan alone
\* says nothing new, and every other is here.
LEMMA CompletedStep ==
  ASSUME Inv, NEW p \in Proc, Step(p), ~Edit(p), pointer'.status = "completed"
  PROVE  \/ Unfinished(plan'.st) = {}
         \/ pointer.status = "completed" /\ Unfinished(plan'.st) \subseteq Unfinished(plan.st)
<1> USE DEF Inv, TypeOK, Actor
<1>1. CASE UNCHANGED <<plan, pointer>>
  BY <1>1
<1>2. CASE Demote(p)
  BY <1>2 DEF Demote, Pointer
<1>3. CASE Rearm(p)
  <2>1. pc[p] = "rearm" /\ mem[p] = plan /\ pointer' = pointer
    BY <1>3 DEF Rearm, Knows, Private
  <2>2. plan' = plan \/ plan' = Rearmed(plan)
    BY <1>3, <2>1 DEF Rearm, Save, Overwrite
  <2>3. QED
    BY <2>1, <2>2, RearmedUnfinished
<1>4. CASE Reload(p)
  <2>1. Reloaded(p) = plan /\ pointer' = pointer
    BY <1>4 DEF Reload, Reloaded, Knows
  <2>2. plan' = plan \/ plan' = [plan EXCEPT !.def = edits']
    BY <1>4, <2>1 DEF Reload, Save, Overwrite
  <2>3. plan'.st = plan.st
    BY <2>2 DEF Plan
  <2>4. QED
    BY <2>1, <2>3
<1>5. CASE Begin(p) \/ Work(p)
  BY <1>5 DEF Begin, Work, Knows
<1>6. CASE Put(p)
  <2>1. pc[p] \in Writing /\ todo[p].status = "completed" /\ plan' = plan
    BY <1>6 DEF Put, Writing
  <2>2. Unfinished(mem[p].st) = {} /\ mem[p] = plan
    BY <2>1 DEF Course, Knows, Detour
  <2>3. QED
    BY <2>1, <2>2
<1>7. CASE Sync(p)
  BY <1>7 DEF Sync, Course
<1>8. QED
  BY <1>1, <1>2, <1>3, <1>4, <1>5, <1>6, <1>7
     DEF Step, Start, Look, Probe, Load, Judge, Remaining, Ask, GiveUp, Got, Refuse, Stop, Raise, Conclude,
         Leave, Release, Stamp, Exit, Crash, Forget

\* Crashes included, a run is put on record as completed only when it is, and only an
\* edit of the plan makes work of one that is completed.
THEOREM Completed == ASSUME Undisturbed PROVE Spec => CompletedIsHonest
<1> DEFINE Honest == pointer'.status = "completed" =>
                       \/ Unfinished(plan'.st) = {}
                       \/ /\ pointer.status = "completed"
                          /\ Unfinished(plan'.st) \subseteq Unfinished(plan.st)
                       \/ \E p \in Proc : Edit(p)
<1>1. Inv /\ [Next]_vars => [Honest]_vars
  <2> SUFFICES ASSUME Inv, Next PROVE Honest
    OBVIOUS
  <2>1. CASE View
    BY <2>1 DEF View, Look, Probe, Demote, Inv, TypeOK, Pointer, Actor
  <2>2. CASE \E p \in Proc : Step(p)
    BY <2>2, CompletedStep
  <2>3. QED
    BY <2>1, <2>2 DEF Next
<1>2. QED
  BY <1>1, Invariant, PTL DEF Spec, CompletedIsHonest

\* Crashes included, a run on record as running has its definition on record.
THEOREM Fingerprinted == ASSUME Undisturbed PROVE Spec => []RunningIsFingerprinted
<1>1. Inv => RunningIsFingerprinted
  BY DEF Inv, Knows, RunningIsFingerprinted
<1>2. QED
  BY <1>1, Invariant, PTL
-----------------------------------------------------------------------------
(* What is begun after a wait *)

\* It begins a task next.
Entering(p) == pc[p] = "next" \/ (pc[p] \in Writing /\ todo[p].then = "next")

\* An exec that is about to begin its task has found that it may, in the plan that it
\* has in memory; one that is executing it has begun it.
Entered(p) ==
    /\ ~Free(p) /\ (pc[p] = "working" \/ (pc[p] = "sync" /\ todo[p].then # "check")) => task[p] \in tried[p]
    /\ Entering(p) /\ cmd[p] = "exec" /\ p \in waited /\ task[p] \notin tried[p] =>
         mem[p].st[task[p]] \notin {"done", "absent"} /\ Released(mem[p].st, task[p])

\* The steps of one command leave the others where they are.
LEMMA OthersEntered ==
  ASSUME Inv, NEW p \in Proc, Step(p), NEW q \in Proc \ {p}, Entered(q)
  PROVE  Entered(q)'
<1>1. /\ pc'[q] = pc[q] /\ cmd'[q] = cmd[q] /\ mem'[q] = mem[q] /\ todo'[q] = todo[q]
      /\ task'[q] = task[q] /\ tried'[q] = tried[q]
      /\ q \in waited' <=> q \in waited
  <2> USE DEF Inv, TypeOK, Actor, Goto, work
  <2>1. CASE Start(p)
    BY <2>1 DEF Start, Idle
  <2>2. CASE Look(p)
    BY <2>2 DEF Look, Shown
  <2>3. CASE Probe(p)
    BY <2>3 DEF Probe, Shown
  <2>4. CASE Demote(p)
    BY <2>4 DEF Demote, Shown
  <2>5. CASE Load(p)
    BY <2>5 DEF Load
  <2>6. CASE Edit(p)
    BY <2>6 DEF Edit, Save, Overwrite
  <2>7. CASE Judge(p)
    BY <2>7 DEF Judge, Record
  <2>8. CASE Rearm(p)
    BY <2>8 DEF Rearm, Save, Overwrite
  <2>9. CASE Remaining(p)
    BY <2>9 DEF Remaining, Record
  <2>10. CASE Ask(p)
    BY <2>10 DEF Ask
  <2>11. CASE GiveUp(p)
    BY <2>11 DEF GiveUp
  <2>12. CASE Got(p)
    BY <2>12 DEF Got, Record
  <2>27. CASE Reload(p)
    BY <2>27 DEF Reload, Save, Overwrite
  <2>13. CASE Refuse(p)
    BY <2>13 DEF Refuse
  <2>14. CASE Begin(p)
    BY <2>14 DEF Begin, Save, Overwrite
  <2>15. CASE Stop(p)
    BY <2>15 DEF Stop
  <2>16. CASE Work(p)
    BY <2>16 DEF Work, Save, Overwrite
  <2>17. CASE Raise(p)
    BY <2>17 DEF Raise
  <2>18. CASE Conclude(p)
    BY <2>18 DEF Conclude, Record
  <2>19. CASE Leave(p)
    BY <2>19 DEF Leave, Record
  <2>20. CASE Release(p)
    BY <2>20 DEF Release
  <2>21. CASE Stamp(p)
    BY <2>21 DEF Stamp
  <2>22. CASE Put(p)
    BY <2>22 DEF Put, Nothing
  <2>23. CASE Sync(p)
    BY <2>23 DEF Sync, Nothing
  <2>24. CASE Exit(p)
    BY <2>24 DEF Exit, Forget
  <2>25. CASE Crash(p)
    BY <2>25 DEF Crash, Forget
  <2>26. QED
    BY <2>1, <2>2, <2>3, <2>4, <2>5, <2>6, <2>7, <2>8, <2>9, <2>10, <2>11, <2>12, <2>13,
       <2>14, <2>15, <2>16, <2>17, <2>18, <2>19, <2>20, <2>21, <2>22, <2>23, <2>24, <2>25, <2>27 DEF Step
<1>2. QED
  BY <1>1 DEF Entered, Entering, Free, Released

\* Only Got lets an exec on, after it has looked at the plan on disk.
LEMMA OwnEntered ==
  ASSUME Inv, NEW p \in Proc, Step(p), Entered(p)
  PROVE  Entered(p)'
<1>0. pc[p] = "working" => task[p] \in tried[p]
  BY DEF Inv, Course, Guarded, Entered
<1> USE DEF Inv, TypeOK, Actor, Goto, work, Entered, Entering, Course, Free, Unguarded, Writing, Private, Guarded
<1>1. CASE Start(p)
  BY <1>1 DEF Start, Idle
<1>2. CASE Look(p)
  BY <1>2 DEF Look, Shown
<1>3. CASE Probe(p)
  BY <1>3 DEF Probe, Shown
<1>4. CASE Demote(p)
  BY <1>4 DEF Demote, Shown
<1>5. CASE Load(p)
  BY <1>5 DEF Load
<1>6. CASE Edit(p)
  BY <1>6 DEF Edit, Save, Overwrite
<1>7. CASE Judge(p)
  BY <1>7 DEF Judge, Record
<1>8. CASE Rearm(p)
  BY <1>8 DEF Rearm, Save, Overwrite
<1>9. CASE Remaining(p)
  BY <1>9 DEF Remaining, Record
<1>10. CASE Ask(p)
  BY <1>10 DEF Ask
<1>11. CASE GiveUp(p)
  BY <1>11 DEF GiveUp
<1>12. CASE Got(p)
  BY <1>12 DEF Got, Record, StillRight, Released
<1>27. CASE Reload(p)
  BY <1>27 DEF Reload, Save, Overwrite
<1>13. CASE Refuse(p)
  BY <1>13 DEF Refuse
<1>14. CASE Begin(p)
  BY <1>14 DEF Begin, Save, Overwrite
<1>15. CASE Stop(p)
  BY <1>15 DEF Stop
<1>16. CASE Work(p)
  <2>1. PICK next \in {"conclude", "next"} : \E pl : Save(p, pl, next)
    BY <1>16, Zenon DEF Work
  <2>2. pc'[p] = next \/ (pc'[p] = "sync" /\ todo'[p].then = next)
    BY <2>1 DEF Save
  <2>3. pc[p] = "working" /\ cmd' = cmd /\ task' = task /\ tried' = tried
    BY <1>16, Zenon DEF Work
  <2>4. task[p] \in tried[p]
    BY <1>0, <2>3
  <2>5. QED
    BY <2>2, <2>3, <2>4
<1>17. CASE Raise(p)
  BY <1>17 DEF Raise
<1>18. CASE Conclude(p)
  BY <1>18 DEF Conclude, Record
<1>19. CASE Leave(p)
  BY <1>19 DEF Leave, Record
<1>20. CASE Release(p)
  BY <1>20 DEF Release
<1>21. CASE Stamp(p)
  BY <1>21 DEF Stamp
<1>22. CASE Put(p)
  BY <1>22 DEF Put, Nothing
<1>23. CASE Sync(p)
  BY <1>23 DEF Sync, Nothing
<1>24. CASE Exit(p)
  BY <1>24 DEF Exit, Forget
<1>25. CASE Crash(p)
  BY <1>25 DEF Crash, Forget
<1>26. QED
  BY <1>1, <1>2, <1>3, <1>4, <1>5, <1>6, <1>7, <1>8, <1>9, <1>10, <1>11, <1>12, <1>13,
     <1>14, <1>15, <1>16, <1>17, <1>18, <1>19, <1>20, <1>21, <1>22, <1>23, <1>24, <1>25, <1>27 DEF Step

LEMMA EnteredStep ==
  ASSUME Inv, \A p \in Proc : Entered(p), [Next]_vars
  PROVE  \A p \in Proc : Entered(p)'
<1>1. ASSUME NEW p \in Proc, Step(p) PROVE \A q \in Proc : Entered(q)'
  BY <1>1, OthersEntered, OwnEntered
<1>2. ASSUME View PROVE \A q \in Proc : Entered(q)'
  BY <1>2, ForgeAssumption DEF View, Look, Probe, Demote, Goto, work, Inv, TypeOK, Actor, Entered,
     Entering, Free, Released
<1>3. CASE UNCHANGED vars
  BY <1>3 DEF vars, work, Entered, Entering, Free, Released
<1>4. QED
  BY <1>1, <1>2, <1>3 DEF Next

\* After a wait for the guard nothing is begun that another run has done meanwhile,
\* and nothing whose dependencies are not done, whatever has crashed.
THEOREM QueuedRight == ASSUME Undisturbed PROVE Spec => QueuedBeginsRight
<1> DEFINE EInv == Inv /\ \A p \in Proc : Entered(p)
<1>1. Init => EInv
  <2> SUFFICES ASSUME Init PROVE EInv
    OBVIOUS
  <2>1. \A p \in Proc : pc[p] = "idle"
    BY ForgeAssumption DEF Init, Actor
  <2>2. QED
    BY <2>1, InvInit DEF Entered, Entering, Writing
<1>2. EInv /\ [Next]_vars => EInv'
  <2> SUFFICES ASSUME EInv, [Next]_vars PROVE EInv'
    OBVIOUS
  <2>1. Inv'
    BY InvStep
  <2>2. \A p \in Proc : Entered(p)'
    BY EnteredStep
  <2>3. QED
    BY <2>1, <2>2
<1> DEFINE Right == \A p \in waited, t \in Task :
                      tried'[p] = tried[p] \cup {t} /\ t \notin tried[p]
                      => plan.st[t] \notin {"done", "absent"} /\ Released(plan.st, t)
<1>3. EInv /\ [Next]_vars => [Right]_vars
  <2> SUFFICES ASSUME EInv, Next, NEW p \in waited, NEW t \in Task,
                      tried'[p] = tried[p] \cup {t}, t \notin tried[p]
               PROVE  plan.st[t] \notin {"done", "absent"} /\ Released(plan.st, t)
    OBVIOUS
  <2>1. p \in Proc
    BY DEF Inv, TypeOK
  <2>2. ASSUME NEW q \in Proc, Step(q), ~Begin(q) PROVE FALSE
    <3>1. tried' = tried \/ tried' = [tried EXCEPT ![q] = {}]
      BY <2>2 DEF Step, Start, Look, Probe, Demote, Load, Edit, Judge, Rearm, Remaining, Ask, GiveUp, Reload,
         Got, Refuse, Stop, Work, Raise, Conclude, Leave, Release, Stamp, Put, Sync, Exit, Crash, Forget, work
    <3>2. QED
      BY <2>1, <3>1 DEF Inv, TypeOK
  <2>3. ~View
    BY DEF View, Look, Probe, Demote, work
  <2>4. PICK q \in Proc : Begin(q)
    BY <2>2, <2>3 DEF Next
  <2>5. q = p /\ t \in Candidates(p)
    BY <2>1, <2>4 DEF Begin, Inv, TypeOK
  <2>6. pc[p] = "next" /\ mem[p] = plan
    BY <2>1, <2>4, <2>5 DEF Begin, Inv, Knows, Guarded
  <2>7. CASE cmd[p] = "exec"
    <3>1. t = task[p]
      BY <2>5, <2>7 DEF Candidates
    <3>2. mem[p].st[t] \notin {"done", "absent"} /\ Released(mem[p].st, t)
      <4>1. Entered(p)
        BY <2>1
      <4>2. QED
        BY <2>6, <2>7, <3>1, <4>1 DEF Entered, Entering
    <3>3. QED
      BY <2>6, <3>2
  <2>8. CASE cmd[p] # "exec"
    BY <2>5, <2>6, <2>8 DEF Candidates
  <2>9. QED
    BY <2>7, <2>8
<1>4. QED
  BY <1>1, <1>2, <1>3, Invariant, PTL DEF Spec, QueuedBeginsRight

=============================================================================
