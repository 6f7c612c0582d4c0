-------------------------- MODULE MCSwarmScheduler --------------------------
(* Inputs for SwarmScheduler: SelectJobs vary what select_task_candidates    *)
(* looks at, PlaceJobs what build_batches looks at.                          *)
EXTENDS SwarmScheduler, TLC

CONSTANTS f, g, grp

PlainRun == [retryFailed |-> FALSE, retryChanges |-> FALSE,
             maxAttempts |-> NoLimit, maxTasks |-> NoLimit, only |-> Task]

\* The plan holds tasks 1 and 2; no plan has a task 9.
SelectPlans ==
    { [order |-> ord, deps |-> [t \in Task |-> IF t = 1 THEN d1 ELSE IF t = 2 THEN d2 ELSE {}],
       files |-> [t \in Task |-> IF t = 1 THEN {f} ELSE {g}], vague |-> {},
       group |-> [t \in Task |-> NoGroup], red |-> r, impl |-> {2}] :
      ord \in {<<1, 2>>, <<2, 1>>}, d1 \in {{}, {1}, {2}}, d2 \in {{}, {1}, {9}},
      r \in {{}, {1}} }

SelectOptions ==
    { PlainRun, [PlainRun EXCEPT !.retryFailed = TRUE, !.maxAttempts = 1],
      [PlainRun EXCEPT !.retryChanges = TRUE, !.only = {2}],
      [PlainRun EXCEPT !.maxTasks = 1], [PlainRun EXCEPT !.maxTasks = 0] }

SelectJobs ==
    [plan : SelectPlans, opt : SelectOptions,
     status : { [t \in Task |-> IF t = 1 THEN s1 ELSE IF t = 2 THEN s2 ELSE "planned"] :
                s1 \in Status, s2 \in Status },
     attempts : { [t \in Task |-> IF t = 2 THEN n ELSE 0] : n \in 0 .. 1 },
     parallel : {2}]

PlacePlans ==
    { [order |-> <<4, 2, 3, 1>>, deps |-> [t \in Task |-> {}], files |-> fs,
       vague |-> v, group |-> [t \in Task |-> IF t \in same THEN grp ELSE NoGroup],
       red |-> {}, impl |-> {}] :
      fs \in [Task -> SUBSET {f, g}], v \in {{}, {1}, {2, 3}},
      same \in {{}, {1, 2}, {1, 3, 4}} }

PlaceJobs ==
    [plan : PlacePlans, opt : {PlainRun, [PlainRun EXCEPT !.maxTasks = 3]},
     status : {[t \in Task |-> "planned"]},
     attempts : {[t \in Task |-> 0]}, parallel : {0, 2, 3}]

AllJobs == SelectJobs \cup PlaceJobs
=============================================================================
