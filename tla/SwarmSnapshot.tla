--------------------------- MODULE SwarmSnapshot ----------------------------
(***************************************************************************)
(* SnapshotSwarmBackend (swarm_backend.py): how run_swarm works in a        *)
(* workspace without a commit to branch from.  Each task gets a copy of the *)
(* workspace with a git repository of its own; what is accepted is copied   *)
(* back file by file (sync_snapshot_changed_files).  Nothing compares the   *)
(* copy with what the workspace has become meanwhile.                       *)
(*                                                                          *)
(* The contents of a file are the tasks whose changes are in it.  Of the    *)
(* orchestrator this module keeps what the backend depends on: batches of   *)
(* tasks without a common claim, the gate, and which tasks are applied when *)
(* (see Swarm for the rest).  Nobody else writes to the workspace.          *)
(***************************************************************************)
EXTENDS Naturals, Sequences, SequencesExt, FiniteSets

CONSTANTS
    Task, File,
    Claims,     \* the assignments of files to tasks that are considered
    Strays,     \* TRUE if writes outside the claims get by (scope_mode warn, shell)
    None        \* no copy, no candidate

Contents == [File -> SUBSET Task]

\* A copy: its working tree, the head of the task's branch, the files that
\* differ between that and the baseline, and the branch that is checked out.
Copy == [tree : Contents, head : Contents, since : SUBSET File, on : {"task", "base"}]

ASSUME SnapshotAssumption ==
    /\ Claims \subseteq [Task -> SUBSET File]
    /\ IsFiniteSet(Task)
    /\ Strays \in BOOLEAN
    /\ None \notin Contents \cup Copy

VARIABLES
    files,      \* what each task claims
    \* On disk, so that a crash leaves it.
    root,       \* the workspace
    copy,       \* for each task, its copy of the workspace or None
    status,     \* the plan file
    changed,    \* changed_files of the worker results
    \* In the memory of a run.
    pc, auto,   \* where it is; whether it applies what is ready
    batch,      \* the tasks of this batch that have no copy yet
    crew,       \* those that have one
    worker,     \* where each worker is
    touched,    \* what it has changed since it started
    items,      \* what goes through the gate together
    left,       \* the files of the first item that are still to be copied
    \* History.
    fresh,      \* the tasks whose copy was made for this batch
    made,       \* what each task has committed since its copy was made
    cand,       \* the candidate that passed the gate, while it counts
    lost        \* changes that a copy has overwritten

disk == <<root, copy, status, changed>>
memory == <<auto, batch, crew, worker, touched, items, left>>
history == <<fresh, made, cand, lost>>
vars == <<files, disk, pc, memory, history>>

TypeOK ==
    /\ files \in Claims
    /\ root \in Contents
    /\ copy \in [Task -> Copy \cup {None}]
    /\ status \in [Task -> {"planned", "in_progress", "ready_for_merge", "done",
                            "already_satisfied", "failed"}]
    /\ changed \in [Task -> SUBSET File]
    /\ pc \in {"idle", "loop", "prepare", "start", "work", "gate", "merge", "apply"}
    /\ auto \in BOOLEAN
    /\ batch \subseteq Task /\ crew \subseteq Task
    /\ worker \in [Task -> {"none", "busy", "committed", "changed", "noop", "failed"}]
    /\ touched \in [Task -> SUBSET File]
    /\ items \in Seq(Task)
    /\ left \subseteq File
    /\ fresh \subseteq Task
    /\ made \in [Task -> SUBSET File]
    /\ cand \in Contents \cup {None}
    /\ lost \subseteq Task \X File

Nobody == [t \in Task |-> "none"]
Nothing == [t \in Task |-> {}]

Init ==
    /\ files \in Claims
    /\ root = [f \in File |-> {}]
    /\ copy = [t \in Task |-> None]
    /\ status = [t \in Task |-> "planned"]
    /\ changed = Nothing
    /\ pc = "idle" /\ auto = FALSE
    /\ batch = {} /\ crew = {} /\ worker = Nobody /\ touched = Nothing
    /\ items = <<>> /\ left = {}
    /\ fresh = {} /\ made = Nothing /\ cand = None /\ lost = {}

-----------------------------------------------------------------------------
(* Helpers *)

Mark(t, s) == status' = [status EXCEPT ![t] = s]

\* reset_hard and clean_untracked: what is not committed goes, the branch stays.
Sanitized(c) == [c EXCEPT !.tree = c.head]

\* cleanup_failed_task_workspace: the copy stays as it is if worktrees are kept,
\* is reset to the head of its branch, or goes when that fails.
CleanupFailed(t) ==
    \E c \in {copy[t], None} \cup (IF copy[t] = None THEN {} ELSE {Sanitized(copy[t])}) :
        copy' = [copy EXCEPT ![t] = c]

\* cleanup_task_workspace: the copy goes, unless worktrees are kept or that fails.
CleanupAccepted(t) == copy' = copy \/ copy' = [copy EXCEPT ![t] = None]

\* The items in some order: plan order at the start, identifiers in a batch.
Orders(S) == {s \in [1 .. Cardinality(S) -> S] : \A i, j \in DOMAIN s : s[i] = s[j] => i = j}

\* Mutant of Assembled: the first of the items that changed a file prevails.
FirstPrevails(its) ==
    LET Prevails(k, f) == /\ f \in changed[its[k]]
                          /\ \A j \in 1 .. k - 1 : f \notin changed[its[j]]
    IN  [f \in File |->
           {t \in Task : \/ t \in root[f] /\ \A k \in DOMAIN its : f \notin changed[its[k]]
                         \/ \E k \in DOMAIN its : Prevails(k, f) /\ t \in copy[its[k]].tree[f]}]

\* The workspace with the changed files of the items copied over it, in order:
\* the last item that changed a file prevails.
Assembled(its) ==
    LET Prevails(k, f) == /\ f \in changed[its[k]]
                          /\ \A j \in k + 1 .. Len(its) : f \notin changed[its[j]]
    IN  [f \in File |->
           {t \in Task : \/ t \in root[f] /\ \A k \in DOMAIN its : f \notin changed[its[k]]
                         \/ \E k \in DOMAIN its : Prevails(k, f) /\ t \in copy[its[k]].tree[f]}]

\* The process ends, or dies.
Halt ==
    /\ pc' = "idle" /\ auto' = FALSE
    /\ batch' = {} /\ crew' = {} /\ worker' = Nobody /\ touched' = Nothing
    /\ items' = <<>> /\ left' = {} /\ fresh' = {} /\ cand' = None

-----------------------------------------------------------------------------
(* A run and its batches *)

Recovered == [t \in Task |-> IF status[t] = "in_progress" THEN "failed" ELSE status[t]]

\* What an earlier run left ready goes through the gate first, unless its copy is
\* gone or a review rejects it now.
StartRun ==
    /\ pc = "idle"
    /\ auto' \in BOOLEAN
    /\ LET ready == {t \in Task : status[t] = "ready_for_merge"}
       IN  \E kept \in SUBSET {t \in ready : copy[t] # None} :
             IF auto' /\ ready # {}
             THEN /\ status' = [t \in Task |-> IF t \in ready \ kept THEN "failed" ELSE Recovered[t]]
                  /\ \E gone \in SUBSET (ready \ kept) :
                       copy' = [t \in Task |-> IF t \in gone THEN None ELSE copy[t]]
                  /\ items' \in Orders(kept)
                  /\ pc' = IF kept = {} THEN "loop" ELSE "gate"
             ELSE status' = Recovered /\ items' = <<>> /\ pc' = "loop" /\ UNCHANGED copy
    /\ UNCHANGED <<files, root, changed, batch, crew, worker, touched, left, history>>

\* Mutant of Compatible: tasks run side by side whatever they claim.
AllCompatible(B) == TRUE

\* The scheduler lets no two tasks of a batch claim a file together.
Compatible(B) == \A t, u \in B : t # u => files[t] \cap files[u] = {}

NextBatch ==
    /\ pc = "loop"
    /\ \E B \in SUBSET {t \in Task : status[t] \in {"planned", "failed"}} :
         B # {} /\ Compatible(B) /\ batch' = B
    /\ fresh' = {}
    /\ pc' = "prepare"
    /\ UNCHANGED <<files, disk, auto, crew, worker, touched, items, left, made, cand, lost>>

EndRun ==
    /\ pc = "loop"
    /\ Halt
    /\ UNCHANGED <<files, disk, made, lost>>

Prepared(t) ==
    /\ batch' = batch \ {t}
    /\ pc' = IF batch' # {} THEN pc ELSE IF crew' # {} THEN "start" ELSE "loop"

\* copy_workspace_snapshot and _init_snapshot_repo.
MakeCopy(t) ==
    /\ copy' = [copy EXCEPT ![t] =
                  [tree |-> root, head |-> root, since |-> {}, on |-> "task"]]
    /\ made' = [made EXCEPT ![t] = {}]
    /\ fresh' = fresh \cup {t}

\* Whatever an earlier attempt has committed is used again, on the workspace as
\* it was then.
Reuse(t) ==
    /\ copy[t] # None
    /\ copy[t].on = "task"
    /\ copy' = [copy EXCEPT ![t] = Sanitized(@)]
    /\ UNCHANGED <<made, fresh>>

\* A copy that tracks runtime artifacts is made anew, too.
Prepare(t) ==
    /\ pc = "prepare"
    /\ t \in batch
    /\ MakeCopy(t) \/ Reuse(t)
    /\ crew' = crew \cup {t}
    /\ Prepared(t)
    /\ UNCHANGED <<files, root, status, changed, auto, worker, touched, items, left, cand, lost>>

PrepareFails(t) ==
    /\ pc = "prepare"
    /\ t \in batch
    /\ Mark(t, "failed")
    /\ CleanupFailed(t)
    /\ UNCHANGED crew
    /\ Prepared(t)
    /\ UNCHANGED <<files, root, changed, auto, worker, touched, items, left, history>>

Start ==
    /\ pc = "start"
    /\ status' = [t \in Task |-> IF t \in crew THEN "in_progress" ELSE status[t]]
    /\ worker' = [t \in Task |-> IF t \in crew THEN "busy" ELSE "none"]
    /\ touched' = Nothing
    /\ pc' = "work"
    /\ UNCHANGED <<files, root, copy, changed, auto, batch, crew, items, left, history>>

-----------------------------------------------------------------------------
(* The workers, each in its own copy (swarm_worker.py) *)

\* The write guard of the tools lets a task write what it claims; the scope check
\* fails a task that has written more, or only warns.
Write(t, f) ==
    /\ pc = "work"
    /\ worker[t] = "busy"
    /\ f \in files[t] \/ Strays
    /\ f \notin touched[t]
    /\ copy' = [copy EXCEPT ![t].tree[f] = @ \cup {t}]
    /\ touched' = [touched EXCEPT ![t] = @ \cup {f}]
    /\ UNCHANGED <<files, root, status, changed, pc, auto, batch, crew, worker, items, left,
                   history>>

Commit(t) ==
    /\ pc = "work"
    /\ worker[t] = "busy"
    /\ touched[t] # {}
    /\ copy' = [copy EXCEPT ![t].head = copy[t].tree, ![t].since = @ \cup touched[t]]
    /\ made' = [made EXCEPT ![t] = @ \cup touched[t]]
    /\ worker' = [worker EXCEPT ![t] = "committed"]
    /\ UNCHANGED <<files, root, status, changed, pc, auto, batch, crew, touched, items, left,
                   fresh, cand, lost>>

\* Mutant of ChangedFiles: what this attempt has changed.
ChangedByAttempt(t) == touched[t]

\* changed_files_between(base_branch..HEAD): all that the branch has changed.
ChangedFiles(t) == copy[t].since

Return(t) ==
    /\ pc = "work"
    /\ \/ /\ worker[t] = "committed"
          /\ worker' = [worker EXCEPT ![t] = "changed"]
          /\ changed' = [changed EXCEPT ![t] = ChangedFiles(t)]
       \/ /\ worker[t] = "busy" /\ touched[t] = {}
          /\ worker' = [worker EXCEPT ![t] = "noop"]
          /\ changed' = [changed EXCEPT ![t] = {}]
       \/ /\ worker[t] \in {"busy", "committed"}
          /\ worker' = [worker EXCEPT ![t] = "failed"]
          /\ changed' = [changed EXCEPT ![t] = touched[t]]
    /\ UNCHANGED <<files, root, copy, status, pc, auto, batch, crew, touched, items, left,
                   history>>

Returned(t) == worker[t] \in {"changed", "noop", "failed"}

\* Reviews and strict verification may reject a result.
Collect(t) ==
    /\ pc = "work"
    /\ t \in crew
    /\ \A u \in crew : Returned(u) \/ status[u] # "in_progress"
    /\ Returned(t)
    /\ \/ /\ worker[t] = "changed"
          /\ Mark(t, "ready_for_merge")
          /\ UNCHANGED copy
       \/ /\ worker[t] = "noop"
          /\ Mark(t, "already_satisfied")
          /\ CleanupAccepted(t)
       \/ /\ Mark(t, "failed")
          /\ CleanupFailed(t)
    /\ worker' = [worker EXCEPT ![t] = "none"]
    /\ UNCHANGED <<files, root, changed, pc, auto, batch, crew, touched, items, left, history>>

Collected ==
    /\ pc = "work"
    /\ \A t \in crew : worker[t] = "none"
    /\ LET ready == {t \in crew : status[t] = "ready_for_merge"}
       IN  IF auto /\ ready # {}
           THEN items' \in Orders(ready) /\ pc' = "gate"
           ELSE items' = <<>> /\ pc' = "loop"
    /\ crew' = {}
    /\ touched' = Nothing
    /\ UNCHANGED <<files, disk, auto, batch, worker, left, history>>

-----------------------------------------------------------------------------
(* The gate, and what becomes of the items *)

\* The candidate is another copy of the workspace with all items in it.
Accept ==
    /\ pc = "gate"
    /\ cand' = Assembled(items)
    /\ pc' = "merge"
    /\ UNCHANGED <<files, disk, memory, fresh, made, lost>>

Refuse ==
    /\ pc = "gate"
    /\ status' = [t \in Task |-> IF t \in ToSet(items) THEN "failed" ELSE status[t]]
    /\ \E gone \in SUBSET ToSet(items) :
         copy' = [t \in Task |-> IF t \in gone THEN None ELSE copy[t]]
    /\ items' = <<>>
    /\ pc' = "loop"
    /\ UNCHANGED <<files, root, changed, auto, batch, crew, worker, touched, left, history>>

\* changed_files, or what the branches of the copy say.
Effective(t, c) == IF changed[t] # {} THEN changed[t] ELSE c.since

\* apply_task_success first merges the branch within the copy, which leaves the
\* base checked out and nothing to compare.
Merge ==
    /\ pc = "merge"
    /\ LET t == Head(items)
           merged == [copy[t] EXCEPT !.tree = copy[t].head, !.since = {}, !.on = "base"]
       IN  /\ copy' = [copy EXCEPT ![t] = merged]
           /\ left' = Effective(t, merged)
    /\ pc' = "apply"
    /\ UNCHANGED <<files, root, status, changed, auto, batch, crew, worker, touched, items,
                   history>>

NextItem ==
    /\ items' = Tail(items)
    /\ pc' = IF Len(items) = 1 THEN "loop" ELSE "merge"

\* git refuses the merge: nothing has been copied.
MergeFails ==
    /\ pc = "merge"
    /\ Mark(Head(items), "failed")
    /\ CleanupFailed(Head(items))
    /\ NextItem
    /\ cand' = None
    /\ UNCHANGED <<files, root, changed, auto, batch, crew, worker, touched, left, fresh, made,
                   lost>>

\* sync_snapshot_changed_files, one file.  An error there ends the run, as a
\* crash does.
Sync(f) ==
    /\ pc = "apply"
    /\ f \in left
    /\ LET t == Head(items)
       IN  /\ root' = [root EXCEPT ![f] = copy[t].tree[f]]
           /\ lost' = lost \cup ((root[f] \ copy[t].tree[f]) \X {f})
    /\ left' = left \ {f}
    /\ UNCHANGED <<files, copy, status, changed, pc, auto, batch, crew, worker, touched, items,
                   fresh, made, cand>>

MarkDone ==
    /\ pc = "apply"
    /\ left = {}
    /\ Mark(Head(items), "done")
    /\ CleanupAccepted(Head(items))
    /\ NextItem
    /\ UNCHANGED <<files, root, changed, auto, batch, crew, worker, touched, left, history>>

Crash ==
    /\ pc # "idle"
    /\ Halt
    /\ UNCHANGED <<files, disk, made, lost>>

-----------------------------------------------------------------------------

Next ==
    \/ StartRun \/ NextBatch \/ EndRun \/ Start \/ Collected
    \/ \E t \in Task : \/ Prepare(t) \/ PrepareFails(t) \/ Commit(t) \/ Return(t) \/ Collect(t)
                       \/ \E f \in File : Write(t, f)
    \/ Accept \/ Refuse \/ Merge \/ MergeFails \/ (\E f \in File : Sync(f)) \/ MarkDone
    \/ Crash

Spec == Init /\ [][Next]_vars

-----------------------------------------------------------------------------
(* Properties *)

\* A task that the plan calls done is in the workspace with everything that its
\* attempts have committed, in whichever attempt and however often its application
\* was cut short by a crash; what a later copy has overwritten is known.
DoneIsWhole ==
    \A t \in Task : status[t] = "done" =>
      \A f \in made[t] : t \in root[f] \/ <<t, f>> \in lost

\* What is applied from a copy that was made for its batch overwrites nothing:
\* neither the other tasks of the batch nor any batch before.
FreshKeeps == [][lost' # lost => Head(items) \notin fresh]_vars

\* When all items that passed the gate have been applied, the workspace is the
\* candidate that the gate has seen.
TestedIsApplied ==
    [][pc = "apply" /\ pc' = "loop" /\ cand # None => root = cand]_vars

=============================================================================
