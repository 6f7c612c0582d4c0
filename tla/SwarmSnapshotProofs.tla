------------------------ MODULE SwarmSnapshotProofs -------------------------
(***************************************************************************)
(* Theorems about SwarmSnapshot: for any tasks, files and claims, with any  *)
(* number of runs, retries and crashes.                                     *)
(***************************************************************************)
EXTENDS SwarmSnapshot, TLAPS, FiniteSetTheorems

\* There are items between the gate and the last application, each once, and
\* the plan calls all of them ready.
Queued ==
    /\ pc \in {"gate", "merge", "apply"} <=> items # <<>>
    /\ \A i, j \in DOMAIN items : items[i] = items[j] => i = j
    /\ \A i \in DOMAIN items : status[items[i]] = "ready_for_merge"

\* Whose turn it is to be prepared, and who is at work.
Staff ==
    /\ batch # {} => pc = "prepare"
    /\ batch \cap crew = {}
    /\ crew # {} => pc \in {"prepare", "start", "work"}
    /\ pc \in {"prepare", "start"} => \A t \in batch \cup crew : status[t] \in {"planned", "failed"}
    /\ \A t \in Task : worker[t] # "none" => pc = "work" /\ t \in crew /\ status[t] = "in_progress"

\* The copy of t is on its branch.
Branched(t) == copy[t] # None /\ copy[t].on = "task"

\* What the head of a branch has, and what a working tree has beyond it.
CopyFits(t) ==
    /\ copy[t] # None => \A f \in made[t] : t \in copy[t].head[f]
    /\ Branched(t) => copy[t].since = made[t]
    /\ t \in crew /\ pc \in {"prepare", "start"} => Branched(t) /\ copy[t].tree = copy[t].head
    /\ worker[t] # "none" => Branched(t)
    /\ worker[t] = "busy" => \A f \in made[t] \cup touched[t] : t \in copy[t].tree[f]
    /\ worker[t] \in {"committed", "changed"} => copy[t].tree = copy[t].head /\ made[t] # {}
    /\ worker[t] = "changed" => changed[t] = made[t]
Copies == \A t \in Task : CopyFits(t)

\* What is ready can be applied, all of it.
Ready ==
    \A t \in Task : status[t] = "ready_for_merge" =>
      copy[t] # None /\ copy[t].tree = copy[t].head /\ made[t] # {} /\ changed[t] = made[t]

\* What is being applied is there, but for the files that are left.
Applied ==
    pc = "apply" =>
      /\ left \subseteq made[Head(items)]
      /\ \A f \in made[Head(items)] \ left : root[f] = copy[Head(items)].tree[f]
      /\ \A f \in made[Head(items)] \ left :
           Head(items) \in root[f] \/ <<Head(items), f>> \in lost

Inv == TypeOK /\ Queued /\ Staff /\ Copies /\ Ready /\ Applied /\ DoneIsWhole

\* Tasks that were put side by side have no claim in common, and change what
\* they claim.
Apart ==
    /\ \A t \in Task : made[t] \cup touched[t] \subseteq files[t]
    /\ Compatible(batch \cup crew)
    /\ pc = "idle" => fresh = {}
    /\ pc \in {"prepare", "start", "work"} => fresh \subseteq crew
    /\ \A t \in fresh, i \in DOMAIN items : t # items[i] => files[t] \cap files[items[i]] = {}

\* A copy made for this batch has all that is in the workspace of what its task
\* may change.
UpToDate ==
    \A t \in fresh : copy[t] # None =>
      \A f \in files[t] : root[f] \subseteq copy[t].tree[f] /\ root[f] \subseteq copy[t].head[f]

\* What has been tested is what is in the workspace once the items are.
Tested == pc \in {"merge", "apply"} /\ cand # None => cand = Assembled(items)

FreshInv == Inv /\ Apart /\ UpToDate

-----------------------------------------------------------------------------
(* Types *)

Statuses == {"planned", "in_progress", "ready_for_merge", "done", "already_satisfied", "failed"}
Workers == {"none", "busy", "committed", "changed", "noop", "failed"}
Labels == {"idle", "loop", "prepare", "start", "work", "gate", "merge", "apply"}

LEMMA TypeInit == Init => TypeOK
<1> SUFFICES ASSUME Init PROVE TypeOK
  OBVIOUS
<1>1. root \in Contents
  BY DEF Init, Contents
<1>2. /\ copy \in [Task -> Copy \cup {None}]
      /\ status \in [Task -> Statuses]
      /\ changed \in [Task -> SUBSET File] /\ touched \in [Task -> SUBSET File]
      /\ made \in [Task -> SUBSET File]
      /\ worker \in [Task -> {"none", "busy", "committed", "changed", "noop", "failed"}]
  BY DEF Init, Nobody, Nothing, Statuses
<1>3. items \in Seq(Task)
  BY DEF Init
<1>4. QED
  BY <1>1, <1>2, <1>3, Zenon DEF Init, TypeOK, Statuses

\* An order of some tasks is a sequence of them, without repetitions.
LEMMA OrdersAre ==
  ASSUME NEW S \in SUBSET Task, NEW s \in Orders(S)
  PROVE  /\ s \in Seq(Task)
         /\ \A i \in DOMAIN s : s[i] \in S
         /\ \A i, j \in DOMAIN s : s[i] = s[j] => i = j
         /\ S # {} => s # <<>>
<1>1. IsFiniteSet(S) /\ Cardinality(S) \in Nat
  BY SnapshotAssumption, FS_Subset, FS_CardinalityType
<1>2. s \in [1 .. Cardinality(S) -> S]
  BY DEF Orders
<1>3. s \in Seq(Task)
  BY <1>1, <1>2
<1>4. ASSUME S # {} PROVE s # <<>>
  <2>1. Cardinality(S) # 0
    BY <1>1, <1>4, FS_EmptySet
  <2>2. DOMAIN s = 1 .. Cardinality(S)
    BY <1>2
  <2>3. 1 \in DOMAIN s
    BY <1>1, <2>1, <2>2
  <2>4. QED
    BY <2>3
<1>5. QED
  BY <1>2, <1>3, <1>4 DEF Orders

\* What cleaning up leaves is a copy.
LEMMA FailedTypes ==
  ASSUME TypeOK, NEW t \in Task, CleanupFailed(t)
  PROVE  copy' \in [Task -> Copy \cup {None}]
<1>1. PICK c \in {copy[t], None} \cup (IF copy[t] = None THEN {} ELSE {Sanitized(copy[t])}) :
        copy' = [copy EXCEPT ![t] = c]
  BY DEF CleanupFailed
<1>2. ASSUME copy[t] # None PROVE Sanitized(copy[t]) \in Copy
  BY <1>2 DEF TypeOK, Sanitized, Copy
<1>3. c \in Copy \cup {None}
  BY <1>1, <1>2 DEF TypeOK
<1>4. QED
  BY <1>1, <1>3 DEF TypeOK

LEMMA AcceptedTypes ==
  ASSUME TypeOK, NEW t \in Task, CleanupAccepted(t)
  PROVE  copy' \in [Task -> Copy \cup {None}]
  BY DEF TypeOK, CleanupAccepted

\* The first item is a task that the plan calls ready.
LEMMA HeadIsTask ==
  ASSUME TypeOK, Queued, pc \in {"gate", "merge", "apply"}
  PROVE  /\ 1 \in DOMAIN items /\ Head(items) = items[1] /\ Head(items) \in Task
         /\ Tail(items) \in Seq(Task)
         /\ status[Head(items)] = "ready_for_merge"
  BY DEF TypeOK, Queued

\* The parts of a copy.
LEMMA CopyParts ==
  ASSUME TypeOK, NEW t \in Task, copy[t] # None
  PROVE  /\ copy[t] \in Copy
         /\ copy[t].tree \in Contents /\ copy[t].head \in Contents
         /\ copy[t].since \in SUBSET File /\ copy[t].on \in {"task", "base"}
<1>1. copy[t] \in Copy
  BY DEF TypeOK
<1>2. QED
  BY <1>1 DEF Copy

\* Copies with some of their parts replaced.
LEMMA WithParts ==
  ASSUME NEW c \in Copy
  PROVE  /\ [c EXCEPT !.tree = c.head] \in Copy
         /\ \A h \in Contents, S \in SUBSET File : [c EXCEPT !.head = h, !.since = S] \in Copy
         /\ [c EXCEPT !.tree = c.head, !.since = {}, !.on = "base"] \in Copy
         /\ \A f \in File, t \in Task : [c EXCEPT !.tree[f] = @ \cup {t}] \in Copy
  BY DEF Copy, Contents

\* A run starts with items that are ready and have their copies.
LEMMA StartRunItems ==
  ASSUME TypeOK, StartRun
  PROVE  /\ items' \in Seq(Task)
         /\ \A i \in DOMAIN items' : /\ status[items'[i]] = "ready_for_merge"
                                     /\ status'[items'[i]] = "ready_for_merge"
         /\ \A i, j \in DOMAIN items' : items'[i] = items'[j] => i = j
         /\ pc' \in {"gate", "loop"} /\ (pc' = "gate" <=> items' # <<>>)
         /\ \A t \in Task : status'[t] = "ready_for_merge" =>
              status[t] = "ready_for_merge" /\ copy'[t] = copy[t]
         /\ \A t \in Task : copy'[t] \in {copy[t], None}
<1> DEFINE ready == {t \in Task : status[t] = "ready_for_merge"}
<1>1. PICK kept \in SUBSET {t \in ready : copy[t] # None} :
        IF auto' /\ ready # {}
        THEN /\ status' = [t \in Task |-> IF t \in ready \ kept THEN "failed" ELSE Recovered[t]]
             /\ \E gone \in SUBSET (ready \ kept) :
                  copy' = [t \in Task |-> IF t \in gone THEN None ELSE copy[t]]
             /\ items' \in Orders(kept)
             /\ pc' = IF kept = {} THEN "loop" ELSE "gate"
        ELSE status' = Recovered /\ items' = <<>> /\ pc' = "loop" /\ UNCHANGED copy
  BY DEF StartRun
<1>2. kept \in SUBSET Task
  OBVIOUS
<1>3. CASE auto' /\ ready # {}
  <2>1. items' \in Orders(kept)
    BY <1>1, <1>3
  <2>2. PICK gone \in SUBSET (ready \ kept) :
          copy' = [t \in Task |-> IF t \in gone THEN None ELSE copy[t]]
    BY <1>1, <1>3
  <2>3. /\ items' \in Seq(Task)
        /\ \A i \in DOMAIN items' : items'[i] \in kept
        /\ \A i, j \in DOMAIN items' : items'[i] = items'[j] => i = j
        /\ kept # {} => items' # <<>>
    BY <1>2, <2>1, OrdersAre
  <2>4. \A t \in kept : status[t] = "ready_for_merge" /\ status'[t] = "ready_for_merge"
    BY <1>1, <1>3 DEF Recovered
  <2>5. \A t \in Task : /\ copy'[t] \in {copy[t], None}
                        /\ status'[t] = "ready_for_merge" =>
                             status[t] = "ready_for_merge" /\ copy'[t] = copy[t]
    BY <1>1, <1>3, <2>2 DEF Recovered
  <2>6. kept = {} => items' = <<>>
    BY <2>3
  <2>7. QED
    BY <1>1, <1>3, <2>3, <2>4, <2>5, <2>6
<1>4. CASE ~ (auto' /\ ready # {})
  <2>1. status' = Recovered /\ items' = <<>> /\ pc' = "loop" /\ copy' = copy
    BY <1>1, <1>4
  <2>2. items' \in Seq(Task) /\ DOMAIN items' = {}
    BY <2>1
  <2>3. \A t \in Task : status'[t] = "ready_for_merge" => status[t] = "ready_for_merge"
    BY <2>1 DEF Recovered
  <2>4. QED
    BY <2>1, <2>2, <2>3
<1>5. QED
  BY <1>3, <1>4

\* A batch ends with items that its workers have made ready.
LEMMA CollectedItems ==
  ASSUME TypeOK, Collected
  PROVE  /\ items' \in Seq(Task)
         /\ \A i \in DOMAIN items' : items'[i] \in crew /\ status[items'[i]] = "ready_for_merge"
         /\ \A i, j \in DOMAIN items' : items'[i] = items'[j] => i = j
         /\ pc' \in {"gate", "loop"} /\ (pc' = "gate" <=> items' # <<>>)
<1> DEFINE ready == {t \in crew : status[t] = "ready_for_merge"}
<1>1. IF auto /\ ready # {} THEN items' \in Orders(ready) /\ pc' = "gate"
      ELSE items' = <<>> /\ pc' = "loop"
  BY DEF Collected
<1>2. ready \in SUBSET Task
  BY DEF TypeOK
<1>3. CASE auto /\ ready # {}
  <2>1. /\ items' \in Seq(Task)
        /\ \A i \in DOMAIN items' : items'[i] \in ready
        /\ \A i, j \in DOMAIN items' : items'[i] = items'[j] => i = j
        /\ items' # <<>>
    BY <1>1, <1>2, <1>3, OrdersAre
  <2>2. QED
    BY <1>1, <1>3, <2>1
<1>4. CASE ~ (auto /\ ready # {})
  <2>1. items' = <<>> /\ pc' = "loop"
    BY <1>1, <1>4
  <2>2. items' \in Seq(Task) /\ DOMAIN items' = {}
    BY <2>1
  <2>3. QED
    BY <2>1, <2>2
<1>5. QED
  BY <1>3, <1>4

\* What follows the first item is still ready once that has been dealt with.
LEMMA ItemsLeft ==
  ASSUME TypeOK, Queued, pc \in {"merge", "apply"}, NextItem,
         \A t \in Task : t # Head(items) => status'[t] = status[t]
  PROVE  Queued' /\ (pc' = "loop" <=> Len(items) = 1) /\ pc' \in {"loop", "merge"}
<1>1. items \in Seq(Task) /\ items # <<>> /\ Len(items) \in Nat /\ Len(items) >= 1
  BY DEF TypeOK, Queued
<1>2. /\ items' \in Seq(Task) /\ Len(items') = Len(items) - 1
      /\ DOMAIN items' = 1 .. Len(items) - 1
      /\ \A i \in DOMAIN items' :
           items'[i] = items[i + 1] /\ i + 1 \in DOMAIN items /\ items[i + 1] \in Task
  BY <1>1 DEF NextItem
<1>3. Head(items) = items[1] /\ 1 \in DOMAIN items /\ DOMAIN items = 1 .. Len(items)
  BY <1>1
<1>4. \A i, j \in DOMAIN items' : items'[i] = items'[j] => i = j
  <2>1. SUFFICES ASSUME NEW i \in DOMAIN items', NEW j \in DOMAIN items', items'[i] = items'[j]
                 PROVE  i = j
    OBVIOUS
  <2>2. i + 1 = j + 1
    BY <1>2, <2>1 DEF Queued
  <2>3. QED
    BY <1>1, <1>2, <2>2
<1>5. \A i \in DOMAIN items' : status'[items'[i]] = "ready_for_merge"
  <2>1. SUFFICES ASSUME NEW i \in DOMAIN items' PROVE status'[items'[i]] = "ready_for_merge"
    OBVIOUS
  <2>2. i + 1 # 1
    BY <1>1, <1>2
  <2>3. items[i + 1] # items[1]
    BY <1>2, <1>3, <2>2 DEF Queued
  <2>4. QED
    BY <1>2, <1>3, <2>3 DEF Queued
<1>6. items' # <<>> <=> Len(items) # 1
  BY <1>1, <1>2
<1>7. pc' = IF Len(items) = 1 THEN "loop" ELSE "merge"
  BY DEF NextItem
<1>8. QED
  BY <1>4, <1>5, <1>6, <1>7 DEF Queued

\* After a failure a copy is as it was, back at its head, or gone.
LEMMA FailedCopies ==
  ASSUME TypeOK, NEW t \in Task, CleanupFailed(t)
  PROVE  /\ \A u \in Task : u # t => copy'[u] = copy[u]
         /\ copy'[t] # None => /\ copy[t] # None
                               /\ copy'[t].head = copy[t].head /\ copy'[t].since = copy[t].since
                               /\ copy'[t].on = copy[t].on
                               /\ copy[t].tree = copy[t].head => copy'[t].tree = copy[t].tree
<1>1. PICK c \in {copy[t], None} \cup (IF copy[t] = None THEN {} ELSE {Sanitized(copy[t])}) :
        copy' = [copy EXCEPT ![t] = c]
  BY DEF CleanupFailed
<1>2. copy'[t] = c /\ \A u \in Task : u # t => copy'[u] = copy[u]
  BY <1>1 DEF TypeOK
<1>3. ASSUME copy[t] # None
      PROVE  LET s == Sanitized(copy[t])
             IN  /\ s.head = copy[t].head /\ s.since = copy[t].since /\ s.on = copy[t].on
                 /\ s.tree = copy[t].head
  BY <1>3, CopyParts DEF Sanitized, Copy
<1>4. QED
  BY <1>1, <1>2, <1>3

\* After an acceptance a copy is as it was or gone.
LEMMA AcceptedCopies ==
  ASSUME TypeOK, NEW t \in Task, CleanupAccepted(t)
  PROVE  /\ \A u \in Task : u # t => copy'[u] = copy[u]
         /\ copy'[t] \in {copy[t], None}
  BY DEF TypeOK, CleanupAccepted

\* Merging within the copy changes no contents, and all that changed is left to copy.
LEMMA MergedParts ==
  ASSUME TypeOK, Queued, Ready, Merge
  PROVE  LET t == Head(items)
         IN  /\ t \in Task /\ copy[t] # None
             /\ \A u \in Task : u # t => copy'[u] = copy[u]
             /\ copy'[t].head = copy[t].head /\ copy'[t].tree = copy[t].head
             /\ copy'[t].on = "base" /\ copy'[t] # None
             /\ left' = changed[t]
<1> DEFINE t == Head(items)
           merged == [copy[t] EXCEPT !.tree = copy[t].head, !.since = {}, !.on = "base"]
<1>1. pc = "merge" /\ copy' = [copy EXCEPT ![t] = merged] /\ left' = Effective(t, merged)
  BY DEF Merge
<1>2. t \in Task /\ status[t] = "ready_for_merge"
  BY <1>1, HeadIsTask
<1>3. copy[t] # None /\ changed[t] = made[t] /\ made[t] # {}
  BY <1>2 DEF Ready
<1>4. copy[t] \in Copy /\ merged \in Copy
  BY <1>2, <1>3, CopyParts, WithParts
<1>5. merged # None
  BY <1>4, SnapshotAssumption
<1>6. merged.head = copy[t].head /\ merged.tree = copy[t].head /\ merged.on = "base"
  BY <1>4 DEF Copy
<1>7. copy'[t] = merged /\ \A u \in Task : u # t => copy'[u] = copy[u]
  BY <1>1, <1>2 DEF TypeOK
<1>8. left' = changed[t]
  BY <1>1, <1>3 DEF Effective
<1>9. QED
  BY <1>2, <1>3, <1>5, <1>6, <1>7, <1>8

-----------------------------------------------------------------------------
(* Every action preserves every part of the invariant *)

\* Merging, committing and collecting keep the types because of what Copies and
\* Ready say of the copies they find.
LEMMA TypeStep == ASSUME TypeOK, Queued, Copies, Ready, [Next]_vars PROVE TypeOK'
<1>1. ASSUME StartRun PROVE TypeOK'
  <2>1. copy' \in [Task -> Copy \cup {None}]
    BY <1>1 DEF TypeOK, Copy, Contents, StartRun
  <2>2. status' \in [Task -> Statuses]
    BY <1>1 DEF TypeOK, StartRun, Statuses, Mark, Recovered
  <2>3. pc' \in Labels
    BY <1>1 DEF Labels, StartRun
  <2>4. auto' \in BOOLEAN
    BY <1>1 DEF TypeOK, StartRun
  <2>5. items' \in Seq(Task)
    BY <1>1, StartRunItems
  <2>6. QED
    BY <1>1, <2>1, <2>2, <2>3, <2>4, <2>5, Zenon DEF TypeOK, Statuses, Workers, Labels,
       StartRun, disk, memory, history
<1>2. ASSUME NextBatch PROVE TypeOK'
  <2>1. batch' \subseteq Task
    BY <1>2 DEF TypeOK, NextBatch
  <2>2. fresh' \subseteq Task
    BY <1>2 DEF TypeOK, NextBatch
  <2>3. pc' \in Labels
    BY <1>2 DEF Labels, NextBatch
  <2>4. QED
    BY <1>2, <2>1, <2>2, <2>3, Zenon DEF TypeOK, Statuses, Workers, Labels, NextBatch,
       disk, memory, history
<1>3. ASSUME EndRun PROVE TypeOK'
  <2>1. pc' \in Labels
    BY <1>3 DEF Labels, EndRun, Halt
  <2>2. auto' \in BOOLEAN
    BY <1>3 DEF TypeOK, EndRun, Halt
  <2>3. batch' \subseteq Task
    BY <1>3 DEF TypeOK, EndRun, Halt
  <2>4. crew' \subseteq Task
    BY <1>3 DEF TypeOK, EndRun, Halt
  <2>5. worker' \in [Task -> Workers]
    BY <1>3 DEF TypeOK, EndRun, Halt, Workers, Nobody
  <2>6. touched' \in [Task -> SUBSET File]
    BY <1>3 DEF TypeOK, EndRun, Halt, Nothing
  <2>7. items' \in Seq(Task)
    BY <1>3 DEF EndRun, Halt
  <2>8. left' \subseteq File
    BY <1>3 DEF TypeOK, EndRun, Halt, Effective
  <2>9. fresh' \subseteq Task
    BY <1>3 DEF TypeOK, EndRun, Halt
  <2>10. cand' \in Contents \cup {None}
    BY <1>3 DEF TypeOK, EndRun, Halt, Assembled, Contents
  <2>11. QED
    BY <1>3, <2>1, <2>2, <2>3, <2>4, <2>5, <2>6, <2>7, <2>8, <2>9, <2>10, Zenon
       DEF TypeOK, Statuses, Workers, Labels, EndRun, disk, memory, history, Halt
<1>4. ASSUME Start PROVE TypeOK'
  <2>1. status' \in [Task -> Statuses]
    BY <1>4 DEF TypeOK, Start, Statuses, Mark, Recovered
  <2>2. worker' \in [Task -> Workers]
    BY <1>4 DEF TypeOK, Start, Workers, Nobody
  <2>3. touched' \in [Task -> SUBSET File]
    BY <1>4 DEF TypeOK, Start, Nothing
  <2>4. pc' \in Labels
    BY <1>4 DEF Labels, Start
  <2>5. QED
    BY <1>4, <2>1, <2>2, <2>3, <2>4, Zenon DEF TypeOK, Statuses, Workers, Labels, Start,
       disk, memory, history
<1>5. ASSUME Collected PROVE TypeOK'
  <2>1. items' \in Seq(Task)
    BY <1>5, CollectedItems
  <2>2. pc' \in Labels
    BY <1>5 DEF Labels, Collected
  <2>3. crew' \subseteq Task
    BY <1>5 DEF TypeOK, Collected
  <2>4. touched' \in [Task -> SUBSET File]
    BY <1>5 DEF TypeOK, Collected, Nothing
  <2>5. QED
    BY <1>5, <2>1, <2>2, <2>3, <2>4, Zenon DEF TypeOK, Statuses, Workers, Labels,
       Collected, disk, memory, history
<1>6. ASSUME NEW t \in Task, Prepare(t) PROVE TypeOK'
  <2>1. copy' \in [Task -> Copy \cup {None}]
    <3>1. CASE MakeCopy(t)
      BY <3>1 DEF TypeOK, MakeCopy, Copy, Contents
    <3>2. CASE Reuse(t)
      BY <3>2, CopyParts, WithParts DEF TypeOK, Reuse, Sanitized
    <3>3. QED
      BY <1>6, <3>1, <3>2 DEF Prepare
  <2>2. made' \in [Task -> SUBSET File]
    BY <1>6 DEF TypeOK, Prepare, MakeCopy, Reuse, Prepared
  <2>3. fresh' \subseteq Task
    BY <1>6 DEF TypeOK, Prepare, MakeCopy, Reuse, Prepared
  <2>4. crew' \subseteq Task
    BY <1>6 DEF TypeOK, Prepare, MakeCopy, Reuse, Prepared
  <2>5. batch' \subseteq Task
    BY <1>6 DEF TypeOK, Prepare, MakeCopy, Reuse, Prepared
  <2>6. pc' \in Labels
    BY <1>6 DEF Labels, TypeOK, Prepare, Prepared
  <2>7. QED
    BY <1>6, <2>1, <2>2, <2>3, <2>4, <2>5, <2>6, Zenon DEF TypeOK, Statuses, Workers,
       Labels, Prepare, disk, memory, history
<1>7. ASSUME NEW t \in Task, PrepareFails(t) PROVE TypeOK'
  <2>1. status' \in [Task -> Statuses]
    BY <1>7 DEF TypeOK, PrepareFails, Statuses, Mark, Recovered, Prepared
  <2>2. copy' \in [Task -> Copy \cup {None}]
    BY <1>7, FailedTypes DEF PrepareFails
  <2>3. batch' \subseteq Task
    BY <1>7 DEF TypeOK, PrepareFails, Prepared
  <2>4. pc' \in Labels
    BY <1>7 DEF Labels, TypeOK, PrepareFails, Prepared
  <2>5. QED
    BY <1>7, <2>1, <2>2, <2>3, <2>4, Zenon DEF TypeOK, Statuses, Workers, Labels,
       PrepareFails, disk, memory, history
<1>8. ASSUME NEW t \in Task, Commit(t) PROVE TypeOK'
  <2>1. copy' \in [Task -> Copy \cup {None}]
    BY <1>8, CopyParts, WithParts DEF Copies, CopyFits, Branched, Commit, TypeOK
  <2>2. made' \in [Task -> SUBSET File]
    BY <1>8 DEF TypeOK, Commit
  <2>3. worker' \in [Task -> Workers]
    BY <1>8 DEF TypeOK, Commit, Workers, Nobody
  <2>4. QED
    BY <1>8, <2>1, <2>2, <2>3, Zenon DEF TypeOK, Statuses, Workers, Labels, Commit,
       disk, memory, history
<1>9. ASSUME NEW t \in Task, Return(t) PROVE TypeOK'
  <2>1. worker' \in [Task -> Workers]
    BY <1>9 DEF TypeOK, Return, Workers, Nobody, ChangedFiles, Copy
  <2>2. changed' \in [Task -> SUBSET File]
    BY <1>9, CopyParts DEF TypeOK, Copies, CopyFits, Branched, Return, ChangedFiles
  <2>3. QED
    BY <1>9, <2>1, <2>2, Zenon DEF TypeOK, Statuses, Workers, Labels, Return, disk,
       memory, history
<1>10. ASSUME NEW t \in Task, Collect(t) PROVE TypeOK'
  <2>1. status' \in [Task -> Statuses]
    BY <1>10 DEF TypeOK, Collect, Statuses, Mark, Recovered
  <2>2. copy' \in [Task -> Copy \cup {None}]
    BY <1>10, FailedTypes, AcceptedTypes DEF TypeOK, Collect
  <2>3. worker' \in [Task -> Workers]
    BY <1>10 DEF TypeOK, Collect, Workers, Nobody
  <2>4. QED
    BY <1>10, <2>1, <2>2, <2>3, Zenon DEF TypeOK, Statuses, Workers, Labels, Collect,
       disk, memory, history
<1>11. ASSUME NEW t \in Task, NEW f \in File, Write(t, f) PROVE TypeOK'
  <2>1. copy' \in [Task -> Copy \cup {None}]
    BY <1>11, CopyParts, WithParts DEF Copies, CopyFits, Branched, Write, TypeOK
  <2>2. touched' \in [Task -> SUBSET File]
    BY <1>11 DEF TypeOK, Write, Nothing
  <2>3. QED
    BY <1>11, <2>1, <2>2, Zenon DEF TypeOK, Statuses, Workers, Labels, Write, disk,
       memory, history
<1>12. ASSUME Accept PROVE TypeOK'
  <2>1. cand' \in Contents \cup {None}
    BY <1>12 DEF Accept, Assembled, Contents
  <2>2. pc' \in Labels
    BY <1>12 DEF Labels, Accept
  <2>3. QED
    BY <1>12, <2>1, <2>2, Zenon DEF TypeOK, Statuses, Workers, Labels, Accept, disk,
       memory, history
<1>13. ASSUME Refuse PROVE TypeOK'
  <2>1. status' \in [Task -> Statuses]
    BY <1>13 DEF TypeOK, Refuse, Statuses, Mark, Recovered
  <2>2. copy' \in [Task -> Copy \cup {None}]
    BY <1>13 DEF TypeOK, Copy, Contents, Refuse
  <2>3. items' \in Seq(Task)
    BY <1>13 DEF Refuse
  <2>4. pc' \in Labels
    BY <1>13 DEF Labels, Refuse
  <2>5. QED
    BY <1>13, <2>1, <2>2, <2>3, <2>4, Zenon DEF TypeOK, Statuses, Workers, Labels,
       Refuse, disk, memory, history
<1>14. ASSUME Merge PROVE TypeOK'
  <2>1. copy' \in [Task -> Copy \cup {None}]
    BY <1>14, CopyParts, WithParts, HeadIsTask DEF Ready, TypeOK, Merge
  <2>2. left' \subseteq File
    BY <1>14, HeadIsTask DEF TypeOK, Merge, Effective
  <2>3. pc' \in Labels
    BY <1>14 DEF Labels, Merge
  <2>4. QED
    BY <1>14, <2>1, <2>2, <2>3, Zenon DEF TypeOK, Statuses, Workers, Labels, Merge,
       disk, memory, history
<1>15. ASSUME MergeFails PROVE TypeOK'
  <2>1. status' \in [Task -> Statuses]
    BY <1>15 DEF TypeOK, MergeFails, Statuses, Mark, Recovered
  <2>2. copy' \in [Task -> Copy \cup {None}]
    BY <1>15, FailedTypes, HeadIsTask DEF MergeFails
  <2>3. items' \in Seq(Task)
    BY <1>15, HeadIsTask DEF MergeFails, NextItem
  <2>4. pc' \in Labels
    BY <1>15 DEF Labels, MergeFails, NextItem
  <2>5. cand' \in Contents \cup {None}
    BY <1>15 DEF TypeOK, MergeFails, Assembled, Contents
  <2>6. QED
    BY <1>15, <2>1, <2>2, <2>3, <2>4, <2>5, Zenon DEF TypeOK, Statuses, Workers, Labels,
       MergeFails, disk, memory, history
<1>16. ASSUME NEW f \in File, Sync(f) PROVE TypeOK'
  <2>1. root' \in Contents
    BY <1>16, CopyParts, HeadIsTask DEF TypeOK, Ready, Contents, Sync
  <2>2. lost' \subseteq Task \X File
    BY <1>16, CopyParts, HeadIsTask DEF TypeOK, Ready, Contents, Sync
  <2>3. left' \subseteq File
    BY <1>16, HeadIsTask DEF TypeOK, Sync, Effective
  <2>4. QED
    BY <1>16, <2>1, <2>2, <2>3, Zenon DEF TypeOK, Statuses, Workers, Labels, Sync, disk,
       memory, history
<1>17. ASSUME MarkDone PROVE TypeOK'
  <2>1. status' \in [Task -> Statuses]
    BY <1>17 DEF TypeOK, MarkDone, Statuses, Mark, Recovered
  <2>2. copy' \in [Task -> Copy \cup {None}]
    BY <1>17, AcceptedTypes, HeadIsTask DEF MarkDone
  <2>3. items' \in Seq(Task)
    BY <1>17, HeadIsTask DEF MarkDone, NextItem
  <2>4. pc' \in Labels
    BY <1>17 DEF Labels, MarkDone, NextItem
  <2>5. QED
    BY <1>17, <2>1, <2>2, <2>3, <2>4, Zenon DEF TypeOK, Statuses, Workers, Labels,
       MarkDone, disk, memory, history
<1>18. ASSUME Crash PROVE TypeOK'
  <2>1. pc' \in Labels
    BY <1>18 DEF Labels, Crash, Halt
  <2>2. auto' \in BOOLEAN
    BY <1>18 DEF TypeOK, Crash, Halt
  <2>3. batch' \subseteq Task
    BY <1>18 DEF TypeOK, Crash, Halt
  <2>4. crew' \subseteq Task
    BY <1>18 DEF TypeOK, Crash, Halt
  <2>5. worker' \in [Task -> Workers]
    BY <1>18 DEF TypeOK, Crash, Halt, Workers, Nobody
  <2>6. touched' \in [Task -> SUBSET File]
    BY <1>18 DEF TypeOK, Crash, Halt, Nothing
  <2>7. items' \in Seq(Task)
    BY <1>18 DEF Crash, Halt
  <2>8. left' \subseteq File
    BY <1>18 DEF TypeOK, Crash, Halt, Effective
  <2>9. fresh' \subseteq Task
    BY <1>18 DEF TypeOK, Crash, Halt
  <2>10. cand' \in Contents \cup {None}
    BY <1>18 DEF TypeOK, Crash, Halt, Assembled, Contents
  <2>11. QED
    BY <1>18, <2>1, <2>2, <2>3, <2>4, <2>5, <2>6, <2>7, <2>8, <2>9, <2>10, Zenon
       DEF TypeOK, Statuses, Workers, Labels, Crash, disk, memory, history, Halt
<1>19. CASE UNCHANGED vars
  BY <1>19, SMT DEF TypeOK, vars, disk, memory, history
<1>20. QED
  BY <1>1, <1>2, <1>3, <1>4, <1>5, <1>6, <1>7, <1>8, <1>9, <1>10, <1>11, <1>12, <1>13,
     <1>14, <1>15, <1>16, <1>17, <1>18, <1>19 DEF Next

\* Items are made of what is ready and lose their first when that is dealt with.
LEMMA QueuedStep == ASSUME TypeOK, Queued, Staff, [Next]_vars PROVE Queued'
<1>1. ASSUME StartRun PROVE Queued'
  BY <1>1, StartRunItems DEF Queued
<1>2. ASSUME NextBatch PROVE Queued'
  BY <1>2 DEF Queued, Staff, TypeOK, NextBatch, disk, memory, history
<1>3. ASSUME EndRun PROVE Queued'
  BY <1>3 DEF Queued, Staff, TypeOK, EndRun, Halt, Nobody, Nothing, disk, memory, history
<1>4. ASSUME Start PROVE Queued'
  BY <1>4 DEF Queued, Staff, TypeOK, Start, Nothing, disk, memory, history
<1>5. ASSUME Collected PROVE Queued'
  BY <1>5, CollectedItems DEF Queued, Collected, disk
<1>6. ASSUME NEW t \in Task, Prepare(t) PROVE Queued'
  BY <1>6 DEF Queued, Staff, TypeOK, Prepare, MakeCopy, Reuse, Prepared, Sanitized,
     disk, memory, history
<1>7. ASSUME NEW t \in Task, PrepareFails(t) PROVE Queued'
  BY <1>7 DEF Queued, Staff, TypeOK, PrepareFails, Prepared, Mark, disk, memory, history
<1>8. ASSUME NEW t \in Task, Commit(t) PROVE Queued'
  BY <1>8 DEF Queued, Staff, TypeOK, Commit, disk, memory, history
<1>9. ASSUME NEW t \in Task, Return(t) PROVE Queued'
  BY <1>9 DEF Queued, Staff, TypeOK, Return, ChangedFiles, disk, memory, history
<1>10. ASSUME NEW t \in Task, Collect(t) PROVE Queued'
  BY <1>10 DEF Queued, Staff, TypeOK, Collect, Mark, disk, memory, history
<1>11. ASSUME NEW t \in Task, NEW f \in File, Write(t, f) PROVE Queued'
  BY <1>11 DEF Queued, Staff, TypeOK, Write, disk, memory, history
<1>12. ASSUME Accept PROVE Queued'
  BY <1>12 DEF Queued, Staff, TypeOK, Accept, Assembled, disk, memory, history
<1>13. ASSUME Refuse PROVE Queued'
  BY <1>13 DEF Queued, Staff, TypeOK, Refuse, disk, memory, history
<1>14. ASSUME Merge PROVE Queued'
  BY <1>14 DEF Queued, Staff, TypeOK, Merge, Effective, disk, memory, history
<1>15. ASSUME MergeFails PROVE Queued'
  BY <1>15, ItemsLeft DEF MergeFails, Mark, TypeOK
<1>16. ASSUME NEW f \in File, Sync(f) PROVE Queued'
  BY <1>16 DEF Queued, Staff, TypeOK, Sync, disk, memory, history
<1>17. ASSUME MarkDone PROVE Queued'
  BY <1>17, ItemsLeft DEF MarkDone, Mark, TypeOK
<1>18. ASSUME Crash PROVE Queued'
  BY <1>18 DEF Queued, Staff, TypeOK, Crash, Halt, Nobody, Nothing, disk, memory, history
<1>19. CASE UNCHANGED vars
  BY <1>19, SMT DEF Queued, Staff, TypeOK, vars, disk, memory, history
<1>20. QED
  BY <1>1, <1>2, <1>3, <1>4, <1>5, <1>6, <1>7, <1>8, <1>9, <1>10, <1>11, <1>12, <1>13,
     <1>14, <1>15, <1>16, <1>17, <1>18, <1>19 DEF Next

\* A worker is at work only between the start of its batch and its collection.
LEMMA StaffStep == ASSUME TypeOK, Queued, Staff, [Next]_vars PROVE Staff'
<1>1. ASSUME StartRun PROVE Staff'
  BY <1>1 DEF Staff, Queued, TypeOK, StartRun, Recovered, disk, memory, history
<1>2. ASSUME NextBatch PROVE Staff'
  BY <1>2 DEF Staff, Queued, TypeOK, NextBatch, disk, memory, history
<1>3. ASSUME EndRun PROVE Staff'
  BY <1>3 DEF Staff, Queued, TypeOK, EndRun, Halt, Nobody, Nothing, disk, memory, history
<1>4. ASSUME Start PROVE Staff'
  BY <1>4 DEF Staff, Queued, TypeOK, Start, Nothing, disk, memory, history
<1>5. ASSUME Collected PROVE Staff'
  BY <1>5 DEF Staff, Queued, TypeOK, Collected, Nothing, disk, memory, history
<1>6. ASSUME NEW t \in Task, Prepare(t) PROVE Staff'
  BY <1>6 DEF Staff, Queued, TypeOK, Prepare, MakeCopy, Reuse, Prepared, Sanitized,
     disk, memory, history
<1>7. ASSUME NEW t \in Task, PrepareFails(t) PROVE Staff'
  BY <1>7 DEF Staff, Queued, TypeOK, PrepareFails, Prepared, Mark, disk, memory, history
<1>8. ASSUME NEW t \in Task, Commit(t) PROVE Staff'
  BY <1>8 DEF Staff, Queued, TypeOK, Commit, disk, memory, history
<1>9. ASSUME NEW t \in Task, Return(t) PROVE Staff'
  BY <1>9 DEF Staff, Queued, TypeOK, Return, ChangedFiles, disk, memory, history
<1>10. ASSUME NEW t \in Task, Collect(t) PROVE Staff'
  BY <1>10 DEF Staff, Queued, TypeOK, Collect, Mark, disk, memory, history
<1>11. ASSUME NEW t \in Task, NEW f \in File, Write(t, f) PROVE Staff'
  BY <1>11 DEF Staff, Queued, TypeOK, Write, disk, memory, history
<1>12. ASSUME Accept PROVE Staff'
  BY <1>12 DEF Staff, Queued, TypeOK, Accept, Assembled, disk, memory, history
<1>13. ASSUME Refuse PROVE Staff'
  BY <1>13 DEF Staff, Queued, TypeOK, Refuse, disk, memory, history
<1>14. ASSUME Merge PROVE Staff'
  BY <1>14 DEF Staff, Queued, TypeOK, Merge, Effective, disk, memory, history
<1>15. ASSUME MergeFails PROVE Staff'
  BY <1>15 DEF Staff, Queued, TypeOK, MergeFails, Mark, NextItem, disk, memory, history
<1>16. ASSUME NEW f \in File, Sync(f) PROVE Staff'
  BY <1>16 DEF Staff, Queued, TypeOK, Sync, disk, memory, history
<1>17. ASSUME MarkDone PROVE Staff'
  BY <1>17 DEF Staff, Queued, TypeOK, MarkDone, Mark, NextItem, disk, memory, history
<1>18. ASSUME Crash PROVE Staff'
  BY <1>18 DEF Staff, Queued, TypeOK, Crash, Halt, Nobody, Nothing, disk, memory, history
<1>19. CASE UNCHANGED vars
  BY <1>19, SMT DEF Staff, Queued, TypeOK, vars, disk, memory, history
<1>20. QED
  BY <1>1, <1>2, <1>3, <1>4, <1>5, <1>6, <1>7, <1>8, <1>9, <1>10, <1>11, <1>12, <1>13,
     <1>14, <1>15, <1>16, <1>17, <1>18, <1>19 DEF Next

\* A commit adds what the attempt has changed, and a copy is used again only with
\* all that was committed in it.
LEMMA CopiesStep == ASSUME TypeOK, TypeOK', Queued, Staff, Copies, Ready, [Next]_vars
    PROVE Copies'
<1>1. ASSUME StartRun PROVE Copies'
  BY <1>1 DEF Copies, CopyFits, Staff, TypeOK, Branched, StartRun, Recovered, disk,
     memory, history
<1>2. ASSUME NextBatch PROVE Copies'
  BY <1>2 DEF Copies, CopyFits, Staff, TypeOK, Branched, NextBatch, disk, memory, history
<1>3. ASSUME EndRun PROVE Copies'
  BY <1>3 DEF Copies, CopyFits, Staff, TypeOK, Branched, EndRun, Halt, Nobody, Nothing,
     disk, memory, history
<1>4. ASSUME Start PROVE Copies'
  BY <1>4 DEF Copies, CopyFits, Staff, TypeOK, Branched, Start, Nothing, disk, memory,
     history
<1>5. ASSUME Collected PROVE Copies'
  BY <1>5 DEF Copies, CopyFits, Staff, TypeOK, Branched, Collected, Nothing, disk,
     memory, history
<1>6. ASSUME NEW t \in Task, Prepare(t) PROVE Copies'
  <2> SUFFICES ASSUME NEW u \in Task PROVE CopyFits(u)'
    BY DEF Copies
  <2>0. CopyFits(u)
    BY DEF Copies
  <2>1. pc = "prepare" /\ pc' \in {"prepare", "start"} /\ crew' = crew \cup {t} /\ t \notin crew
    BY <1>6 DEF Prepare, Prepared, Staff
  <2>2. worker' = worker /\ touched' = touched /\ changed' = changed /\ \A v \in Task : worker[v] = "none"
    BY <1>6, <2>1 DEF Prepare, Staff
  <2>3. CASE u # t
    <3>1. copy'[u] = copy[u] /\ made'[u] = made[u]
      BY <1>6, <2>3 DEF Prepare, MakeCopy, Reuse, TypeOK
    <3>2. QED
      BY <2>0, <2>1, <2>2, <2>3, <3>1 DEF CopyFits, Branched
  <2>4. CASE u = t /\ MakeCopy(t)
    <3>1. copy'[t] = [tree |-> root, head |-> root, since |-> {}, on |-> "task"] /\ made'[t] = {}
      BY <2>4 DEF MakeCopy, TypeOK
    <3>2. copy'[t] # None
      BY <3>1, SnapshotAssumption DEF TypeOK, Copy
    <3>3. QED
      BY <2>1, <2>2, <2>4, <3>1, <3>2 DEF CopyFits, Branched
  <2>5. CASE u = t /\ Reuse(t)
    <3>1. copy[t] # None /\ copy[t].on = "task" /\ copy' = [copy EXCEPT ![t] = Sanitized(copy[t])] /\ made' = made
      BY <2>5 DEF Reuse
    <3>2. copy[t] \in Copy /\ Sanitized(copy[t]) \in Copy
      BY <3>1, CopyParts, WithParts DEF Sanitized
    <3>3. copy'[t] = Sanitized(copy[t])
      BY <3>1 DEF TypeOK
    <3>4. /\ copy'[t] # None /\ copy'[t].head = copy[t].head /\ copy'[t].tree = copy[t].head
          /\ copy'[t].since = copy[t].since /\ copy'[t].on = copy[t].on
      BY <3>2, <3>3, SnapshotAssumption DEF Sanitized, Copy
    <3>5. QED
      BY <2>0, <2>1, <2>2, <2>5, <3>1, <3>4 DEF CopyFits, Branched
  <2>6. QED
    BY <1>6, <2>3, <2>4, <2>5 DEF Prepare
<1>7. ASSUME NEW t \in Task, PrepareFails(t) PROVE Copies'
  <2> SUFFICES ASSUME NEW u \in Task PROVE CopyFits(u)'
    BY DEF Copies
  <2>0. CopyFits(u)
    BY DEF Copies
  <2>1. /\ pc = "prepare" /\ crew' = crew /\ t \notin crew
        /\ worker' = worker /\ touched' = touched /\ changed' = changed /\ made' = made
        /\ \A v \in Task : worker[v] = "none"
    BY <1>7 DEF PrepareFails, Staff, history
  <2>2. /\ \A v \in Task : v # t => copy'[v] = copy[v]
        /\ copy'[t] # None => /\ copy[t] # None /\ copy'[t].head = copy[t].head
                              /\ copy'[t].since = copy[t].since /\ copy'[t].on = copy[t].on
    BY <1>7, FailedCopies DEF PrepareFails
  <2>3. CASE u # t
    BY <2>0, <2>1, <2>2, <2>3 DEF CopyFits, Branched
  <2>4. CASE u = t
    BY <2>0, <2>1, <2>2, <2>4 DEF CopyFits, Branched
  <2>5. QED
    BY <2>3, <2>4
<1>8. ASSUME NEW t \in Task, Commit(t) PROVE Copies'
  <2> SUFFICES ASSUME NEW u \in Task PROVE CopyFits(u)'
    BY DEF Copies
  <2>0. CopyFits(u)
    BY DEF Copies
  <2>1. /\ pc = "work" /\ pc' = pc /\ crew' = crew /\ touched' = touched /\ changed' = changed
        /\ worker[t] = "busy" /\ touched[t] # {}
        /\ worker'[t] = "committed" /\ made'[t] = made[t] \cup touched[t]
        /\ \A v \in Task : v # t => /\ worker'[v] = worker[v] /\ made'[v] = made[v]
                                     /\ copy'[v] = copy[v]
    BY <1>8 DEF Commit, TypeOK
  <2>2. Branched(t) /\ CopyFits(t) /\ copy[t] \in Copy
    BY <2>1, CopyParts DEF Copies, CopyFits, Branched
  <2>3. copy'[t] = [copy[t] EXCEPT !.head = copy[t].tree, !.since = @ \cup touched[t]]
    BY <1>8 DEF Commit, TypeOK
  <2>4. /\ copy'[t].head = copy[t].tree /\ copy'[t].tree = copy[t].tree /\ copy'[t].on = "task"
        /\ copy'[t].since = copy[t].since \cup touched[t]
    BY <2>2, <2>3 DEF Copy, Branched
  <2>5. copy'[t] # None
    <3>1. copy[t].tree \in Contents /\ copy[t].since \cup touched[t] \in SUBSET File
      BY <2>2, CopyParts DEF TypeOK, Branched
    <3>2. copy'[t] = [copy[t] EXCEPT !.head = copy[t].tree, !.since = copy[t].since \cup touched[t]]
      BY <2>3
    <3>3. copy'[t] \in Copy
      <4> DEFINE c == copy[t]
                 S == copy[t].since \cup touched[t]
      <4>1. [c EXCEPT !.head = c.tree, !.since = S] \in Copy
        BY <2>2, <3>1 DEF Copy
      <4>2. QED
        BY <3>2, <4>1
    <3>4. QED
      BY <3>3, SnapshotAssumption
  <2>6. CASE u # t
    BY <2>0, <2>1, <2>6 DEF CopyFits, Branched
  <2>7. CASE u = t
    BY <2>1, <2>2, <2>4, <2>5, <2>7 DEF CopyFits, Branched
  <2>8. QED
    BY <2>6, <2>7
<1>9. ASSUME NEW t \in Task, Return(t) PROVE Copies'
  BY <1>9 DEF Copies, CopyFits, Staff, TypeOK, Branched, Return, ChangedFiles, disk,
     memory, history
<1>10. ASSUME NEW t \in Task, Collect(t) PROVE Copies'
  <2> SUFFICES ASSUME NEW u \in Task PROVE CopyFits(u)'
    BY DEF Copies
  <2>0. CopyFits(u)
    BY DEF Copies
  <2>1. /\ pc = "work" /\ pc' = pc /\ crew' = crew /\ touched' = touched /\ changed' = changed /\ made' = made
        /\ worker'[t] = "none" /\ \A v \in Task : v # t => worker'[v] = worker[v]
    BY <1>10 DEF Collect, TypeOK, history
  <2>2. \/ copy' = copy
        \/ CleanupAccepted(t)
        \/ CleanupFailed(t)
    BY <1>10 DEF Collect
  <2>3. /\ \A v \in Task : v # t => copy'[v] = copy[v]
        /\ copy'[t] # None => /\ copy[t] # None /\ copy'[t].head = copy[t].head
                              /\ copy'[t].since = copy[t].since /\ copy'[t].on = copy[t].on
    BY <2>2, FailedCopies, AcceptedCopies
  <2>4. CASE u # t
    BY <2>0, <2>1, <2>3, <2>4 DEF CopyFits, Branched
  <2>5. CASE u = t
    BY <2>0, <2>1, <2>3, <2>5 DEF CopyFits, Branched
  <2>6. QED
    BY <2>4, <2>5
<1>11. ASSUME NEW t \in Task, NEW f \in File, Write(t, f) PROVE Copies'
  <2> SUFFICES ASSUME NEW u \in Task PROVE CopyFits(u)'
    BY DEF Copies
  <2>0. CopyFits(u)
    BY DEF Copies
  <2>1. /\ pc = "work" /\ pc' = pc /\ crew' = crew /\ changed' = changed /\ made' = made
        /\ worker' = worker /\ worker[t] = "busy"
        /\ touched'[t] = touched[t] \cup {f}
        /\ \A v \in Task : v # t => touched'[v] = touched[v] /\ copy'[v] = copy[v]
    BY <1>11 DEF Write, TypeOK, history
  <2>2. Branched(t) /\ CopyFits(t) /\ copy[t] \in Copy /\ copy[t].tree \in Contents
    BY <2>1, CopyParts DEF Copies, CopyFits, Branched
  <2>3. copy'[t] = [copy[t] EXCEPT !.tree[f] = @ \cup {t}]
    BY <1>11 DEF Write, TypeOK
  <2>4. /\ copy'[t].head = copy[t].head /\ copy'[t].on = "task" /\ copy'[t].since = copy[t].since
        /\ copy'[t].tree = [copy[t].tree EXCEPT ![f] = @ \cup {t}]
    BY <2>2, <2>3 DEF Copy, Branched
  <2>5. copy'[t] # None
    <3>1. copy'[t] \in Copy
      BY <2>2, <2>3 DEF Copy, Contents
    <3>2. QED
      BY <3>1, SnapshotAssumption
  <2>6. \A g \in File : copy[t].tree[g] \subseteq copy'[t].tree[g] /\ t \in copy'[t].tree[f]
    BY <2>2, <2>4 DEF Contents
  <2>7. made[t] \subseteq File /\ touched[t] \subseteq File
    BY DEF TypeOK
  <2>8. CASE u # t
    BY <2>0, <2>1, <2>8 DEF CopyFits, Branched
  <2>9. CASE u = t
    BY <2>1, <2>2, <2>4, <2>5, <2>6, <2>7, <2>9 DEF CopyFits, Branched
  <2>10. QED
    BY <2>8, <2>9
<1>12. ASSUME Accept PROVE Copies'
  BY <1>12 DEF Copies, CopyFits, Staff, TypeOK, Branched, Accept, Assembled, disk,
     memory, history
<1>13. ASSUME Refuse PROVE Copies'
  BY <1>13 DEF Copies, CopyFits, Staff, TypeOK, Branched, Refuse, disk, memory, history
<1>14. ASSUME Merge PROVE Copies'
  <2> SUFFICES ASSUME NEW u \in Task PROVE CopyFits(u)'
    BY DEF Copies
  <2>0. CopyFits(u)
    BY DEF Copies
  <2>1. made' = made /\ crew' = {} /\ \A v \in Task : worker'[v] = "none"
    BY <1>14 DEF Merge, Staff, history
  <2>2. /\ \A v \in Task : v # Head(items) => copy'[v] = copy[v]
        /\ copy'[Head(items)] # None =>
             LET h == Head(items)
             IN  /\ copy[h] # None /\ copy'[h].head = copy[h].head
                 /\ \/ copy'[h].on = "base"
                    \/ copy'[h].since = copy[h].since /\ copy'[h].on = copy[h].on
    <3>1. Merge
      BY <1>14
    <3>2. LET h == Head(items)
          IN  /\ h \in Task /\ copy[h] # None /\ \A v \in Task : v # h => copy'[v] = copy[v]
              /\ copy'[h].head = copy[h].head /\ copy'[h].on = "base"
      BY <3>1, MergedParts
    <3>3. QED
      BY <3>2
  <2>3. CASE u # Head(items)
    BY <2>0, <2>1, <2>2, <2>3 DEF CopyFits, Branched
  <2>4. CASE u = Head(items)
    BY <2>0, <2>1, <2>2, <2>4 DEF CopyFits, Branched
  <2>5. QED
    BY <2>3, <2>4
<1>15. ASSUME MergeFails PROVE Copies'
  <2> SUFFICES ASSUME NEW u \in Task PROVE CopyFits(u)'
    BY DEF Copies
  <2>0. CopyFits(u)
    BY DEF Copies
  <2>1. made' = made /\ crew' = {} /\ \A v \in Task : worker'[v] = "none"
    BY <1>15 DEF MergeFails, Staff, history
  <2>2. /\ \A v \in Task : v # Head(items) => copy'[v] = copy[v]
        /\ copy'[Head(items)] # None =>
             LET h == Head(items)
             IN  /\ copy[h] # None /\ copy'[h].head = copy[h].head
                 /\ \/ copy'[h].on = "base"
                    \/ copy'[h].since = copy[h].since /\ copy'[h].on = copy[h].on
    BY <1>15, HeadIsTask, FailedCopies DEF MergeFails
  <2>3. CASE u # Head(items)
    BY <2>0, <2>1, <2>2, <2>3 DEF CopyFits, Branched
  <2>4. CASE u = Head(items)
    BY <2>0, <2>1, <2>2, <2>4 DEF CopyFits, Branched
  <2>5. QED
    BY <2>3, <2>4
<1>16. ASSUME NEW f \in File, Sync(f) PROVE Copies'
  BY <1>16 DEF Copies, CopyFits, Staff, TypeOK, Branched, Sync, disk, memory, history
<1>17. ASSUME MarkDone PROVE Copies'
  <2> SUFFICES ASSUME NEW u \in Task PROVE CopyFits(u)'
    BY DEF Copies
  <2>0. CopyFits(u)
    BY DEF Copies
  <2>1. made' = made /\ crew' = {} /\ \A v \in Task : worker'[v] = "none"
    BY <1>17 DEF MarkDone, Staff, history
  <2>2. /\ \A v \in Task : v # Head(items) => copy'[v] = copy[v]
        /\ copy'[Head(items)] # None =>
             LET h == Head(items)
             IN  /\ copy[h] # None /\ copy'[h].head = copy[h].head
                 /\ \/ copy'[h].on = "base"
                    \/ copy'[h].since = copy[h].since /\ copy'[h].on = copy[h].on
    BY <1>17, HeadIsTask, AcceptedCopies DEF MarkDone
  <2>3. CASE u # Head(items)
    BY <2>0, <2>1, <2>2, <2>3 DEF CopyFits, Branched
  <2>4. CASE u = Head(items)
    BY <2>0, <2>1, <2>2, <2>4 DEF CopyFits, Branched
  <2>5. QED
    BY <2>3, <2>4
<1>18. ASSUME Crash PROVE Copies'
  BY <1>18 DEF Copies, CopyFits, Staff, TypeOK, Branched, Crash, Halt, Nobody, Nothing,
     disk, memory, history
<1>19. CASE UNCHANGED vars
  BY <1>19, SMT DEF Copies, CopyFits, Staff, TypeOK, Branched, vars, disk, memory, history
<1>20. QED
  BY <1>1, <1>2, <1>3, <1>4, <1>5, <1>6, <1>7, <1>8, <1>9, <1>10, <1>11, <1>12, <1>13,
     <1>14, <1>15, <1>16, <1>17, <1>18, <1>19 DEF Next

\* Only a worker that has committed makes a task ready, and only the application
\* or a refusal takes its copy.
LEMMA ReadyStep == ASSUME TypeOK, TypeOK', Queued, Staff, Copies, Ready, [Next]_vars
    PROVE Ready'
<1>1. ASSUME StartRun PROVE Ready'
  BY <1>1 DEF Ready, Copies, CopyFits, Staff, TypeOK, Branched, StartRun, Recovered,
     disk, memory, history
<1>2. ASSUME NextBatch PROVE Ready'
  BY <1>2 DEF Ready, Copies, CopyFits, Staff, TypeOK, Branched, NextBatch, disk, memory,
     history
<1>3. ASSUME EndRun PROVE Ready'
  BY <1>3 DEF Ready, Copies, CopyFits, Staff, TypeOK, Branched, EndRun, Halt, Nobody,
     Nothing, disk, memory, history
<1>4. ASSUME Start PROVE Ready'
  BY <1>4 DEF Ready, Copies, CopyFits, Staff, TypeOK, Branched, Start, Nothing, disk,
     memory, history
<1>5. ASSUME Collected PROVE Ready'
  BY <1>5 DEF Ready, Copies, CopyFits, Staff, TypeOK, Branched, Collected, Nothing,
     disk, memory, history
<1>6. ASSUME NEW t \in Task, Prepare(t) PROVE Ready'
  BY <1>6 DEF Ready, Copies, CopyFits, Staff, TypeOK, Branched, Prepare, MakeCopy,
     Reuse, Prepared, Sanitized, disk, memory, history
<1>7. ASSUME NEW t \in Task, PrepareFails(t) PROVE Ready'
  <2>1. /\ \A v \in Task : v # t => copy'[v] = copy[v] /\ status'[v] = status[v]
        /\ status'[t] = "failed" /\ made' = made /\ changed' = changed
    BY <1>7, FailedCopies DEF PrepareFails, Mark, TypeOK, history
  <2>2. QED
    BY <2>1 DEF Ready
<1>8. ASSUME NEW t \in Task, Commit(t) PROVE Ready'
  BY <1>8 DEF Ready, Copies, CopyFits, Staff, TypeOK, Branched, Commit, disk, memory,
     history
<1>9. ASSUME NEW t \in Task, Return(t) PROVE Ready'
  BY <1>9 DEF Ready, Copies, CopyFits, Staff, TypeOK, Branched, Return, ChangedFiles,
     disk, memory, history
<1>10. ASSUME NEW t \in Task, Collect(t) PROVE Ready'
  <2>1. made' = made /\ changed' = changed /\ \A v \in Task : v # t => status'[v] = status[v]
    BY <1>10 DEF Collect, Mark, TypeOK, history
  <2>2. \A v \in Task : v # t => copy'[v] = copy[v]
    BY <1>10, FailedCopies, AcceptedCopies DEF Collect
  <2>3. status'[t] = "ready_for_merge" => worker[t] = "changed" /\ copy' = copy
    BY <1>10 DEF Collect, Mark, TypeOK
  <2>4. worker[t] = "changed" =>
          copy[t] # None /\ copy[t].tree = copy[t].head /\ made[t] # {} /\ changed[t] = made[t]
    BY DEF Copies, CopyFits, Branched
  <2>5. QED
    BY <2>1, <2>2, <2>3, <2>4 DEF Ready
<1>11. ASSUME NEW t \in Task, NEW f \in File, Write(t, f) PROVE Ready'
  BY <1>11 DEF Ready, Copies, CopyFits, Staff, TypeOK, Branched, Write, disk, memory,
     history
<1>12. ASSUME Accept PROVE Ready'
  BY <1>12 DEF Ready, Copies, CopyFits, Staff, TypeOK, Branched, Accept, Assembled,
     disk, memory, history
<1>13. ASSUME Refuse PROVE Ready'
  BY <1>13 DEF Ready, Copies, CopyFits, Staff, TypeOK, Branched, Refuse, disk, memory,
     history
<1>14. ASSUME Merge PROVE Ready'
  <2>1. made' = made /\ changed' = changed /\ status' = status
    BY <1>14 DEF Merge, history
  <2>2. QED
    BY <1>14, <2>1, MergedParts DEF Ready
<1>15. ASSUME MergeFails PROVE Ready'
  <2>1. made' = made /\ changed' = changed /\ Head(items) \in Task
    BY <1>15, HeadIsTask DEF MergeFails, history
  <2>2. \A v \in Task : v # Head(items) => status'[v] = status[v] /\ copy'[v] = copy[v]
    BY <1>15, <2>1, FailedCopies DEF MergeFails, Mark, TypeOK
  <2>3. status'[Head(items)] = "failed"
    BY <1>15, <2>1 DEF MergeFails, Mark, TypeOK
  <2>4. QED
    BY <2>1, <2>2, <2>3 DEF Ready
<1>16. ASSUME NEW f \in File, Sync(f) PROVE Ready'
  BY <1>16 DEF Ready, Copies, CopyFits, Staff, TypeOK, Branched, Sync, disk, memory, history
<1>17. ASSUME MarkDone PROVE Ready'
  <2>1. made' = made /\ changed' = changed /\ Head(items) \in Task
    BY <1>17, HeadIsTask DEF MarkDone, history
  <2>2. \A v \in Task : v # Head(items) => status'[v] = status[v] /\ copy'[v] = copy[v]
    BY <1>17, <2>1, AcceptedCopies DEF MarkDone, Mark, TypeOK
  <2>3. status'[Head(items)] = "done"
    BY <1>17, <2>1 DEF MarkDone, Mark, TypeOK
  <2>4. QED
    BY <2>1, <2>2, <2>3 DEF Ready
<1>18. ASSUME Crash PROVE Ready'
  BY <1>18 DEF Ready, Copies, CopyFits, Staff, TypeOK, Branched, Crash, Halt, Nobody,
     Nothing, disk, memory, history
<1>19. CASE UNCHANGED vars
  BY <1>19, SMT DEF Ready, Copies, CopyFits, Staff, TypeOK, Branched, vars, disk,
     memory, history
<1>20. QED
  BY <1>1, <1>2, <1>3, <1>4, <1>5, <1>6, <1>7, <1>8, <1>9, <1>10, <1>11, <1>12, <1>13,
     <1>14, <1>15, <1>16, <1>17, <1>18, <1>19 DEF Next

\* A file that has been copied is as the copy has it until the next item's turn.
LEMMA AppliedStep == ASSUME TypeOK, TypeOK', Queued, Staff, Copies, Ready, Applied,
    [Next]_vars PROVE Applied'
<1>1. ASSUME StartRun PROVE Applied'
  BY <1>1 DEF Ready, Applied, Copies, CopyFits, Staff, TypeOK, Branched, StartRun,
     Recovered, disk, memory, history
<1>2. ASSUME NextBatch PROVE Applied'
  BY <1>2 DEF Ready, Applied, Copies, CopyFits, Staff, TypeOK, Branched, NextBatch,
     disk, memory, history
<1>3. ASSUME EndRun PROVE Applied'
  BY <1>3 DEF Ready, Applied, Copies, CopyFits, Staff, TypeOK, Branched, EndRun, Halt,
     Nobody, Nothing, disk, memory, history
<1>4. ASSUME Start PROVE Applied'
  BY <1>4 DEF Ready, Applied, Copies, CopyFits, Staff, TypeOK, Branched, Start, Nothing,
     disk, memory, history
<1>5. ASSUME Collected PROVE Applied'
  BY <1>5 DEF Ready, Applied, Copies, CopyFits, Staff, TypeOK, Branched, Collected,
     Nothing, disk, memory, history
<1>6. ASSUME NEW t \in Task, Prepare(t) PROVE Applied'
  BY <1>6 DEF Ready, Applied, Copies, CopyFits, Staff, TypeOK, Branched, Prepare,
     MakeCopy, Reuse, Prepared, Sanitized, disk, memory, history
<1>7. ASSUME NEW t \in Task, PrepareFails(t) PROVE Applied'
  BY <1>7 DEF Ready, Applied, Copies, CopyFits, Staff, TypeOK, Branched, PrepareFails,
     Prepared, Mark, disk, memory, history
<1>8. ASSUME NEW t \in Task, Commit(t) PROVE Applied'
  BY <1>8 DEF Ready, Applied, Copies, CopyFits, Staff, TypeOK, Branched, Commit, disk,
     memory, history
<1>9. ASSUME NEW t \in Task, Return(t) PROVE Applied'
  BY <1>9 DEF Ready, Applied, Copies, CopyFits, Staff, TypeOK, Branched, Return,
     ChangedFiles, disk, memory, history
<1>10. ASSUME NEW t \in Task, Collect(t) PROVE Applied'
  BY <1>10 DEF Ready, Applied, Copies, CopyFits, Staff, TypeOK, Branched, Collect, Mark,
     disk, memory, history
<1>11. ASSUME NEW t \in Task, NEW f \in File, Write(t, f) PROVE Applied'
  BY <1>11 DEF Ready, Applied, Copies, CopyFits, Staff, TypeOK, Branched, Write, disk,
     memory, history
<1>12. ASSUME Accept PROVE Applied'
  BY <1>12 DEF Ready, Applied, Copies, CopyFits, Staff, TypeOK, Branched, Accept,
     Assembled, disk, memory, history
<1>13. ASSUME Refuse PROVE Applied'
  BY <1>13 DEF Ready, Applied, Copies, CopyFits, Staff, TypeOK, Branched, Refuse, disk,
     memory, history
<1>14. ASSUME Merge PROVE Applied'
  <2>1. pc' = "apply" /\ items' = items /\ made' = made /\ pc = "merge"
    BY <1>14 DEF Merge, history
  <2>2. left' = changed[Head(items)] /\ Head(items) \in Task /\ status[Head(items)] = "ready_for_merge"
    BY <1>14, <2>1, MergedParts, HeadIsTask
  <2>3. left' = made'[Head(items')]
    BY <2>1, <2>2 DEF Ready
  <2>4. QED
    BY <2>3 DEF Applied
<1>15. ASSUME MergeFails PROVE Applied'
  BY <1>15 DEF Ready, Applied, Copies, CopyFits, Staff, TypeOK, Branched, MergeFails,
     Mark, NextItem, disk, memory, history
<1>16. ASSUME NEW f \in File, Sync(f) PROVE Applied'
  <2> DEFINE t == Head(items)
  <2>1. /\ pc = "apply" /\ items' = items /\ made' = made /\ copy' = copy /\ f \in left
        /\ root' = [root EXCEPT ![f] = copy[t].tree[f]] /\ left' = left \ {f}
        /\ lost' = lost \cup ((root[f] \ copy[t].tree[f]) \X {f})
    BY <1>16 DEF Sync
  <2>2. /\ t \in Task /\ copy[t] # None /\ copy[t].tree = copy[t].head
        /\ \A g \in made[t] : t \in copy[t].head[g]
    BY <2>1, HeadIsTask DEF Ready, Copies, CopyFits
  <2>3. root'[f] = copy[t].tree[f] /\ \A g \in File : g # f => root'[g] = root[g]
    BY <2>1 DEF TypeOK, Contents
  <2>4. made[t] \subseteq File /\ left \subseteq made[t]
    BY <2>1, <2>2 DEF TypeOK, Applied
  <2>5. \A g \in made[t] \ left' : root'[g] = copy[t].tree[g]
    BY <2>1, <2>3, <2>4 DEF Applied
  <2>6. \A g \in made[t] \ left' : t \in root'[g]
    BY <2>2, <2>5
  <2>7. QED
    BY <2>1, <2>4, <2>5, <2>6 DEF Applied
<1>17. ASSUME MarkDone PROVE Applied'
  BY <1>17 DEF Ready, Applied, Copies, CopyFits, Staff, TypeOK, Branched, MarkDone,
     Mark, NextItem, disk, memory, history
<1>18. ASSUME Crash PROVE Applied'
  BY <1>18 DEF Ready, Applied, Copies, CopyFits, Staff, TypeOK, Branched, Crash, Halt,
     Nobody, Nothing, disk, memory, history
<1>19. CASE UNCHANGED vars
  BY <1>19, SMT DEF Ready, Applied, Copies, CopyFits, Staff, TypeOK, Branched, vars,
     disk, memory, history
<1>20. QED
  BY <1>1, <1>2, <1>3, <1>4, <1>5, <1>6, <1>7, <1>8, <1>9, <1>10, <1>11, <1>12, <1>13,
     <1>14, <1>15, <1>16, <1>17, <1>18, <1>19 DEF Next

\* MarkDone comes when no file is left; what is done loses a file only to lost.
LEMMA DoneStep == ASSUME TypeOK, TypeOK', Queued, Staff, Copies, Ready, Applied,
    DoneIsWhole, [Next]_vars PROVE DoneIsWhole'
<1>1. ASSUME StartRun PROVE DoneIsWhole'
  BY <1>1 DEF DoneIsWhole, Applied, Staff, TypeOK, StartRun, Recovered, disk, memory,
     history
<1>2. ASSUME NextBatch PROVE DoneIsWhole'
  BY <1>2 DEF DoneIsWhole, Applied, Staff, TypeOK, NextBatch, disk, memory, history
<1>3. ASSUME EndRun PROVE DoneIsWhole'
  BY <1>3 DEF DoneIsWhole, Applied, Staff, TypeOK, EndRun, Halt, Nobody, Nothing, disk,
     memory, history
<1>4. ASSUME Start PROVE DoneIsWhole'
  BY <1>4 DEF DoneIsWhole, Applied, Staff, TypeOK, Start, Nothing, disk, memory, history
<1>5. ASSUME Collected PROVE DoneIsWhole'
  BY <1>5 DEF DoneIsWhole, Applied, Staff, TypeOK, Collected, Nothing, disk, memory, history
<1>6. ASSUME NEW t \in Task, Prepare(t) PROVE DoneIsWhole'
  BY <1>6 DEF DoneIsWhole, Applied, Staff, TypeOK, Prepare, MakeCopy, Reuse, Prepared,
     Sanitized, disk, memory, history
<1>7. ASSUME NEW t \in Task, PrepareFails(t) PROVE DoneIsWhole'
  BY <1>7 DEF DoneIsWhole, Applied, Staff, TypeOK, PrepareFails, Prepared, Mark, disk,
     memory, history
<1>8. ASSUME NEW t \in Task, Commit(t) PROVE DoneIsWhole'
  BY <1>8 DEF DoneIsWhole, Applied, Staff, TypeOK, Commit, disk, memory, history
<1>9. ASSUME NEW t \in Task, Return(t) PROVE DoneIsWhole'
  BY <1>9 DEF DoneIsWhole, Applied, Staff, TypeOK, Return, ChangedFiles, disk, memory,
     history
<1>10. ASSUME NEW t \in Task, Collect(t) PROVE DoneIsWhole'
  BY <1>10 DEF DoneIsWhole, Applied, Staff, TypeOK, Collect, Mark, disk, memory, history
<1>11. ASSUME NEW t \in Task, NEW f \in File, Write(t, f) PROVE DoneIsWhole'
  BY <1>11 DEF DoneIsWhole, Applied, Staff, TypeOK, Write, disk, memory, history
<1>12. ASSUME Accept PROVE DoneIsWhole'
  BY <1>12 DEF DoneIsWhole, Applied, Staff, TypeOK, Accept, Assembled, disk, memory, history
<1>13. ASSUME Refuse PROVE DoneIsWhole'
  BY <1>13 DEF DoneIsWhole, Applied, Staff, TypeOK, Refuse, disk, memory, history
<1>14. ASSUME Merge PROVE DoneIsWhole'
  BY <1>14 DEF DoneIsWhole, Applied, Staff, TypeOK, Merge, Effective, disk, memory, history
<1>15. ASSUME MergeFails PROVE DoneIsWhole'
  BY <1>15 DEF DoneIsWhole, Applied, Staff, TypeOK, MergeFails, Mark, NextItem, disk,
     memory, history
<1>16. ASSUME NEW f \in File, Sync(f) PROVE DoneIsWhole'
  BY <1>16 DEF DoneIsWhole, Applied, Staff, TypeOK, Sync, disk, memory, history
<1>17. ASSUME MarkDone PROVE DoneIsWhole'
  BY <1>17 DEF DoneIsWhole, Applied, Staff, TypeOK, MarkDone, Mark, NextItem, disk,
     memory, history
<1>18. ASSUME Crash PROVE DoneIsWhole'
  BY <1>18 DEF DoneIsWhole, Applied, Staff, TypeOK, Crash, Halt, Nobody, Nothing, disk,
     memory, history
<1>19. CASE UNCHANGED vars
  BY <1>19, SMT DEF DoneIsWhole, Applied, Staff, TypeOK, vars, disk, memory, history
<1>20. QED
  BY <1>1, <1>2, <1>3, <1>4, <1>5, <1>6, <1>7, <1>8, <1>9, <1>10, <1>11, <1>12, <1>13,
     <1>14, <1>15, <1>16, <1>17, <1>18, <1>19 DEF Next

-----------------------------------------------------------------------------
(* The invariant and what follows from it *)

LEMMA InvInit == Init => Inv
<1> SUFFICES ASSUME Init PROVE Inv
  OBVIOUS
<1>1. TypeOK
  BY TypeInit
<1>2. \A t \in Task : copy[t] = None /\ status[t] = "planned" /\ worker[t] = "none"
  BY DEF Init, Nobody
<1>3. pc = "idle" /\ batch = {} /\ crew = {} /\ items = <<>>
  BY DEF Init
<1>4. Queued /\ Staff
  BY <1>2, <1>3 DEF Queued, Staff
<1>5. Copies /\ Ready /\ Applied /\ DoneIsWhole
  BY <1>2, <1>3 DEF Copies, CopyFits, Branched, Ready, Applied, DoneIsWhole
<1>6. QED
  BY <1>1, <1>4, <1>5 DEF Inv

LEMMA InvStep == Inv /\ [Next]_vars => Inv'
<1> SUFFICES ASSUME Inv, [Next]_vars PROVE Inv'
  OBVIOUS
<1> USE DEF Inv
<1>1. TypeOK'
  BY TypeStep
<1>2. Queued' /\ Staff'
  BY QueuedStep, StaffStep
<1>3. Copies' /\ Ready'
  BY <1>1, CopiesStep, ReadyStep
<1>4. Applied' /\ DoneIsWhole'
  BY <1>1, AppliedStep, DoneStep
<1>5. QED
  BY <1>1, <1>2, <1>3, <1>4

LEMMA Invariance == Spec => []Inv
  BY InvInit, InvStep, PTL DEF Spec

\* Every variable keeps to its type: a run, its batches and its items never get
\* into a state that the orchestrator has no case for.
THEOREM TypeCorrect == Spec => []TypeOK
<1>1. Inv => TypeOK
  BY DEF Inv
<1>2. QED
  BY <1>1, Invariance, PTL

\* A task that is done is in the workspace with all that it has committed, however
\* many attempts it took and wherever a crash stopped its application.
THEOREM DoneWhole == Spec => []DoneIsWhole
<1>1. Inv => DoneIsWhole
  BY DEF Inv
<1>2. QED
  BY <1>1, Invariance, PTL

-----------------------------------------------------------------------------
(* Copies that were made for their batch *)

\* Claims in one batch are disjoint, and the write guard keeps writes within them.
LEMMA ApartStep == ASSUME Strays = FALSE, TypeOK, TypeOK', Queued, Staff, Apart,
    [Next]_vars PROVE Apart'
<1>1. ASSUME StartRun PROVE Apart'
  BY <1>1 DEF Apart, Compatible, Queued, Staff, TypeOK, StartRun, Recovered, disk,
     memory, history
<1>2. ASSUME NextBatch PROVE Apart'
  BY <1>2 DEF Apart, Compatible, Queued, Staff, TypeOK, NextBatch, disk, memory, history
<1>3. ASSUME EndRun PROVE Apart'
  BY <1>3 DEF Apart, Compatible, Queued, Staff, TypeOK, EndRun, Halt, Nobody, Nothing,
     disk, memory, history
<1>4. ASSUME Start PROVE Apart'
  BY <1>4 DEF Apart, Compatible, Queued, Staff, TypeOK, Start, Nothing, disk, memory,
     history
<1>5. ASSUME Collected PROVE Apart'
  <2>1. /\ pc = "work" /\ pc' \in {"gate", "loop"} /\ files' = files /\ fresh' = fresh /\ made' = made
        /\ \A t \in Task : touched'[t] = {}
        /\ batch' = batch /\ crew' = {}
    BY <1>5, CollectedItems DEF Collected, disk, history, Nothing
  <2>2. \A i \in DOMAIN items' : items'[i] \in crew
    BY <1>5, CollectedItems
  <2>3. \A t \in fresh, i \in DOMAIN items' : t # items'[i] => files[t] \cap files[items'[i]] = {}
    BY <2>1, <2>2 DEF Apart, Compatible
  <2>4. QED
    BY <2>1, <2>3 DEF Apart, Compatible
<1>6. ASSUME NEW t \in Task, Prepare(t) PROVE Apart'
  <2>1. /\ pc = "prepare" /\ pc' \in {"prepare", "start"} /\ t \in batch
        /\ batch' = batch \ {t} /\ crew' = crew \cup {t} /\ items' = items /\ files' = files
        /\ touched' = touched
    BY <1>6 DEF Prepare, Prepared
  <2>2. fresh' \subseteq fresh \cup {t} /\ \A u \in Task : made'[u] \subseteq made[u]
    BY <1>6 DEF Prepare, MakeCopy, Reuse, TypeOK
  <2>3. items = <<>>
    BY <2>1 DEF Queued
  <2>4. QED
    BY <2>1, <2>2, <2>3 DEF Apart, Compatible
<1>7. ASSUME NEW t \in Task, PrepareFails(t) PROVE Apart'
  BY <1>7 DEF Apart, Compatible, Queued, Staff, TypeOK, PrepareFails, Prepared, Mark,
     disk, memory, history
<1>8. ASSUME NEW t \in Task, Commit(t) PROVE Apart'
  BY <1>8 DEF Apart, Compatible, Queued, Staff, TypeOK, Commit, disk, memory, history
<1>9. ASSUME NEW t \in Task, Return(t) PROVE Apart'
  BY <1>9 DEF Apart, Compatible, Queued, Staff, TypeOK, Return, ChangedFiles, disk,
     memory, history
<1>10. ASSUME NEW t \in Task, Collect(t) PROVE Apart'
  BY <1>10 DEF Apart, Compatible, Queued, Staff, TypeOK, Collect, Mark, disk, memory,
     history
<1>11. ASSUME NEW t \in Task, NEW f \in File, Write(t, f) PROVE Apart'
  BY <1>11 DEF Apart, Compatible, Queued, Staff, TypeOK, Write, disk, memory, history
<1>12. ASSUME Accept PROVE Apart'
  BY <1>12 DEF Apart, Compatible, Queued, Staff, TypeOK, Accept, Assembled, disk,
     memory, history
<1>13. ASSUME Refuse PROVE Apart'
  BY <1>13 DEF Apart, Compatible, Queued, Staff, TypeOK, Refuse, disk, memory, history
<1>14. ASSUME Merge PROVE Apart'
  BY <1>14 DEF Apart, Compatible, Queued, Staff, TypeOK, Merge, Effective, disk, memory,
     history
<1>15. ASSUME MergeFails PROVE Apart'
  <2>1. /\ pc' \in {"loop", "merge"} /\ files' = files /\ fresh' = fresh /\ made' = made
        /\ touched' = touched /\ batch' = batch /\ crew' = crew /\ items' = Tail(items)
    BY <1>15, ItemsLeft DEF MergeFails, NextItem, history
  <2>2. \A i \in DOMAIN items' : i + 1 \in DOMAIN items /\ items'[i] = items[i + 1]
    BY <1>15, <2>1 DEF MergeFails, TypeOK, Queued
  <2>3. QED
    BY <2>1, <2>2 DEF Apart, Compatible
<1>16. ASSUME NEW f \in File, Sync(f) PROVE Apart'
  BY <1>16 DEF Apart, Compatible, Queued, Staff, TypeOK, Sync, disk, memory, history
<1>17. ASSUME MarkDone PROVE Apart'
  <2>1. /\ pc' \in {"loop", "merge"} /\ files' = files /\ fresh' = fresh /\ made' = made
        /\ touched' = touched /\ batch' = batch /\ crew' = crew /\ items' = Tail(items)
    BY <1>17, ItemsLeft DEF MarkDone, NextItem, history
  <2>2. \A i \in DOMAIN items' : i + 1 \in DOMAIN items /\ items'[i] = items[i + 1]
    BY <1>17, <2>1 DEF MarkDone, TypeOK, Queued
  <2>3. QED
    BY <2>1, <2>2 DEF Apart, Compatible
<1>18. ASSUME Crash PROVE Apart'
  BY <1>18 DEF Apart, Compatible, Queued, Staff, TypeOK, Crash, Halt, Nobody, Nothing,
     disk, memory, history
<1>19. CASE UNCHANGED vars
  BY <1>19, SMT DEF Apart, Compatible, Queued, Staff, TypeOK, vars, disk, memory, history
<1>20. QED
  BY <1>1, <1>2, <1>3, <1>4, <1>5, <1>6, <1>7, <1>8, <1>9, <1>10, <1>11, <1>12, <1>13,
     <1>14, <1>15, <1>16, <1>17, <1>18, <1>19 DEF Next

\* Until a fresh copy is applied, nobody changes in the workspace what its task claims.
LEMMA UpToDateStep == ASSUME Strays = FALSE, TypeOK, TypeOK', Queued, Staff, Copies,
    Ready, Applied, Apart, UpToDate, [Next]_vars PROVE UpToDate'
<1>1. ASSUME StartRun PROVE UpToDate'
  BY <1>1 DEF UpToDate, Apart, Staff, TypeOK, StartRun, Recovered, disk, memory, history
<1>2. ASSUME NextBatch PROVE UpToDate'
  BY <1>2 DEF UpToDate, Apart, Staff, TypeOK, NextBatch, disk, memory, history
<1>3. ASSUME EndRun PROVE UpToDate'
  BY <1>3 DEF UpToDate, Apart, Staff, TypeOK, EndRun, Halt, Nobody, Nothing, disk,
     memory, history
<1>4. ASSUME Start PROVE UpToDate'
  BY <1>4 DEF UpToDate, Apart, Staff, TypeOK, Start, Nothing, disk, memory, history
<1>5. ASSUME Collected PROVE UpToDate'
  BY <1>5 DEF UpToDate, Apart, Staff, TypeOK, Collected, Nothing, disk, memory, history
<1>6. ASSUME NEW t \in Task, Prepare(t) PROVE UpToDate'
  <2> SUFFICES ASSUME NEW u \in fresh', copy'[u] # None, NEW g \in files'[u]
               PROVE  root'[g] \subseteq copy'[u].tree[g] /\ root'[g] \subseteq copy'[u].head[g]
    BY DEF UpToDate
  <2>0. u \in Task /\ g \in File
    BY SnapshotAssumption DEF TypeOK
  <2>1. root' = root /\ files' = files /\ pc = "prepare" /\ t \in batch /\ t \notin fresh
    BY <1>6 DEF Prepare, Apart, Staff
  <2>2. CASE u # t
    <3>1. u \in fresh /\ copy'[u] = copy[u]
      BY <1>6, <2>0, <2>2 DEF Prepare, MakeCopy, Reuse, TypeOK
    <3>2. QED
      BY <2>1, <3>1 DEF UpToDate
  <2>3. CASE u = t
    <3>1. MakeCopy(t)
      BY <1>6, <2>1, <2>3 DEF Prepare, Reuse
    <3>2. copy'[t] = [tree |-> root, head |-> root, since |-> {}, on |-> "task"]
      BY <3>1 DEF MakeCopy, TypeOK
    <3>3. QED
      BY <2>1, <2>3, <3>2
  <2>4. QED
    BY <2>2, <2>3
<1>7. ASSUME NEW t \in Task, PrepareFails(t) PROVE UpToDate'
  <2> SUFFICES ASSUME NEW u \in fresh', copy'[u] # None, NEW g \in files'[u]
               PROVE  root'[g] \subseteq copy'[u].tree[g] /\ root'[g] \subseteq copy'[u].head[g]
    BY DEF UpToDate
  <2>0. u \in Task /\ g \in File
    BY SnapshotAssumption DEF TypeOK
  <2>1. root' = root /\ files' = files /\ fresh' = fresh /\ u # t
    BY <1>7 DEF PrepareFails, history, Apart, Staff
  <2>2. copy'[u] = copy[u]
    BY <1>7, <2>0, <2>1, FailedCopies DEF PrepareFails
  <2>3. QED
    BY <2>1, <2>2 DEF UpToDate
<1>8. ASSUME NEW t \in Task, Commit(t) PROVE UpToDate'
  <2> SUFFICES ASSUME NEW u \in fresh', copy'[u] # None, NEW g \in files'[u]
               PROVE  root'[g] \subseteq copy'[u].tree[g] /\ root'[g] \subseteq copy'[u].head[g]
    BY DEF UpToDate
  <2>0. u \in Task /\ g \in File
    BY SnapshotAssumption DEF TypeOK
  <2>1. root' = root /\ files' = files /\ fresh' = fresh
    BY <1>8 DEF Commit
  <2>2. CASE u # t
    <3>1. copy'[u] = copy[u]
      BY <1>8, <2>0, <2>2 DEF Commit, TypeOK
    <3>2. QED
      BY <2>1, <3>1 DEF UpToDate
  <2>3. CASE u = t
    <3>1. copy[t] # None /\ copy[t] \in Copy
      BY <1>8, CopyParts DEF Commit, Copies, CopyFits, Branched
    <3>2. copy'[t] = [copy[t] EXCEPT !.head = copy[t].tree, !.since = @ \cup touched[t]]
      BY <1>8 DEF Commit, TypeOK
    <3>3. copy'[t].tree = copy[t].tree /\ copy'[t].head = copy[t].tree
      BY <3>1, <3>2 DEF Copy
    <3>4. QED
      BY <2>1, <2>3, <3>1, <3>3 DEF UpToDate
  <2>4. QED
    BY <2>2, <2>3
<1>9. ASSUME NEW t \in Task, Return(t) PROVE UpToDate'
  BY <1>9 DEF UpToDate, Apart, Staff, TypeOK, Return, ChangedFiles, disk, memory, history
<1>10. ASSUME NEW t \in Task, Collect(t) PROVE UpToDate'
  <2> SUFFICES ASSUME NEW u \in fresh', copy'[u] # None, NEW g \in files'[u]
               PROVE  root'[g] \subseteq copy'[u].tree[g] /\ root'[g] \subseteq copy'[u].head[g]
    BY DEF UpToDate
  <2>0. u \in Task /\ g \in File
    BY SnapshotAssumption DEF TypeOK
  <2>1. root' = root /\ files' = files /\ fresh' = fresh
    BY <1>10 DEF Collect, history
  <2>2. copy' = copy \/ CleanupAccepted(t) \/ CleanupFailed(t)
    BY <1>10 DEF Collect
  <2>3. \/ copy'[u] = copy[u]
        \/ copy[u] # None /\ copy'[u] = Sanitized(copy[u])
    BY <2>0, <2>2 DEF CleanupAccepted, CleanupFailed, TypeOK
  <2>4. CASE copy'[u] = copy[u]
    BY <2>1, <2>4 DEF UpToDate
  <2>5. CASE copy[u] # None /\ copy'[u] = Sanitized(copy[u])
    <3>1. copy'[u].tree = copy[u].head /\ copy'[u].head = copy[u].head
      BY <2>0, <2>5, CopyParts DEF Sanitized, Copy
    <3>2. QED
      BY <2>1, <2>5, <3>1 DEF UpToDate
  <2>6. QED
    BY <2>3, <2>4, <2>5
<1>11. ASSUME NEW t \in Task, NEW f \in File, Write(t, f) PROVE UpToDate'
  <2> SUFFICES ASSUME NEW u \in fresh', copy'[u] # None, NEW g \in files'[u]
               PROVE  root'[g] \subseteq copy'[u].tree[g] /\ root'[g] \subseteq copy'[u].head[g]
    BY DEF UpToDate
  <2>0. u \in Task /\ g \in File
    BY SnapshotAssumption DEF TypeOK
  <2>1. root' = root /\ files' = files /\ fresh' = fresh
    BY <1>11 DEF Write, history
  <2>2. CASE u # t
    <3>1. copy'[u] = copy[u]
      BY <1>11, <2>0, <2>2 DEF Write, TypeOK
    <3>2. QED
      BY <2>1, <3>1 DEF UpToDate
  <2>3. CASE u = t
    <3>1. copy[t] # None /\ copy[t] \in Copy /\ copy[t].tree \in Contents
      BY <1>11, CopyParts DEF Write, Copies, CopyFits, Branched
    <3>2. copy'[t] = [copy[t] EXCEPT !.tree[f] = @ \cup {t}]
      BY <1>11 DEF Write, TypeOK
    <3>3. /\ copy'[t].head = copy[t].head
          /\ copy'[t].tree = [copy[t].tree EXCEPT ![f] = @ \cup {t}]
      BY <3>1, <3>2 DEF Copy
    <3>4. copy[t].tree[g] \subseteq copy'[t].tree[g]
      BY <2>0, <3>1, <3>3 DEF Contents
    <3>5. QED
      BY <2>1, <2>3, <3>1, <3>3, <3>4 DEF UpToDate
  <2>4. QED
    BY <2>2, <2>3
<1>12. ASSUME Accept PROVE UpToDate'
  BY <1>12 DEF UpToDate, Apart, Staff, TypeOK, Accept, Assembled, disk, memory, history
<1>13. ASSUME Refuse PROVE UpToDate'
  <2> SUFFICES ASSUME NEW u \in fresh', copy'[u] # None, NEW g \in files'[u]
               PROVE  root'[g] \subseteq copy'[u].tree[g] /\ root'[g] \subseteq copy'[u].head[g]
    BY DEF UpToDate
  <2>0. u \in Task /\ g \in File
    BY SnapshotAssumption DEF TypeOK
  <2>1. root' = root /\ files' = files /\ fresh' = fresh /\ copy'[u] = copy[u]
    BY <1>13, <2>0 DEF Refuse, history
  <2>2. QED
    BY <2>1 DEF UpToDate
<1>14. ASSUME Merge PROVE UpToDate'
  <2> SUFFICES ASSUME NEW u \in fresh', copy'[u] # None, NEW g \in files'[u]
               PROVE  root'[g] \subseteq copy'[u].tree[g] /\ root'[g] \subseteq copy'[u].head[g]
    BY DEF UpToDate
  <2>0. u \in Task /\ g \in File
    BY SnapshotAssumption DEF TypeOK
  <2>1. root' = root /\ files' = files /\ fresh' = fresh
    BY <1>14 DEF Merge, history
  <2>2. \/ copy'[u] = copy[u]
        \/ copy[u] # None /\ copy'[u].tree = copy[u].head /\ copy'[u].head = copy[u].head
    BY <1>14, <2>0, MergedParts
  <2>3. QED
    BY <2>1, <2>2 DEF UpToDate
<1>15. ASSUME MergeFails PROVE UpToDate'
  <2> SUFFICES ASSUME NEW u \in fresh', copy'[u] # None, NEW g \in files'[u]
               PROVE  root'[g] \subseteq copy'[u].tree[g] /\ root'[g] \subseteq copy'[u].head[g]
    BY DEF UpToDate
  <2>0. u \in Task /\ g \in File
    BY SnapshotAssumption DEF TypeOK
  <2>1. root' = root /\ files' = files /\ fresh' = fresh /\ Head(items) \in Task
    BY <1>15, HeadIsTask DEF MergeFails, history
  <2>2. \/ copy'[u] = copy[u]
        \/ copy[u] # None /\ copy'[u] = Sanitized(copy[u])
    BY <1>15, <2>0, <2>1 DEF MergeFails, CleanupFailed, TypeOK
  <2>3. copy[u] # None /\ copy'[u] = Sanitized(copy[u]) =>
          copy'[u].tree = copy[u].head /\ copy'[u].head = copy[u].head
    BY <2>0, CopyParts DEF Sanitized, Copy
  <2>4. QED
    BY <2>1, <2>2, <2>3 DEF UpToDate
<1>16. ASSUME NEW f \in File, Sync(f) PROVE UpToDate'
  <2> SUFFICES ASSUME NEW u \in fresh', copy'[u] # None, NEW g \in files'[u]
               PROVE  root'[g] \subseteq copy'[u].tree[g] /\ root'[g] \subseteq copy'[u].head[g]
    BY DEF UpToDate
  <2>0. u \in Task /\ g \in File
    BY SnapshotAssumption DEF TypeOK
  <2> DEFINE h == Head(items)
  <2>1. /\ pc = "apply" /\ copy' = copy /\ files' = files /\ fresh' = fresh /\ f \in left
        /\ root' = [root EXCEPT ![f] = copy[h].tree[f]]
    BY <1>16 DEF Sync
  <2>2. h \in Task /\ h = items[1] /\ 1 \in DOMAIN items /\ copy[h].tree = copy[h].head
    BY <2>1, HeadIsTask DEF Ready
  <2>3. f \in files[h]
    BY <2>1, <2>2 DEF Applied, Apart
  <2>4. CASE g = f
    <3>1. u = h
      BY <2>1, <2>2, <2>3, <2>4 DEF Apart
    <3>2. root'[g] = copy[h].tree[g]
      BY <2>0, <2>1, <2>4 DEF TypeOK, Contents
    <3>3. QED
      BY <2>1, <2>2, <3>1, <3>2
  <2>5. CASE g # f
    <3>1. root'[g] = root[g]
      BY <2>0, <2>1, <2>5 DEF TypeOK, Contents
    <3>2. QED
      BY <2>1, <3>1 DEF UpToDate
  <2>6. QED
    BY <2>4, <2>5
<1>17. ASSUME MarkDone PROVE UpToDate'
  <2> SUFFICES ASSUME NEW u \in fresh', copy'[u] # None, NEW g \in files'[u]
               PROVE  root'[g] \subseteq copy'[u].tree[g] /\ root'[g] \subseteq copy'[u].head[g]
    BY DEF UpToDate
  <2>0. u \in Task /\ g \in File
    BY SnapshotAssumption DEF TypeOK
  <2>1. root' = root /\ files' = files /\ fresh' = fresh /\ Head(items) \in Task
    BY <1>17, HeadIsTask DEF MarkDone, history
  <2>2. copy'[u] = copy[u]
    BY <1>17, <2>0, <2>1 DEF MarkDone, CleanupAccepted, TypeOK
  <2>3. copy[u] # None
    BY <2>2
  <2>4. QED
    BY <2>1, <2>2, <2>3 DEF UpToDate
<1>18. ASSUME Crash PROVE UpToDate'
  BY <1>18 DEF UpToDate, Apart, Staff, TypeOK, Crash, Halt, Nobody, Nothing, disk,
     memory, history
<1>19. CASE UNCHANGED vars
  BY <1>19, SMT DEF UpToDate, Apart, Staff, TypeOK, vars, disk, memory, history
<1>20. QED
  BY <1>1, <1>2, <1>3, <1>4, <1>5, <1>6, <1>7, <1>8, <1>9, <1>10, <1>11, <1>12, <1>13,
     <1>14, <1>15, <1>16, <1>17, <1>18, <1>19 DEF Next

\* The invariant with fresh copies, if the write guard sees every write.
LEMMA FreshInvariance == ASSUME Strays = FALSE PROVE Spec => []FreshInv
<1>1. Init => FreshInv
  <2> SUFFICES ASSUME Init PROVE FreshInv
    OBVIOUS
  <2>1. /\ pc = "idle" /\ batch = {} /\ crew = {} /\ fresh = {}
        /\ \A t \in Task : made[t] = {} /\ touched[t] = {}
    BY DEF Init, Nothing
  <2>2. QED
    BY <2>1, InvInit DEF FreshInv, Apart, Compatible, UpToDate
<1>2. FreshInv /\ [Next]_vars => FreshInv'
  <2> SUFFICES ASSUME FreshInv, [Next]_vars PROVE FreshInv'
    OBVIOUS
  <2>1. Inv'
    BY InvStep DEF FreshInv
  <2>2. Apart' /\ UpToDate'
    BY <2>1, ApartStep, UpToDateStep DEF FreshInv, Inv
  <2>3. QED
    BY <2>1, <2>2 DEF FreshInv
<1>3. QED
  BY <1>1, <1>2, PTL DEF Spec

\* As long as no write gets by the write guard, what is applied from a copy that
\* was made for its batch overwrites nothing: neither what the rest of the batch
\* has changed nor what was in the workspace before.
THEOREM FreshKeepsAll == ASSUME Strays = FALSE PROVE Spec => FreshKeeps
<1>1. FreshInv /\ [Next]_vars => [lost' # lost => Head(items) \notin fresh]_vars
  <2> SUFFICES ASSUME FreshInv, Next, lost' # lost, Head(items) \in fresh PROVE FALSE
    OBVIOUS
  <2> USE DEF FreshInv, Inv
  <2>1. PICK f \in File : Sync(f)
    <3>1. \A t \in Task : /\ PrepareFails(t) => lost' = lost
                          /\ Prepare(t) => lost' = lost
                          /\ Commit(t) => lost' = lost
                          /\ Return(t) => lost' = lost
                          /\ Collect(t) => lost' = lost
                          /\ \A f \in File : Write(t, f) => lost' = lost
      BY DEF PrepareFails, Prepare, Commit, Return, Collect, Write, history
    <3>2. (StartRun \/ NextBatch \/ EndRun \/ Start \/ Collected \/ Accept \/ Refuse \/ Merge
             \/ MergeFails \/ MarkDone \/ Crash) => lost' = lost
      BY DEF StartRun, NextBatch, EndRun, Start, Collected, Accept, Refuse, Merge,
         MergeFails,
             MarkDone, Crash, history
    <3>3. QED
      BY <3>1, <3>2 DEF Next
  <2> DEFINE t == Head(items)
  <2>2. t \in Task /\ copy[t] # None /\ pc = "apply" /\ f \in left
    BY <2>1, HeadIsTask DEF Sync, Ready
  <2>3. f \in files[t]
    BY <2>2 DEF Applied, Apart
  <2>4. root[f] \subseteq copy[t].tree[f]
    BY <2>2, <2>3 DEF UpToDate
  <2>5. lost' = lost
    BY <2>1, <2>4 DEF Sync
  <2>6. QED
    BY <2>5
<1>2. QED
  BY <1>1, FreshInvariance, PTL DEF Spec, FreshKeeps


-----------------------------------------------------------------------------
(* The candidate *)

\* Once the first item has been copied, the rest gives the same workspace.
LEMMA RestAssembled ==
  ASSUME TypeOK, TypeOK', Queued, Ready, Copies, Applied, MarkDone
  PROVE  /\ Assembled(items)' = Assembled(items)
         /\ Len(items) = 1 => root = Assembled(items)
<1> DEFINE h == Head(items)
           Prevails(k, f) == /\ f \in changed[items[k]]
                             /\ \A j \in k + 1 .. Len(items) : f \notin changed[items[j]]
           After(k, f) == /\ f \in changed[items[k + 1]]
                          /\ \A j \in k + 1 .. Len(items) - 1 : f \notin changed[items[j + 1]]
           Old(f) == {t \in Task :
                        \/ t \in root[f] /\ \A k \in DOMAIN items : f \notin changed[items[k]]
                        \/ \E k \in DOMAIN items : Prevails(k, f) /\ t \in copy[items[k]].tree[f]}
           New(f) == {t \in Task :
                        \/ /\ t \in root[f]
                           /\ \A k \in 1 .. Len(items) - 1 : f \notin changed[items[k + 1]]
                        \/ \E k \in 1 .. Len(items) - 1 :
                             After(k, f) /\ t \in copy[items[k + 1]].tree[f]}
<1>1. /\ pc = "apply" /\ left = {} /\ root' = root /\ changed' = changed /\ items' = Tail(items)
  BY DEF MarkDone, NextItem, history
<1>2. /\ items \in Seq(Task) /\ Len(items) \in Nat /\ Len(items) >= 1 /\ h = items[1] /\ h \in Task
      /\ DOMAIN items = 1 .. Len(items)
  BY <1>1, HeadIsTask DEF TypeOK, Queued
<1>3. /\ Len(items') = Len(items) - 1 /\ DOMAIN items' = 1 .. Len(items) - 1
      /\ \A k \in 1 .. Len(items) - 1 : items'[k] = items[k + 1] /\ items[k + 1] \in Task
  BY <1>1, <1>2
<1>4. \A k \in 1 .. Len(items) - 1 : copy'[items[k + 1]] = copy[items[k + 1]]
  <2>1. SUFFICES ASSUME NEW k \in 1 .. Len(items) - 1 PROVE copy'[items[k + 1]] = copy[items[k + 1]]
    OBVIOUS
  <2>2. k + 1 # 1 /\ k + 1 \in DOMAIN items /\ 1 \in DOMAIN items
    BY <1>2
  <2>3. items[k + 1] # h
    BY <1>2, <2>2 DEF Queued
  <2>4. QED
    BY <1>2, <1>3, <2>3, AcceptedCopies DEF MarkDone
<1>5. \A f \in changed[h] : root[f] = copy[h].tree[f]
  BY <1>1, <1>2, HeadIsTask DEF Ready, Applied
<1>6. Assembled(items) = [f \in File |-> Old(f)]
  BY DEF Assembled
<1>7. Assembled(items)' = [f \in File |-> New(f)]
  <2>1. ASSUME NEW f \in File, NEW k \in 1 .. Len(items) - 1
        PROVE  After(k, f) <=> /\ f \in changed'[items'[k]]
                               /\ \A j \in k + 1 .. Len(items') : f \notin changed'[items'[j]]
    <3>1. changed'[items'[k]] = changed[items[k + 1]]
      BY <1>1, <1>3
    <3>2. k + 1 .. Len(items') = k + 1 .. Len(items) - 1
      BY <1>3
    <3>3. \A j \in k + 1 .. Len(items) - 1 : j \in 1 .. Len(items) - 1
      BY <1>2
    <3>4. \A j \in k + 1 .. Len(items) - 1 : changed'[items'[j]] = changed[items[j + 1]]
      BY <1>1, <1>3, <3>3
    <3>5. QED
      BY <3>1, <3>2, <3>4, Zenon
  <2>2. ASSUME NEW f \in File
        PROVE  New(f) = {t \in Task :
                  \/ t \in root'[f] /\ \A k \in DOMAIN items' : f \notin changed'[items'[k]]
                  \/ \E k \in DOMAIN items' :
                       /\ /\ f \in changed'[items'[k]]
                          /\ \A j \in k + 1 .. Len(items') : f \notin changed'[items'[j]]
                       /\ t \in copy'[items'[k]].tree[f]}
    <3> DEFINE P(k) == /\ f \in changed'[items'[k]]
                       /\ \A j \in k + 1 .. Len(items') : f \notin changed'[items'[j]]
               N == 1 .. Len(items) - 1
    <3>1. \A k \in N : After(k, f) <=> P(k)
      BY <2>1
    <3>2. \A k \in N : copy'[items'[k]].tree[f] = copy[items[k + 1]].tree[f]
      BY <1>3, <1>4
    <3>3. \A k \in N : changed'[items'[k]] = changed[items[k + 1]]
      BY <1>1, <1>3
    <3>4. DOMAIN items' = N /\ root' = root
      BY <1>1, <1>3
    <3> HIDE DEF P, After, N
    <3>5. \A t \in Task :
            (\E k \in N : After(k, f) /\ t \in copy[items[k + 1]].tree[f])
              <=> (\E k \in N : P(k) /\ t \in copy'[items'[k]].tree[f])
      BY <3>1, <3>2
    <3>6. (\A k \in N : f \notin changed[items[k + 1]]) <=> \A k \in N : f \notin changed'[items'[k]]
      BY <3>3
    <3>7. New(f) = {t \in Task :
              \/ t \in root[f] /\ \A k \in N : f \notin changed[items[k + 1]]
              \/ \E k \in N : After(k, f) /\ t \in copy[items[k + 1]].tree[f]}
      BY DEF N
    <3> HIDE DEF New
    <3>8. New(f) = {t \in Task :
              \/ t \in root[f] /\ \A k \in N : f \notin changed'[items'[k]]
              \/ \E k \in N : P(k) /\ t \in copy'[items'[k]].tree[f]}
      BY <3>5, <3>6, <3>7
    <3>9. QED
      BY <3>4, <3>8 DEF P
  <2>3. QED
    BY <2>2 DEF Assembled
<1>8. \A f \in File : root[f] \subseteq Task
  BY DEF TypeOK, Contents
<1>9. ASSUME NEW f \in File PROVE Old(f) = New(f)
  <2>1. \A k \in 1 .. Len(items) - 1 : After(k, f) <=> Prevails(k + 1, f)
    <3>1. SUFFICES ASSUME NEW k \in 1 .. Len(items) - 1 PROVE After(k, f) <=> Prevails(k + 1, f)
      OBVIOUS
    <3>2. ASSUME \A j \in k + 1 .. Len(items) - 1 : f \notin changed[items[j + 1]],
                 NEW i \in k + 2 .. Len(items)
          PROVE  f \notin changed[items[i]]
      <4>1. i - 1 \in k + 1 .. Len(items) - 1 /\ (i - 1) + 1 = i
        BY <1>2
      <4>2. QED
        BY <3>2, <4>1
    <3>3. ASSUME \A i \in k + 2 .. Len(items) : f \notin changed[items[i]],
                 NEW j \in k + 1 .. Len(items) - 1
          PROVE  f \notin changed[items[j + 1]]
      <4>1. j + 1 \in k + 2 .. Len(items)
        BY <1>2
      <4>2. QED
        BY <3>3, <4>1
    <3>4. (k + 1) + 1 = k + 2
      OBVIOUS
    <3>5. QED
      BY <3>2, <3>3, <3>4
  <2>2. \A k \in DOMAIN items : k = 1 \/ (k - 1 \in 1 .. Len(items) - 1 /\ (k - 1) + 1 = k)
    BY <1>2
  <2>3. \A k \in 1 .. Len(items) - 1 : k + 1 \in DOMAIN items
    BY <1>2
  <2>4. 1 \in DOMAIN items
    BY <1>2
  <2> DEFINE Later == \E k \in 1 .. Len(items) - 1 : f \in changed[items[k + 1]]
  <2>5. CASE Later
    <3>1. ~ Prevails(1, f)
      <4>1. PICK k \in 1 .. Len(items) - 1 : f \in changed[items[k + 1]]
        BY <2>5
      <4>2. k + 1 \in 1 + 1 .. Len(items)
        BY <1>2
      <4>3. QED
        BY <4>1, <4>2
    <3>2. \E k \in DOMAIN items : f \in changed[items[k]]
      BY <2>3, <2>5
    <3>3. \A t \in Task :
            (\E k \in DOMAIN items : Prevails(k, f) /\ t \in copy[items[k]].tree[f])
              <=> (\E k \in 1 .. Len(items) - 1 : After(k, f) /\ t \in copy[items[k + 1]].tree[f])
      <4> HIDE DEF Prevails, After
      <4>1. QED
        BY <2>1, <2>2, <2>3, <3>1
    <3>4. QED
      BY <2>5, <3>2, <3>3
  <2>6. CASE ~ Later
    <3>1. New(f) = root[f]
      BY <1>8, <2>6
    <3>2. \A j \in 1 + 1 .. Len(items) : f \notin changed[items[j]]
      BY <1>2, <2>2, <2>6
    <3>3. CASE f \in changed[h]
      <4>1. Prevails(1, f) /\ copy[items[1]].tree[f] = root[f]
        BY <1>2, <1>5, <3>2, <3>3
      <4>2. \A k \in DOMAIN items : Prevails(k, f) => k = 1
        BY <1>2, <3>2
      <4>3. \A t \in Task :
              (\E k \in DOMAIN items : Prevails(k, f) /\ t \in copy[items[k]].tree[f]) <=> t \in root[f]
        <5> HIDE DEF Prevails
        <5>1. QED
          BY <2>4, <4>1, <4>2
      <4>4. QED
        BY <1>2, <1>8, <2>4, <3>1, <3>3, <4>3
    <3>4. CASE f \notin changed[h]
      <4>1. \A k \in DOMAIN items : f \notin changed[items[k]]
        BY <1>2, <3>2, <3>4
      <4>2. QED
        BY <1>8, <3>1, <4>1
    <3>5. QED
      BY <3>3, <3>4
  <2>7. QED
    BY <2>5, <2>6
<1>10. Assembled(items)' = Assembled(items)
  <2> HIDE DEF Old, New
  <2>1. QED
    BY <1>6, <1>7, <1>9
<1>11. ASSUME Len(items) = 1 PROVE root = Assembled(items)
  <2>1. \A f \in File : New(f) = root[f]
    BY <1>8, <1>11
  <2>2. root \in Contents
    BY DEF TypeOK
  <2>3. root = [f \in File |-> root[f]]
    BY <2>2 DEF Contents
  <2>4. QED
    BY <1>7, <1>10, <2>1, <2>3
<1>12. QED
  BY <1>10, <1>11

\* Copying a file and dealing with an item lead on to the same candidate.
LEMMA TestedStep == ASSUME TypeOK, TypeOK', Queued, Staff, Copies, Ready, Applied,
    Tested, [Next]_vars PROVE Tested'
<1>1. ASSUME StartRun PROVE Tested'
  <2>1. pc' \notin {"merge", "apply"}
    BY <1>1, StartRunItems DEF StartRun
  <2>2. QED
    BY <2>1 DEF Tested
<1>2. ASSUME NextBatch PROVE Tested'
  BY <1>2 DEF Tested, Queued, Staff, TypeOK, NextBatch, disk, memory, history
<1>3. ASSUME EndRun PROVE Tested'
  BY <1>3 DEF Tested, Queued, Staff, TypeOK, EndRun, Halt, Nobody, Nothing, disk,
     memory, history
<1>4. ASSUME Start PROVE Tested'
  BY <1>4 DEF Tested, Queued, Staff, TypeOK, Start, Nothing, disk, memory, history
<1>5. ASSUME Collected PROVE Tested'
  <2>1. pc' \notin {"merge", "apply"}
    BY <1>5, CollectedItems DEF Collected
  <2>2. QED
    BY <2>1 DEF Tested
<1>6. ASSUME NEW t \in Task, Prepare(t) PROVE Tested'
  <2>1. pc' \notin {"merge", "apply"}
    BY <1>6 DEF Prepare, Prepared
  <2>2. QED
    BY <2>1 DEF Tested
<1>7. ASSUME NEW t \in Task, PrepareFails(t) PROVE Tested'
  <2>1. pc' \notin {"merge", "apply"}
    BY <1>7 DEF PrepareFails, Prepared
  <2>2. QED
    BY <2>1 DEF Tested
<1>8. ASSUME NEW t \in Task, Commit(t) PROVE Tested'
  <2>1. pc' \notin {"merge", "apply"}
    BY <1>8 DEF Commit
  <2>2. QED
    BY <2>1 DEF Tested
<1>9. ASSUME NEW t \in Task, Return(t) PROVE Tested'
  <2>1. pc' \notin {"merge", "apply"}
    BY <1>9 DEF Return
  <2>2. QED
    BY <2>1 DEF Tested
<1>10. ASSUME NEW t \in Task, Collect(t) PROVE Tested'
  <2>1. pc' \notin {"merge", "apply"}
    BY <1>10 DEF Collect
  <2>2. QED
    BY <2>1 DEF Tested
<1>11. ASSUME NEW t \in Task, NEW f \in File, Write(t, f) PROVE Tested'
  <2>1. pc' \notin {"merge", "apply"}
    BY <1>11 DEF Write
  <2>2. QED
    BY <2>1 DEF Tested
<1>12. ASSUME Accept PROVE Tested'
  <2>1. cand' = Assembled(items) /\ items' = items /\ copy' = copy /\ root' = root /\ changed' = changed
    BY <1>12 DEF Accept, disk, memory
  <2>2. Assembled(items)' = Assembled(items)
    BY <2>1 DEF Assembled
  <2>3. QED
    BY <2>1, <2>2 DEF Tested
<1>13. ASSUME Refuse PROVE Tested'
  BY <1>13 DEF Tested, Queued, Staff, TypeOK, Refuse, disk, memory, history
<1>14. ASSUME Merge PROVE Tested'
  <2>1. pc = "merge" /\ items' = items /\ root' = root /\ changed' = changed /\ cand' = cand
    BY <1>14 DEF Merge, history
  <2>2. \A i \in DOMAIN items : items[i] \in Task /\ copy[items[i]].tree = copy[items[i]].head
    BY DEF Queued, Ready, TypeOK
  <2>3. \A i \in DOMAIN items : copy'[items[i]].tree = copy[items[i]].tree
    BY <1>14, <2>2, MergedParts
  <2>4. Assembled(items)' = Assembled(items)
    BY <2>1, <2>3, Zenon DEF Assembled
  <2>5. QED
    BY <2>1, <2>4 DEF Tested
<1>15. ASSUME MergeFails PROVE Tested'
  <2>1. cand' = None
    BY <1>15 DEF MergeFails
  <2>2. QED
    BY <2>1 DEF Tested
<1>16. ASSUME NEW f \in File, Sync(f) PROVE Tested'
  <2> DEFINE h == Head(items)
  <2>1. /\ pc = "apply" /\ copy' = copy /\ items' = items /\ changed' = changed /\ cand' = cand
        /\ f \in left /\ root' = [root EXCEPT ![f] = copy[h].tree[f]]
    BY <1>16 DEF Sync
  <2>2. h \in Task /\ h = items[1] /\ 1 \in DOMAIN items /\ status[h] = "ready_for_merge"
    BY <2>1, HeadIsTask
  <2>3. f \in changed[items[1]]
    BY <2>1, <2>2 DEF Applied, Ready
  <2>4. \A g \in File : g # f => root'[g] = root[g]
    BY <2>1 DEF TypeOK, Contents
  <2>5. \A g \in File : (\A k \in DOMAIN items : g \notin changed[items[k]]) => root'[g] = root[g]
    BY <2>2, <2>3, <2>4
  <2> DEFINE Prevails(k, g) == /\ g \in changed[items[k]]
                               /\ \A j \in k + 1 .. Len(items) : g \notin changed[items[j]]
             At(r, g) == {t \in Task :
               \/ t \in r /\ \A k \in DOMAIN items : g \notin changed[items[k]]
               \/ \E k \in DOMAIN items : Prevails(k, g) /\ t \in copy[items[k]].tree[g]}
  <2>6. \A g \in File : At(root'[g], g) = At(root[g], g)
    <3> HIDE DEF Prevails
    <3>1. QED
      BY <2>5
  <2>7. Assembled(items) = [g \in File |-> At(root[g], g)]
    BY DEF Assembled
  <2>8. Assembled(items)' = [g \in File |-> At(root'[g], g)]
    BY <2>1 DEF Assembled
  <2>9. Assembled(items)' = Assembled(items)
    <3> HIDE DEF At
    <3>1. QED
      BY <2>6, <2>7, <2>8
  <2>10. QED
    BY <2>1, <2>9 DEF Tested
<1>17. ASSUME MarkDone PROVE Tested'
  <2>1. pc = "apply" /\ cand' = cand
    BY <1>17 DEF MarkDone, history
  <2>2. Assembled(items)' = Assembled(items)
    BY <1>17, RestAssembled
  <2>3. QED
    BY <2>1, <2>2 DEF Tested
<1>18. ASSUME Crash PROVE Tested'
  BY <1>18 DEF Tested, Queued, Staff, TypeOK, Crash, Halt, Nobody, Nothing, disk,
     memory, history
<1>19. CASE UNCHANGED vars
  <2>1. /\ root' = root /\ copy' = copy /\ changed' = changed /\ items' = items
        /\ pc' = pc /\ cand' = cand
    BY <1>19 DEF vars, disk, memory, history
  <2>2. Assembled(items)' = Assembled(items)
    BY <2>1 DEF Assembled
  <2>3. QED
    BY <2>1, <2>2 DEF Tested
<1>20. QED
  BY <1>1, <1>2, <1>3, <1>4, <1>5, <1>6, <1>7, <1>8, <1>9, <1>10, <1>11, <1>12, <1>13,
     <1>14, <1>15, <1>16, <1>17, <1>18, <1>19 DEF Next


\* When all that passed the gate together has been applied, the workspace is the
\* candidate that was tested, whichever order and whichever runs the items are from.
THEOREM TestedIsAppliedAll == Spec => TestedIsApplied
<1> DEFINE Both == Inv /\ Tested
<1>1. Init => Both
  <2>1. Init => Tested
    BY DEF Init, Tested
  <2>2. QED
    BY <2>1, InvInit
<1>2. Both /\ [Next]_vars => Both'
  <2> SUFFICES ASSUME Both, [Next]_vars PROVE Both'
    OBVIOUS
  <2>1. Inv'
    BY InvStep
  <2>2. Tested'
    BY <2>1, TestedStep DEF Inv
  <2>3. QED
    BY <2>1, <2>2
<1>3. Both /\ [Next]_vars
        => [pc = "apply" /\ pc' = "loop" /\ cand # None => root = cand]_vars
  <2> SUFFICES ASSUME Inv, Tested, Next, pc = "apply", pc' = "loop", cand # None
               PROVE  root = cand
    OBVIOUS
  <2>1. MarkDone
    <3>1. \A t \in Task : /\ ~ PrepareFails(t) /\ ~ Prepare(t)
                          /\ ~ Commit(t) /\ ~ Return(t) /\ ~ Collect(t)
                          /\ \A f \in File : ~ Write(t, f)
      BY DEF PrepareFails, Prepare, Commit, Return, Collect, Write
    <3>2. /\ ~ StartRun /\ ~ NextBatch /\ ~ EndRun /\ ~ Start /\ ~ Collected
          /\ ~ Accept /\ ~ Refuse /\ ~ Merge /\ ~ MergeFails /\ ~ Crash
      BY DEF StartRun, NextBatch, EndRun, Start, Collected, Accept, Refuse, Merge,
         MergeFails,
             Crash, Halt
    <3>3. \A f \in File : ~ Sync(f)
      BY DEF Sync
    <3>4. QED
      BY <3>1, <3>2, <3>3 DEF Next
  <2>2. Len(items) = 1
    BY <2>1 DEF MarkDone, NextItem
  <2>3. root = Assembled(items)
    <3>1. TypeOK'
      BY InvStep DEF Inv
    <3>2. QED
      BY <2>1, <2>2, <3>1, RestAssembled DEF Inv
  <2>4. QED
    BY <2>3 DEF Tested
<1>4. QED
  BY <1>1, <1>2, <1>3, PTL DEF Spec, TestedIsApplied
=============================================================================
