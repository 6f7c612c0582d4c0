---------------------------- MODULE SwarmProofs -----------------------------
(***************************************************************************)
(* The safety of Swarm for every plan, every options and any number of     *)
(* tasks: what is merged is done and what is done is merged, what is done   *)
(* stays so, a task starts after what it depends on and sees its work, and  *)
(* workers that run side by side share no file.                             *)
(*                                                                          *)
(* The proof has three layers: what becomes of each status (Moves), which   *)
(* is the same in every part of the run; what holds in one stage because of *)
(* the stage before it (Local, a lemma per step); and what holds from one   *)
(* stage to a much later one (Scheduled, Views, MergedIsDone).              *)
(* With these, a lemma per step shows how the run keeps the promise of      *)
(* module Delivery, and what that promise alone implies.                    *)
(***************************************************************************)
EXTENDS SwarmDelivery, FiniteSetTheorems, SequenceTheorems, TLAPS

-----------------------------------------------------------------------------
(* Lists *)

\* What the first of a list is to the others.
LEMMA HeadAndTail ==
    ASSUME NEW S, NEW s \in Seq(S), s # <<>>
    PROVE  /\ Head(s) \in ToSet(s) /\ Head(s) \in S
           /\ Tail(s) \in Seq(S)
           /\ ToSet(s) = {Head(s)} \cup ToSet(Tail(s))
           /\ Tail(s) = <<>> <=> Len(s) = 1
           /\ IsInjective(s) => IsInjective(Tail(s)) /\ Head(s) \notin ToSet(Tail(s))
<1>1. /\ Len(s) \in Nat /\ Len(s) > 0 /\ Len(Tail(s)) = Len(s) - 1
      /\ Tail(s) \in Seq(S) /\ DOMAIN s = 1 .. Len(s)
      /\ DOMAIN Tail(s) = 1 .. Len(s) - 1
      /\ Head(s) = s[1] /\ Head(s) \in S
      /\ \A i \in 1 .. Len(s) - 1 : Tail(s)[i] = s[i + 1]
  OBVIOUS
<1>2. \A i \in DOMAIN s : i = 1 \/ i - 1 \in DOMAIN Tail(s)
  BY <1>1
<1>3. ToSet(s) = {Head(s)} \cup ToSet(Tail(s))
  <2>1. \A i \in DOMAIN s : s[i] = Head(s) \/ s[i] = Tail(s)[i - 1]
    BY <1>1
  <2>2. \A i \in DOMAIN Tail(s) : i + 1 \in DOMAIN s /\ Tail(s)[i] = s[i + 1]
    BY <1>1
  <2>3. 1 \in DOMAIN s
    BY <1>1
  <2>4. QED
    BY <1>1, <1>2, <2>1, <2>2, <2>3 DEF ToSet
<1>4. Head(s) \in ToSet(s)
  BY <1>3
<1>5. Tail(s) = <<>> <=> Len(s) = 1
  <2>1. /\ Tail(s) # <<>> => Len(Tail(s)) \in Nat \ {0}
        /\ Tail(s) = <<>> => Len(Tail(s)) = 0
    BY <1>1, EmptySeq
  <2>2. QED
    BY <1>1, <2>1
<1>6. ASSUME IsInjective(s) PROVE IsInjective(Tail(s)) /\ Head(s) \notin ToSet(Tail(s))
  <2>1. \A i, j \in 1 .. Len(s) : s[i] = s[j] => i = j
    BY <1>1, <1>6 DEF IsInjective
  <2>2. \A i, j \in 1 .. Len(s) - 1 : Tail(s)[i] = Tail(s)[j] => i = j
    BY <1>1, <2>1
  <2>3. \A i \in 1 .. Len(s) - 1 : Tail(s)[i] # Head(s)
    BY <1>1, <2>1
  <2>4. QED
    BY <1>1, <2>2, <2>3 DEF IsInjective, ToSet
<1>7. QED
  BY <1>1, <1>3, <1>4, <1>5, <1>6

LEMMA Appended ==
    ASSUME NEW S, NEW s \in Seq(S), NEW t \in S
    PROVE  /\ Append(s, t) \in Seq(S) /\ Append(s, t) # <<>>
           /\ ToSet(Append(s, t)) = ToSet(s) \cup {t}
           /\ IsInjective(s) /\ t \notin ToSet(s) => IsInjective(Append(s, t))
<1>1. /\ Len(s) \in Nat /\ DOMAIN s = 1 .. Len(s)
      /\ DOMAIN Append(s, t) = 1 .. Len(s) + 1
      /\ Append(s, t)[Len(s) + 1] = t
      /\ \A i \in 1 .. Len(s) : Append(s, t)[i] = s[i]
      /\ Append(s, t) \in Seq(S) /\ Append(s, t) # <<>>
  OBVIOUS
<1>2. DOMAIN Append(s, t) = DOMAIN s \cup {Len(s) + 1}
  BY <1>1
<1>3. ToSet(Append(s, t)) = ToSet(s) \cup {t}
  BY <1>1, <1>2 DEF ToSet
<1>4. ASSUME IsInjective(s), t \notin ToSet(s) PROVE IsInjective(Append(s, t))
  BY <1>1, <1>2, <1>4 DEF IsInjective, ToSet
<1>5. QED
  BY <1>1, <1>3, <1>4

LEMMA Joined ==
    ASSUME NEW S, NEW r \in Seq(S), NEW s \in Seq(S)
    PROVE  /\ r \o s \in Seq(S)
           /\ ToSet(r \o s) = ToSet(r) \cup ToSet(s)
           /\ IsInjective(r) /\ IsInjective(s) /\ ToSet(r) \cap ToSet(s) = {} =>
                IsInjective(r \o s)
<1>1. /\ Len(r) \in Nat /\ Len(s) \in Nat
      /\ DOMAIN r = 1 .. Len(r) /\ DOMAIN s = 1 .. Len(s)
      /\ r \o s \in Seq(S) /\ DOMAIN (r \o s) = 1 .. Len(r) + Len(s)
      /\ \A i \in 1 .. Len(r) : (r \o s)[i] = r[i]
      /\ \A i \in 1 .. Len(s) : (r \o s)[Len(r) + i] = s[i]
  OBVIOUS
<1>2. \A i \in DOMAIN (r \o s) : \/ i \in DOMAIN r /\ (r \o s)[i] = r[i]
                                 \/ /\ i - Len(r) \in DOMAIN s /\ i \notin DOMAIN r
                                    /\ (r \o s)[i] = s[i - Len(r)]
  <2>1. TAKE i \in DOMAIN (r \o s)
  <2>2. CASE i <= Len(r)
    BY <1>1, <2>2
  <2>3. CASE i > Len(r)
    <3>1. i - Len(r) \in 1 .. Len(s) /\ i = Len(r) + (i - Len(r))
      BY <1>1, <2>3
    <3>2. QED
      BY <1>1, <2>3, <3>1
  <2>4. QED
    BY <1>1, <2>2, <2>3
<1>3. ToSet(r \o s) = ToSet(r) \cup ToSet(s)
  <2>1. \A i \in DOMAIN r : i \in DOMAIN (r \o s)
    BY <1>1
  <2>2. \A i \in DOMAIN s : Len(r) + i \in DOMAIN (r \o s)
    BY <1>1
  <2>3. QED
    BY <1>1, <1>2, <2>1, <2>2 DEF ToSet
<1>4. ASSUME IsInjective(r), IsInjective(s), ToSet(r) \cap ToSet(s) = {}
      PROVE  IsInjective(r \o s)
  <2>1. \A i \in DOMAIN r, j \in DOMAIN s : r[i] # s[j]
    BY <1>4 DEF ToSet
  <2>2. \A i, j \in DOMAIN (r \o s) : i - Len(r) = j - Len(r) => i = j
    BY <1>1
  <2>3. QED
    BY <1>2, <1>4, <2>1, <2>2 DEF IsInjective
<1>5. QED
  BY <1>1, <1>3, <1>4

\* A list by identifier has every member of a set once.
LEMMA ListedById ==
    ASSUME NEW S \in SUBSET Task, NEW s \in ById(S)
    PROVE  s \in Seq(Task) /\ ToSet(s) = S /\ IsInjective(s) /\ (s = <<>> <=> S = {})
<1>1. IsFiniteSet(S) /\ Cardinality(S) \in Nat /\ Task \subseteq Nat
  BY RulesAssumption, FS_Subset, FS_CardinalityType
<1>2. /\ s \in [1 .. Cardinality(S) -> S] /\ ToSet(s) = S
      /\ \A i, j \in DOMAIN s : i < j => s[i] < s[j]
  BY DEF ById, Sorted
<1>3. s \in Seq(Task) /\ DOMAIN s \subseteq Nat
  <2>1. s \in [1 .. Cardinality(S) -> Task]
    BY <1>2
  <2>2. QED
    BY <1>1, <2>1, SeqDef
<1>4. IsInjective(s)
  <2>1. SUFFICES ASSUME NEW i \in DOMAIN s, NEW j \in DOMAIN s, s[i] = s[j] PROVE i = j
    BY DEF IsInjective
  <2>2. s[i] \in Nat /\ i \in Nat /\ j \in Nat
    BY <1>1, <1>2, <1>3
  <2>3. QED
    BY <1>2, <2>1, <2>2
<1>5. s = <<>> <=> S = {}
  <2>1. ASSUME s = <<>> PROVE S = {}
    BY <1>2, <2>1 DEF ToSet
  <2>2. ASSUME S = {} PROVE s = <<>>
    BY <1>1, <1>2, <2>2, FS_EmptySet
  <2>3. QED
    BY <2>1, <2>2
<1>6. QED
  BY <1>2, <1>3, <1>4, <1>5

\* A list in plan order has every member once that is in the plan.
LEMMA ListedInOrder ==
    ASSUME plan \in Plans, NEW S \in SUBSET Task, NEW s \in InPlanOrder(S)
    PROVE  s \in Seq(Task) /\ ToSet(s) \subseteq S /\ IsInjective(s)
<1> DEFINE L == S \cap Listed(plan)
<1>1. IsFiniteSet(L) /\ Cardinality(L) \in Nat /\ L \subseteq Task /\ L \subseteq S
  BY RulesAssumption, FS_Subset, FS_CardinalityType
<1>2. /\ s \in [1 .. Cardinality(L) -> L] /\ ToSet(s) = L
      /\ \A i, j \in DOMAIN s : i < j => InOrder(plan, s[i], s[j])
  BY DEF InPlanOrder, Sorted
<1> HIDE DEF L
<1>3. s \in Seq(Task) /\ DOMAIN s \subseteq Nat
  <2>1. s \in [1 .. Cardinality(L) -> Task]
    BY <1>1, <1>2
  <2>2. QED
    BY <1>1, <2>1, SeqDef
<1>4. plan.order \in Seq(Task) /\ IsInjective(plan.order)
  BY SwarmAssumption
<1>5. \A a : ~InOrder(plan, a, a)
  BY <1>4 DEF InOrder, IsInjective
<1>6. IsInjective(s)
  <2>1. SUFFICES ASSUME NEW i \in DOMAIN s, NEW j \in DOMAIN s, s[i] = s[j] PROVE i = j
    BY DEF IsInjective
  <2>2. i \in Nat /\ j \in Nat /\ ~(i < j) /\ ~(j < i)
    BY <1>2, <1>3, <1>5, <2>1
  <2>3. QED
    BY <2>2
<1>7. QED
  BY <1>1, <1>2, <1>3, <1>6

-----------------------------------------------------------------------------
(* The inductive invariant, one part per concern *)

\* The statuses a task may be started with, and those it may be merged with.
Startable == {"planned", "interrupted", "cancelled", "failed", "verify_failed",
              "candidate_rejected", "changes_requested"}
Mergeable == {"ready_for_merge", "merge_conflict"}

\* What a status that releases dependents may become: the strict gate blocks a
\* task that was already satisfied.
Frozen == SuccessfulTerminal \cup {"blocked_integration"}

Released(t) == \A d \in Awaits(t) : d \in Task /\ status[d] \in SuccessfulTerminal

Todo == ToSet(todo)
Items == ToSet(items)

\* Where a run holds no schedule, no batch, and no items.
Between == {"idle", "block", "loop"}
NoBatch == Stage \ {"prepare", "start", "work", "collect"}
NoItems == {"idle", "block", "loop", "batches", "prepare", "start", "work", "collect"}

\* What a stage has left, once each.
Stages ==
    /\ pc = "idle" => todo = <<>> /\ queue = <<>>
    /\ pc # "idle" => opt \in RunOptions
    /\ pc \in {"pending", "merge", "applied", "prepare", "start", "sync"} => todo # <<>>
    /\ pc = "gate" => items # <<>>
    /\ pc \in NoItems => items = <<>>
    /\ pc \in NoBatch => batch = {}
    /\ pc \notin {"start", "work", "collect"} => worker = NobodyWorks
    /\ IsInjective(todo) /\ IsInjective(items)

\* What is to be merged is ready for it, and what is listed once is listed once.
Merging ==
    /\ pc \in {"pending", "sync"} => Todo \cap Items = {}
    /\ pc \in {"merge", "applied", "reject", "drop"} => Todo \subseteq Items
    /\ pc = "applied" => Head(todo) \in base
    /\ pc \in {"pending", "sync", "merge", "applied"} => \A t \in Todo : status[t] \in Mergeable
    /\ pc \in {"pending", "sync", "assemble", "gate"} => \A t \in Items : status[t] \in Mergeable
    /\ pc \in {"reject", "drop"} =>
         \A t \in Items : status[t] \in Mergeable \cup {"candidate_rejected"}

\* What is to be started may be, and what will run at the same time may.
Open(t) == status[t] \in Startable /\ Released(t)

SideBySide(S) == \A a, b \in S : a # b => PairSafe(plan, a, b)

Scheduled ==
    pc \notin Between =>
      /\ \A k \in DOMAIN queue : \A t \in queue[k] : Open(t)
      /\ \A k \in DOMAIN queue : SideBySide(queue[k])
      /\ \A j, k \in DOMAIN queue : j # k => queue[j] \cap queue[k] = {}

\* The batch in hand: `todo` is to be prepared, and later to be started.
InHand ==
    /\ pc \in {"prepare", "start"} =>
         /\ \A t \in Todo : Open(t)
         /\ \A k \in DOMAIN queue : queue[k] \cap (Todo \cup batch) = {}
         /\ \A t \in batch : view[t] # NoBranch
    /\ pc = "prepare" => Todo \cap batch = {} /\ \A t \in batch : Open(t)
    /\ pc = "start" => Todo \subseteq batch
    /\ pc \in {"prepare", "start", "work", "collect"} => SideBySide(batch)
    /\ pc = "prepare" => SideBySide(Todo \cup batch)

\* A worker works on a task of the batch that was started, on its branch.
Crew ==
    \A t \in Task : worker[t] # "none" =>
      status[t] = "in_progress" /\ t \in batch /\ view[t] # NoBranch

\* A branch was cut when everything its task depends on had been completed, and
\* from a base branch with all of it that is merged.
Views ==
    \A t \in Task : view[t] # NoBranch =>
      \A d \in Awaits(t) : /\ d \in Task
                           /\ status[d] \in Frozen
                           /\ status[d] = "done" => d \in view[t]

\* An expected-red test on its way to the base branch waits for nobody, or is
\* merged with the work it waits for.
Waits(r) == r \in plan.red /\ status[r] = "ready_for_merge" /\ UnfinishedDependent(status, r)

RedTests ==
    /\ pc = "pending" => \A r \in Todo \cup Items : ~Waits(r)
    /\ pc \in {"gate", "merge", "applied"} =>
         \A r \in Items : Waits(r) => \E u \in Items : r \in plan.declared[u]

\* The inductive invariant.
Inv ==
    /\ TypeOK /\ DoneIsMerged /\ MergedIsDone /\ InProgressHasWorker
    /\ Stages /\ Merging /\ Scheduled /\ InHand /\ Crew /\ Views /\ RedTests

-----------------------------------------------------------------------------
(* The two steps with the most outcomes *)

Judgements == Status \ {"done", "planned", "in_progress"}

LEMMA CollectJudges ==
    ASSUME NEW t \in Task, Collect(t)
    PROVE  \E s \in Judgements : Mark(t, s)
<1>1. PICK s \in Judged(worker[t]) : Mark(t, s)
  BY DEF Collect
<1>2. worker[t] \in Result
  BY DEF Collect
<1>3. CASE worker[t] \in {"failed", "verify_failed", "interrupted"}
  BY <1>1, <1>3 DEF Judged, Judgements, Status
<1>4. CASE worker[t] = "noop"
  BY <1>1, <1>4 DEF Judged, Judgements, Status, SuccessfulTerminal
<1>5. CASE worker[t] \in {"changed", "unverified", "crashed"}
  BY <1>1, <1>5 DEF Judged, Judgements, Status, SuccessfulTerminal
<1>6. QED
  BY <1>2, <1>3, <1>4, <1>5 DEF Result

\* What is assembled: the items that need not wait, in front of them the tests that
\* waited for them; tests that have lost their branch fail.
Kept == {t \in Items : ~Deferred(status, t)}
AssembleOutcome ==
    \/ pc' = "batches" /\ items' = <<>> /\ todo' = <<>> /\ status' = status
    \/ \E lost \in SUBSET Awaited(Kept) :
         /\ status' = [t \in Task |-> IF t \in lost THEN "failed" ELSE status[t]]
         /\ items' \in Seq(Task) /\ items' # <<>> /\ IsInjective(items')
         /\ Kept \subseteq ToSet(items') /\ ToSet(items') \subseteq Kept \cup (Awaited(Kept) \ lost)
         /\ \/ pc' = "gate" /\ todo' = <<>>
            \/ pc' = "drop" /\ todo' = items'

LEMMA Assembles == ASSUME TypeOK, Assemble PROVE AssembleOutcome
<1> USE DEF trees, run, crew
<1>1. Kept = {t \in ToSet(items) : ~Deferred(status, t)}
  BY DEF Kept, Items
<1>2. CASE opt.merge = "review" \/ Kept = {}
  BY <1>1, <1>2 DEF Assemble, AssembleOutcome
<1>3. CASE ~(opt.merge = "review" \/ Kept = {})
  <2>1. PICK lost \in SUBSET {d \in Awaited(Kept) : view[d] = NoBranch} :
          /\ status' = [t \in Task |-> IF t \in lost THEN "failed" ELSE status[t]]
          /\ \E tests \in InPlanOrder(Awaited(Kept) \ lost), fixes \in ById(Kept) :
               items' = tests \o fixes
          /\ IF lost = {} THEN pc' = "gate" /\ todo' = <<>> ELSE pc' = "drop" /\ todo' = items'
    BY <1>1, <1>3 DEF Assemble
  <2>2. PICK tests \in InPlanOrder(Awaited(Kept) \ lost), fixes \in ById(Kept) : items' = tests \o fixes
    BY <2>1
  <2>3. Kept \in SUBSET Task /\ Awaited(Kept) \ lost \in SUBSET Task
    BY DEF Kept, Items, TypeOK, ToSet, Awaited
  <2>4. /\ tests \in Seq(Task) /\ ToSet(tests) \subseteq Awaited(Kept) \ lost /\ IsInjective(tests)
        /\ fixes \in Seq(Task) /\ ToSet(fixes) = Kept /\ IsInjective(fixes)
    BY <2>3, ListedById, ListedInOrder DEF TypeOK
  <2>5. ToSet(tests) \cap ToSet(fixes) = {}
    BY <2>4 DEF Awaited
  <2>6. /\ items' \in Seq(Task) /\ IsInjective(items')
        /\ ToSet(items') = ToSet(tests) \cup Kept
    BY <2>2, <2>4, <2>5, Joined
  <2>7. items' # <<>>
    BY <1>3, <2>6 DEF ToSet
  <2>8. QED
    BY <2>1, <2>4, <2>6, <2>7 DEF AssembleOutcome
<1>4. QED
  BY <1>2, <1>3

-----------------------------------------------------------------------------
(* Types *)

\* What a workspace operation may change keeps its type.
LEMMA TreesTyped ==
    ASSUME TypeOK, NEW t \in Task, CleanupFailed(t) \/ CleanupAccepted(t) \/ UNCHANGED trees
    PROVE  /\ view' \in [Task -> (SUBSET Task) \cup {NoBranch}]
           /\ work' \subseteq Task /\ edits' \subseteq Task /\ dirty' \subseteq Task
           /\ \A u \in Task : view'[u] = view[u] \/ (u = t /\ view'[u] = NoBranch)
<1>1. view' = view \/ view' = [view EXCEPT ![t] = NoBranch]
  BY DEF CleanupFailed, CleanupAccepted, Unbranch, trees
<1>2. work' \subseteq work /\ edits' \subseteq edits /\ dirty' \subseteq dirty \cup {t}
  BY DEF CleanupFailed, CleanupAccepted, Unbranch, trees
<1>3. view' \in [Task -> (SUBSET Task) \cup {NoBranch}]
  BY <1>1 DEF TypeOK
<1>4. \A u \in Task : view'[u] = view[u] \/ (u = t /\ view'[u] = NoBranch)
  BY <1>1 DEF TypeOK
<1>5. QED
  BY <1>2, <1>3, <1>4 DEF TypeOK

\* What is left when a process is gone.
LEMMA HaltTyped ==
    ASSUME TypeOK, Halt, UNCHANGED <<plan, file, trees, base>>, torn' \subseteq base
    PROVE  TypeOK'
<1>1. /\ pc' \in Stage /\ back' \in {"loop", "batches"}
      /\ opt' \in RunOptions \cup {NoRun}
      /\ cancelled' \in BOOLEAN /\ blocked' \in BOOLEAN
      /\ executed' \in Nat /\ avoid' \subseteq Task
      /\ batch' \subseteq Task
      /\ worker' \in [Task -> Working]
  BY DEF Halt, NobodyWorks, Working, Stage
<1>2. queue' \in Seq(SUBSET Task) /\ items' \in Seq(Task) /\ todo' \in Seq(Task)
  BY DEF Halt
<1>3. QED
  BY <1>1, <1>2 DEF TypeOK, file, trees

LEMMA TypeStep == ASSUME TypeOK, Stages, Merging, Next PROVE TypeOK'
<1> USE DEF file, trees, run, crew
<1>1. CASE StartRun
  <2>1. PICK o \in RunOptions :
          /\ opt' = o
          /\ cancelled' \in IF o.cancellable THEN BOOLEAN ELSE {FALSE}
          /\ status' = Recovered
          /\ todo' \in IF o.merge = "auto" /\ ~cancelled'
                       THEN InPlanOrder(Pending(Recovered, o)) ELSE {<<>>}
          /\ pc' = IF todo' = <<>> THEN "loop" ELSE "pending"
    BY <1>1 DEF StartRun
  <2>2. todo' \in Seq(Task)
    <3>1. Pending(Recovered, o) \in SUBSET Task /\ plan \in Plans /\ <<>> \in Seq(Task)
      BY DEF TypeOK, Pending
    <3>2. todo' = <<>> \/ todo' \in InPlanOrder(Pending(Recovered, o))
      BY <2>1
    <3>3. QED
      BY <3>1, <3>2, ListedInOrder
  <2>3. status' \in [Task -> Status]
    BY <2>1 DEF TypeOK, Recovered, Status
  <2>4. QED
    BY <1>1, <2>1, <2>2, <2>3 DEF StartRun, TypeOK, Stage
<1>2. CASE KeepPending
  <2>1. Head(todo) \in Task /\ Tail(todo) \in Seq(Task)
    BY <1>2, HeadAndTail DEF KeepPending, TypeOK, Stages
  <2>2. items' \in Seq(Task)
    BY <1>2, <2>1 DEF KeepPending, TypeOK
  <2>3. QED
    BY <1>2, <2>1, <2>2 DEF KeepPending, TypeOK, Advance, AfterPending, Stage
<1>3. CASE DropPending
  <2>1. Head(todo) \in Task /\ Tail(todo) \in Seq(Task)
    BY <1>3, HeadAndTail DEF DropPending, TypeOK, Stages
  <2>2. PICK s \in {"failed", "changes_requested"} : Mark(Head(todo), s)
    BY <1>3 DEF DropPending, Verdicts
  <2>3. status' \in [Task -> Status]
    BY <2>2 DEF Mark, TypeOK, Status
  <2>4. CleanupFailed(Head(todo))
    BY <1>3 DEF DropPending
  <2>5. QED
    BY <1>3, <2>1, <2>3, <2>4, TreesTyped DEF DropPending, TypeOK, Advance, AfterPending, Stage
<1>4. CASE Accept \/ Refuse
  BY <1>4 DEF Accept, Refuse, TypeOK, Stage
<1>5. CASE RejectCleanup
  <2>1. Head(todo) \in Task /\ Tail(todo) \in Seq(Task)
    BY <1>5, HeadAndTail DEF RejectCleanup, TypeOK
  <2>2. status' \in [Task -> Status]
    BY <1>5 DEF RejectCleanup, TypeOK, Rejected, Status
  <2>3. CleanupFailed(Head(todo))
    BY <1>5 DEF RejectCleanup
  <2>4. QED
    BY <1>5, <2>1, <2>2, <2>3, TreesTyped DEF RejectCleanup, TypeOK
<1>6. CASE RejectSave
  <2>1. status' \in [Task -> Status]
    BY <1>6 DEF RejectSave, TypeOK, Rejected, Status
  <2>2. QED
    BY <1>6, <2>1 DEF RejectSave, TypeOK, Stage
<1>7. CASE BlockRemaining
  <2>1. status' \in [Task -> Status]
    BY <1>7 DEF BlockRemaining, TypeOK, Status
  <2>2. QED
    BY <1>7, <2>1 DEF BlockRemaining, TypeOK, Stage
<1>8. CASE Apply
  <2>1. Head(todo) \in Task
    BY <1>8, HeadAndTail DEF Apply, TypeOK, Stages
  <2>2. QED
    BY <1>8, <2>1 DEF Apply, TypeOK, Stage
<1>9. CASE MarkDone \/ MergeConflicts \/ MergeFails
  <2>1. Head(todo) \in Task /\ Tail(todo) \in Seq(Task)
    BY <1>9, HeadAndTail DEF MarkDone, MergeConflicts, MergeFails, TypeOK, Stages
  <2>2. status' \in [Task -> Status]
    BY <1>9 DEF MarkDone, MergeConflicts, MergeFails, Mark, TypeOK, Status, SuccessfulTerminal
  <2>3. \/ CleanupAccepted(Head(todo)) \/ CleanupFailed(Head(todo)) \/ UNCHANGED trees
    BY <1>9 DEF MarkDone, MergeConflicts, MergeFails
  <2>4. pc' \in {pc, back, "merge"} /\ torn' \subseteq torn /\ todo' = Tail(todo)
    BY <1>9 DEF MarkDone, MergeConflicts, MergeFails, Advance
  <2>7. items' \in Seq(Task)
    <3>1. items' = items \/ items' = <<>>
      BY <1>9 DEF MarkDone, MergeConflicts, MergeFails, EndMerge
    <3>2. QED
      BY <3>1, EmptySeq DEF TypeOK
  <2>5. /\ view' \in [Task -> (SUBSET Task) \cup {NoBranch}]
        /\ work' \subseteq Task /\ edits' \subseteq Task /\ dirty' \subseteq Task
    BY <2>1, <2>3, TreesTyped DEF TypeOK
  <2>6. QED
    BY <1>9, <2>1, <2>2, <2>4, <2>5, <2>7 DEF MarkDone, MergeConflicts, MergeFails, TypeOK, Stage
<1>10. CASE Schedule
  <2>1. Candidates(plan, ThisRound, status, attempts) \subseteq Task
    BY SwarmAssumption DEF Candidates, Listed, ToSet, TypeOK
  <2>2. queue' \in Seq(SUBSET Task)
    <3>1. PICK n \in Nat : queue' \in [1 .. n -> SUBSET Task]
      BY <1>10, <2>1, FS_Subset, FS_CardinalityType, RulesAssumption DEF Schedule, Schedules, Runnables
    <3>2. QED
      BY <3>1, SeqDef
  <2>3. QED
    BY <1>10, <2>2 DEF Schedule, TypeOK, Stage
<1>11. CASE FinishRun \/ Abort
  BY <1>11, HaltTyped DEF FinishRun, Abort, TypeOK
<1>12. CASE Crash
  <2>1. torn' \subseteq base
    BY <1>12 DEF Crash, TypeOK, Merging
  <2>2. QED
    BY <1>12, <2>1, HaltTyped DEF Crash
<1>13. CASE SkipBatch \/ EndOfSchedule
  <2>1. queue' \in Seq(SUBSET Task)
    <3>1. queue \in Seq(SUBSET Task) /\ (queue' = queue \/ (queue # <<>> /\ queue' = Tail(queue)))
      BY <1>13 DEF SkipBatch, EndOfSchedule, TypeOK
    <3>2. QED
      BY <3>1, HeadAndTail
  <2>2. QED
    BY <1>13, <2>1 DEF SkipBatch, EndOfSchedule, TypeOK, Stage
<1>14. CASE NextBatch
  <2>1. Head(queue) \subseteq Task
    BY <1>14 DEF NextBatch, TypeOK
  <2>2. todo' \in Seq(Task)
    BY <1>14, <2>1, ListedById DEF NextBatch
  <2>3. QED
    BY <1>14, <2>2 DEF NextBatch, TypeOK, Stage
<1>15. CASE Prepare
  <2>1. Head(todo) \in Task /\ Tail(todo) \in Seq(Task)
    BY <1>15, HeadAndTail DEF Prepare, TypeOK, Stages
  <2>2. batch' \subseteq Task
    BY <1>15, <2>1 DEF Prepare, TypeOK
  <2>3. todo' \in Seq(Task) /\ pc' \in Stage
    BY <1>15, <2>1, <2>2, ListedById DEF Prepare, Stage
  <2>4. view' \in [Task -> (SUBSET Task) \cup {NoBranch}] /\ work' \subseteq Task
    BY <1>15 DEF Prepare, TypeOK
  <2>5. QED
    BY <1>15, <2>2, <2>3, <2>4 DEF Prepare, TypeOK
<1>16. CASE PrepareFails
  <2>1. Head(todo) \in Task /\ Tail(todo) \in Seq(Task)
    BY <1>16, HeadAndTail DEF PrepareFails, TypeOK, Stages
  <2>2. todo' \in Seq(Task) /\ pc' \in Stage
    BY <1>16, <2>1, ListedById DEF PrepareFails, TypeOK, Stage
  <2>3. status' \in [Task -> Status]
    BY <1>16 DEF PrepareFails, Mark, TypeOK, Status
  <2>4. QED
    BY <1>16, <2>1, <2>2, <2>3 DEF PrepareFails, TypeOK
<1>17. CASE StartTask
  <2>1. Head(todo) \in Task /\ Tail(todo) \in Seq(Task)
    BY <1>17, HeadAndTail DEF StartTask, TypeOK, Stages
  <2>2. status' \in [Task -> Status] /\ worker' \in [Task -> Working]
    BY <1>17 DEF StartTask, Mark, TypeOK, Status, Working
  <2>3. attempts' \in [Task -> 0 .. AttemptCap]
    BY <1>17, <2>1, SwarmAssumption DEF StartTask, TypeOK
  <2>4. QED
    BY <1>17, <2>1, <2>2, <2>3 DEF StartTask, Advance, TypeOK, Stage
<1>18. ASSUME NEW t \in Task, WorkerBegins(t) \/ WorkerReturns(t) PROVE TypeOK'
  <2>1. PICK r \in Result \cup {"busy"} : Report(t, r)
    BY <1>18 DEF WorkerBegins, WorkerReturns, Result
  <2>2. worker' \in [Task -> Working]
    BY <2>1 DEF Report, Working, TypeOK
  <2>3. QED
    BY <1>18, <2>2 DEF WorkerBegins, WorkerReturns, TypeOK
<1>19. ASSUME NEW t \in Task, WorkerEdits(t) \/ WorkerCommits(t) PROVE TypeOK'
  <2>1. worker' \in [Task -> Working]
    BY <1>19 DEF WorkerEdits, WorkerCommits, Report, Working, TypeOK
  <2>2. QED
    BY <1>19, <2>1 DEF WorkerEdits, WorkerCommits, TypeOK
<1>20. ASSUME NEW t \in Task, Collect(t) PROVE TypeOK'
  <2>1. PICK s \in Judgements : Mark(t, s)
    BY <1>20, CollectJudges
  <2>2. status' \in [Task -> Status] /\ worker' \in [Task -> Working]
    BY <1>20, <2>1 DEF Collect, Mark, Report, Working, TypeOK, Judgements
  <2>3. \/ CleanupAccepted(t) \/ CleanupFailed(t) \/ UNCHANGED trees
    BY <1>20 DEF Collect
  <2>4. /\ view' \in [Task -> (SUBSET Task) \cup {NoBranch}]
        /\ work' \subseteq Task /\ edits' \subseteq Task /\ dirty' \subseteq Task
    BY <2>3, TreesTyped DEF TypeOK
  <2>5. executed' \in Nat
    BY <1>20 DEF Collect, TypeOK
  <2>6. QED
    BY <1>20, <2>2, <2>4, <2>5 DEF Collect, TypeOK
<1>21. CASE PoolEnds \/ Cancel
  BY <1>21 DEF PoolEnds, Cancel, TypeOK, Stage
<1>22. CASE Collected
  <2>1. todo' \in Seq(Task)
    BY <1>22, ListedById DEF Collected, TypeOK
  <2>2. QED
    BY <1>22, <2>1 DEF Collected, TypeOK, Stage
<1>23. CASE Sync
  <2>1. Head(todo) \in Task /\ Tail(todo) \in Seq(Task)
    BY <1>23, HeadAndTail DEF Sync, TypeOK, Stages
  <2>2. status' \in [Task -> Status] /\ items' \in Seq(Task) /\ attempts' = attempts
    <3>1. \/ items' = Append(items, Head(todo)) /\ status' = status /\ attempts' = attempts
          \/ /\ status' = [status EXCEPT ![Head(todo)] = "failed"]
             /\ items' = items /\ attempts' = attempts
      BY <1>23 DEF Sync, Mark
    <3>2. items' \in Seq(Task)
      <4>1. items \in Seq(Task)
        BY DEF TypeOK
      <4>2. QED
        BY <2>1, <3>1, <4>1, Appended
    <3>3. status' \in [Task -> Status]
      BY <2>1, <3>1 DEF TypeOK, Status
    <3>4. QED
      BY <3>1, <3>2, <3>3
  <2>3. CleanupFailed(Head(todo)) \/ UNCHANGED trees
    BY <1>23 DEF Sync
  <2>4. /\ view' \in [Task -> (SUBSET Task) \cup {NoBranch}]
        /\ work' \subseteq Task /\ edits' \subseteq Task /\ dirty' \subseteq Task
    BY <2>1, <2>3, TreesTyped DEF TypeOK
  <2>5. QED
    BY <1>23, <2>1, <2>2, <2>4 DEF Sync, Advance, TypeOK, Stage
<1>24. CASE Assemble
  <2>1. AssembleOutcome
    BY <1>24, Assembles
  <2>2. /\ status' \in [Task -> Status] /\ items' \in Seq(Task) /\ todo' \in Seq(Task)
        /\ pc' \in Stage
    <3>1. CASE pc' = "batches" /\ items' = <<>> /\ todo' = <<>> /\ status' = status
      BY <3>1 DEF TypeOK, Stage
    <3>2. CASE \E lost \in SUBSET Awaited(Kept) :
                 status' = [t \in Task |-> IF t \in lost THEN "failed" ELSE status[t]]
      <4>1. status' \in [Task -> Status]
        BY <3>2 DEF TypeOK, Status
      <4>2. items' \in Seq(Task) /\ todo' \in Seq(Task) /\ pc' \in {"batches", "gate", "drop"}
        BY <2>1, EmptySeq DEF AssembleOutcome
      <4>4. pc' \in Stage
        BY <4>2 DEF Stage
      <4>3. QED
        BY <4>1, <4>2, <4>4
    <3>3. QED
      BY <2>1, <3>1, <3>2 DEF AssembleOutcome
  <2>3. QED
    BY <1>24, <2>2 DEF Assemble, TypeOK
<1>25. QED
  BY <1>1, <1>2, <1>3, <1>4, <1>5, <1>6, <1>7, <1>8, <1>9, <1>10, <1>11, <1>12, <1>13, <1>14,
     <1>15, <1>16, <1>17, <1>18, <1>19, <1>20, <1>21, <1>22, <1>23, <1>24 DEF Next, Proceed

-----------------------------------------------------------------------------
(* Which status becomes which, and where *)

Leaves(t) == status'[t] # status[t]

\* The one place for every change of a status.
Move(t) ==
    \/ pc = "idle" /\ status[t] = "in_progress" /\ status'[t] = "failed"
    \/ pc \in {"pending", "sync"} /\ t = Head(todo) /\ status'[t] \in {"failed", "changes_requested"}
    \/ pc = "merge" /\ t = Head(todo) /\ status'[t] \in {"failed", "merge_conflict"}
    \/ pc = "applied" /\ t = Head(todo) /\ status'[t] = "done"
    \/ pc \in {"reject", "drop"} /\ t \in Items /\ status'[t] = "candidate_rejected"
    \/ pc = "block" /\ status[t] \notin Settled /\ status'[t] = "blocked_integration"
    \/ pc = "prepare" /\ t = Head(todo) /\ status'[t] = "failed"
    \/ StartTask /\ pc = "start" /\ t = Head(todo) /\ status'[t] = "in_progress"
    \/ pc = "collect" /\ worker[t] \in Result /\ status'[t] \in Judgements
    \/ pc = "assemble" /\ t \in Awaited(Kept) /\ status'[t] = "failed"

LEMMA Moves == ASSUME TypeOK, Next, NEW t \in Task, Leaves(t) PROVE Move(t)
<1> USE DEF Leaves, file
<1>0. status \in [Task -> Status] /\ ~(status' = status)
  BY DEF TypeOK
<1>1. CASE StartRun
  <2>1. pc = "idle" /\ status' = Recovered
    BY <1>1 DEF StartRun
  <2>2. QED
    BY <2>1 DEF Recovered, Move
<1>2. CASE DropPending
  <2>1. PICK s \in {"failed", "changes_requested"} : Mark(Head(todo), s)
    BY <1>2 DEF DropPending, Verdicts
  <2>2. pc = "pending"
    BY <1>2 DEF DropPending
  <2>3. QED
    BY <1>0, <2>1, <2>2 DEF Mark, Move
<1>3. CASE RejectCleanup \/ RejectSave
  <2>1. PICK S \in SUBSET Items : status' = Rejected(S) /\ pc \in {"reject", "drop"}
    BY <1>0, <1>3 DEF RejectCleanup, RejectSave, Items
  <2>2. QED
    BY <2>1 DEF Rejected, Move
<1>4. CASE BlockRemaining
  <2>1. /\ pc = "block"
        /\ status' = [u \in Task |->
                        IF u \in ToSet(plan.order) \cap opt.only /\ status[u] \notin Settled
                        THEN "blocked_integration" ELSE status[u]]
    BY <1>4 DEF BlockRemaining
  <2>2. QED
    BY <2>1 DEF Move
<1>5. CASE MarkDone
  <2>1. pc = "applied" /\ status' = [status EXCEPT ![Head(todo)] = "done"]
    BY <1>5 DEF MarkDone, Mark
  <2>2. QED
    BY <1>0, <2>1 DEF Move
<1>6. CASE MergeConflicts \/ MergeFails
  <2>1. /\ pc = "merge"
        /\ \/ status' = [status EXCEPT ![Head(todo)] = "merge_conflict"]
           \/ status' = [status EXCEPT ![Head(todo)] = "failed"]
    BY <1>6 DEF MergeConflicts, MergeFails, Mark
  <2>2. QED
    BY <1>0, <2>1 DEF Move
<1>7. CASE PrepareFails
  <2>1. pc = "prepare" /\ status' = [status EXCEPT ![Head(todo)] = "failed"]
    BY <1>7 DEF PrepareFails, Mark
  <2>2. QED
    BY <1>0, <2>1 DEF Move
<1>8. CASE StartTask
  <2>1. pc = "start" /\ status' = [status EXCEPT ![Head(todo)] = "in_progress"]
    BY <1>8 DEF StartTask, Mark
  <2>2. QED
    BY <1>0, <1>8, <2>1 DEF Move
<1>9. ASSUME NEW u \in Task, Collect(u) PROVE Move(t)
  <2>1. PICK s \in Judgements : Mark(u, s)
    BY <1>9, CollectJudges
  <2>2. pc = "collect" /\ worker[u] \in Result
    BY <1>9 DEF Collect
  <2>3. QED
    BY <1>0, <2>1, <2>2 DEF Mark, Move
<1>10. CASE Sync
  <2>1. pc = "sync" /\ Mark(Head(todo), "failed")
    BY <1>0, <1>10 DEF Sync
  <2>2. QED
    BY <1>0, <2>1 DEF Mark, Move
<1>11. CASE Assemble
  <2>1. PICK lost \in SUBSET Awaited(Kept) :
          status' = [u \in Task |-> IF u \in lost THEN "failed" ELSE status[u]]
    BY <1>0, <1>11, Assembles DEF AssembleOutcome
  <2>2. pc = "assemble"
    BY <1>11 DEF Assemble
  <2>3. QED
    BY <2>1, <2>2 DEF Move
<1>12. CASE status' = status
  BY <1>0, <1>12
<1>13. CASE \/ KeepPending \/ Accept \/ Refuse \/ Apply \/ Schedule \/ FinishRun \/ SkipBatch
            \/ NextBatch \/ EndOfSchedule \/ Prepare \/ PoolEnds \/ Abort \/ Collected
            \/ Cancel \/ Crash
  BY <1>12, <1>13 DEF KeepPending, Accept, Refuse, Apply, Schedule, FinishRun, SkipBatch,
     NextBatch, EndOfSchedule, Prepare, PoolEnds, Abort, Collected, Cancel, Crash
<1>14. ASSUME NEW u \in Task,
              WorkerBegins(u) \/ WorkerEdits(u) \/ WorkerCommits(u) \/ WorkerReturns(u)
       PROVE  Move(t)
  BY <1>12, <1>14 DEF WorkerBegins, WorkerEdits, WorkerCommits, WorkerReturns
<1>15. QED
  BY <1>1, <1>2, <1>3, <1>4, <1>5, <1>6, <1>7, <1>8, <1>9, <1>10, <1>11, <1>13, <1>14
     DEF Next, Proceed

\* The plan is the same in every run.
LEMMA PlanStays == ASSUME Next PROVE plan' = plan
BY DEF Next, Proceed, StartRun, KeepPending, DropPending, Accept, Refuse, RejectCleanup,
   RejectSave, BlockRemaining, Apply, MarkDone, MergeConflicts, MergeFails, Schedule, FinishRun,
   SkipBatch, NextBatch, EndOfSchedule, Prepare, PrepareFails, StartTask, WorkerBegins,
   WorkerEdits, WorkerCommits, WorkerReturns, Collect, PoolEnds, Abort, Collected, Sync,
   Assemble, Cancel, Crash

\* What is known of a task whose status changes.
LEMMA From ==
    ASSUME Inv, Next, NEW t \in Task, Leaves(t)
    PROVE  /\ pc \in {"pending", "sync", "merge", "applied"} => status[t] \in Mergeable
           /\ pc \in {"reject", "drop"} => status[t] \in Mergeable
           /\ pc \in {"prepare", "start"} => status[t] \in Startable
           /\ pc = "collect" => status[t] = "in_progress"
           /\ pc = "assemble" => status[t] = "ready_for_merge"
           /\ pc = "block" => status[t] \notin Settled
<1>1. Move(t) /\ TypeOK /\ Stages
  BY Moves DEF Inv
<1>2. todo # <<>> => Head(todo) \in Todo
  BY <1>1, HeadAndTail DEF Todo, TypeOK
<1>3. /\ pc \in {"pending", "sync", "merge", "applied"} => status[t] \in Mergeable
      /\ pc \in {"reject", "drop"} => status[t] \in Mergeable
  BY <1>1, <1>2 DEF Move, Inv, Stages, Merging, Leaves
<1>4. pc \in {"prepare", "start"} => status[t] \in Startable
  BY <1>1, <1>2 DEF Move, Inv, Stages, InHand, Open
<1>5. pc = "collect" => status[t] = "in_progress"
  BY <1>1 DEF Move, Inv, Crew, Result
<1>6. QED
  BY <1>1, <1>3, <1>4, <1>5 DEF Move, Awaited

\* A status that releases dependents stays, save one that a strict gate blocks;
\* nothing else becomes done or in progress than what is merged or started.
LEMMA Keeps ==
    ASSUME Inv, Next, NEW t \in Task
    PROVE  /\ status[t] \in Frozen => status'[t] \in Frozen
           /\ pc # "block" /\ status[t] \in SuccessfulTerminal => status'[t] = status[t]
           /\ status[t] \in {"done", "completed_unverified"} => status'[t] = status[t]
           /\ status'[t] = "done" => status[t] = "done" \/ (pc = "applied" /\ t = Head(todo))
           /\ status'[t] = "in_progress" => status[t] = "in_progress" \/ (pc = "start" /\ t = Head(todo))
           /\ status'[t] = "ready_for_merge" => status[t] = "ready_for_merge" \/ pc = "collect"
           /\ status'[t] # "planned" \/ status[t] = "planned"
<1>1. CASE ~Leaves(t)
  BY <1>1 DEF Leaves
<1>2. CASE Leaves(t)
  <2>1. Move(t)
    BY <1>2, Moves DEF Inv
  <2>2. /\ pc \in {"pending", "sync", "merge", "applied"} => status[t] \in Mergeable
        /\ pc \in {"reject", "drop"} => status[t] \in Mergeable
        /\ pc \in {"prepare", "start"} => status[t] \in Startable
        /\ pc = "collect" => status[t] = "in_progress"
        /\ pc = "assemble" => status[t] = "ready_for_merge"
        /\ pc = "block" => status[t] \notin Settled
    BY <1>2, From
  <2>3. pc # "block" => status[t] \notin Frozen
    BY <2>1, <2>2 DEF Move, Frozen, SuccessfulTerminal, Mergeable, Startable
  <2>4. QED
    BY <2>1, <2>2, <2>3 DEF Move, Frozen, SuccessfulTerminal, Judgements, Settled
<1>3. QED
  BY <1>1, <1>2

\* What a task waits for stays completed, unless a strict gate ends the schedule.
LEMMA ReleasedStays ==
    ASSUME Inv, Next, pc # "block", NEW t \in Task, Released(t)
    PROVE  Released(t)'
<1>1. plan' = plan
  BY PlanStays
<1>2. \A d \in Awaits(t) : d \in Task /\ status'[d] = status[d]
  BY Keeps DEF Released
<1>3. QED
  BY <1>1, <1>2 DEF Released, Awaits

LEMMA OpenStays ==
    ASSUME Inv, Next, pc # "block", NEW t \in Task, Open(t),
           ~(pc \in {"prepare", "start"} /\ t = Head(todo))
    PROVE  Open(t)'
<1>1. Released(t)'
  BY ReleasedStays DEF Open
<1>2. ~Leaves(t)
  <2>1. SUFFICES ASSUME Leaves(t) PROVE FALSE
    OBVIOUS
  <2>2. Move(t)
    BY <2>1, Moves DEF Inv
  <2>3. QED
    BY <2>1, <2>2, From DEF Move, Open, Mergeable, Startable
<1>3. QED
  BY <1>1, <1>2 DEF Open, Leaves
-----------------------------------------------------------------------------
(* Tasks in progress *)

\* A worker is released when its result is collected, or with the whole process.
LEMMA WorkerMoves ==
    ASSUME TypeOK, Next, NEW t \in Task, worker[t] # "none", worker'[t] = "none"
    PROVE  pc' = "idle" \/ Collect(t)
<1> USE DEF crew
<1>0. worker \in [Task -> Working]
  BY DEF TypeOK
<1>1. CASE FinishRun \/ Abort \/ Crash
  BY <1>1 DEF FinishRun, Abort, Crash, Halt
<1>2. CASE \/ StartRun \/ KeepPending \/ DropPending \/ Accept \/ Refuse \/ RejectCleanup
           \/ RejectSave \/ BlockRemaining \/ Apply \/ MarkDone \/ MergeConflicts \/ MergeFails
           \/ Cancel
  <2>1. worker' = worker
    BY <1>2 DEF StartRun, KeepPending, DropPending, Accept, Refuse, RejectCleanup, RejectSave,
       BlockRemaining, Apply, MarkDone, MergeConflicts, MergeFails, Cancel
  <2>2. QED
    BY <2>1
<1>3. CASE \/ Schedule \/ SkipBatch \/ NextBatch \/ EndOfSchedule \/ Prepare \/ PrepareFails
           \/ PoolEnds \/ Collected \/ Sync \/ Assemble \/ \E u \in Task : WorkerEdits(u)
  <2>1. worker' = worker
    BY <1>3 DEF Schedule, SkipBatch, NextBatch, EndOfSchedule, Prepare, PrepareFails, PoolEnds,
       Collected, Sync, Assemble, WorkerEdits
  <2>2. QED
    BY <2>1
<1>4. CASE StartTask
  <2>1. worker' = [worker EXCEPT ![Head(todo)] = "queued"]
    BY <1>4 DEF StartTask
  <2>2. QED
    BY <1>0, <2>1
<1>5. ASSUME NEW u \in Task, WorkerBegins(u) \/ WorkerCommits(u) \/ WorkerReturns(u)
      PROVE  FALSE
  <2>1. PICK x \in Result \cup {"busy", "committed"} : Report(u, x)
    BY <1>5 DEF WorkerBegins, WorkerCommits, WorkerReturns, Result
  <2>2. x # "none"
    BY DEF Result
  <2>3. QED
    BY <1>0, <2>1, <2>2 DEF Report
<1>6. ASSUME NEW u \in Task, Collect(u) PROVE Collect(t)
  <2>1. worker' = [worker EXCEPT ![u] = "none"]
    BY <1>6 DEF Collect, Report
  <2>2. QED
    BY <1>0, <1>6, <2>1
<1>7. QED
  BY <1>1, <1>2, <1>3, <1>4, <1>5, <1>6 DEF Next, Proceed

\* Between two runs only a start can happen.
LEMMA OnlyStart == ASSUME Next, pc = "idle" PROVE StartRun
BY DEF Next, Proceed, KeepPending, DropPending, Accept, Refuse, RejectCleanup, RejectSave,
   BlockRemaining, Apply, MarkDone, MergeConflicts, MergeFails, Schedule, FinishRun, SkipBatch,
   NextBatch, EndOfSchedule, Prepare, PrepareFails, StartTask, WorkerBegins, WorkerEdits,
   WorkerCommits, WorkerReturns, Collect, PoolEnds, Abort, Collected, Sync, Assemble, Cancel, Crash

LEMMA ProgressStep == ASSUME Inv, Next PROVE InProgressHasWorker'
<1>1. SUFFICES ASSUME pc' # "idle", NEW t \in Task, status'[t] = "in_progress", worker'[t] = "none"
               PROVE  FALSE
  BY DEF InProgressHasWorker
<1>2. TypeOK /\ InProgressHasWorker
  BY DEF Inv
<1>3. CASE pc = "idle"
  <2>1. status' = Recovered
    BY <1>3, OnlyStart DEF StartRun
  <2>2. QED
    BY <1>1, <2>1 DEF Recovered
<1>4. CASE pc # "idle" /\ status[t] = "in_progress"
  <2>1. Collect(t)
    BY <1>1, <1>2, <1>4, WorkerMoves DEF InProgressHasWorker
  <2>2. PICK s \in Judgements : Mark(t, s)
    BY <2>1, CollectJudges
  <2>3. QED
    BY <1>1, <1>2, <2>2 DEF Mark, Judgements, TypeOK
<1>5. CASE pc # "idle" /\ status[t] # "in_progress"
  <2>1. StartTask /\ t = Head(todo)
    BY <1>1, <1>2, <1>5, Moves DEF Leaves, Move, Judgements
  <2>2. worker' = [worker EXCEPT ![t] = "queued"]
    BY <2>1 DEF StartTask
  <2>3. QED
    BY <1>1, <1>2, <2>2 DEF TypeOK
<1>6. QED
  BY <1>3, <1>4, <1>5

-----------------------------------------------------------------------------
(* The base branch, the branches, the schedule *)

LEMMA BaseMoves ==
    ASSUME Next
    PROVE  \/ Apply \/ MarkDone \/ Crash
           \/ base' = base /\ torn' = torn /\ (pc = "applied" => pc' = pc /\ todo' = todo)
<1> USE DEF file, trees, run, crew
<1>1. CASE StartRun \/ Cancel
  BY <1>1 DEF StartRun, Cancel
<1>2. CASE \/ KeepPending \/ DropPending \/ Accept \/ Refuse \/ RejectCleanup \/ RejectSave
           \/ BlockRemaining \/ MergeConflicts \/ MergeFails
  BY <1>2 DEF KeepPending, DropPending, Accept, Refuse, RejectCleanup, RejectSave, BlockRemaining,
     MergeConflicts, MergeFails
<1>3. CASE \/ Schedule \/ FinishRun \/ SkipBatch \/ NextBatch \/ EndOfSchedule
           \/ Prepare \/ PrepareFails \/ StartTask \/ PoolEnds \/ Abort \/ Collected \/ Sync
           \/ Assemble
  BY <1>3 DEF Schedule, FinishRun, SkipBatch, NextBatch, EndOfSchedule, Prepare, PrepareFails,
     StartTask, PoolEnds, Abort, Collected, Sync, Assemble
<1>4. ASSUME NEW t \in Task, \/ WorkerBegins(t) \/ WorkerEdits(t) \/ WorkerCommits(t)
                             \/ WorkerReturns(t) \/ Collect(t)
      PROVE  base' = base /\ torn' = torn /\ pc # "applied"
  BY <1>4 DEF WorkerBegins, WorkerEdits, WorkerCommits, WorkerReturns, Collect
<1>5. QED
  BY <1>1, <1>2, <1>3, <1>4 DEF Next, Proceed

LEMMA MergedStep == ASSUME Inv, Next PROVE MergedIsDone'
<1> USE DEF file, trees, run, crew
<1>1. \A t \in Task : /\ status'[t] = "done" => status[t] = "done" \/ (pc = "applied" /\ t = Head(todo))
                      /\ status[t] = "done" => status'[t] = "done"
  BY Keeps
<1>2. DoneIsMerged /\ MergedIsDone /\ base \subseteq Task /\ (pc = "applied" => Head(todo) \in base)
  BY DEF Inv, TypeOK, Merging
<1>3. CASE Apply
  <2>1. /\ base' = base \cup {Head(todo)} /\ status' = status /\ torn' = torn
        /\ pc = "merge" /\ pc' = "applied" /\ todo' = todo
    BY <1>3 DEF Apply
  <2>2. QED
    BY <1>2, <2>1 DEF MergedIsDone, DoneIsMerged
<1>4. CASE MarkDone
  <2>1. /\ base' = base /\ torn' = torn \ {Head(todo)} /\ pc = "applied"
        /\ status' = [status EXCEPT ![Head(todo)] = "done"]
    BY <1>4 DEF MarkDone, Mark
  <2>2. status'[Head(todo)] = "done" /\ \A t \in base : t \in torn => t \in torn' \/ t = Head(todo)
    BY <1>2, <2>1 DEF Inv, TypeOK
  <2>3. QED
    BY <1>1, <1>2, <2>1, <2>2 DEF MergedIsDone, DoneIsMerged
<1>5. CASE Crash
  <2>1. /\ base' = base /\ status' = status
        /\ torn' = IF pc = "applied" THEN torn \cup {Head(todo)} ELSE torn
    BY <1>5 DEF Crash
  <2>2. QED
    BY <1>2, <2>1 DEF MergedIsDone, DoneIsMerged
<1>6. CASE base' = base /\ torn' = torn /\ (pc = "applied" => pc' = pc /\ todo' = todo)
  BY <1>1, <1>2, <1>6 DEF MergedIsDone, DoneIsMerged
<1>7. QED
  BY <1>3, <1>4, <1>5, <1>6, BaseMoves

\* A branch is cut by Prepare alone, and from the base branch of that moment.
LEMMA ViewMoves ==
    ASSUME TypeOK, Stages, Next, NEW t \in Task, view'[t] # view[t], view'[t] # NoBranch
    PROVE  Prepare /\ t = Head(todo) /\ view'[t] = base
<1> USE DEF file, trees, run, crew
<1>1. SUFFICES ASSUME ~Prepare PROVE FALSE
  <2>1. CASE Prepare
    BY <2>1 DEF Prepare, TypeOK
  <2>2. QED
    BY <2>1
<1>2. view' # view
  OBVIOUS
<1>3. ASSUME NEW u \in Task, CleanupFailed(u) \/ CleanupAccepted(u) \/ UNCHANGED trees PROVE FALSE
  <2>1. \A v \in Task : view'[v] = view[v] \/ (v = u /\ view'[v] = NoBranch)
    BY <1>3, TreesTyped
  <2>2. QED
    BY <2>1
<1>4. CASE \/ DropPending \/ RejectCleanup \/ MarkDone \/ MergeConflicts \/ MergeFails \/ Sync
  <2>1. Head(todo) \in Task
    BY <1>4, HeadAndTail
       DEF DropPending, RejectCleanup, MarkDone, MergeConflicts, MergeFails, Sync, TypeOK, Stages
  <2>2. CleanupFailed(Head(todo)) \/ CleanupAccepted(Head(todo)) \/ UNCHANGED trees
    BY <1>4 DEF DropPending, RejectCleanup, MarkDone, MergeConflicts, MergeFails, Sync
  <2>3. QED
    BY <1>3, <2>1, <2>2
<1>5. ASSUME NEW u \in Task, Collect(u) PROVE FALSE
  BY <1>3, <1>5 DEF Collect
<1>6. CASE \/ StartRun \/ KeepPending \/ Accept \/ Refuse \/ RejectSave \/ BlockRemaining \/ Apply
           \/ Schedule \/ FinishRun \/ SkipBatch \/ NextBatch \/ EndOfSchedule
  BY <1>2, <1>6 DEF StartRun, KeepPending, Accept, Refuse, RejectSave, BlockRemaining, Apply,
     Schedule, FinishRun, SkipBatch, NextBatch, EndOfSchedule
<1>7. CASE \/ PrepareFails \/ StartTask \/ PoolEnds \/ Abort \/ Collected \/ Assemble
           \/ Cancel \/ Crash
  BY <1>2, <1>7 DEF PrepareFails, StartTask, PoolEnds, Abort, Collected, Assemble, Cancel, Crash
<1>8. ASSUME NEW u \in Task,
             WorkerBegins(u) \/ WorkerEdits(u) \/ WorkerCommits(u) \/ WorkerReturns(u)
      PROVE  FALSE
  BY <1>2, <1>8 DEF WorkerBegins, WorkerEdits, WorkerCommits, WorkerReturns
<1>9. QED
  BY <1>1, <1>4, <1>5, <1>6, <1>7, <1>8 DEF Next, Proceed

LEMMA ViewsStep == ASSUME Inv, Next PROVE Views'
<1>1. SUFFICES ASSUME NEW t \in Task, view'[t] # NoBranch, NEW d \in Awaits(t)
               PROVE  /\ d \in Task
                      /\ status'[d] \in Frozen
                      /\ status'[d] = "done" => d \in view'[t]
  <2>1. plan' = plan
    BY PlanStays
  <2>2. \A t : Awaits(t)' = Awaits(t)
    BY <2>1 DEF Awaits
  <2>3. QED
    BY <2>2 DEF Views
<1>2. TypeOK /\ Stages /\ Views /\ InHand /\ DoneIsMerged /\ Merging
  BY DEF Inv
<1>3. CASE view'[t] = view[t]
  <2>1. /\ d \in Task
        /\ status[d] \in Frozen
        /\ status[d] = "done" => d \in view[t]
    BY <1>1, <1>2, <1>3 DEF Views
  <2>2. status'[d] \in Frozen /\ (status'[d] = "done" =>
                                    status[d] = "done" \/ (pc = "applied" /\ d = Head(todo)))
    BY <2>1, Keeps
  <2>3. pc = "applied" /\ d = Head(todo) => status[d] \in Mergeable
    BY <1>2, HeadAndTail DEF Merging, Stages, TypeOK, Todo
  <2>4. QED
    BY <1>3, <2>1, <2>2, <2>3 DEF Frozen, Mergeable, SuccessfulTerminal
<1>4. CASE view'[t] # view[t]
  <2>1. Prepare /\ t = Head(todo) /\ view'[t] = base
    BY <1>1, <1>2, <1>4, ViewMoves
  <2>2. pc = "prepare" /\ status' = status
    BY <2>1 DEF Prepare, file
  <2>3. Open(t)
    BY <1>2, <2>1, <2>2, HeadAndTail DEF InHand, Stages, TypeOK, Todo
  <2>4. QED
    BY <1>2, <2>1, <2>2, <2>3 DEF Open, Released, Frozen, DoneIsMerged
<1>5. QED
  BY <1>3, <1>4

\* Two tasks that met in a batch, whichever came first, are safe together.
LEMMA SafeBothWays ==
    ASSUME NEW p, NEW a, NEW b, PairSafe(p, a, b)
    PROVE  PairSafe(p, b, a)
BY DEF PairSafe

LEMMA ScheduleIsSafe ==
    ASSUME NEW p, NEW parallel, NEW R \in SUBSET Task, NEW bs \in Schedules(p, parallel, R)
    PROVE  /\ bs \in Seq(SUBSET R)
           /\ \A k \in DOMAIN bs : \A a, b \in bs[k] : a # b => PairSafe(p, a, b)
           /\ \A j, k \in DOMAIN bs : j # k => bs[j] \cap bs[k] = {}
<1>1. IsFiniteSet(R) /\ Cardinality(R) \in Nat /\ Task \subseteq Nat
  BY RulesAssumption, FS_Subset, FS_CardinalityType
<1>2. FirstFit(p, parallel, R, bs)
  BY DEF Schedules
<1>3. bs \in Seq(SUBSET R) /\ \A k \in DOMAIN bs : bs[k] \subseteq R
  <2>1. PICK n \in Nat : bs \in [1 .. n -> SUBSET R]
    BY <1>1 DEF Schedules
  <2>2. QED
    BY <2>1, SeqDef
<1>4. ASSUME NEW k \in DOMAIN bs, NEW a \in bs[k], NEW b \in bs[k], PlacedBefore(p, a, b)
      PROVE  PairSafe(p, a, b)
  <2>1. a \in Met(p, b, bs[k])
    BY <1>4 DEF Met
  <2>2. Fits(p, parallel, b, Met(p, b, bs[k]))
    BY <1>2, <1>4, <2>1 DEF FirstFit
  <2>3. PairSafe(p, b, a)
    BY <2>1, <2>2 DEF Fits
  <2>4. QED
    BY <2>3, SafeBothWays
<1>5. ASSUME NEW k \in DOMAIN bs, NEW a \in bs[k], NEW b \in bs[k], a # b
      PROVE  PairSafe(p, a, b)
  <2>1. a \in Nat /\ b \in Nat
    BY <1>1, <1>3, <1>5
  <2>2. PlacedBefore(p, a, b) \/ PlacedBefore(p, b, a)
    BY <1>5, <2>1 DEF PlacedBefore
  <2>3. QED
    BY <1>4, <1>5, <2>2, SafeBothWays
<1>6. QED
  BY <1>2, <1>3, <1>5 DEF FirstFit

LEMMA RunnablesAreOpen ==
    ASSUME TypeOK
    PROVE  Runnables \subseteq Task /\ \A t \in Runnables : Open(t)
<1>1. \A t \in Runnables : t \in Listed(plan) /\ Selected(plan, ThisRound, status, attempts, t)
  BY DEF Runnables, Candidates
<1>2. Runnables \subseteq Task
  <2>1. plan.order \in Seq(Task)
    BY SwarmAssumption DEF TypeOK
  <2>2. Listed(plan) \subseteq Task
    BY <2>1 DEF Listed, ToSet
  <2>3. QED
    BY <1>1, <2>2
<1>3. ASSUME NEW t \in Runnables PROVE Open(t)
  <2>1. RunnableStatus(status[t], ThisRound) /\ DepsDone(plan, status, t)
    BY <1>1, <1>3 DEF Selected
  <2>2. status[t] \in Startable
    BY <2>1 DEF RunnableStatus, Startable
  <2>3. Released(t)
    BY <2>1 DEF DepsDone, DepDone, Released, Awaits
  <2>4. QED
    BY <2>2, <2>3 DEF Open
<1>4. QED
  BY <1>2, <1>3

LEMMA QueueMoves ==
    ASSUME Next
    PROVE  \/ pc' \in Between
           \/ Schedule
           \/ (SkipBatch \/ NextBatch) /\ queue # <<>> /\ queue' = Tail(queue)
           \/ queue' = queue /\ pc = "idle"
           \/ queue' = queue /\ pc \notin Between
<1> USE DEF file, trees, run, crew, Between
<1>1. CASE StartRun \/ Cancel \/ Crash
  BY <1>1 DEF StartRun, Cancel, Crash, Halt
<1>2. CASE \/ KeepPending \/ DropPending \/ Accept \/ Refuse \/ RejectCleanup \/ RejectSave
           \/ BlockRemaining \/ Apply \/ MarkDone \/ MergeConflicts \/ MergeFails
  BY <1>2 DEF KeepPending, DropPending, Accept, Refuse, RejectCleanup, RejectSave, BlockRemaining,
     Apply, MarkDone, MergeConflicts, MergeFails
<1>3. CASE \/ Schedule \/ FinishRun \/ SkipBatch \/ NextBatch \/ EndOfSchedule
           \/ Prepare \/ PrepareFails \/ StartTask \/ PoolEnds \/ Abort \/ Collected \/ Sync
           \/ Assemble
  BY <1>3 DEF FinishRun, SkipBatch, NextBatch, EndOfSchedule, Prepare, PrepareFails,
     StartTask, PoolEnds, Abort, Collected, Sync, Assemble, Halt
<1>4. ASSUME NEW t \in Task, \/ WorkerBegins(t) \/ WorkerEdits(t) \/ WorkerCommits(t)
                             \/ WorkerReturns(t) \/ Collect(t)
      PROVE  queue' = queue /\ pc \notin Between
  BY <1>4 DEF WorkerBegins, WorkerEdits, WorkerCommits, WorkerReturns, Collect
<1>5. QED
  BY <1>1, <1>2, <1>3, <1>4 DEF Next, Proceed

LEMMA ScheduledStep == ASSUME Inv, Next PROVE Scheduled'
<1>1. TypeOK /\ Stages /\ Scheduled /\ InHand /\ plan' = plan
  BY PlanStays DEF Inv
<1>2. \A a, b : PairSafe(plan, a, b)' <=> PairSafe(plan, a, b)
  BY <1>1 DEF PairSafe, Precise
<1>3. CASE pc' \in Between
  BY <1>3 DEF Scheduled
<1>4. CASE Schedule
  <2>1. queue' \in Schedules(plan, opt.parallel, Runnables) /\ pc = "loop"
    BY <1>4 DEF Schedule
  <2>2. Runnables \subseteq Task /\ \A t \in Runnables : Open(t)
    BY <1>1, RunnablesAreOpen
  <2>3. /\ queue' \in Seq(SUBSET Runnables)
        /\ \A k \in DOMAIN queue' : \A a, b \in queue'[k] : a # b => PairSafe(plan, a, b)
        /\ \A j, k \in DOMAIN queue' : j # k => queue'[j] \cap queue'[k] = {}
    BY <2>1, <2>2, ScheduleIsSafe
  <2>4. \A t \in Runnables : Open(t)'
    BY <2>1, <2>2, OpenStays
  <2>5. \A k \in DOMAIN queue' : queue'[k] \subseteq Runnables
    BY <2>3
  <2>6. QED
    BY <1>2, <2>3, <2>4, <2>5 DEF Scheduled, SideBySide
<1>5. CASE (SkipBatch \/ NextBatch) /\ queue # <<>> /\ queue' = Tail(queue)
  <2>1. pc = "batches"
    BY <1>5 DEF SkipBatch, NextBatch
  <2>2. queue \in Seq(SUBSET Task)
    BY <1>1 DEF TypeOK
  <2>3. /\ \A k \in DOMAIN queue' : k \in Nat /\ k + 1 \in DOMAIN queue /\ queue'[k] = queue[k + 1]
    BY <1>5, <2>2
  <2>4. /\ \A k \in DOMAIN queue : \A t \in queue[k] : Open(t) /\ t \in Task
        /\ \A k \in DOMAIN queue : SideBySide(queue[k])
        /\ \A j, k \in DOMAIN queue : j # k => queue[j] \cap queue[k] = {}
    BY <1>1, <2>1, <2>2 DEF Scheduled, Between
  <2>5. \A t \in Task : Open(t) => Open(t)'
    BY <2>1, OpenStays
  <2>6. \A j, k \in DOMAIN queue' : j # k => queue'[j] \cap queue'[k] = {}
    <3>1. \A j, k \in DOMAIN queue' : j # k => j + 1 # k + 1
      BY <2>3
    <3>2. QED
      BY <2>3, <2>4, <3>1
  <2>7. \A k \in DOMAIN queue' : \A t \in queue'[k] : Open(t)'
    BY <2>3, <2>4, <2>5
  <2>8. \A k \in DOMAIN queue' : SideBySide(queue[k])'
    BY <1>2, <2>3, <2>4 DEF SideBySide
  <2>9. QED
    BY <2>6, <2>7, <2>8 DEF Scheduled
<1>6. CASE queue' = queue /\ pc = "idle"
  <2>1. queue' = <<>>
    BY <1>1, <1>6 DEF Stages
  <2>2. QED
    BY <2>1 DEF Scheduled
<1>7. CASE queue' = queue /\ pc \notin Between
  <2>1. queue \in Seq(SUBSET Task)
    BY <1>1 DEF TypeOK
  <2>2. \A k \in DOMAIN queue : \A t \in queue[k] :
          t \in Task /\ Open(t) /\ ~(pc \in {"prepare", "start"} /\ t = Head(todo))
    <3>1. pc \in {"prepare", "start"} => Head(todo) \in Todo
      BY <1>1, HeadAndTail DEF Stages, TypeOK, Todo
    <3>2. QED
      BY <1>1, <1>7, <2>1, <3>1 DEF Scheduled, InHand
  <2>3. \A k \in DOMAIN queue : \A t \in queue[k] : Open(t)'
    BY <1>7, <2>2, OpenStays DEF Between
  <2>4. \A k \in DOMAIN queue : SideBySide(queue[k])'
    BY <1>1, <1>2, <1>7 DEF SideBySide, Scheduled
  <2>5. QED
    BY <1>1, <1>7, <2>3, <2>4 DEF Scheduled
<1>8. QED
  BY <1>3, <1>4, <1>5, <1>6, <1>7, QueueMoves

-----------------------------------------------------------------------------
(* What each step leaves to the stages after it *)

Local == Stages /\ Merging /\ InHand /\ Crew /\ RedTests

LEMMA EmptyList == ASSUME NEW S PROVE <<>> \in Seq(S) /\ IsInjective(<<>>) /\ ToSet(<<>>) = {}
<1>1. DOMAIN <<>> = {}
  OBVIOUS
<1>2. QED
  BY <1>1, EmptySeq DEF IsInjective, ToSet

\* A stage that is done with the first of its list.
LEMMA Advances ==
    ASSUME TypeOK, Stages, todo # <<>>, todo' = Tail(todo)
    PROVE  /\ Todo' = Todo \ {Head(todo)} /\ IsInjective(todo')
           /\ Head(todo) \in Todo /\ Todo \subseteq Task
           /\ Len(todo) = 1 <=> todo' = <<>>
           /\ todo' = <<>> <=> Todo' = {}
<1>1. todo \in Seq(Task) /\ IsInjective(todo)
  BY DEF TypeOK, Stages
<1>2. /\ Head(todo) \in ToSet(todo)
      /\ ToSet(todo) = {Head(todo)} \cup ToSet(Tail(todo))
      /\ Tail(todo) = <<>> <=> Len(todo) = 1
      /\ IsInjective(Tail(todo)) /\ Head(todo) \notin ToSet(Tail(todo))
      /\ Tail(todo) \in Seq(Task)
  BY <1>1, HeadAndTail
<1>3. ToSet(todo) \subseteq Task
  BY <1>1 DEF ToSet
<1>4. Tail(todo) # <<>> => ToSet(Tail(todo)) # {}
  BY <1>2, HeadAndTail
<1>5. Tail(todo) = <<>> => ToSet(Tail(todo)) = {}
  BY EmptyList
<1>6. QED
  BY <1>2, <1>3, <1>4, <1>5 DEF Todo

\* A task that waits has waited before, unless one is started or judged.
LEMMA WaitsStay ==
    ASSUME Inv, Next, pc \notin {"start", "collect"}, NEW r \in Task, Waits(r)'
    PROVE  Waits(r)
<1>1. plan' = plan
  BY PlanStays
<1>2. PICK u \in Task : r \in plan.declared[u] /\ status'[u] \in {"planned", "in_progress"}
  BY <1>1 DEF Waits, UnfinishedDependent
<1>3. status[u] \in {"planned", "in_progress"}
  BY <1>2, Keeps
<1>4. r \in plan.red /\ status[r] = "ready_for_merge"
  BY <1>1, Keeps DEF Waits
<1>5. QED
  BY <1>2, <1>3, <1>4 DEF Waits, UnfinishedDependent

\* Nobody works outside these three stages.
LEMMA NoCrew == ASSUME pc' \notin {"start", "work", "collect"}, Stages' PROVE Crew'
BY DEF Stages, Crew, NobodyWorks

LEMMA HaltStep == ASSUME Halt PROVE Local'
<1>1. /\ pc' = "idle" /\ todo' = <<>> /\ queue' = <<>> /\ batch' = {} /\ worker' = NobodyWorks
      /\ items' = <<>>
  BY DEF Halt
<1>2. Stages'
  BY <1>1, EmptyList DEF Stages, NoItems
<1>3. QED
  BY <1>1, <1>2, NoCrew DEF Local, Merging, InHand, RedTests

LEMMA CancelStep == ASSUME Inv, Cancel \/ UNCHANGED vars PROVE Local'
<1>1. /\ plan' = plan /\ status' = status /\ view' = view /\ pc' = pc /\ todo' = todo /\ items' = items
      /\ base' = base /\ opt' = opt /\ queue' = queue /\ batch' = batch /\ worker' = worker
  BY DEF Cancel, vars, file, trees, run, crew
<1>2. Stages' /\ Merging' /\ Crew'
  BY <1>1 DEF Inv, Stages, Merging, Crew, Todo, Items
<1>3. InHand'
  BY <1>1 DEF Inv, InHand, Todo, Open, Released, Awaits, SideBySide, PairSafe, Precise
<1>4. RedTests'
  BY <1>1 DEF Inv, RedTests, Todo, Items, Waits, UnfinishedDependent
<1>5. QED
  BY <1>2, <1>3, <1>4 DEF Local

LEMMA StartRunStep == ASSUME Inv, StartRun PROVE Local'
<1> USE DEF file, trees, run, crew
<1>1. Next /\ TypeOK /\ Stages /\ pc = "idle"
  BY DEF Next, Inv, StartRun
<1>2. PICK o \in RunOptions :
        /\ opt' = o
        /\ status' = Recovered
        /\ \/ todo' \in InPlanOrder(Pending(Recovered, o))
           \/ todo' = <<>>
        /\ pc' = IF todo' = <<>> THEN "loop" ELSE "pending"
  BY DEF StartRun
<1>3. items' = <<>> /\ queue' = <<>> /\ batch' = {} /\ worker' = NobodyWorks /\ plan' = plan
  BY <1>1 DEF StartRun, Stages, NoItems, NoBatch, Stage
<1>4. todo' \in Seq(Task) /\ Todo' \subseteq Pending(Recovered, o) /\ IsInjective(todo')
  <2>1. Pending(Recovered, o) \in SUBSET Task /\ plan \in Plans
    BY <1>1 DEF TypeOK, Pending
  <2>2. QED
    BY <1>2, <2>1, ListedInOrder, EmptyList DEF Todo
<1>5. Stages'
  BY <1>2, <1>3, <1>4, EmptyList DEF Stages, NoBatch, NoItems
<1>6. Items' = {}
  BY <1>3, EmptyList DEF Items
<1>7. Merging'
  BY <1>2, <1>4, <1>6 DEF Merging, Pending, Mergeable
<1>8. \A r \in Todo' : ~Waits(r)'
  BY <1>2, <1>3, <1>4 DEF Pending, Deferred, Waits, UnfinishedDependent
<1>9. InHand' /\ RedTests'
  BY <1>2, <1>6, <1>8 DEF InHand, RedTests
<1>10. QED
  BY <1>2, <1>5, <1>7, <1>9, NoCrew DEF Local

LEMMA PendingStep == ASSUME Inv, KeepPending \/ DropPending PROVE Local'
<1> USE DEF file, trees, run, crew
<1> DEFINE t == Head(todo)
<1>1. Next /\ TypeOK /\ Stages /\ Merging /\ RedTests /\ pc = "pending"
  BY DEF Next, Proceed, Inv, KeepPending, DropPending
<1>2. /\ todo' = Tail(todo) /\ todo # <<>> /\ opt' = opt
      /\ pc' = IF Len(todo) = 1 THEN AfterPending(items') ELSE pc
      /\ queue' = queue /\ batch' = {} /\ worker' = NobodyWorks
  BY <1>1 DEF KeepPending, DropPending, Advance, Stages, NoBatch, Stage
<1>3. /\ Todo' = Todo \ {t} /\ IsInjective(todo') /\ t \in Todo /\ Todo \subseteq Task
      /\ Len(todo) = 1 <=> todo' = <<>>
      /\ todo' = <<>> <=> Todo' = {}
  BY <1>1, <1>2, Advances
<1>4. /\ t \notin Items /\ IsInjective(items) /\ items \in Seq(Task)
      /\ \A u \in Todo : status[u] \in Mergeable
      /\ \A u \in Items : status[u] \in Mergeable
  BY <1>1, <1>3 DEF Stages, Merging, TypeOK
<1>5. \/ items' = Append(items, t) /\ status' = status
      \/ items' = items /\ \A u \in Task : u # t => status'[u] = status[u]
  <2>1. CASE KeepPending
    BY <2>1 DEF KeepPending
  <2>2. CASE DropPending
    <3>1. PICK s : Mark(t, s)
      BY <2>2 DEF DropPending
    <3>2. QED
      BY <1>1, <2>2, <3>1 DEF DropPending, Mark, TypeOK
  <2>3. QED
    BY <2>1, <2>2
<1>6. Items' \subseteq Items \cup {t} /\ IsInjective(items') /\ Items \subseteq Task
      /\ \A u \in Todo' \cup Items' : status'[u] \in Mergeable
      /\ Todo' \cap Items' = {}
      /\ Todo' \cup Items' \subseteq Todo \cup Items
  <2>1. Items \subseteq Task
    BY <1>4 DEF Items, ToSet
  <2>2. CASE items' = Append(items, t) /\ status' = status
    <3>1. Items' = Items \cup {t} /\ IsInjective(items')
      BY <1>3, <1>4, <2>2, Appended DEF Items
    <3>2. QED
      BY <1>1, <1>3, <1>4, <2>1, <2>2, <3>1 DEF Merging
  <2>3. CASE items' = items /\ \A u \in Task : u # t => status'[u] = status[u]
    <3>1. Items' = Items /\ IsInjective(items')
      BY <1>4, <2>3 DEF Items
    <3>2. QED
      BY <1>1, <1>3, <1>4, <2>1, <2>3, <3>1 DEF Merging
  <2>4. QED
    BY <1>5, <2>2, <2>3
<1>7. \/ pc' = "pending" /\ todo' # <<>>
      \/ pc' = "gate" /\ items' # <<>>
      \/ pc' = "loop" /\ items' = <<>>
  <2>1. CASE Len(todo) = 1
    BY <1>2, <2>1 DEF AfterPending
  <2>2. CASE Len(todo) # 1
    BY <1>1, <1>2, <1>3, <2>2
  <2>3. QED
    BY <2>1, <2>2
<1>8. Stages'
  BY <1>1, <1>2, <1>3, <1>6, <1>7 DEF Stages, NoBatch, NoItems
<1>9. Merging' /\ InHand'
  BY <1>6, <1>7 DEF Merging, InHand
<1>10. RedTests'
  <2>1. \A r \in Todo \cup Items : ~Waits(r)
    BY <1>1 DEF RedTests
  <2>2. \A r \in Todo' \cup Items' : ~Waits(r)'
    BY <1>1, <1>3, <1>6, <2>1, WaitsStay
  <2>3. QED
    BY <1>7, <2>2 DEF RedTests
<1>11. QED
  BY <1>7, <1>8, <1>9, <1>10, NoCrew DEF Local

LEMMA GateStep == ASSUME Inv, Accept \/ Refuse PROVE Local'
<1> USE DEF file, trees, run, crew
<1>1. Next /\ TypeOK /\ Stages /\ Merging /\ RedTests /\ pc = "gate"
  BY DEF Next, Proceed, Inv, Accept, Refuse
<1>2. /\ pc' \in {"merge", "reject"} /\ todo' = items /\ items' = items /\ status' = status
      /\ opt' = opt /\ queue' = queue /\ batch' = {} /\ worker' = NobodyWorks /\ plan' = plan
  BY <1>1 DEF Accept, Refuse, Stages, NoBatch, Stage
<1>3. Stages'
  BY <1>1, <1>2 DEF Stages, NoBatch, NoItems
<1>4. Merging' /\ InHand'
  BY <1>1, <1>2 DEF Merging, InHand, Todo, Items
<1>5. RedTests'
  BY <1>1, <1>2 DEF RedTests, Items, Waits, UnfinishedDependent
<1>6. QED
  BY <1>2, <1>3, <1>4, <1>5, NoCrew DEF Local

LEMMA RejectStep == ASSUME Inv, RejectCleanup \/ RejectSave PROVE Local'
<1> USE DEF file, trees, run, crew
<1>1. Next /\ TypeOK /\ Stages /\ Merging /\ pc \in {"reject", "drop"}
  BY DEF Next, Proceed, Inv, RejectCleanup, RejectSave
<1>2. opt' = opt /\ queue' = queue /\ batch' = {} /\ worker' = NobodyWorks
  BY <1>1 DEF RejectCleanup, RejectSave, Stages, NoBatch, Stage
<1>3. Stages'
  <2>1. CASE RejectCleanup
    <3>1. pc' = pc /\ items' = items /\ IsInjective(todo')
      BY <1>1, <2>1, Advances DEF RejectCleanup
    <3>2. QED
      BY <1>1, <1>2, <3>1 DEF Stages, NoBatch, NoItems
  <2>2. CASE RejectSave
    <3>1. pc' \in {"block", "loop", "batches"} /\ items' = <<>> /\ todo' = <<>>
      BY <1>1, <2>2 DEF RejectSave, TypeOK
    <3>2. QED
      BY <1>1, <1>2, <3>1, EmptyList DEF Stages, NoBatch, NoItems
  <2>3. QED
    BY <2>1, <2>2
<1>4. pc' \in {"reject", "drop", "block", "loop", "batches"}
  BY <1>1 DEF RejectCleanup, RejectSave, TypeOK
<1>5. Merging'
  <2>1. CASE RejectSave
    <3>1. pc' \in {"block", "loop", "batches"}
      BY <1>1, <2>1 DEF RejectSave, TypeOK
    <3>2. QED
      BY <3>1 DEF Merging
  <2>2. CASE RejectCleanup
    <3>1. items' = items /\ Items \subseteq Task
      BY <1>1, <2>2 DEF RejectCleanup, TypeOK, Items, ToSet
    <3>2. \A u \in Items : status'[u] \in {status[u], "candidate_rejected"}
      BY <1>1, <3>1, Moves DEF Leaves, Move
    <3>3. Todo' \subseteq Todo
      BY <1>1, <2>2, Advances DEF RejectCleanup
    <3>4. QED
      BY <1>1, <1>4, <3>1, <3>2, <3>3 DEF Merging, Items
  <2>3. QED
    BY <2>1, <2>2
<1>6. QED
  BY <1>3, <1>4, <1>5, NoCrew DEF Local, InHand, RedTests

LEMMA LoopStep == ASSUME Inv, BlockRemaining \/ Schedule \/ SkipBatch \/ EndOfSchedule PROVE Local'
<1> USE DEF file, trees, run, crew
<1>1. Stages /\ pc \in {"block", "loop", "batches"}
  BY DEF Inv, BlockRemaining, Schedule, SkipBatch, EndOfSchedule
<1>2. /\ pc' \in {"loop", "batches"} /\ opt' = opt /\ todo' = todo /\ items' = <<>>
      /\ batch' = {} /\ worker' = NobodyWorks
  BY <1>1 DEF BlockRemaining, Schedule, SkipBatch, EndOfSchedule, Stages, NoBatch, NoItems, Stage
<1>3. Stages'
  BY <1>1, <1>2, EmptyList DEF Stages, NoBatch, NoItems
<1>4. QED
  BY <1>2, <1>3, NoCrew DEF Local, Merging, InHand, RedTests

LEMMA MergeStep ==
    ASSUME Inv, Apply \/ MarkDone \/ MergeConflicts \/ MergeFails
    PROVE  Local'
<1> USE DEF file, trees, run, crew
<1> DEFINE t == Head(todo)
<1>1. Next /\ TypeOK /\ Stages /\ Merging /\ RedTests /\ pc \in {"merge", "applied"} /\ todo # <<>>
  BY DEF Next, Proceed, Inv, Apply, MarkDone, MergeConflicts, MergeFails, Stages
<1>2. /\ opt' = opt /\ queue' = queue /\ batch' = {} /\ worker' = NobodyWorks
      /\ IsInjective(items) /\ IsInjective(todo)
      /\ \A u \in Todo : status[u] \in Mergeable
      /\ Todo \subseteq Items /\ Items \subseteq Task
  <2>1. /\ opt' = opt /\ queue' = queue /\ batch' = batch /\ worker' = worker
    BY DEF Apply, MarkDone, MergeConflicts, MergeFails
  <2>2. Items \subseteq Task
    BY <1>1 DEF TypeOK, Items, ToSet
  <2>3. QED
    BY <1>1, <2>1, <2>2 DEF Stages, NoBatch, Stage, Merging
<1>3. CASE Apply
  <2>1. /\ pc' = "applied" /\ todo' = todo /\ items' = items /\ status' = status
        /\ base' = base \cup {t}
    BY <1>3 DEF Apply
  <2>2. Stages'
    BY <1>1, <1>2, <2>1 DEF Stages, NoBatch, NoItems
  <2>3. Merging' /\ InHand'
    BY <1>1, <1>2, <2>1 DEF Merging, InHand, Todo, Items
  <2>4. RedTests'
    <3>1. pc = "merge" /\ plan' = plan
      BY <1>3 DEF Apply
    <3>2. QED
      BY <1>1, <2>1, <3>1 DEF RedTests, Items, Waits, UnfinishedDependent
  <2>5. QED
    BY <2>1, <2>2, <2>3, <2>4, NoCrew DEF Local
<1>4. CASE MarkDone \/ MergeConflicts \/ MergeFails
  <2>1. /\ todo' = Tail(todo)
        /\ items' = IF Len(todo) = 1 THEN <<>> ELSE items
        /\ pc' = IF Len(todo) = 1 THEN back ELSE "merge"
        /\ base' = base
    BY <1>4 DEF MarkDone, MergeConflicts, MergeFails, EndMerge, Advance
  <2>2. /\ Todo' = Todo \ {t} /\ IsInjective(todo') /\ t \in Todo /\ Todo \subseteq Task
        /\ Len(todo) = 1 <=> todo' = <<>>
        /\ todo' = <<>> <=> Todo' = {}
    BY <1>1, <2>1, Advances
  <2>3. CASE Len(todo) = 1
    <3>1. pc' \in {"loop", "batches"} /\ items' = <<>>
      BY <1>1, <2>1, <2>3 DEF TypeOK
    <3>2. Stages'
      BY <1>1, <1>2, <2>2, <3>1, EmptyList DEF Stages, NoBatch, NoItems
    <3>3. QED
      BY <3>1, <3>2, NoCrew DEF Local, Merging, InHand, RedTests
  <2>4. CASE Len(todo) # 1
    <3>1. pc' = "merge" /\ items' = items /\ todo' # <<>> /\ Items' = Items
      BY <2>1, <2>2, <2>4 DEF Items
    <3>2. Stages'
      BY <1>1, <1>2, <2>2, <3>1 DEF Stages, NoBatch, NoItems
    <3>3. \A u \in Todo' : status'[u] = status[u]
      BY <1>1, <2>2, Moves DEF Leaves, Move
    <3>4. Merging' /\ InHand'
      BY <1>2, <2>2, <3>1, <3>3 DEF Merging, InHand
    <3>5. RedTests'
      <4>1. plan' = plan /\ \A r \in Items : Waits(r)' => Waits(r)
        BY <1>1, <1>2, PlanStays, WaitsStay
      <4>2. QED
        BY <1>1, <3>1, <4>1 DEF RedTests
    <3>6. QED
      BY <3>1, <3>2, <3>4, <3>5, NoCrew DEF Local
  <2>5. QED
    BY <2>3, <2>4
<1>5. QED
  BY <1>3, <1>4

LEMMA SideBySideStays ==
    ASSUME plan' = plan, NEW S, SideBySide(S)
    PROVE  \A a, b \in S : a # b => PairSafe(plan, a, b)'
BY DEF SideBySide, PairSafe, Precise

LEMMA NextBatchStep == ASSUME Inv, NextBatch PROVE Local'
<1> USE DEF file, trees, run, crew
<1>1. Next /\ TypeOK /\ Stages /\ Scheduled /\ pc = "batches" /\ queue # <<>>
  BY DEF Next, Proceed, Inv, NextBatch
<1>2. /\ pc' = "prepare" /\ todo' \in ById(Head(queue) \ avoid) /\ ~(Head(queue) \subseteq avoid)
      /\ queue' = Tail(queue) /\ batch' = {} /\ opt' = opt /\ status' = status /\ plan' = plan
      /\ worker' = NobodyWorks /\ items' = <<>>
  BY <1>1 DEF NextBatch, Stages, NoItems
<1>3. queue \in Seq(SUBSET Task)
  BY <1>1 DEF TypeOK
<1>4. /\ 1 \in DOMAIN queue /\ Head(queue) = queue[1] /\ Head(queue) \in SUBSET Task
      /\ \A k \in DOMAIN queue' : k \in Nat /\ k + 1 \in DOMAIN queue /\ k + 1 # 1 /\ queue'[k] = queue[k + 1]
  BY <1>1, <1>2, <1>3
<1>5. /\ \A u \in Head(queue) : Open(u)
      /\ SideBySide(Head(queue))
      /\ \A k \in DOMAIN queue' : queue'[k] \cap Head(queue) = {}
  BY <1>1, <1>4 DEF Scheduled, Between
<1>6. Todo' = Head(queue) \ avoid /\ IsInjective(todo') /\ todo' # <<>>
  <2>1. Head(queue) \ avoid \in SUBSET Task /\ Head(queue) \ avoid # {}
    BY <1>2, <1>4
  <2>2. ToSet(todo') = Head(queue) \ avoid /\ IsInjective(todo') /\ todo' # <<>>
    BY <1>2, <2>1, ListedById
  <2>3. QED
    BY <2>2 DEF Todo
<1>7. Stages'
  BY <1>1, <1>2, <1>6, EmptyList DEF Stages, NoBatch
<1>8. InHand'
  <2>1. \A u \in Todo' : Open(u)'
    BY <1>2, <1>5, <1>6 DEF Open, Released, Awaits
  <2>2. \A a, b \in Todo' : a # b => PairSafe(plan, a, b)'
    BY <1>2, <1>5, <1>6, SideBySideStays
  <2>3. SideBySide(Todo \cup batch)' /\ SideBySide(batch)'
    BY <1>2, <2>2 DEF SideBySide
  <2>4. QED
    BY <1>2, <1>5, <1>6, <2>1, <2>3 DEF InHand
<1>9. QED
  BY <1>2, <1>7, <1>8, NoCrew DEF Local, Merging, RedTests

LEMMA PrepareStep == ASSUME Inv, Prepare \/ PrepareFails PROVE Local'
<1> USE DEF file, trees, run, crew
<1> DEFINE t == Head(todo)
<1>1. Next /\ TypeOK /\ Stages /\ InHand /\ pc = "prepare" /\ todo # <<>> /\ plan' = plan
  BY PlanStays DEF Next, Proceed, Inv, Prepare, PrepareFails, Stages
<1>2. /\ opt' = opt /\ queue' = queue /\ worker' = NobodyWorks /\ items' = <<>>
      /\ \A k \in DOMAIN queue : queue[k] \cap (Todo \cup batch) = {}
      /\ Todo \cap batch = {} /\ SideBySide(Todo \cup batch)
      /\ \A u \in Todo \cup batch : Open(u)
      /\ \A u \in batch : view[u] # NoBranch
      /\ batch \subseteq Task
  BY <1>1 DEF Prepare, PrepareFails, Stages, NoItems, InHand, TypeOK
<1>3. /\ Tail(todo) \in Seq(Task) /\ ToSet(Tail(todo)) = Todo \ {t} /\ IsInjective(Tail(todo))
      /\ t \in Todo /\ Todo \subseteq Task
      /\ Tail(todo) = <<>> <=> Len(todo) = 1
      /\ Len(todo) = 1 => Todo = {t}
  <2>1. todo \in Seq(Task) /\ IsInjective(todo)
    BY <1>1 DEF TypeOK, Stages
  <2>2. /\ ToSet(todo) = {t} \cup ToSet(Tail(todo)) /\ t \notin ToSet(Tail(todo))
        /\ Tail(todo) \in Seq(Task) /\ IsInjective(Tail(todo))
        /\ Tail(todo) = <<>> <=> Len(todo) = 1
    BY <1>1, <2>1, HeadAndTail
  <2>3. ToSet(todo) \subseteq Task
    BY <2>1 DEF ToSet
  <2>4. QED
    BY <2>2, <2>3, EmptyList DEF Todo
<1>4. /\ batch' \subseteq batch \cup {t}
      /\ \A u \in batch' : view'[u] # NoBranch
      /\ \A u \in Task : u # t => status'[u] = status[u]
      /\ t \in batch' => status' = status
  <2>1. CASE Prepare
    <3>1. /\ batch' = batch \cup {t} /\ status' = status
          /\ \/ view' = [view EXCEPT ![t] = base]
             \/ view' = view /\ view[t] # NoBranch
      BY <2>1 DEF Prepare
    <3>2. base # NoBranch
      BY <1>1, SwarmAssumption DEF TypeOK
    <3>3. \A u \in batch' : view'[u] # NoBranch
      BY <1>1, <1>2, <1>3, <3>1, <3>2 DEF TypeOK
    <3>4. QED
      BY <3>1, <3>3
  <2>2. CASE PrepareFails
    <3>1. batch' = batch /\ view' = view /\ status' = [status EXCEPT ![t] = "failed"]
      BY <2>2 DEF PrepareFails, Mark
    <3>2. QED
      BY <1>1, <1>2, <1>3, <3>1 DEF TypeOK
  <2>3. QED
    BY <2>1, <2>2
<1>5. \/ pc' = "prepare" /\ todo' = Tail(todo) /\ todo' # <<>> /\ Todo' = Todo \ {t}
      \/ pc' = "start" /\ todo' # <<>> /\ IsInjective(todo') /\ Todo' = batch' /\ Todo = {t}
      \/ pc' = "batches" /\ IsInjective(todo') /\ batch' = {}
  <2>1. CASE Len(todo) # 1
    BY <1>1, <1>3, <2>1 DEF Prepare, PrepareFails, Todo
  <2>2. CASE Len(todo) = 1 /\ Prepare
    <3>1. pc' = "start" /\ todo' \in ById(batch') /\ batch' # {} /\ batch' \in SUBSET Task
      BY <1>2, <1>3, <2>2 DEF Prepare
    <3>2. QED
      BY <1>3, <2>2, <3>1, ListedById DEF Todo
  <2>3. CASE Len(todo) = 1 /\ PrepareFails
    <3>1. /\ pc' = IF batch' = {} THEN "batches" ELSE "start"
          /\ todo' \in ById(batch') /\ batch' \in SUBSET Task
      BY <1>2, <1>3, <2>3 DEF PrepareFails
    <3>2. IsInjective(todo') /\ Todo' = batch' /\ (todo' = <<>> <=> batch' = {})
      BY <3>1, ListedById DEF Todo
    <3>3. QED
      BY <1>3, <2>3, <3>1, <3>2
  <2>4. QED
    BY <1>1, <2>1, <2>2, <2>3
<1>6. IsInjective(todo')
  BY <1>3, <1>5
<1>7. Stages'
  BY <1>1, <1>2, <1>5, <1>6, EmptyList DEF Stages, NoBatch, NoItems
<1>8. \A u \in (Todo \cup batch) : u # t \/ u \in batch' => Open(u)'
  <2>1. \A u \in Task : u # t /\ Open(u) => Open(u)'
    BY <1>1, OpenStays
  <2>2. \A u \in Todo : u = t /\ u \in batch' => Open(u)'
    BY <1>1, <1>2, <1>4 DEF Open, Released, Awaits
  <2>3. QED
    BY <1>2, <1>3, <2>1, <2>2
<1>9. \A a, b \in Todo \cup batch : a # b => PairSafe(plan, a, b)'
  BY <1>1, <1>2, SideBySideStays
<1>10. InHand'
  <2>1. CASE pc' = "prepare" /\ todo' = Tail(todo) /\ todo' # <<>> /\ Todo' = Todo \ {t}
    <3>1. SideBySide(Todo \cup batch)' /\ SideBySide(batch)'
      BY <1>3, <1>4, <1>9, <2>1 DEF SideBySide
    <3>2. \A u \in Todo' \cup batch' : Open(u)'
      BY <1>3, <1>4, <1>8, <2>1
    <3>3. QED
      BY <1>2, <1>3, <1>4, <2>1, <3>1, <3>2 DEF InHand
  <2>2. CASE pc' = "start" /\ todo' # <<>> /\ IsInjective(todo') /\ Todo' = batch' /\ Todo = {t}
    <3>1. SideBySide(batch)'
      BY <1>3, <1>4, <1>9, <2>2 DEF SideBySide
    <3>2. \A u \in Todo' : Open(u)'
      BY <1>3, <1>4, <1>8, <2>2
    <3>3. QED
      BY <1>2, <1>3, <1>4, <2>2, <3>1, <3>2 DEF InHand
  <2>3. CASE pc' = "batches"
    BY <2>3 DEF InHand
  <2>4. QED
    BY <1>5, <2>1, <2>2, <2>3
<1>11. Crew' /\ Merging' /\ RedTests'
  BY <1>2, <1>5 DEF Crew, NobodyWorks, Merging, RedTests
<1>12. QED
  BY <1>7, <1>10, <1>11 DEF Local

LEMMA StartTaskStep == ASSUME Inv, StartTask PROVE Local'
<1> USE DEF file, trees, run, crew
<1> DEFINE t == Head(todo)
<1>1. Next /\ TypeOK /\ Stages /\ InHand /\ Crew /\ pc = "start" /\ todo # <<>> /\ plan' = plan
  BY PlanStays DEF Next, Proceed, Inv, StartTask, Stages
<1>2. /\ opt' = opt /\ queue' = queue /\ batch' = batch /\ items' = <<>> /\ view' = view
      /\ status' = [status EXCEPT ![t] = "in_progress"]
      /\ worker' = [worker EXCEPT ![t] = "queued"]
      /\ todo' = Tail(todo) /\ pc' = IF Len(todo) = 1 THEN "work" ELSE "start"
  BY <1>1 DEF StartTask, Stages, NoItems, Mark, Advance
<1>3. /\ Todo' = Todo \ {t} /\ IsInjective(todo') /\ t \in Todo /\ Todo \subseteq Task
      /\ Len(todo) = 1 <=> todo' = <<>>
  BY <1>1, <1>2, Advances
<1>4. Stages'
  BY <1>1, <1>2, <1>3, EmptyList DEF Stages, NoBatch, NoItems
<1>5. InHand'
  <2>1. \A u \in Task : u # t /\ Open(u) => Open(u)'
    BY <1>1, OpenStays
  <2>2. SideBySide(batch)'
    <3>1. SideBySide(batch)
      BY <1>1 DEF InHand
    <3>2. QED
      BY <1>1, <1>2, <3>1, SideBySideStays DEF SideBySide
  <2>3. QED
    BY <1>1, <1>2, <1>3, <2>1, <2>2 DEF InHand
<1>6. Crew'
  <2>1. t \in batch /\ view[t] # NoBranch
    BY <1>1, <1>3 DEF InHand
  <2>2. status' \in [Task -> {"in_progress"} \cup Status] /\ worker \in [Task -> Working]
    BY <1>1, <1>2 DEF TypeOK
  <2>3. \A u \in Task : u = t => status'[u] = "in_progress"
    BY <1>1, <1>2 DEF TypeOK
  <2>4. \A u \in Task : u # t => status'[u] = status[u] /\ worker'[u] = worker[u]
    BY <1>1, <1>2 DEF TypeOK
  <2>5. QED
    BY <1>1, <1>2, <2>1, <2>3, <2>4 DEF Crew
<1>7. QED
  BY <1>2, <1>4, <1>5, <1>6 DEF Local, Merging, RedTests

\* What the workers do among themselves.
LEMMA WorkerStep ==
    ASSUME Inv, NEW t \in Task,
           WorkerBegins(t) \/ WorkerEdits(t) \/ WorkerCommits(t) \/ WorkerReturns(t)
    PROVE  Local'
<1> USE DEF file, trees, run, crew
<1>1. Next /\ TypeOK /\ Stages /\ InHand /\ Crew /\ pc = "work" /\ plan' = plan
  BY PlanStays DEF Next, Proceed, Inv, WorkerBegins, WorkerEdits, WorkerCommits, WorkerReturns
<1>2. /\ pc' = "work" /\ todo' = todo /\ opt' = opt /\ queue' = queue /\ batch' = batch
      /\ items' = <<>> /\ view' = view /\ status' = status
  BY <1>1 DEF WorkerBegins, WorkerEdits, WorkerCommits, WorkerReturns, Stages, NoItems
<1>3. \A u \in Task : worker'[u] # "none" => worker[u] # "none"
  <2>1. worker[t] \in {"queued", "busy", "committed"}
    BY DEF WorkerBegins, WorkerEdits, WorkerCommits, WorkerReturns
  <2>2. worker' = worker \/ \E r : worker' = [worker EXCEPT ![t] = r]
    BY DEF WorkerBegins, WorkerEdits, WorkerCommits, WorkerReturns, Report
  <2>3. QED
    BY <1>1, <2>1, <2>2 DEF TypeOK
<1>4. Stages'
  BY <1>1, <1>2, EmptyList DEF Stages, NoBatch, NoItems
<1>5. InHand' /\ Crew'
  <2>1. SideBySide(batch)'
    <3>1. SideBySide(batch)
      BY <1>1 DEF InHand
    <3>2. QED
      BY <1>1, <1>2, <3>1, SideBySideStays DEF SideBySide
  <2>2. QED
    BY <1>1, <1>2, <1>3, <2>1 DEF InHand, Crew
<1>6. QED
  BY <1>2, <1>4, <1>5 DEF Local, Merging, RedTests

LEMMA PoolEndsStep == ASSUME Inv, PoolEnds PROVE Local'
<1> USE DEF file, trees, run, crew
<1>1. Next /\ TypeOK /\ Stages /\ InHand /\ Crew /\ pc = "work" /\ plan' = plan
  BY PlanStays DEF Next, Proceed, Inv, PoolEnds
<1>2. /\ pc' = "collect" /\ todo' = todo /\ opt' = opt /\ queue' = queue /\ batch' = batch
      /\ items' = <<>> /\ view' = view /\ status' = status /\ worker' = worker
  BY <1>1 DEF PoolEnds, Stages, NoItems
<1>3. Stages'
  BY <1>1, <1>2, EmptyList DEF Stages, NoBatch, NoItems
<1>4. SideBySide(batch)'
  <2>1. SideBySide(batch)
    BY <1>1 DEF InHand
  <2>2. QED
    BY <1>1, <1>2, <2>1, SideBySideStays DEF SideBySide
<1>5. QED
  BY <1>1, <1>2, <1>3, <1>4 DEF Local, Merging, RedTests, InHand, Crew

LEMMA CollectStep == ASSUME Inv, NEW t \in Task, Collect(t) PROVE Local'
<1> USE DEF file, run, crew
<1>1. Next /\ TypeOK /\ Stages /\ InHand /\ Crew /\ pc = "collect" /\ plan' = plan
  BY PlanStays DEF Next, Proceed, Inv, Collect
<1>2. /\ pc' = "collect" /\ todo' = todo /\ opt' = opt /\ queue' = queue /\ batch' = batch
      /\ items' = <<>> /\ worker' = [worker EXCEPT ![t] = "none"]
  BY <1>1 DEF Collect, Stages, NoItems, Report
<1>3. /\ \A u \in Task : u # t => status'[u] = status[u] /\ view'[u] = view[u]
  <2>1. PICK s \in Judgements : Mark(t, s)
    BY CollectJudges
  <2>2. \A u \in Task : u # t => status'[u] = status[u]
    BY <1>1, <2>1 DEF Mark, TypeOK
  <2>3. CleanupFailed(t) \/ CleanupAccepted(t) \/ UNCHANGED trees
    BY DEF Collect
  <2>4. QED
    BY <1>1, <2>2, <2>3, TreesTyped
<1>4. Stages'
  BY <1>1, <1>2, EmptyList DEF Stages, NoBatch, NoItems
<1>5. Crew'
  BY <1>1, <1>2, <1>3 DEF Crew, TypeOK
<1>6. SideBySide(batch)'
  <2>1. SideBySide(batch)
    BY <1>1 DEF InHand
  <2>2. QED
    BY <1>1, <1>2, <2>1, SideBySideStays DEF SideBySide
<1>7. QED
  BY <1>2, <1>4, <1>5, <1>6 DEF Local, Merging, RedTests, InHand

LEMMA CollectedStep == ASSUME Inv, Collected PROVE Local'
<1> USE DEF file, trees, run, crew
<1>1. Next /\ TypeOK /\ Stages /\ Crew /\ pc = "collect"
  BY DEF Next, Proceed, Inv, Collected
<1>2. /\ opt' = opt /\ queue' = queue /\ batch' = {} /\ items' = <<>> /\ status' = status
      /\ todo' \in ById({u \in batch : status[u] = "ready_for_merge"})
      /\ pc' = IF todo' = <<>> THEN "batches" ELSE "sync"
      /\ worker' = worker /\ \A u \in batch : worker[u] = "none"
  BY <1>1 DEF Collected, Stages, NoItems
<1>3. worker' = NobodyWorks
  BY <1>1, <1>2 DEF Crew, TypeOK, NobodyWorks
<1>4. Todo' \subseteq {u \in Task : status[u] = "ready_for_merge"} /\ IsInjective(todo')
  <2>1. {u \in batch : status[u] = "ready_for_merge"} \in SUBSET Task
    BY <1>1 DEF TypeOK
  <2>2. ToSet(todo') = {u \in batch : status[u] = "ready_for_merge"} /\ IsInjective(todo')
    BY <1>2, <2>1, ListedById
  <2>3. QED
    BY <2>1, <2>2 DEF Todo
<1>5. Stages'
  BY <1>1, <1>2, <1>3, <1>4, EmptyList DEF Stages, NoBatch, NoItems
<1>6. Items' = {}
  BY <1>2, EmptyList DEF Items
<1>7. QED
  BY <1>2, <1>4, <1>5, <1>6, NoCrew DEF Local, Merging, RedTests, InHand, Mergeable

LEMMA SyncStep == ASSUME Inv, Sync PROVE Local'
<1> USE DEF file, trees, run, crew
<1> DEFINE t == Head(todo)
<1>1. Next /\ TypeOK /\ Stages /\ Merging /\ pc = "sync" /\ todo # <<>>
  BY DEF Next, Proceed, Inv, Sync, Stages
<1>2. /\ todo' = Tail(todo) /\ opt' = opt
      /\ pc' = IF Len(todo) = 1 THEN "assemble" ELSE "sync"
      /\ queue' = queue /\ batch' = {} /\ worker' = NobodyWorks
  BY <1>1 DEF Sync, Advance, Stages, NoBatch, Stage
<1>3. /\ Todo' = Todo \ {t} /\ IsInjective(todo') /\ t \in Todo /\ Todo \subseteq Task
      /\ Len(todo) = 1 <=> todo' = <<>>
      /\ todo' = <<>> <=> Todo' = {}
  BY <1>1, <1>2, Advances
<1>4. /\ t \notin Items /\ IsInjective(items) /\ items \in Seq(Task)
      /\ \A u \in Todo : status[u] \in Mergeable
      /\ \A u \in Items : status[u] \in Mergeable
  BY <1>1, <1>3 DEF Stages, Merging, TypeOK
<1>5. Items \subseteq Task
  BY <1>4 DEF Items, ToSet
<1>6. \/ items' = Append(items, t) /\ status' = status
      \/ items' = items /\ \A u \in Task : u # t => status'[u] = status[u]
  BY <1>1 DEF Sync, Mark, TypeOK
<1>7. /\ IsInjective(items')
      /\ \A u \in Todo' \cup Items' : status'[u] \in Mergeable
      /\ Todo' \cap Items' = {}
  <2>1. CASE items' = Append(items, t) /\ status' = status
    <3>1. Items' = Items \cup {t} /\ IsInjective(items')
      BY <1>3, <1>4, <2>1, Appended DEF Items
    <3>2. QED
      BY <1>1, <1>3, <1>4, <2>1, <3>1 DEF Merging
  <2>2. CASE items' = items /\ \A u \in Task : u # t => status'[u] = status[u]
    <3>1. Items' = Items /\ IsInjective(items')
      BY <1>4, <2>2 DEF Items
    <3>2. QED
      BY <1>1, <1>3, <1>4, <1>5, <2>2, <3>1 DEF Merging
  <2>3. QED
    BY <1>6, <2>1, <2>2
<1>8. Stages'
  BY <1>1, <1>2, <1>3, <1>7 DEF Stages, NoBatch, NoItems
<1>9. Merging'
  BY <1>2, <1>7 DEF Merging
<1>10. QED
  BY <1>2, <1>8, <1>9, NoCrew DEF Local, InHand, RedTests

LEMMA AssembleStep == ASSUME Inv, Assemble PROVE Local'
<1> USE DEF file, trees, run, crew
<1>1. Next /\ TypeOK /\ Stages /\ Merging /\ pc = "assemble" /\ plan' = plan
  BY PlanStays DEF Next, Proceed, Inv, Assemble
<1>2. opt' = opt /\ queue' = queue /\ batch' = {} /\ worker' = NobodyWorks
  BY <1>1 DEF Assemble, Stages, NoBatch, Stage
<1>3. AssembleOutcome
  BY <1>1, Assembles
<1>4. CASE pc' = "batches" /\ items' = <<>> /\ todo' = <<>>
  <2>1. Stages'
    BY <1>1, <1>2, <1>4, EmptyList DEF Stages, NoBatch, NoItems
  <2>2. QED
    BY <1>4, <2>1, NoCrew DEF Local, Merging, InHand, RedTests
<1>5. ASSUME NEW lost \in SUBSET Awaited(Kept),
             status' = [t \in Task |-> IF t \in lost THEN "failed" ELSE status[t]],
             items' \in Seq(Task), items' # <<>>, IsInjective(items'),
             Kept \subseteq Items', Items' \subseteq Kept \cup (Awaited(Kept) \ lost),
             \/ pc' = "gate" /\ todo' = <<>>
             \/ pc' = "drop" /\ todo' = items'
      PROVE  Local'
  <2>1. Stages'
    BY <1>1, <1>2, <1>5, EmptyList DEF Stages, NoBatch, NoItems
  <2>2. /\ Items' \subseteq Task /\ Kept \subseteq Items /\ Kept \cap Awaited(Kept) = {}
        /\ \A u \in Items' : status'[u] = status[u] /\ status[u] \in Mergeable
    <3>1. Items \subseteq Task /\ Kept \subseteq Items /\ Awaited(Kept) \subseteq Task \ Kept
      BY <1>1 DEF Kept, Items, ToSet, Awaited, TypeOK
    <3>2. \A u \in Kept \cup Awaited(Kept) : status[u] \in Mergeable
      BY <1>1, <3>1 DEF Merging, Awaited, Mergeable
    <3>3. \A u \in Items' : u \in Task /\ u \notin lost /\ u \in Kept \cup Awaited(Kept)
      BY <1>5, <3>1
    <3>4. QED
      BY <1>5, <3>1, <3>2, <3>3
  <2>3. Merging'
    <3>1. pc' = "drop" => Todo' = Items'
      BY <1>5 DEF Todo, Items
    <3>2. QED
      BY <1>5, <2>2, <3>1 DEF Merging
  <2>4. ASSUME NEW r \in Items', Waits(r)' PROVE \E u \in Items' : r \in plan.declared[u]
    <3>1. Waits(r)
      BY <1>1, <2>2, <2>4, WaitsStay
    <3>2. CASE r \in Kept
      BY <3>1, <3>2 DEF Kept, Deferred, Waits
    <3>3. CASE r \in Awaited(Kept)
      BY <1>5, <3>3 DEF Awaited
    <3>4. QED
      BY <1>5, <3>2, <3>3
  <2>5. RedTests'
    BY <1>1, <1>5, <2>4 DEF RedTests
  <2>6. QED
    BY <1>5, <2>1, <2>3, <2>5, NoCrew DEF Local, InHand
<1>6. QED
  BY <1>3, <1>4, <1>5 DEF AssembleOutcome, Items

-----------------------------------------------------------------------------

LEMMA InvInit == Init => Inv
<1> SUFFICES ASSUME Init PROVE Inv
  OBVIOUS
<1>1. TypeOK
  <2>1. todo \in Seq(Task) /\ items \in Seq(Task) /\ queue \in Seq(SUBSET Task)
    BY EmptyList DEF Init
  <2>2. attempts \in [Task -> 0 .. AttemptCap]
    BY SwarmAssumption DEF Init
  <2>3. QED
    BY <2>1, <2>2 DEF Init, TypeOK, Status, Working, NobodyWorks, Stage
<1>2. /\ pc = "idle" /\ todo = <<>> /\ queue = <<>> /\ items = <<>> /\ batch = {}
      /\ worker = NobodyWorks
  BY DEF Init
<1>3. Stages
  BY <1>2, EmptyList DEF Stages
<1>4. Merging /\ Scheduled /\ InHand /\ Crew /\ RedTests
  BY <1>2 DEF Merging, Scheduled, Between, InHand, Crew, NobodyWorks, RedTests
<1>5. DoneIsMerged /\ MergedIsDone /\ InProgressHasWorker /\ Views
  BY DEF Init, DoneIsMerged, MergedIsDone, InProgressHasWorker, Views
<1>6. QED
  BY <1>1, <1>3, <1>4, <1>5 DEF Inv

LEMMA LocalStep == ASSUME Inv, Next PROVE Local'
<1>1. CASE FinishRun \/ Abort \/ Crash
  BY <1>1, HaltStep DEF FinishRun, Abort, Crash
<1>2. CASE \/ StartRun \/ Cancel \/ KeepPending \/ DropPending \/ Accept \/ Refuse
           \/ RejectCleanup \/ RejectSave \/ BlockRemaining \/ Schedule \/ SkipBatch
           \/ EndOfSchedule
  BY <1>2, StartRunStep, CancelStep, PendingStep, GateStep, RejectStep, LoopStep
<1>3. CASE Apply \/ MarkDone \/ MergeConflicts \/ MergeFails
  BY <1>3, MergeStep
<1>4. CASE NextBatch \/ Prepare \/ PrepareFails \/ StartTask
  BY <1>4, NextBatchStep, PrepareStep, StartTaskStep
<1>5. ASSUME NEW t \in Task, \/ WorkerBegins(t) \/ WorkerEdits(t) \/ WorkerCommits(t)
                             \/ WorkerReturns(t) \/ Collect(t)
      PROVE  Local'
  BY <1>5, WorkerStep, CollectStep
<1>6. CASE PoolEnds \/ Collected \/ Sync \/ Assemble
  BY <1>6, PoolEndsStep, CollectedStep, SyncStep, AssembleStep
<1>7. QED
  BY <1>1, <1>2, <1>3, <1>4, <1>5, <1>6 DEF Next, Proceed

LEMMA InvStep == Inv /\ [Next]_vars => Inv'
<1> SUFFICES ASSUME Inv, [Next]_vars PROVE Inv'
  OBVIOUS
<1>1. CASE Next
  <2>1. TypeOK'
    BY <1>1, TypeStep DEF Inv
  <2>2. MergedIsDone' /\ InProgressHasWorker' /\ Views' /\ Scheduled' /\ Local'
    BY <1>1, MergedStep, ProgressStep, ViewsStep, ScheduledStep, LocalStep
  <2>3. DoneIsMerged'
    BY <2>2 DEF MergedIsDone
  <2>4. QED
    BY <2>1, <2>2, <2>3 DEF Inv, Local
<1>2. CASE UNCHANGED vars
  <2>1. Local'
    BY <1>2, CancelStep
  <2>2. TypeOK' /\ DoneIsMerged' /\ MergedIsDone' /\ InProgressHasWorker' /\ Views'
    BY <1>2 DEF vars, file, trees, run, crew, Inv, TypeOK, DoneIsMerged, MergedIsDone,
       InProgressHasWorker, Views, Awaits
  <2>3. Scheduled'
    BY <1>2 DEF vars, file, trees, run, crew, Inv, Scheduled, Open, Released, Awaits, SideBySide,
       PairSafe, Precise
  <2>4. QED
    BY <2>1, <2>2, <2>3 DEF Inv, Local
<1>3. QED
  BY <1>1, <1>2

\* Every state satisfies the inductive invariant.
LEMMA AllStages == Spec => []Inv
BY InvInit, InvStep, PTL DEF Spec

-----------------------------------------------------------------------------
(* The theorems *)

\* The variables have their types, through every step of run_swarm and every crash.
THEOREM TypeCorrect == Spec => []TypeOK
<1>1. Inv => TypeOK
  BY DEF Inv
<1>2. QED
  BY <1>1, AllStages, PTL

\* While a run is alive, every task in progress has a worker
\* (_recover_stale_in_progress).
THEOREM NoneLeftInProgress == Spec => []InProgressHasWorker
<1>1. Inv => InProgressHasWorker
  BY DEF Inv
<1>2. QED
  BY <1>1, AllStages, PTL

\* The plan says done exactly for what is in the base branch, but for a merge that a
\* crash cut off from its save (_merge_task).
THEOREM MergedWorkIsDone == Spec => []MergedIsDone
<1>1. Inv => MergedIsDone
  BY DEF Inv
<1>2. QED
  BY <1>1, AllStages, PTL

\* A worker's branch has the merged work of every task it depends on (prepare_task_workspace
\* cuts it from the base branch of the moment, or finds it cut after the merge).
THEOREM WorkersSeeDependencies == Spec => []SeesDependencies
<1>1. ASSUME Inv PROVE SeesDependencies
  <2>1. SUFFICES ASSUME NEW t \in Task, Works(t), NEW d \in plan.deps[t] \ plan.red,
                        status[d] = "done"
                 PROVE  d \in view[t]
    BY DEF SeesDependencies
  <2>2. view[t] # NoBranch
    BY <1>1, <2>1 DEF Inv, Crew, Works
  <2>3. QED
    BY <1>1, <2>1, <2>2 DEF Inv, Views, Awaits
<1>2. QED
  BY <1>1, AllStages, PTL

\* Workers that run side by side claim disjoint files and know all they claim: what
\* build_batches puts together stays together, whatever a batch loses on the way.
THEOREM WorkersNeverMeet == Spec => []NeverTogether
<1>1. ASSUME Inv PROVE NeverTogether
  <2>1. SUFFICES ASSUME NEW a \in Task, NEW b \in Task, a # b, Works(a), Works(b)
                 PROVE  /\ plan.files[a] \cap plan.files[b] = {}
                        /\ a \notin plan.vague /\ b \notin plan.vague
    BY DEF NeverTogether
  <2>2. pc \in {"start", "work", "collect"}
    BY <1>1, <2>1 DEF Inv, Stages, Works, NobodyWorks
  <2>3. a \in batch /\ b \in batch /\ SideBySide(batch)
    BY <1>1, <2>1, <2>2 DEF Inv, Crew, InHand, Works
  <2>4. PairSafe(plan, a, b)
    BY <2>1, <2>3 DEF SideBySide
  <2>5. QED
    BY <2>4 DEF PairSafe, Precise
<1>2. QED
  BY <1>1, AllStages, PTL

\* What releases the tasks behind it stays released: done and completed_unverified are
\* final in every run (run_swarm, and what
\* _mark_remaining_tasks_blocked_by_integration leaves alone).
THEOREM CompletedWorkStays == Spec => CompletedStays
<1>1. ASSUME Inv, [Next]_vars, NEW t \in Task, status[t] \in {"done", "completed_unverified"}
      PROVE  status'[t] = status[t]
  <2>1. CASE Next
    BY <1>1, <2>1, Keeps
  <2>2. CASE UNCHANGED vars
    BY <2>2 DEF vars, file
  <2>3. QED
    BY <1>1, <2>1, <2>2
<1>2. Inv /\ [Next]_vars =>
        [\A t \in Task : status[t] \in {"done", "completed_unverified"} => status'[t] = status[t]]_vars
  BY <1>1
<1>3. QED
  BY <1>2, AllStages, PTL DEF Spec, CompletedStays

\* A task starts when everything it depends on has been completed: what was released
\* when the batch was scheduled is so when its turn comes.
THEOREM StartsAreReleased == Spec => StartsReleased
<1>1. ASSUME Inv, [Next]_vars, NEW t \in Task, status[t] # "in_progress",
             status'[t] = "in_progress", NEW d \in plan.deps[t] \ plan.red
      PROVE  d \in Task /\ status[d] \in SuccessfulTerminal
  <2>1. CASE Next
    <3>1. pc = "start" /\ t = Head(todo) /\ TypeOK /\ Stages /\ InHand
      BY <1>1, <2>1, Keeps DEF Inv
    <3>2. t \in Todo
      BY <3>1, HeadAndTail DEF TypeOK, Stages, Todo
    <3>3. QED
      BY <1>1, <3>1, <3>2 DEF InHand, Open, Released, Awaits
  <2>2. CASE UNCHANGED vars
    BY <1>1, <2>2 DEF vars, file
  <2>3. QED
    BY <1>1, <2>1, <2>2
<1>2. Inv /\ [Next]_vars =>
        [\A t \in Task : status[t] # "in_progress" /\ status'[t] = "in_progress" =>
           \A d \in plan.deps[t] \ plan.red :
             d \in Task /\ status[d] \in SuccessfulTerminal]_vars
  BY <1>1
<1>3. QED
  BY <1>2, AllStages, PTL DEF Spec, StartsReleased

\* An expected-red test is merged with, or after, what it waits for.
THEOREM ExpectedRedTestsWait == Spec => ExpectedRedWaits
<1>1. ASSUME Inv, [Next]_vars, NEW r \in plan.red \cap (base' \ base),
             status[r] = "ready_for_merge", UnfinishedDependent(status, r)
      PROVE  \E u \in ToSet(items) : r \in plan.declared[u]
  <2>1. CASE Next
    <3>1. TypeOK /\ Stages /\ Merging /\ RedTests
      BY <1>1 DEF Inv
    <3>2. Apply
      <4>1. base' # base
        BY <1>1
      <4>2. CASE MarkDone \/ Crash
        BY <4>1, <4>2 DEF MarkDone, Crash
      <4>3. QED
        BY <2>1, <4>1, <4>2, BaseMoves
    <3>3. pc = "merge" /\ r = Head(todo)
      BY <1>1, <3>2 DEF Apply
    <3>4. r \in Items
      BY <3>1, <3>3, HeadAndTail DEF TypeOK, Stages, Merging, Todo
    <3>5. QED
      BY <1>1, <3>1, <3>3, <3>4 DEF RedTests, Waits, Items
  <2>2. CASE UNCHANGED vars
    BY <1>1, <2>2 DEF vars
  <2>3. QED
    BY <1>1, <2>1, <2>2
<1>2. Inv /\ [Next]_vars =>
        [\A r \in plan.red \cap (base' \ base) :
           status[r] = "ready_for_merge" /\ UnfinishedDependent(status, r) =>
             \E u \in ToSet(items) : r \in plan.declared[u]]_vars
  BY <1>1
<1>3. QED
  BY <1>2, AllStages, PTL DEF Spec, ExpectedRedWaits
-----------------------------------------------------------------------------
(* Runs keep the promise of module Delivery: every step maps to one of its steps,
   or to none.  Life and Drops say what the mapping makes of a step. *)

Life(t) == LifeOf(status[t])
Drops(t) == view' \in {view, [view EXCEPT ![t] = NoBranch]}
SameLives == \A t \in Task : Life(t)' = Life(t)
Promised == [D!DeliveryNext]_D!deliveryVars

\* The statuses by their lives.
LEMMA Lives ==
    ASSUME NEW s \in Status
    PROVE  /\ LifeOf(s) = "open" <=> s \in Startable
           /\ LifeOf(s) = "running" <=> s = "in_progress"
           /\ LifeOf(s) = "ready" <=> s \in Mergeable
           /\ LifeOf(s) \in D!Delivered <=> s \in SuccessfulTerminal
           /\ LifeOf(s) = "merged" <=> s = "done"
           /\ LifeOf(s) = "kept" <=> s = "completed_unverified"
           /\ LifeOf(s) = "satisfied" <=> s = "already_satisfied"
           /\ LifeOf(s) = "blocked" <=> s = "blocked_integration"
BY DEF LifeOf, Status, SuccessfulTerminal, Startable, Mergeable, D!Delivered

LEMMA CleanupDrops ==
    ASSUME NEW t \in Task, CleanupFailed(t) \/ CleanupAccepted(t) \/ UNCHANGED trees
    PROVE  Drops(t)
BY DEF CleanupFailed, CleanupAccepted, Unbranch, trees, Drops

\* A step that changes no life, no branch and not the base branch.
LEMMA Stutters ==
    ASSUME plan' = plan, SameLives, view' = view, base' = base
    PROVE  Promised
BY DEF Promised, SameLives, Life, D!deliveryVars, Awaits

\* A step after which some of what was ready is open, and one branch may be gone.
LEMMA GivesUp ==
    ASSUME plan' = plan, base' = base, NEW t \in Task, Life(t) \in {"ready", "open"}, Drops(t),
           \A u \in Task : Life(u)' = Life(u) \/ (Life(u) = "ready" /\ Life(u)' = "open")
    PROVE  Promised
<1> DEFINE S == {u \in Task : Life(u) = "ready" /\ Life(u)' = "open"}
<1>1. D!Becomes(S, "open")
  BY DEF D!Becomes, Life
<1>2. S \in SUBSET {u \in Task : [v \in Task |-> LifeOf(status[v])][u] = "ready"}
  BY DEF Life
<1>3. D!MayDrop(t)
  BY DEF D!MayDrop, Drops
<1>4. [v \in Task |-> LifeOf(status[v])][t] \in {"ready", "open"}
  BY DEF Life
<1>5. [v \in Task |-> Awaits(v)]' = [v \in Task |-> Awaits(v)]
  BY DEF Awaits
<1> HIDE DEF S
<1>6. D!GiveUp(t)
  BY <1>1, <1>2, <1>3, <1>4, <1>5 DEF D!GiveUp
<1>7. QED
  BY <1>6 DEF Promised, D!DeliveryNext

\* Most steps move the run along, and touch no task.
LEMMA RunMoves ==
    ASSUME \/ KeepPending \/ Accept \/ Refuse \/ Schedule \/ FinishRun \/ SkipBatch \/ NextBatch
           \/ EndOfSchedule \/ PoolEnds \/ Abort \/ Collected \/ Cancel \/ Crash
           \/ \E t \in Task : \/ WorkerBegins(t) \/ WorkerEdits(t) \/ WorkerCommits(t)
                              \/ WorkerReturns(t)
    PROVE  Promised
<1> USE DEF file, trees
<1>1. status' = status /\ view' = view /\ base' = base /\ plan' = plan
  BY DEF KeepPending, Accept, Refuse, Schedule, FinishRun, SkipBatch, NextBatch, EndOfSchedule,
     PoolEnds, Abort, Collected, Cancel, Crash, WorkerBegins, WorkerEdits, WorkerCommits,
     WorkerReturns
<1>2. QED
  BY <1>1, Stutters DEF SameLives, Life

\* A recovered run calls failed what the dead one left in progress.
LEMMA StartRecovers == ASSUME Inv, StartRun PROVE Promised
<1> DEFINE life == [t \in Task |-> LifeOf(status[t])]
<1>1. /\ status' = Recovered /\ view' = view /\ base' = base /\ plan' = plan
      /\ status \in [Task -> Status]
  BY DEF StartRun, Inv, TypeOK, trees
<1>2. \A t \in Task : Life(t)' = IF Life(t) = "running" THEN "open" ELSE Life(t)
  <2>1. SUFFICES ASSUME NEW t \in Task
                 PROVE  Life(t)' = IF Life(t) = "running" THEN "open" ELSE Life(t)
    OBVIOUS
  <2>2. Life(t) = "running" <=> status[t] = "in_progress"
    BY <1>1, Lives DEF Life
  <2>3. LifeOf("failed") = "open"
    BY DEF LifeOf
  <2>4. QED
    BY <1>1, <2>2, <2>3 DEF Life, Recovered
<1>3. D!Becomes({t \in Task : life[t] = "running"}, "open")
  BY <1>2 DEF D!Becomes, Life
<1>4. D!Recover
  BY <1>1, <1>3 DEF D!Recover, Awaits
<1>5. QED
  BY <1>4 DEF Promised, D!DeliveryNext

\* What the first of the list is, where a list is worked through.
LEMMA AtHead ==
    ASSUME Inv, pc \in {"pending", "merge", "applied", "prepare", "start", "sync"}
    PROVE  Head(todo) \in Task /\ Head(todo) \in Todo
<1>1. todo \in Seq(Task) /\ todo # <<>>
  BY DEF Inv, TypeOK, Stages
<1>2. QED
  BY <1>1, HeadAndTail DEF Todo

\* A task of a list fails before it has landed.
LEMMA FailureGivesUp ==
    ASSUME Inv, Next, DropPending \/ MergeFails \/ Sync
    PROVE  Promised
<1> DEFINE t == Head(todo)
<1>1. /\ pc \in {"pending", "merge", "sync"} /\ plan' = plan /\ base' = base
      /\ status \in [Task -> Status]
  BY PlanStays DEF DropPending, MergeFails, Sync, Inv, TypeOK
<1>2. t \in Task /\ t \in Todo
  BY <1>1, AtHead
<1>3. status[t] \in Mergeable
  BY <1>1, <1>2 DEF Inv, Merging
<1>4. Life(t) = "ready"
  BY <1>1, <1>2, <1>3, Lives DEF Life
<1>5. \/ status' = status
      \/ \E s \in {"failed", "changes_requested"} : status' = [status EXCEPT ![t] = s]
  BY DEF DropPending, MergeFails, Sync, Mark, Verdicts, file
<1>6. \A u \in Task : Life(u)' = Life(u) \/ (Life(u) = "ready" /\ Life(u)' = "open")
  <2>1. LifeOf("failed") = "open" /\ LifeOf("changes_requested") = "open"
    BY DEF LifeOf
  <2>2. QED
    BY <1>1, <1>2, <1>4, <1>5, <2>1 DEF Life
<1>7. Drops(t)
  <2>1. CleanupFailed(t) \/ UNCHANGED trees
    BY DEF DropPending, MergeFails, Sync
  <2>2. QED
    BY <1>2, <2>1, CleanupDrops
<1>8. QED
  BY <1>1, <1>2, <1>4, <1>6, <1>7, GivesUp

\* A rejected candidate is given up, item by item or at once.
LEMMA RejectionGivesUp ==
    ASSUME Inv, Next, RejectCleanup \/ RejectSave
    PROVE  Promised
<1>1. /\ pc \in {"reject", "drop"} /\ plan' = plan /\ base' = base
      /\ status \in [Task -> Status] /\ todo \in Seq(Task)
  BY PlanStays DEF RejectCleanup, RejectSave, Inv, TypeOK
<1>2. \A u \in Items : Life(u) \in {"ready", "open"}
  <2>1. \A u \in Items : u \in Task /\ status[u] \in Mergeable \cup Startable
    BY <1>1 DEF Inv, Merging, Startable, Items, TypeOK, ToSet
  <2>2. QED
    BY <1>1, <2>1, Lives DEF Life
<1>3. PICK S \in SUBSET Items : status' = Rejected(S) \/ (S = {} /\ status' = status)
  BY DEF RejectCleanup, RejectSave, Items
<1>4. \A u \in Task : Life(u)' = Life(u) \/ (Life(u) = "ready" /\ Life(u)' = "open")
  <2>1. LifeOf("candidate_rejected") = "open"
    BY DEF LifeOf
  <2>2. \A u \in Task : status'[u] = status[u] \/ (u \in Items /\ status'[u] = "candidate_rejected")
    BY <1>3 DEF Rejected
  <2>3. QED
    BY <1>2, <2>1, <2>2 DEF Life
<1>5. CASE RejectCleanup
  <2>1. Head(todo) \in Task
    BY <1>1, <1>5, HeadAndTail DEF RejectCleanup
  <2>2. Drops(Head(todo))
    BY <1>5, <2>1, CleanupDrops DEF RejectCleanup
  <2>3. Life(Head(todo)) \in {"ready", "open"}
    <3>1. Head(todo) \in Items
      BY <1>1, <1>5, HeadAndTail DEF RejectCleanup, Inv, Merging, Todo
    <3>2. QED
      BY <1>2, <3>1
  <2>4. QED
    BY <1>1, <1>4, <2>1, <2>2, <2>3, GivesUp
<1>6. CASE RejectSave
  <2>1. view' = view
    BY <1>6 DEF RejectSave, trees
  <2>2. CASE Items = {}
    <3>1. SameLives
      BY <1>3, <2>2 DEF SameLives, Life, Rejected
    <3>2. QED
      BY <1>1, <2>1, <3>1, Stutters
  <2>3. CASE Items # {}
    <3>1. PICK t \in Items : t \in Task
      BY <1>1, <2>3 DEF Inv, Items, TypeOK, ToSet
    <3>2. QED
      BY <1>1, <1>2, <1>4, <2>1, <3>1, GivesUp DEF Drops
  <2>4. QED
    BY <2>2, <2>3
<1>7. QED
  BY <1>5, <1>6

\* The strict gate blocks no task that is in progress, merged or kept.
LEMMA GateBlocks == ASSUME Inv, BlockRemaining PROVE Promised
<1> DEFINE life == [t \in Task |-> LifeOf(status[t])]
           S == {t \in Task : Leaves(t)}
<1>1. /\ Next /\ pc = "block" /\ view' = view /\ base' = base /\ plan' = plan
      /\ status \in [Task -> Status]
  BY DEF BlockRemaining, Next, Proceed, Inv, TypeOK, trees
<1>2. ASSUME NEW t \in Task, Leaves(t)
      PROVE  Life(t) \in {"open", "ready", "satisfied"} /\ status'[t] = "blocked_integration"
  <2>1. status[t] \notin Settled /\ status'[t] = "blocked_integration"
    BY <1>1, <1>2, Moves DEF Move, Inv
  <2>2. status[t] # "in_progress"
    BY <1>1 DEF Inv, InProgressHasWorker, Stages, NobodyWorks
  <2>3. status[t] \in Startable \cup Mergeable \cup {"already_satisfied"}
    BY <1>1, <2>1, <2>2 DEF Settled, Status, SuccessfulTerminal, Startable, Mergeable
  <2>4. QED
    BY <1>1, <2>1, <2>3, Lives DEF Life
<1>3. \A t \in Task : Life(t)' = IF t \in S THEN "blocked" ELSE Life(t)
  <2>1. LifeOf("blocked_integration") = "blocked"
    BY DEF LifeOf
  <2>2. QED
    BY <1>2, <2>1 DEF Life, Leaves
<1>4. D!Becomes(S, "blocked")
  BY <1>3 DEF D!Becomes, Life
<1>5. S \in SUBSET {t \in Task : life[t] \in {"open", "ready", "satisfied"}}
  BY <1>2 DEF Life
<1>6. [t \in Task |-> Awaits(t)]' = [t \in Task |-> Awaits(t)]
  BY <1>1 DEF Awaits
<1> HIDE DEF S
<1>7. D!Block
  BY <1>1, <1>4, <1>5, <1>6 DEF D!Block
<1>8. QED
  BY <1>7 DEF Promised, D!DeliveryNext

\* One task changes its life.
LEMMA OneBecomes ==
    ASSUME Inv, NEW t \in Task, NEW s \in Status, Mark(t, s)
    PROVE  D!Becomes({t}, LifeOf(s))
<1>1. status \in [Task -> Status]
  BY DEF Inv, TypeOK
<1>2. QED
  BY <1>1 DEF Mark, D!Becomes

LEMMA ApplyLands == ASSUME Inv, Apply PROVE Promised
<1> DEFINE t == Head(todo)
           life == [u \in Task |-> LifeOf(status[u])]
<1>1. /\ pc = "merge" /\ view[t] # NoBranch /\ base' = base \cup {t}
      /\ status' = status /\ view' = view /\ plan' = plan /\ status \in [Task -> Status]
  BY DEF Apply, Inv, TypeOK, file, trees
<1>2. t \in Task /\ t \in Todo
  BY <1>1, AtHead
<1>3. status[t] \in Mergeable
  BY <1>1, <1>2 DEF Inv, Merging
<1>4. life[t] = "ready"
  BY <1>1, <1>2, <1>3, Lives
<1>5. D!Land(t)
  BY <1>1, <1>4 DEF D!Land, Awaits
<1>6. QED
  BY <1>2, <1>5 DEF Promised, D!DeliveryNext

LEMMA MarkRecords == ASSUME Inv, MarkDone PROVE Promised
<1> DEFINE t == Head(todo)
           life == [u \in Task |-> LifeOf(status[u])]
<1>1. /\ pc = "applied" /\ Mark(t, "done") /\ CleanupAccepted(t) /\ base' = base /\ plan' = plan
      /\ status \in [Task -> Status]
  BY DEF MarkDone, Inv, TypeOK
<1>2. t \in Task /\ t \in Todo
  BY <1>1, AtHead
<1>3. status[t] \in Mergeable /\ t \in base
  BY <1>1, <1>2 DEF Inv, Merging
<1>4. life[t] = "ready"
  BY <1>1, <1>2, <1>3, Lives
<1>5. D!Becomes({t}, "merged")
  <2>1. LifeOf("done") = "merged" /\ "done" \in Status
    BY DEF LifeOf, Status, SuccessfulTerminal
  <2>2. D!Becomes({t}, LifeOf("done"))
    BY <1>1, <1>2, <2>1, OneBecomes
  <2>3. QED
    BY <2>1, <2>2
<1>6. D!MayDrop(t)
  BY <1>1, <1>2, CleanupDrops DEF Drops, D!MayDrop
<1>7. D!Record(t)
  BY <1>1, <1>3, <1>4, <1>5, <1>6 DEF D!Record, Awaits
<1>8. QED
  BY <1>2, <1>7 DEF Promised, D!DeliveryNext

\* A conflict leaves the task ready, and its branch.
LEMMA ConflictStutters == ASSUME Inv, MergeConflicts PROVE Promised
<1> DEFINE t == Head(todo)
<1>1. /\ pc = "merge" /\ Mark(t, "merge_conflict") /\ view' = view /\ base' = base /\ plan' = plan
      /\ status \in [Task -> Status]
  BY DEF MergeConflicts, Inv, TypeOK, trees
<1>2. t \in Task /\ t \in Todo
  BY <1>1, AtHead
<1>3. status[t] \in Mergeable
  BY <1>1, <1>2 DEF Inv, Merging
<1>4. Life(t) = "ready" /\ LifeOf("merge_conflict") = "ready"
  BY <1>1, <1>2, <1>3, Lives DEF Life, LifeOf
<1>5. SameLives
  BY <1>1, <1>4 DEF SameLives, Life, Mark
<1>6. QED
  BY <1>1, <1>5, Stutters

\* What is to be prepared or started is open, and free to be begun.
LEMMA OpenIsFree ==
    ASSUME Inv, NEW t \in Task, Open(t)
    PROVE  D!Free(t) /\ Life(t) = "open"
<1>1. status \in [Task -> Status]
  BY DEF Inv, TypeOK
<1>2. \A d \in Awaits(t) : d \in Task /\ LifeOf(status[d]) \in D!Delivered
  BY <1>1, Lives DEF Open, Released
<1>3. D!Free(t)
  BY <1>2 DEF D!Free
<1>4. QED
  BY <1>1, <1>3, Lives DEF Open, Life

LEMMA PrepareCuts == ASSUME Inv, Prepare PROVE Promised
<1> DEFINE t == Head(todo)
<1>1. /\ pc = "prepare" /\ status' = status /\ base' = base /\ plan' = plan
      /\ view' = view \/ view' = [view EXCEPT ![t] = base]
  BY DEF Prepare, file
<1>2. t \in Task /\ t \in Todo
  BY <1>1, AtHead
<1>3. Open(t)
  BY <1>1, <1>2 DEF Inv, InHand
<1>4. CASE view' = view
  BY <1>1, <1>4, Stutters DEF SameLives, Life
<1>5. CASE view' = [view EXCEPT ![t] = base]
  <2>1. D!Free(t) /\ [u \in Task |-> LifeOf(status[u])][t] = "open"
    BY <1>2, <1>3, OpenIsFree DEF Life
  <2>2. D!Cut(t)
    BY <1>1, <1>5, <2>1 DEF D!Cut, Awaits
  <2>3. QED
    BY <1>2, <2>2 DEF Promised, D!DeliveryNext
<1>6. QED
  BY <1>1, <1>4, <1>5

\* A task that cannot be prepared stays open.
LEMMA PrepareFailsStutters == ASSUME Inv, PrepareFails PROVE Promised
<1> DEFINE t == Head(todo)
<1>1. /\ pc = "prepare" /\ Mark(t, "failed") /\ view' = view /\ base' = base /\ plan' = plan
      /\ status \in [Task -> Status]
  BY DEF PrepareFails, Inv, TypeOK
<1>2. t \in Task /\ t \in Todo
  BY <1>1, AtHead
<1>3. Life(t) = "open" /\ LifeOf("failed") = "open"
  BY <1>1, <1>2, OpenIsFree DEF Inv, InHand, LifeOf
<1>4. SameLives
  BY <1>1, <1>3 DEF SameLives, Life, Mark
<1>5. QED
  BY <1>1, <1>4, Stutters

LEMMA StartBegins == ASSUME Inv, StartTask PROVE Promised
<1> DEFINE t == Head(todo)
<1>1. /\ pc = "start" /\ Mark(t, "in_progress") /\ view' = view /\ base' = base /\ plan' = plan
  BY DEF StartTask, trees
<1>2. t \in Task /\ t \in Todo
  BY <1>1, AtHead
<1>3. Open(t) /\ view[t] # NoBranch
  BY <1>1, <1>2 DEF Inv, InHand
<1>4. D!Free(t) /\ [u \in Task |-> LifeOf(status[u])][t] = "open"
  BY <1>2, <1>3, OpenIsFree DEF Life
<1>5. D!Becomes({t}, "running")
  <2>1. LifeOf("in_progress") = "running" /\ "in_progress" \in Status
    BY DEF LifeOf, Status
  <2>2. D!Becomes({t}, LifeOf("in_progress"))
    BY <1>1, <1>2, <2>1, OneBecomes
  <2>3. QED
    BY <2>1, <2>2
<1>6. D!Begin(t)
  BY <1>1, <1>3, <1>4, <1>5 DEF D!Begin, Awaits
<1>7. QED
  BY <1>2, <1>6 DEF Promised, D!DeliveryNext

\* A result ends the attempt; only what is neither ready nor kept may lose its branch.
LEMMA CollectEnds == ASSUME Inv, NEW t \in Task, Collect(t) PROVE Promised
<1> DEFINE life == [u \in Task |-> LifeOf(status[u])]
<1>1. /\ base' = base /\ plan' = plan /\ worker[t] \in Result /\ status \in [Task -> Status]
  BY DEF Collect, Inv, TypeOK
<1>2. life[t] = "running"
  <2>1. status[t] = "in_progress"
    BY <1>1 DEF Inv, Crew, Result
  <2>2. QED
    BY <2>1 DEF LifeOf
<1>3. PICK s \in Judged(worker[t]) :
        /\ Mark(t, s)
        /\ CASE s = "already_satisfied" -> CleanupAccepted(t)
             [] s \in {"failed", "verify_failed", "changes_requested"} -> CleanupFailed(t)
             [] OTHER -> UNCHANGED trees
  BY DEF Collect
<1>4. s \in {"failed", "verify_failed", "interrupted", "already_satisfied",
             "completed_unverified", "ready_for_merge", "changes_requested"}
  BY <1>1, <1>3 DEF Judged, Result
<1>5. s \in Status
  BY <1>4 DEF Status, SuccessfulTerminal
<1>6. D!Becomes({t}, LifeOf(s))
  BY <1>3, <1>5, OneBecomes
<1>7. CASE s \in {"completed_unverified", "ready_for_merge"}
  <2>1. LifeOf(s) \in {"ready", "kept"}
    BY <1>7 DEF LifeOf
  <2>2. view' = view
    BY <1>3, <1>7 DEF trees
  <2>3. D!End(t)
    BY <1>1, <1>2, <1>6, <2>1, <2>2 DEF D!End, Awaits
  <2>4. QED
    BY <2>3 DEF Promised, D!DeliveryNext
<1>8. CASE s \notin {"completed_unverified", "ready_for_merge"}
  <2>1. LifeOf(s) \in {"open", "satisfied"}
    BY <1>4, <1>8 DEF LifeOf
  <2>2. D!MayDrop(t)
    BY <1>3, CleanupDrops DEF Drops, D!MayDrop
  <2>3. D!End(t)
    BY <1>1, <1>2, <1>6, <2>1, <2>2 DEF D!End, Awaits
  <2>4. QED
    BY <2>3 DEF Promised, D!DeliveryNext
<1>9. QED
  BY <1>7, <1>8

\* A ready test that has lost its branch is given up with the batch.
LEMMA AssembleGivesUp == ASSUME Inv, Assemble PROVE Promised
<1>1. /\ view' = view /\ base' = base /\ plan' = plan /\ status \in [Task -> Status]
  BY DEF Assemble, Inv, TypeOK, trees
<1>2. PICK lost \in SUBSET Awaited(Kept) :
        status' = [t \in Task |-> IF t \in lost THEN "failed" ELSE status[t]]
  <2>1. AssembleOutcome
    BY Assembles DEF Inv
  <2>2. CASE status' = status
    <3>1. status' = [t \in Task |-> IF t \in {} THEN "failed" ELSE status[t]]
      BY <1>1, <2>2
    <3>2. {} \in SUBSET Awaited(Kept)
      OBVIOUS
    <3>3. QED
      BY <3>1, <3>2
  <2>3. QED
    BY <2>1, <2>2 DEF AssembleOutcome
<1>3. \A t \in lost : t \in Task /\ Life(t) = "ready" /\ Life(t)' = "open"
  BY <1>2 DEF Awaited, Life, LifeOf
<1>4. \A t \in Task : t \notin lost => Life(t)' = Life(t)
  BY <1>2 DEF Life
<1>5. CASE lost = {}
  BY <1>1, <1>4, <1>5, Stutters DEF SameLives
<1>6. CASE lost # {}
  <2>1. PICK t \in lost : t \in Task
    BY <1>3, <1>6
  <2>2. QED
    BY <1>1, <1>3, <1>4, <2>1, GivesUp DEF Drops
<1>7. QED
  BY <1>5, <1>6

LEMMA DeliveryStep == ASSUME Inv, Next PROVE Promised
<1>1. CASE StartRun
  BY <1>1, StartRecovers
<1>2. CASE \/ KeepPending \/ Accept \/ Refuse \/ Schedule \/ FinishRun \/ SkipBatch \/ NextBatch
           \/ EndOfSchedule \/ PoolEnds \/ Abort \/ Collected \/ Cancel \/ Crash
  BY <1>2, RunMoves
<1>3. ASSUME NEW t \in Task, \/ WorkerBegins(t) \/ WorkerEdits(t) \/ WorkerCommits(t)
                             \/ WorkerReturns(t) \/ Collect(t)
      PROVE  Promised
  BY <1>3, RunMoves, CollectEnds
<1>4. CASE DropPending \/ MergeFails \/ Sync \/ RejectCleanup \/ RejectSave \/ Assemble
  BY <1>4, FailureGivesUp, RejectionGivesUp, AssembleGivesUp
<1>5. CASE BlockRemaining \/ Apply \/ MarkDone \/ MergeConflicts
  BY <1>5, GateBlocks, ApplyLands, MarkRecords, ConflictStutters
<1>6. CASE Prepare \/ PrepareFails \/ StartTask
  BY <1>6, PrepareCuts, PrepareFailsStutters, StartBegins
<1>7. QED
  BY <1>1, <1>2, <1>3, <1>4, <1>5, <1>6 DEF Next, Proceed

\* Runs keep what module Delivery promises, through every retry, rejection, crash and
\* restart: no task begins before what it awaits, none is called merged before its work
\* has landed, nothing lands that was not ready, and what is merged or kept stays so
\* (run_swarm, _merge_task, _reject_ready_batch_items, _recover_stale_in_progress).
THEOREM RunsDeliver == Spec => ImplementsDelivery
<1>1. Init => D!DeliveryInit
  BY DEF Init, D!DeliveryInit, LifeOf
<1>2. Inv /\ [Next]_vars => [D!DeliveryNext]_D!deliveryVars
  <2>1. SUFFICES ASSUME Inv, [Next]_vars PROVE Promised
    BY DEF Promised
  <2>2. CASE Next
    BY <2>1, <2>2, DeliveryStep
  <2>3. CASE UNCHANGED vars
    <3>1. plan' = plan /\ status' = status /\ view' = view /\ base' = base
      BY <2>3 DEF vars, file, trees
    <3>2. QED
      BY <3>1, Stutters DEF SameLives, Life
  <2>4. QED
    BY <2>1, <2>2, <2>3
<1>3. QED
  BY <1>1, <1>2, AllStages, PTL DEF Spec, ImplementsDelivery, D!DeliverySpec

-----------------------------------------------------------------------------
(* What the promise is worth: its steps alone make merged work be in the base branch,
   and in every branch that builds on it. *)

\* A promise that is kept: what a branch is cut for is delivered, or was satisfied
\* and is blocked since.
Firm(t) == Life(t) \in D!Delivered \cup {"blocked"}

PromiseInv ==
    /\ base \subseteq Task
    /\ view \in [Task -> (SUBSET Task) \cup {NoBranch}]
    /\ D!Sound
    /\ \A t \in Task : view[t] # NoBranch => \A d \in Awaits(t) : d \in Task /\ Firm(d)

\* How lives change.
LEMMA LivesMove ==
    ASSUME Promised, NEW t \in Task
    PROVE  /\ Awaits(t)' = Awaits(t)
           /\ Life(t)' = "merged" => Life(t) = "merged" \/ (Life(t) = "ready" /\ t \in base)
           /\ Firm(t) => Firm(t)'
<1> DEFINE life == [u \in Task |-> LifeOf(status[u])]
<1>1. CASE UNCHANGED D!deliveryVars
  <2>1. /\ [u \in Task |-> Awaits(u)]' = [u \in Task |-> Awaits(u)]
        /\ [u \in Task |-> LifeOf(status[u])]' = [u \in Task |-> LifeOf(status[u])]
    BY <1>1 DEF D!deliveryVars
  <2>2. Awaits(t)' = Awaits(t) /\ Life(t)' = Life(t)
    BY <2>1 DEF Life
  <2>3. QED
    BY <2>2 DEF Firm
<1>2. CASE D!DeliveryNext
  <2>1. [u \in Task |-> Awaits(u)]' = [u \in Task |-> Awaits(u)]
    BY <1>2 DEF D!DeliveryNext, D!Cut, D!Begin, D!End, D!Land, D!Record, D!GiveUp, D!Recover, D!Block
  <2>2. Awaits(t)' = Awaits(t)
    BY <2>1
  <2>3. \/ [u \in Task |-> LifeOf(status[u])]' = life
        \/ \E u \in Task : /\ life[u] \in {"open", "running"}
                           /\ \E l \in {"running", "ready", "kept", "open", "satisfied"} : D!Becomes({u}, l)
        \/ \E u \in Task : life[u] = "ready" /\ u \in base /\ D!Becomes({u}, "merged")
        \/ \E S \in SUBSET {u \in Task : life[u] \in {"ready", "running"}} : D!Becomes(S, "open")
        \/ \E S \in SUBSET {u \in Task : life[u] \in {"open", "ready", "satisfied"}} :
             D!Becomes(S, "blocked")
    <3>1. CASE \E u \in Task : D!Cut(u) \/ D!Land(u)
      BY <3>1 DEF D!Cut, D!Land
    <3>2. CASE \E u \in Task : D!Begin(u) \/ D!End(u)
      BY <3>2 DEF D!Begin, D!End
    <3>3. CASE \E u \in Task : D!Record(u)
      BY <3>3 DEF D!Record
    <3>4. CASE \E u \in Task : D!GiveUp(u)
      BY <3>4 DEF D!GiveUp
    <3>5. CASE D!Recover
      <4>1. {u \in Task : life[u] = "running"} \in SUBSET {u \in Task : life[u] \in {"ready", "running"}}
        OBVIOUS
      <4>2. QED
        BY <3>5, <4>1 DEF D!Recover
    <3>6. CASE D!Block
      BY <3>6 DEF D!Block
    <3>7. QED
      BY <1>2, <3>1, <3>2, <3>3, <3>4, <3>5, <3>6 DEF D!DeliveryNext
  <2>4. \/ Life(t)' = Life(t)
        \/ Life(t) \in {"open", "running"} /\ Life(t)' # "merged"
        \/ Life(t) = "ready" /\ t \in base /\ Life(t)' = "merged"
        \/ Life(t) \in {"ready", "running"} /\ Life(t)' = "open"
        \/ Life(t) \in {"open", "ready", "satisfied"} /\ Life(t)' = "blocked"
    <3>1. \A S, l : D!Becomes(S, l) => Life(t)' = IF t \in S THEN l ELSE Life(t)
      BY DEF D!Becomes, Life
    <3>2. life[t] = Life(t)
      BY DEF Life
    <3>3. [u \in Task |-> LifeOf(status[u])]' = life => Life(t)' = Life(t)
      BY DEF Life
    <3> HIDE DEF life
    <3>4. QED
      BY <2>3, <3>1, <3>2, <3>3
  <2>5. QED
    BY <2>2, <2>4 DEF Firm, D!Delivered
<1>3. QED
  BY <1>1, <1>2 DEF Promised

\* The base branch only grows.
LEMMA BaseGrows ==
    ASSUME Promised
    PROVE  base' = base \/ \E t \in Task : base' = base \cup {t}
BY DEF Promised, D!deliveryVars, D!DeliveryNext, D!Cut, D!Begin, D!End, D!Land, D!Record, D!GiveUp,
   D!Recover, D!Block

\* How branches change.
LEMMA BranchesMove ==
    ASSUME Promised, PromiseInv
    PROVE  /\ view' \in [Task -> (SUBSET Task) \cup {NoBranch}]
           /\ \A t \in Task : \/ view'[t] \in {view[t], NoBranch}
                              \/ D!Free(t) /\ view'[t] = base
<1>1. view \in [Task -> (SUBSET Task) \cup {NoBranch}] /\ base \in SUBSET Task
  BY DEF PromiseInv
<1>2. \/ \E u \in Task : Drops(u)
      \/ \E u \in Task : D!Free(u) /\ view' = [view EXCEPT ![u] = base]
      \/ view' = view
  BY DEF Promised, Drops, D!deliveryVars, D!DeliveryNext, D!Cut, D!Begin, D!End, D!Land, D!Record,
     D!GiveUp, D!Recover, D!Block, D!MayDrop
<1>3. CASE view' = view
  BY <1>1, <1>3
<1>4. CASE \E u \in Task : Drops(u)
  <2>1. PICK u \in Task : view' = view \/ view' = [view EXCEPT ![u] = NoBranch]
    BY <1>4 DEF Drops
  <2>2. \A t \in Task : view'[t] \in {view[t], NoBranch}
    BY <1>1, <2>1
  <2>3. view' \in [Task -> (SUBSET Task) \cup {NoBranch}]
    BY <1>1, <2>1
  <2>4. QED
    BY <2>2, <2>3
<1>5. CASE \E u \in Task : D!Free(u) /\ view' = [view EXCEPT ![u] = base]
  <2>1. PICK u \in Task : D!Free(u) /\ view' = [view EXCEPT ![u] = base]
    BY <1>5
  <2>2. \A t \in Task : view'[t] = view[t] \/ (t = u /\ view'[t] = base)
    BY <1>1, <2>1
  <2>3. view' \in [Task -> (SUBSET Task) \cup {NoBranch}]
    BY <1>1, <2>1
  <2>4. \A t \in Task : view'[t] = view[t] \/ (D!Free(t) /\ view'[t] = base)
    BY <2>1, <2>2
  <2>5. QED
    BY <2>3, <2>4
<1>6. QED
  BY <1>2, <1>3, <1>4, <1>5

\* What the promise gives: merged work is in the base branch, and a branch has the
\* merged work of all that its task awaits.  Together with RunsDeliver, the life-cycle
\* alone explains why workers see what they build on.
THEOREM PromiseIsSound == D!DeliverySpec => []D!Sound
<1>1. D!DeliveryInit => PromiseInv
  <2>1. SUFFICES ASSUME D!DeliveryInit PROVE PromiseInv
    OBVIOUS
  <2>2. /\ \A t \in Task : Life(t) = "open"
        /\ view = [t \in Task |-> NoBranch] /\ base = {}
    BY <2>1 DEF D!DeliveryInit, Life
  <2>3. D!Sound
    BY <2>2 DEF D!Sound, Life
  <2>4. QED
    BY <2>2, <2>3 DEF PromiseInv
<1>2. PromiseInv /\ [D!DeliveryNext]_D!deliveryVars => PromiseInv'
  <2>1. SUFFICES ASSUME PromiseInv, Promised PROVE PromiseInv'
    BY DEF Promised
  <2>2. /\ base \subseteq Task
        /\ \A t \in Task : Life(t) = "merged" => t \in base
        /\ \A t \in Task : view[t] # NoBranch =>
             \A d \in Awaits(t) : /\ d \in Task /\ Firm(d)
                                  /\ Life(d) = "merged" => d \in view[t]
    BY <2>1 DEF PromiseInv, D!Sound, Life
  <2>3. base' \subseteq Task /\ base \subseteq base' /\ \A t \in Task : Life(t)' = "merged" => t \in base'
    <3>1. base' = base \/ \E u \in Task : base' = base \cup {u}
      BY <2>1, BaseGrows
    <3>2. \A t \in Task : Life(t)' = "merged" => t \in base
      BY <2>1, <2>2, LivesMove
    <3>3. QED
      BY <2>2, <3>1, <3>2
  <2>4. ASSUME NEW t \in Task, view'[t] # NoBranch, NEW d \in Awaits(t)'
        PROVE  d \in Task /\ Firm(d)' /\ (Life(d)' = "merged" => d \in view'[t])
    <3>1. d \in Awaits(t)
      BY <2>1, <2>4, LivesMove
    <3>2. CASE view'[t] = view[t]
      <4>1. d \in Task /\ Firm(d) /\ (Life(d) = "merged" => d \in view'[t])
        BY <2>2, <2>4, <3>1, <3>2
      <4>2. Life(d)' = "merged" => Life(d) = "merged"
        BY <2>1, <4>1, LivesMove DEF Firm, D!Delivered
      <4>3. QED
        BY <2>1, <4>1, <4>2, LivesMove
    <3>3. CASE D!Free(t) /\ view'[t] = base
      <4>1. d \in Task /\ Life(d) \in D!Delivered
        BY <3>1, <3>3 DEF D!Free, Life
      <4>2. Life(d)' = "merged" => d \in base
        BY <2>1, <2>2, <4>1, LivesMove
      <4>3. QED
        BY <2>1, <3>3, <4>1, <4>2, LivesMove DEF Firm
    <3>4. QED
      BY <2>1, <2>4, <3>2, <3>3, BranchesMove
  <2>5. view' \in [Task -> (SUBSET Task) \cup {NoBranch}]
    BY <2>1, BranchesMove
  <2>6. D!Sound'
    BY <2>3, <2>4 DEF D!Sound, Life
  <2>7. QED
    BY <2>3, <2>4, <2>5, <2>6 DEF PromiseInv
<1>3. PromiseInv => D!Sound
  BY DEF PromiseInv
<1>4. QED
  BY <1>1, <1>2, <1>3, PTL DEF D!DeliverySpec
=============================================================================
