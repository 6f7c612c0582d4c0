------------------------ MODULE SwarmSchedulerProofs ------------------------
(***************************************************************************)
(* What a schedule guarantees, whatever the plan, the options and the       *)
(* number of workers, and that the loops which build it do what the rules   *)
(* say of it as a whole.                                                    *)
(***************************************************************************)
EXTENDS SwarmScheduler, FiniteSetTheorems, SequenceTheorems, WellFoundedInduction, TLAPS

USE RulesAssumption

-----------------------------------------------------------------------------
(* Lemmas about the rules *)

\* Every non-empty set of natural numbers has a least element.
LEMMA LeastNatural ==
  ASSUME NEW S, S \subseteq Nat, S # {}
  PROVE  \E k \in S : \A j \in S : k <= j
<1>1. IsWellFoundedOn(OpToRel(<, Nat), Nat)
  BY NatLessThanWellFounded
<1>2. \A i, j \in Nat : i < j => <<i, j>> \in OpToRel(<, Nat)
  BY DEF OpToRel
<1>3. PICK k \in S : \A j \in S : ~(<<j, k>> \in OpToRel(<, Nat))
  BY <1>1, WFMin, Zenon
<1>4. \A j \in S : ~(j < k)
  BY <1>2, <1>3
<1>5. \A j \in S : k <= j
  BY <1>4
<1> QED
  BY <1>5

\* Width is a positive number.
LEMMA WidthPositive == ASSUME NEW n \in Int PROVE Width(n) \in Nat \ {0}
  BY DEF Width

\* The cut keeps the type of the list and adds no element.
LEMMA CutKeeps ==
  ASSUME NEW o \in Options, NEW s \in Seq(Task)
  PROVE  Cut(o, s) \in Seq(Task) /\ ToSet(Cut(o, s)) \subseteq ToSet(s)
<1>1. CASE o.maxTasks \in {NoLimit, 0} \/ Len(s) <= o.maxTasks
  BY <1>1 DEF Cut, Unlimited
<1>2. CASE ~(o.maxTasks \in {NoLimit, 0} \/ Len(s) <= o.maxTasks)
  <2>1. o.maxTasks \in Nat /\ o.maxTasks < Len(s)
    BY <1>2 DEF Options
  <2>2. Cut(o, s) = SubSeq(s, 1, o.maxTasks)
    BY <1>2 DEF Cut, Unlimited
  <2> QED
    BY <2>1, <2>2 DEF ToSet
<1> QED
  BY <1>1, <1>2

\* A placement opens one batch, or extends the first one that takes the task.
Opened(p, n, t, bs, cs) ==
    /\ \A k \in DOMAIN bs : ~Fits(p, n, t, bs[k])
    /\ cs = Append(bs, {t})

Extended(p, n, t, bs, cs, k) ==
    /\ Fits(p, n, t, bs[k])
    /\ \A j \in DOMAIN bs : j < k => ~Fits(p, n, t, bs[j])
    /\ cs = [bs EXCEPT ![k] = bs[k] \cup {t}]

LEMMA PutCases ==
  ASSUME NEW p, NEW n, NEW t \in Task, NEW bs \in Seq(SUBSET Task)
  PROVE  \/ Opened(p, n, t, bs, Put(p, n, bs, t))
         \/ \E k \in DOMAIN bs : Extended(p, n, t, bs, Put(p, n, bs, t), k)
<1> DEFINE ks == Joinable(p, n, t, bs)
<1>1. CASE ks = {}
  BY <1>1 DEF Joinable, Put, Opened
<1>2. CASE ks # {}
  <2>1. ks \subseteq Nat /\ ks \subseteq DOMAIN bs
    BY DEF Joinable
  <2>2. \E k \in ks : \A j \in ks : k <= j
    BY <1>2, <2>1, LeastNatural
  <2> DEFINE k == CHOOSE k \in ks : \A j \in ks : k <= j
  <2>3. k \in ks /\ \A j \in ks : k <= j
    BY <2>2
  <2>4. Put(p, n, bs, t) = [bs EXCEPT ![k] = bs[k] \cup {t}]
    BY <1>2 DEF Put
  <2> HIDE DEF k
  <2>5. \A j \in DOMAIN bs : j < k => ~Fits(p, n, t, bs[j])
    BY <2>1, <2>3 DEF Joinable
  <2>6. k \in DOMAIN bs /\ Fits(p, n, t, bs[k])
    BY <2>3 DEF Joinable
  <2> QED
    BY <2>4, <2>5, <2>6 DEF Extended
<1> QED
  BY <1>1, <1>2

\* A placement keeps the type of the batches.
LEMMA PutType ==
  ASSUME NEW p, NEW n, NEW t \in Task, NEW bs \in Seq(SUBSET Task)
  PROVE  Put(p, n, bs, t) \in Seq(SUBSET Task)
<1>1. CASE Opened(p, n, t, bs, Put(p, n, bs, t))
  BY <1>1 DEF Opened
<1>2. ASSUME NEW k \in DOMAIN bs, Extended(p, n, t, bs, Put(p, n, bs, t), k)
      PROVE  Put(p, n, bs, t) \in Seq(SUBSET Task)
  BY <1>2 DEF Extended
<1> QED
  BY <1>1, <1>2, PutCases

\* A batch that does not take a task does not take it later either: batches
\* only grow.
LEMMA FullStaysFull ==
  ASSUME NEW p, NEW n \in Int, NEW t, NEW b \in SUBSET Task,
         NEW c \in SUBSET Task, b \subseteq c, ~Fits(p, n, t, b)
  PROVE  ~Fits(p, n, t, c)
<1>1. IsFiniteSet(c)
  BY FS_Subset
<1>2. Cardinality(b) <= Cardinality(c)
  BY <1>1, FS_Subset
<1>3. IsFiniteSet(b)
  BY FS_Subset
<1>4. Cardinality(b) \in Nat /\ Cardinality(c) \in Nat
  BY <1>1, <1>3, FS_CardinalityType
<1> QED
  BY <1>2, <1>4, WidthPositive DEF Fits

-----------------------------------------------------------------------------
(* Types *)

\* The parts of a job have their types.
LEMMA JobParts ==
  ASSUME NEW j \in Jobs
  PROVE  /\ j.plan \in Plan
         /\ j.opt \in Options
         /\ j.status \in [Task -> Status]
         /\ j.parallel \in Int
         /\ j.plan.order \in Seq(Task)
  BY JobsAssumption DEF Job, Plan

LEMMA TypeInit == Init => TypeOK
  BY DEF Init, TypeOK, ToSet

LEMMA TypeNext == TypeOK /\ [Next]_vars => TypeOK'
<1> SUFFICES ASSUME TypeOK, [Next]_vars PROVE TypeOK'
  OBVIOUS
<1> USE DEF TypeOK
<1>1. CASE Inspect
  <2>1. job.plan.order \in Seq(Task)
    BY JobParts
  <2>2. job.plan.order[pos] \in Task
    BY <1>1, <2>1 DEF Inspect
  <2>3. /\ runnable' \in {runnable, Append(runnable, job.plan.order[pos])}
        /\ waiting' \in {waiting, waiting \cup {job.plan.order[pos]}}
        /\ skipped' \in {skipped, skipped \cup {job.plan.order[pos]}}
    BY <1>1 DEF Inspect
  <2>4. runnable' \in Seq(Task)
    BY <2>2, <2>3
  <2>5. waiting' \subseteq Task /\ skipped' \subseteq Task
    BY <2>2, <2>3
  <2>6. /\ pos' = pos + 1
        /\ UNCHANGED <<job, phase, unplaced, batches>>
    BY <1>1 DEF Inspect
  <2>7. ToSet(runnable) \subseteq ToSet(runnable')
    BY <2>2, <2>3 DEF ToSet
  <2> QED
    BY <2>4, <2>5, <2>6, <2>7
<1>2. CASE Truncate
  <2>1. runnable' \in Seq(Task)
    BY <1>2, JobParts, CutKeeps DEF Truncate
  <2> QED
    BY <1>2, <2>1 DEF Truncate
<1>3. CASE Place
  <2>1. PICK t \in unplaced : /\ unplaced' = unplaced \ {t}
                              /\ batches' = Put(job.plan, job.parallel, batches, t)
    BY <1>3 DEF Place
  <2>2. t \in Task
    BY DEF ToSet
  <2>3. Put(job.plan, job.parallel, batches, t) \in Seq(SUBSET Task)
    BY <2>2, PutType
  <2> QED
    BY <1>3, <2>1, <2>3 DEF Place
<1>4. CASE Finish
  BY <1>4 DEF Finish
<1>5. CASE UNCHANGED vars
  BY <1>5 DEF vars
<1> QED
  BY <1>1, <1>2, <1>3, <1>4, <1>5 DEF Next

\* The variables have their types, for every set of jobs.
THEOREM TypeCorrect == Spec => []TypeOK
  BY TypeInit, TypeNext, PTL DEF Spec

-----------------------------------------------------------------------------
(* Selection *)

\* The runnable list holds selected tasks, and what a phase has not done yet
\* has left no trace.
Selection ==
    /\ \A t \in ToSet(runnable) : Chosen(t)
    /\ phase = "select" => batches = <<>> /\ unplaced = {}

LEMMA SelectionInit == Init => Selection
  BY DEF Init, Selection, ToSet

LEMMA SelectionNext == TypeOK /\ Selection /\ [Next]_vars => Selection'
<1> SUFFICES ASSUME TypeOK, Selection, [Next]_vars PROVE Selection'
  OBVIOUS
<1> USE DEF TypeOK, Selection, Chosen
<1>1. CASE Inspect
  <2>1. ASSUME NEW t \in ToSet(runnable')
        PROVE  Selected(job.plan, job.opt, job.status, job.attempts, t)
    <3>1. CASE runnable' = runnable
      BY <2>1, <3>1
    <3>2. CASE /\ Chosen(job.plan.order[pos])
               /\ runnable' = Append(runnable, job.plan.order[pos])
      <4>1. t \in ToSet(runnable) \/ t = job.plan.order[pos]
        BY <2>1, <3>2 DEF ToSet
      <4> QED
        BY <3>2, <4>1
    <3> QED
      BY <1>1, <3>1, <3>2 DEF Inspect
  <2> QED
    BY <1>1, <2>1 DEF Inspect
<1>2. CASE Truncate
  BY <1>2, JobParts, CutKeeps DEF Truncate
<1>3. CASE Place
  BY <1>3 DEF Place
<1>4. CASE Finish
  BY <1>4 DEF Finish
<1>5. CASE UNCHANGED vars
  BY <1>5 DEF vars
<1> QED
  BY <1>1, <1>2, <1>3, <1>4, <1>5 DEF Next

\* No runnable status releases a dependent task.
LEMMA RunnableNotReleasing ==
  ASSUME NEW s, NEW o, RunnableStatus(s, o)
  PROVE  s \notin SuccessfulTerminal /\ s # "ready_for_merge"
  BY DEF RunnableStatus, SuccessfulTerminal

LEMMA SelectionIndependent == Selection => IndependentRunnables
<1> SUFFICES ASSUME Selection, NEW a \in ToSet(runnable), NEW b \in ToSet(runnable),
                    b \in job.plan.deps[a]
             PROVE  FALSE
  BY DEF IndependentRunnables
<1>1. DepDone(job.plan, job.status, a, b)
  BY DEF Selection, Chosen, Selected, DepsDone
<1>2. RunnableStatus(job.status[b], job.opt)
  BY DEF Selection, Chosen, Selected
<1> QED
  BY <1>1, <1>2, RunnableNotReleasing DEF DepDone

\* No two tasks of one schedule depend on each other.
THEOREM Independence == Spec => []IndependentRunnables
<1>1. Init => TypeOK /\ Selection
  BY TypeInit, SelectionInit
<1>2. TypeOK /\ Selection /\ [Next]_vars => (TypeOK /\ Selection)'
  BY TypeNext, SelectionNext
<1> QED
  BY <1>1, <1>2, SelectionIndependent, PTL DEF Spec

-----------------------------------------------------------------------------
(* Placement *)

BatchesOK == SafeBatches /\ PlacedOnce /\ NoNeedlessBatch

LEMMA BatchesInit == Init => BatchesOK
  BY DEF Init, BatchesOK, SafeBatches, PlacedOnce, NoNeedlessBatch, ToSet

\* The two outcomes of a step of Place.
LEMMA PlaceCases ==
  ASSUME TypeOK, Place
  PROVE  \E t \in unplaced :
           /\ unplaced' = unplaced \ {t}
           /\ \/ /\ \A k \in DOMAIN batches :
                      ~Fits(job.plan, job.parallel, t, batches[k])
                 /\ batches' = Append(batches, {t})
              \/ \E k \in DOMAIN batches :
                   /\ Fits(job.plan, job.parallel, t, batches[k])
                   /\ \A j \in DOMAIN batches :
                        j < k => ~Fits(job.plan, job.parallel, t, batches[j])
                   /\ batches' = [batches EXCEPT ![k] = batches[k] \cup {t}]
<1>1. PICK t \in unplaced : /\ unplaced' = unplaced \ {t}
                            /\ batches' = Put(job.plan, job.parallel, batches, t)
  BY DEF Place
<1>2. t \in Task /\ batches \in Seq(SUBSET Task)
  BY DEF TypeOK, ToSet
<1>3. \/ Opened(job.plan, job.parallel, t, batches, batches')
      \/ \E k \in DOMAIN batches :
           Extended(job.plan, job.parallel, t, batches, batches', k)
  BY <1>1, <1>2, PutCases
<1> QED
  BY <1>1, <1>3 DEF Opened, Extended

LEMMA PlaceSafe ==
  ASSUME TypeOK, SafeBatches, PlacedOnce, Place
  PROVE  SafeBatches'
<1>1. PICK t \in unplaced :
        \/ batches' = Append(batches, {t})
        \/ \E i \in DOMAIN batches :
             /\ Fits(job.plan, job.parallel, t, batches[i])
             /\ batches' = [batches EXCEPT ![i] = batches[i] \cup {t}]
  BY PlaceCases
<1>2. t \in Task /\ batches \in Seq(SUBSET Task) /\ job.parallel \in Int
  BY JobParts DEF TypeOK, ToSet
<1>3. job' = job
  BY DEF Place
<1>4. CASE batches' = Append(batches, {t})
  <2>1. Cardinality({t}) = 1
    BY FS_Singleton
  <2>2. ASSUME NEW k \in DOMAIN batches'
        PROVE  /\ Cardinality(batches'[k]) \in 1 .. Width(job.parallel)
               /\ \A a, b \in batches'[k] : a # b => PairSafe(job.plan, a, b)
    <3>1. CASE k \in DOMAIN batches
      BY <1>2, <1>4, <3>1 DEF SafeBatches
    <3>2. CASE k \notin DOMAIN batches
      <4>1. batches'[k] = {t}
        BY <1>2, <1>4, <3>2
      <4>2. Width(job.parallel) \in Nat \ {0}
        BY <1>2, WidthPositive
      <4>3. Cardinality(batches'[k]) \in 1 .. Width(job.parallel)
        BY <2>1, <4>1, <4>2
      <4> QED
        BY <4>1, <4>3
    <3> QED
      BY <3>1, <3>2
  <2> QED
    BY <1>3, <2>2 DEF SafeBatches
<1>5. ASSUME NEW i \in DOMAIN batches,
             Fits(job.plan, job.parallel, t, batches[i]),
             batches' = [batches EXCEPT ![i] = batches[i] \cup {t}]
      PROVE  SafeBatches'
  <2>1. IsFiniteSet(batches[i]) /\ t \notin batches[i]
    <3>1. batches[i] \subseteq Task
      BY <1>2
    <3> QED
      BY <3>1, FS_Subset DEF PlacedOnce
  <2>2. /\ Cardinality(batches[i] \cup {t}) = Cardinality(batches[i]) + 1
        /\ Cardinality(batches[i]) \in Nat
    BY <2>1, FS_AddElement, FS_CardinalityType
  <2>3. Cardinality(batches[i] \cup {t}) \in 1 .. Width(job.parallel)
    BY <1>2, <1>5, <2>2, WidthPositive DEF Fits
  <2>4. \A a, b \in batches[i] \cup {t} : a # b => PairSafe(job.plan, a, b)
    BY <1>5 DEF Fits, SafeBatches, PairSafe
  <2>5. DOMAIN batches' = DOMAIN batches
    BY <1>2, <1>5
  <2>6. \A k \in DOMAIN batches :
          batches'[k] = IF k = i THEN batches[i] \cup {t} ELSE batches[k]
    BY <1>2, <1>5
  <2> QED
    BY <1>3, <2>3, <2>4, <2>5, <2>6 DEF SafeBatches
<1> QED
  BY <1>1, <1>4, <1>5

LEMMA PlaceOnce ==
  ASSUME TypeOK, Selection, PlacedOnce, Place
  PROVE  PlacedOnce'
<1>1. PICK t \in unplaced :
        /\ unplaced' = unplaced \ {t}
        /\ \/ batches' = Append(batches, {t})
           \/ \E i \in DOMAIN batches :
                batches' = [batches EXCEPT ![i] = batches[i] \cup {t}]
  BY PlaceCases
<1>2. t \in Task /\ batches \in Seq(SUBSET Task)
  BY DEF TypeOK, ToSet
<1>3. phase = "place" /\ phase' = "place" /\ runnable' = runnable
  BY DEF Place
<1> DEFINE run == ToSet(runnable)
<1>4. t \in run /\ run' = run
  BY <1>1, <1>3 DEF TypeOK
<1> HIDE DEF run
<1>5. /\ \A u \in Task : \/ u \notin run
                         \/ u \in unplaced
                         \/ \E k \in DOMAIN batches : u \in batches[k]
      /\ \A k \in DOMAIN batches : batches[k] \subseteq run \ unplaced
      /\ \A j, k \in DOMAIN batches : j # k => batches[j] \cap batches[k] = {}
  BY <1>3 DEF PlacedOnce, run
<1>6. SUFFICES
        /\ \A u \in Task : \/ u \notin run
                           \/ u \in unplaced'
                           \/ \E k \in DOMAIN batches' : u \in batches'[k]
        /\ \A k \in DOMAIN batches' : batches'[k] \subseteq run \ unplaced'
        /\ \A j, k \in DOMAIN batches' : j # k => batches'[j] \cap batches'[k] = {}
  BY <1>3, <1>4 DEF PlacedOnce, run
<1>7. CASE batches' = Append(batches, {t})
  <2>1. /\ DOMAIN batches' = DOMAIN batches \cup {Len(batches) + 1}
        /\ Len(batches) + 1 \notin DOMAIN batches
        /\ batches'[Len(batches) + 1] = {t}
        /\ \A k \in DOMAIN batches : batches'[k] = batches[k]
    BY <1>2, <1>7
  <2> QED
    BY <1>1, <1>4, <1>5, <2>1
<1>8. ASSUME NEW i \in DOMAIN batches,
             batches' = [batches EXCEPT ![i] = batches[i] \cup {t}]
      PROVE  /\ \A u \in Task : \/ u \notin run
                                \/ u \in unplaced'
                                \/ \E k \in DOMAIN batches' : u \in batches'[k]
             /\ \A k \in DOMAIN batches' : batches'[k] \subseteq run \ unplaced'
             /\ \A j, k \in DOMAIN batches' :
                  j # k => batches'[j] \cap batches'[k] = {}
  <2>1. /\ DOMAIN batches' = DOMAIN batches
        /\ \A k \in DOMAIN batches :
             batches'[k] = IF k = i THEN batches[i] \cup {t} ELSE batches[k]
    BY <1>2, <1>8
  <2> QED
    BY <1>1, <1>4, <1>5, <2>1
<1> QED
  BY <1>1, <1>7, <1>8

LEMMA PlaceGreedy ==
  ASSUME TypeOK, NoNeedlessBatch, Place
  PROVE  NoNeedlessBatch'
<1>1. PICK t \in unplaced :
        \/ /\ \A k \in DOMAIN batches : ~Fits(job.plan, job.parallel, t, batches[k])
           /\ batches' = Append(batches, {t})
        \/ \E i \in DOMAIN batches :
             /\ \A j \in DOMAIN batches :
                  j < i => ~Fits(job.plan, job.parallel, t, batches[j])
             /\ batches' = [batches EXCEPT ![i] = batches[i] \cup {t}]
  BY PlaceCases
<1>2. t \in Task /\ batches \in Seq(SUBSET Task) /\ job.parallel \in Int
  BY JobParts DEF TypeOK, ToSet
<1>3. job' = job
  BY DEF Place
<1> DEFINE Takes(u, b) == Fits(job.plan, job.parallel, u, b)
<1>4. CASE /\ \A k \in DOMAIN batches : ~Takes(t, batches[k])
           /\ batches' = Append(batches, {t})
  <2>1. /\ DOMAIN batches' = DOMAIN batches \cup {Len(batches) + 1}
        /\ \A k \in DOMAIN batches : k < Len(batches) + 1
        /\ batches'[Len(batches) + 1] = {t}
        /\ \A k \in DOMAIN batches : batches'[k] = batches[k]
    BY <1>2, <1>4
  <2>2. DOMAIN batches \subseteq Nat /\ Len(batches) + 1 \in Nat
    BY <1>2
  <2> QED
    BY <1>3, <1>4, <2>1, <2>2 DEF NoNeedlessBatch
<1>5. ASSUME NEW i \in DOMAIN batches,
             \A j \in DOMAIN batches : j < i => ~Takes(t, batches[j]),
             batches' = [batches EXCEPT ![i] = batches[i] \cup {t}]
      PROVE  NoNeedlessBatch'
  <2>1. /\ DOMAIN batches' = DOMAIN batches
        /\ \A k \in DOMAIN batches :
             batches'[k] = IF k = i THEN batches[i] \cup {t} ELSE batches[k]
    BY <1>2, <1>5
  <2>2. ASSUME NEW j \in DOMAIN batches, NEW k \in DOMAIN batches, j < k,
               NEW u \in batches'[k]
        PROVE  ~Takes(u, batches'[j])
    <3>1. ~Takes(u, batches[j])
      BY <1>5, <2>1, <2>2 DEF NoNeedlessBatch
    <3>2. batches[j] \subseteq batches'[j] /\ batches'[j] \subseteq Task
      BY <1>2, <2>1
    <3> QED
      BY <1>2, <3>1, <3>2, FullStaysFull
  <2> QED
    BY <1>3, <2>1, <2>2 DEF NoNeedlessBatch
<1> QED
  BY <1>1, <1>4, <1>5

LEMMA BatchesNext ==
  TypeOK /\ Selection /\ BatchesOK /\ [Next]_vars => BatchesOK'
<1> SUFFICES ASSUME TypeOK, Selection, BatchesOK, [Next]_vars PROVE BatchesOK'
  OBVIOUS
<1> USE DEF BatchesOK
<1>1. CASE Inspect
  BY <1>1 DEF Inspect, Selection, SafeBatches, PlacedOnce, NoNeedlessBatch, ToSet
<1>2. CASE Truncate
  BY <1>2 DEF Truncate, Selection, SafeBatches, PlacedOnce, NoNeedlessBatch, ToSet
<1>3. CASE Place
  BY <1>3, PlaceSafe, PlaceOnce, PlaceGreedy
<1>4. CASE Finish
  BY <1>4 DEF Finish, SafeBatches, PlacedOnce, NoNeedlessBatch
<1>5. CASE UNCHANGED vars
  BY <1>5 DEF vars, SafeBatches, PlacedOnce, NoNeedlessBatch
<1> QED
  BY <1>1, <1>2, <1>3, <1>4, <1>5 DEF Next

LEMMA BatchesInvariant == Spec => []BatchesOK
<1>1. Init => TypeOK /\ Selection /\ BatchesOK
  BY TypeInit, SelectionInit, BatchesInit
<1>2. /\ TypeOK /\ Selection /\ BatchesOK
      /\ [Next]_vars
      => (TypeOK /\ Selection /\ BatchesOK)'
  BY TypeNext, SelectionNext, BatchesNext
<1> QED
  BY <1>1, <1>2, PTL DEF Spec

\* The workers of a batch never write the same file.
THEOREM BatchSafety == Spec => []SafeBatches
  BY BatchesInvariant, PTL DEF BatchesOK

\* Every runnable task is run exactly once per schedule.
THEOREM Partition == Spec => []PlacedOnce
  BY BatchesInvariant, PTL DEF BatchesOK

\* No task waits for a later batch although an earlier one would take it.
THEOREM Greedy == Spec => []NoNeedlessBatch
  BY BatchesInvariant, PTL DEF BatchesOK
-----------------------------------------------------------------------------
(* The loops against the rules: the list *)

\* So many elements of a list without repetitions are so many.
LEMMA FirstCount ==
  ASSUME NEW S, NEW s \in Seq(S), IsInjective(s), NEW n \in 0 .. Len(s)
  PROVE  Cardinality({s[k] : k \in 1 .. n}) = n
<1> DEFINE f == [k \in 1 .. n |-> s[k]]
           T == {s[k] : k \in 1 .. n}
<1>1. 1 .. n \subseteq DOMAIN s
  OBVIOUS
<1>2. f \in [1 .. n -> T]
  OBVIOUS
<1>3. \A i, j \in 1 .. n : f[i] = f[j] => i = j
  BY <1>1 DEF IsInjective
<1>4. \A x \in T : \E i \in 1 .. n : f[i] = x
  OBVIOUS
<1>5. f \in Bijection(1 .. n, T)
  <2>1. f \in Injection(1 .. n, T)
    BY <1>2, <1>3 DEF Injection, IsInjective
  <2>2. f \in Surjection(1 .. n, T)
    BY <1>2, <1>4 DEF Surjection
  <2> QED
    BY <2>1, <2>2 DEF Bijection
<1>6. ExistsBijection(1 .. n, T)
  BY <1>5 DEF ExistsBijection
<1>7. n \in Nat
  OBVIOUS
<1> HIDE DEF T
<1>8. Cardinality(T) = n
  BY <1>6, <1>7, FS_CountingElements
<1> QED
  BY <1>8 DEF T

Ordered(s) == \A i, j \in DOMAIN s : i < j => InOrder(job.plan, s[i], s[j])

\* Plan order is a strict order of the tasks of a plan.
LEMMA OrderIsStrict ==
  ASSUME job \in Jobs
  PROVE  \A a, b : InOrder(job.plan, a, b) => ~InOrder(job.plan, b, a)
<1>1. job.plan.order \in Seq(Task) /\ IsInjective(job.plan.order)
  BY JobParts, JobsAssumption
<1>2. DOMAIN job.plan.order \subseteq Nat
  BY <1>1
<1> QED
  BY <1>1, <1>2 DEF InOrder, IsInjective

\* A list in plan order has no repetitions, and what comes before an element in
\* the plan comes before it in the list.
LEMMA OrderedLists ==
  ASSUME job \in Jobs, NEW s \in Seq(Task), Ordered(s)
  PROVE  /\ IsInjective(s)
         /\ \A i, j \in DOMAIN s : i < j <=> InOrder(job.plan, s[i], s[j])
<1>1. DOMAIN s \subseteq Nat
  OBVIOUS
<1>2. \A i, j \in DOMAIN s : i < j \/ i = j \/ j < i
  BY <1>1
<1>3. \A i, j \in DOMAIN s : InOrder(job.plan, s[i], s[j]) => i < j
  BY <1>2, OrderIsStrict DEF Ordered
<1>4. IsInjective(s)
  BY <1>2, OrderIsStrict DEF Ordered, IsInjective
<1> QED
  BY <1>3, <1>4 DEF Ordered

All == Candidates(job.plan, job.opt, job.status, job.attempts)
Able == {t \in Listed(job.plan) : Chosen(t)}
Seen == {t \in Task : Chosen(t) /\ \E i \in DOMAIN job.plan.order : i < pos /\ job.plan.order[i] = t}

\* The list holds what was selected so far, in plan order, and is cut in the end.
Listing ==
    /\ Ordered(runnable)
    /\ phase = "select" => pos <= Len(job.plan.order) + 1 /\ ToSet(runnable) = Seen
    /\ phase # "select" => ToSet(runnable) = All

LEMMA ListingInit == Init => Listing
<1> SUFFICES ASSUME Init PROVE Listing
  OBVIOUS
<1>1. runnable = <<>> /\ pos = 1 /\ phase = "select" /\ job \in Jobs
  BY DEF Init
<1>2. job.plan.order \in Seq(Task)
  BY <1>1, JobParts
<1>3. Seen = {}
  BY <1>1, <1>2 DEF Seen
<1> QED
  BY <1>1, <1>2, <1>3 DEF Listing, Ordered, ToSet

\* A task awaiting its merge is not selected.
LEMMA NotBoth == ASSUME NEW t, Awaiting(t) PROVE ~Chosen(t)
  BY RunnableNotReleasing DEF Awaiting, AwaitingMerge, Chosen, Selected

LEMMA InspectLists == ASSUME TypeOK, Listing, Inspect PROVE Listing'
<1> DEFINE order == job.plan.order
<1>1. /\ phase = "select" /\ phase' = "select" /\ job' = job /\ pos' = pos + 1
      /\ pos \in Nat \ {0} /\ pos <= Len(order)
  BY DEF Inspect, TypeOK
<1>2. order \in Seq(Task) /\ pos \in DOMAIN order /\ order[pos] \in Task /\ order' = order
  BY <1>1, JobParts DEF TypeOK
<1>3. \A u : Chosen(u)' <=> Chosen(u)
  BY <1>1 DEF Chosen
<1>4. \A i \in DOMAIN order : i < pos + 1 <=> i < pos \/ i = pos
  BY <1>1, <1>2
<1>5. Seen' = Seen \cup (IF Chosen(order[pos]) THEN {order[pos]} ELSE {})
  BY <1>1, <1>2, <1>3, <1>4 DEF Seen
<1>6. runnable \in Seq(Task) /\ Ordered(runnable) /\ ToSet(runnable) = Seen
  BY <1>1 DEF TypeOK, Listing
<1>7. pos' <= Len(order') + 1
  BY <1>1, <1>2
<1>8. CASE Chosen(order[pos]) /\ runnable' = Append(runnable, order[pos])
  <2>1. /\ DOMAIN runnable' = DOMAIN runnable \cup {Len(runnable) + 1}
        /\ \A i \in DOMAIN runnable : i \in Nat /\ i < Len(runnable) + 1
        /\ runnable'[Len(runnable) + 1] = order[pos]
        /\ \A i \in DOMAIN runnable : runnable'[i] = runnable[i]
        /\ Len(runnable) + 1 \in Nat
    BY <1>2, <1>6, <1>8
  <2>2. ToSet(runnable') = ToSet(runnable) \cup {order[pos]}
    BY <2>1 DEF ToSet
  <2>3. \A i \in DOMAIN runnable : InOrder(job.plan, runnable[i], order[pos])
    <3>1. \A i \in DOMAIN runnable : runnable[i] \in Seen
      BY <1>6 DEF ToSet
    <3>2. QED
      BY <1>2, <3>1 DEF Seen, InOrder
  <2>4. Ordered(runnable')
    BY <1>6, <2>1, <2>3 DEF Ordered
  <2>5. Ordered(runnable)'
    BY <1>1, <2>4 DEF Ordered
  <2> QED
    BY <1>1, <1>5, <1>6, <1>7, <1>8, <2>2, <2>5 DEF Listing
<1>9. CASE ~Chosen(order[pos]) /\ runnable' = runnable
  <2>1. Ordered(runnable)'
    BY <1>1, <1>6, <1>9 DEF Ordered
  <2> QED
    BY <1>1, <1>5, <1>6, <1>7, <1>9, <2>1 DEF Listing
<1> QED
  BY <1>8, <1>9, NotBoth DEF Inspect

\* The cut keeps those tasks that have few enough before them.
LEMMA TruncateLists == ASSUME TypeOK, Listing, Truncate PROVE Listing'
<1> DEFINE r == runnable
           n == job.opt.maxTasks
<1>1. /\ phase = "select" /\ phase' = "place" /\ job' = job /\ runnable' = Cut(job.opt, r)
      /\ pos \in Nat /\ pos > Len(job.plan.order)
  BY DEF Truncate, TypeOK
<1>2. /\ r \in Seq(Task) /\ Ordered(r) /\ ToSet(r) = Seen /\ job \in Jobs
      /\ job.opt \in Options /\ job.plan.order \in Seq(Task)
  BY <1>1, JobParts DEF TypeOK, Listing
<1>3. ToSet(r) = Able
  <2>1. \A i \in DOMAIN job.plan.order : i < pos /\ job.plan.order[i] \in Task
    BY <1>1, <1>2
  <2>2. Seen = Able
    BY <2>1 DEF Seen, Able, Listed, ToSet
  <2> QED
    BY <1>2, <2>2
<1>4. All = {t \in Able : \/ Unlimited(job.opt)
                          \/ Cardinality({u \in Able : InOrder(job.plan, u, t)}) < n}
  BY DEF All, Able, Chosen, Candidates
<1>5. \A i \in DOMAIN r : Cardinality({u \in Able : InOrder(job.plan, u, r[i])}) = i - 1
  <2>1. TAKE i \in DOMAIN r
  <2>2. IsInjective(r) /\ \A j, k \in DOMAIN r : j < k <=> InOrder(job.plan, r[j], r[k])
    BY <1>2, OrderedLists
  <2>3. i \in Nat /\ i - 1 \in 0 .. Len(r) /\ \A j \in DOMAIN r : j < i <=> j \in 1 .. i - 1
    BY <1>2
  <2>4. 1 .. i - 1 \subseteq DOMAIN r
    BY <1>2, <2>3
  <2>5. {u \in Able : InOrder(job.plan, u, r[i])} = {r[k] : k \in 1 .. i - 1}
    BY <1>3, <2>2, <2>3, <2>4 DEF ToSet
  <2> QED
    BY <1>2, <2>2, <2>3, <2>5, FirstCount
<1>6. CASE Unlimited(job.opt) \/ Len(r) <= n
  <2>1. runnable' = r
    BY <1>1, <1>6 DEF Cut
  <2>2. All = Able
    <3>1. CASE Unlimited(job.opt)
      BY <1>4, <3>1
    <3>2. CASE ~Unlimited(job.opt) /\ Len(r) <= n
      <4>1. n \in Nat
        BY <1>2, <3>2 DEF Unlimited, Options
      <4>2. \A i \in DOMAIN r : i - 1 < n
        BY <1>2, <3>2, <4>1
      <4>3. \A t \in Able : \E i \in DOMAIN r : r[i] = t
        BY <1>3 DEF ToSet
      <4> QED
        BY <1>4, <1>5, <4>2, <4>3
    <3> QED
      BY <1>6, <3>1, <3>2
  <2>3. Ordered(runnable)' /\ All' = All
    BY <1>1, <1>2, <2>1 DEF Ordered, All
  <2> QED
    BY <1>1, <1>3, <2>1, <2>2, <2>3 DEF Listing
<1>7. CASE ~(Unlimited(job.opt) \/ Len(r) <= n)
  <2>1. n \in Nat /\ n < Len(r) /\ Len(r) \in Nat
    BY <1>2, <1>7 DEF Unlimited, Options
  <2>2. runnable' = SubSeq(r, 1, n)
    BY <1>1, <1>7 DEF Cut
  <2>3. /\ DOMAIN runnable' = 1 .. n /\ 1 .. n \subseteq DOMAIN r
        /\ \A i \in 1 .. n : runnable'[i] = r[i]
    BY <1>2, <2>1, <2>2
  <2>4. All = {r[i] : i \in 1 .. n}
    <3>1. \A i \in DOMAIN r : i - 1 < n <=> i \in 1 .. n
      BY <1>2, <2>1
    <3>2. \A i \in DOMAIN r : r[i] \in All <=> i \in 1 .. n
      <4>1. \A i \in DOMAIN r : r[i] \in Able
        BY <1>3 DEF ToSet
      <4> QED
        BY <1>4, <1>5, <1>7, <3>1, <4>1
    <3>3. \A t \in All : \E i \in DOMAIN r : r[i] = t
      BY <1>3, <1>4 DEF ToSet
    <3> QED
      BY <2>3, <3>2, <3>3
  <2>5. ToSet(runnable') = All
    BY <2>3, <2>4 DEF ToSet
  <2>6. Ordered(runnable)' /\ All' = All
    BY <1>1, <1>2, <2>3 DEF Ordered, All
  <2> QED
    BY <1>1, <2>5, <2>6 DEF Listing
<1> QED
  BY <1>6, <1>7

LEMMA ListingNext == TypeOK /\ Listing /\ [Next]_vars => Listing'
<1> SUFFICES ASSUME TypeOK, Listing, [Next]_vars PROVE Listing'
  OBVIOUS
<1>1. CASE Inspect \/ Truncate
  BY <1>1, InspectLists, TruncateLists
<1>2. CASE Place \/ Finish \/ UNCHANGED vars
  BY <1>2 DEF Place, Finish, vars, Listing, Ordered, All, Seen, Chosen
<1> QED
  BY <1>1, <1>2 DEF Next
-----------------------------------------------------------------------------
(* The loops against the rules: the batches *)

\* The order of placement is a strict order of the tasks.
LEMMA PlacementIsStrict ==
  ASSUME NEW p
  PROVE  /\ \A a \in Task : ~PlacedBefore(p, a, a)
         /\ \A a, b \in Task : PlacedBefore(p, a, b) => ~PlacedBefore(p, b, a)
  BY DEF PlacedBefore

\* What FirstFit says of one placed task.
Refused(bs, t, j) ==
    LET met == Met(job.plan, t, bs[j])
    IN  met # {} /\ ~Fits(job.plan, job.parallel, t, met)

Taken(bs, t, k) ==
    LET met == Met(job.plan, t, bs[k])
    IN  met = {} \/ Fits(job.plan, job.parallel, t, met)

InPlace(bs) ==
    \A k \in DOMAIN bs : \A t \in bs[k] :
      Taken(bs, t, k) /\ \A j \in DOMAIN bs : j < k => Refused(bs, t, j)

\* What is placed is placed as first fit would, before all that is not placed yet.
Placing ==
    /\ \A k \in DOMAIN batches : \A u \in batches[k], t \in unplaced : PlacedBefore(job.plan, u, t)
    /\ InPlace(batches)

LEMMA PlaceInPlace ==
  ASSUME TypeOK, SafeBatches, PlacedOnce, Placing, Place
  PROVE  Placing'
<1> DEFINE p == job.plan
           n == job.parallel
<1>1. PICK t \in unplaced :
        /\ IsNext(t)
        /\ batches' = Put(p, n, batches, t)
        /\ unplaced' = unplaced \ {t}
  BY DEF Place
<1>2. t \in Task /\ batches \in Seq(SUBSET Task) /\ unplaced \subseteq Task
  BY DEF TypeOK, ToSet
<1>3. job' = job
  BY DEF Place
<1>4. \A k \in DOMAIN batches :
        /\ batches[k] # {} /\ batches[k] \subseteq Task /\ t \notin batches[k]
        /\ \A u \in batches[k] : PlacedBefore(p, u, t) /\ ~PlacedBefore(p, t, u)
  <2>1. TAKE k \in DOMAIN batches
  <2>2. batches[k] \subseteq Task
    BY <1>2
  <2>3. Cardinality(batches[k]) # 0
    BY JobParts, WidthPositive DEF SafeBatches, TypeOK
  <2>4. batches[k] # {}
    BY <2>3, FS_EmptySet
  <2>5. t \notin batches[k]
    BY DEF PlacedOnce
  <2>6. \A u \in batches[k] : PlacedBefore(p, u, t)
    BY DEF Placing
  <2> QED
    BY <1>2, <2>2, <2>4, <2>5, <2>6, PlacementIsStrict
<1>5. \A u \in unplaced' : PlacedBefore(p, t, u)
  BY <1>1 DEF IsNext
<1>6. \A k \in DOMAIN batches : Met(p, t, batches[k]) = batches[k]
  BY <1>4 DEF Met
<1>7. \A k, j \in DOMAIN batches : \A u \in batches[k] :
        Met(p, u, batches[j] \cup {t}) = Met(p, u, batches[j])
  BY <1>4 DEF Met
<1>8. Met(p, t, {t}) = {}
  BY <1>2, PlacementIsStrict DEF Met
<1>9. \A k \in DOMAIN batches' : \A u \in batches'[k] :
        u = t \/ \E j \in DOMAIN batches : u \in batches[j]
  <2>1. \/ batches' = Append(batches, {t})
        \/ \E k \in DOMAIN batches : batches' = [batches EXCEPT ![k] = batches[k] \cup {t}]
    <3>1. \/ Opened(p, n, t, batches, batches')
          \/ \E k \in DOMAIN batches : Extended(p, n, t, batches, batches', k)
      BY <1>1, <1>2, PutCases
    <3> QED
      BY <3>1 DEF Opened, Extended
  <2>2. CASE batches' = Append(batches, {t})
    <3>1. /\ DOMAIN batches' = DOMAIN batches \cup {Len(batches) + 1}
          /\ batches'[Len(batches) + 1] = {t}
          /\ \A k \in DOMAIN batches : batches'[k] = batches[k]
      BY <1>2, <2>2
    <3> QED
      BY <3>1
  <2>3. ASSUME NEW i \in DOMAIN batches,
               batches' = [batches EXCEPT ![i] = batches[i] \cup {t}]
        PROVE  \A k \in DOMAIN batches' : \A u \in batches'[k] :
                 u = t \/ \E j \in DOMAIN batches : u \in batches[j]
    BY <1>2, <2>3
  <2> QED
    BY <2>1, <2>2, <2>3
<1>10. \A k \in DOMAIN batches' : \A u \in batches'[k], v \in unplaced' : PlacedBefore(p, u, v)
  BY <1>1, <1>5, <1>9 DEF Placing
<1>11. CASE Opened(p, n, t, batches, batches')
  <2>1. /\ DOMAIN batches' = DOMAIN batches \cup {Len(batches) + 1}
        /\ batches'[Len(batches) + 1] = {t}
        /\ \A k \in DOMAIN batches : batches'[k] = batches[k] /\ k \in Nat /\ k < Len(batches) + 1
        /\ Len(batches) + 1 \in Nat
    BY <1>2, <1>11 DEF Opened
  <2>2. ASSUME NEW k \in DOMAIN batches, NEW u \in batches[k]
        PROVE  Taken(batches', u, k) /\ \A j \in DOMAIN batches' : j < k => Refused(batches', u, j)
    BY <2>1 DEF Placing, InPlace, Taken, Refused
  <2>3. /\ Taken(batches', t, Len(batches) + 1)
        /\ \A j \in DOMAIN batches : Refused(batches', t, j)
    BY <1>4, <1>6, <1>8, <1>11, <2>1 DEF Taken, Refused, Opened
  <2>4. InPlace(batches')
    BY <2>1, <2>2, <2>3 DEF InPlace
  <2> QED
    BY <1>3, <1>10, <2>4 DEF Placing, InPlace, Taken, Refused
<1>12. ASSUME NEW i \in DOMAIN batches, Extended(p, n, t, batches, batches', i)
       PROVE  Placing'
  <2>1. /\ DOMAIN batches' = DOMAIN batches
        /\ \A k \in DOMAIN batches :
             batches'[k] = IF k = i THEN batches[i] \cup {t} ELSE batches[k]
        /\ DOMAIN batches \subseteq Nat
    BY <1>2, <1>12 DEF Extended
  <2>2. \A k, j \in DOMAIN batches : \A u \in batches[k] : Met(p, u, batches'[j]) = Met(p, u, batches[j])
    BY <1>7, <2>1
  <2>3. ASSUME NEW k \in DOMAIN batches, NEW u \in batches[k]
        PROVE  Taken(batches', u, k) /\ \A j \in DOMAIN batches' : j < k => Refused(batches', u, j)
    BY <2>1, <2>2 DEF Placing, InPlace, Taken, Refused
  <2>4. Met(p, t, batches'[i]) = batches[i]
    BY <1>2, <1>6, <1>8, <2>1 DEF Met
  <2>5. Taken(batches', t, i)
    BY <1>12, <2>4 DEF Taken, Extended
  <2>6. \A j \in DOMAIN batches' : j < i => Refused(batches', t, j)
    <3>1. \A j \in DOMAIN batches : j < i => batches'[j] = batches[j]
      BY <2>1
    <3> QED
      BY <1>4, <1>6, <1>12, <2>1, <3>1 DEF Refused, Extended
  <2>7. \A k \in DOMAIN batches' : \A u \in batches'[k] : u \in batches[k] \/ (u = t /\ k = i)
    BY <2>1
  <2>8. InPlace(batches')
    BY <2>1, <2>3, <2>5, <2>6, <2>7 DEF InPlace
  <2> QED
    BY <1>3, <1>10, <2>8 DEF Placing, InPlace, Taken, Refused
<1> QED
  BY <1>1, <1>2, <1>11, <1>12, PutCases

LEMMA PlacingNext ==
  TypeOK /\ Selection /\ BatchesOK /\ Placing /\ [Next]_vars => Placing'
<1> SUFFICES ASSUME TypeOK, Selection, BatchesOK, Placing, [Next]_vars PROVE Placing'
  OBVIOUS
<1>1. CASE Inspect \/ Truncate
  <2>1. batches' = <<>>
    BY <1>1 DEF Inspect, Truncate, Selection
  <2> QED
    BY <2>1 DEF Placing, InPlace
<1>2. CASE Place
  BY <1>2, PlaceInPlace DEF BatchesOK
<1>3. CASE Finish \/ UNCHANGED vars
  BY <1>3 DEF Finish, vars, Placing, InPlace, Taken, Refused
<1> QED
  BY <1>1, <1>2, <1>3 DEF Next

\* Listed in plan order and placed by first fit: what the rules say of the whole.
LEMMA WholeAgrees ==
  ASSUME TypeOK, BatchesOK, Listing, Placing
  PROVE  ScheduleAgrees
<1>1. SUFFICES ASSUME phase = "done"
               PROVE  /\ runnable \in Sorted(All, LAMBDA a, b : InOrder(job.plan, a, b))
                      /\ FirstFit(job.plan, job.parallel, All, batches)
  BY DEF ScheduleAgrees, All
<1>2. /\ runnable \in Seq(Task) /\ Ordered(runnable) /\ ToSet(runnable) = All
      /\ job \in Jobs /\ unplaced = {} /\ batches \in Seq(SUBSET Task)
  BY <1>1 DEF TypeOK, Listing, BatchesOK, PlacedOnce
<1>3. runnable \in Sorted(All, LAMBDA a, b : InOrder(job.plan, a, b))
  <2>1. IsInjective(runnable)
    BY <1>2, OrderedLists
  <2>2. ToSet(runnable) = {runnable[k] : k \in 1 .. Len(runnable)}
    BY <1>2 DEF ToSet
  <2>3. Cardinality(All) = Len(runnable)
    BY <1>2, <2>1, <2>2, FirstCount
  <2>4. runnable \in [1 .. Cardinality(All) -> All]
    BY <1>2, <2>3 DEF ToSet
  <2> QED
    BY <1>2, <2>4 DEF Sorted, Ordered
<1>4. FirstFit(job.plan, job.parallel, All, batches)
  <2>1. UNION ToSet(batches) = All
    <3>1. \A t \in All : \E k \in DOMAIN batches : t \in batches[k]
      <4>1. All \subseteq Task
        BY <1>2 DEF ToSet
      <4> QED
        BY <1>1, <1>2, <4>1 DEF BatchesOK, PlacedOnce
    <3>2. \A k \in DOMAIN batches : batches[k] \subseteq All
      BY <1>2 DEF BatchesOK, PlacedOnce
    <3> QED
      BY <3>1, <3>2 DEF ToSet
  <2>2. \A k \in DOMAIN batches : batches[k] # {}
    <3>1. \A k \in DOMAIN batches : Cardinality(batches[k]) # 0
      BY <1>2, JobParts, WidthPositive DEF BatchesOK, SafeBatches
    <3> QED
      BY <3>1, FS_EmptySet
  <2>3. \A j, k \in DOMAIN batches : j # k => batches[j] \cap batches[k] = {}
    BY DEF BatchesOK, PlacedOnce
  <2>4. InPlace(batches)
    BY DEF Placing
  <2> QED
    BY <2>1, <2>2, <2>3, <2>4 DEF FirstFit, InPlace, Taken, Refused
<1> QED
  BY <1>3, <1>4

\* The loops of select_task_candidates and build_batches, run on any plan, produce
\* the schedule that the orchestrator model takes as a whole.
THEOREM LoopsAgree == Spec => []ScheduleAgrees
<1> DEFINE Everything == TypeOK /\ Selection /\ BatchesOK /\ Listing /\ Placing
<1>1. Init => Everything
  <2>1. Init => Placing
    BY DEF Init, Placing, InPlace
  <2> QED
    BY <2>1, TypeInit, SelectionInit, BatchesInit, ListingInit
<1>2. Everything /\ [Next]_vars => Everything'
  BY TypeNext, SelectionNext, BatchesNext, ListingNext, PlacingNext
<1>3. Everything => ScheduleAgrees
  BY WholeAgrees
<1> QED
  BY <1>1, <1>2, <1>3, PTL DEF Spec
=============================================================================
