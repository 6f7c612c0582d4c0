------------------------------ MODULE MCSwarm -------------------------------
(* Plans and options for Swarm. *)
EXTENDS SwarmDelivery, TLC

CONSTANTS f, g

\* What depends on whom, and who claims what; tasks left out of ids are not in
\* the plan.
Graph(ids, ds, fs, rs) ==
    [order |-> ids, deps |-> ds, declared |-> ds, files |-> fs, vague |-> {},
     group |-> [t \in Task |-> NoGroup], red |-> rs, impl |-> Task \ rs]

Independent == [t \in Task |-> {}]
On1 == [t \in Task |-> IF t = 1 THEN {} ELSE {1}]
Apart == [t \in Task |-> IF t = 1 THEN {f} ELSE {g}]

\* 2 depends on 1.
Chain == Graph(<<1, 2>>, [Independent EXCEPT ![2] = {1}], Apart, {})

\* 1 and 2 may run side by side.
Pair == Graph(<<2, 1>>, Independent, Apart, {})

\* 1 and 2 claim the same file.
Clash == Graph(<<1, 2>>, Independent, [Apart EXCEPT ![1] = {f, g}], {})

\* 1 is an expected-red test, 2 is its fix.
RedAndFix == Graph(<<1, 2>>, [Independent EXCEPT ![2] = {1}], Apart, {1})

\* 1 is an expected-red test, 2 and 3 claim the same file and fix it together.
RedAndTwoFixes == Graph(<<1, 2, 3>>, On1, Apart, {1})

\* 2 and 3 depend on 1 and claim the same file.
Fork == Graph(<<1, 2, 3>>, On1, Apart, {})

\* sylliptor forge swarm with its defaults.
Default ==
    [retryFailed |-> FALSE, retryChanges |-> FALSE, maxAttempts |-> NoLimit,
     maxTasks |-> NoLimit, only |-> Task, parallel |-> 2, merge |-> "auto",
     gate |-> "warn", keep |-> FALSE, review |-> FALSE, strictVerify |-> FALSE,
     strictRemote |-> FALSE, retryConflicts |-> FALSE, cancellable |-> FALSE]

Gated == [Default EXCEPT !.gate = "strict"]
Retrying == [Default EXCEPT !.retryFailed = TRUE, !.retryChanges = TRUE,
                            !.retryConflicts = TRUE]
Strict == [Default EXCEPT !.gate = "strict", !.strictVerify = TRUE, !.review = TRUE]
Keeping == [Retrying EXCEPT !.keep = TRUE, !.gate = "off"]
HostReview == [Default EXCEPT !.merge = "review", !.strictRemote = TRUE, !.maxTasks = 1]
Cancellable == [Default EXCEPT !.cancellable = TRUE]
OneStrict == [Strict EXCEPT !.only = {2}]

SmallPlans == {Chain, Pair, Clash, RedAndFix}
ForkPlans == {Fork, RedAndTwoFixes}
AllPlans == SmallPlans \cup ForkPlans

\* Bound: plans of three tasks are run with the defaults and the strict gate,
\* plans of two with every option there is.
FewOptions == IF plan \in ForkPlans THEN opt \in {NoRun, Default, Gated} ELSE opt # Gated

LivePlans == {Chain, Clash}
PairOnly == {Pair}

AllOptions == {Default, Gated, Retrying, Strict, Keeping, HostReview, Cancellable, OneStrict}
LiveOptions == {Retrying, Strict}
CancelOptions == {Cancellable}
=============================================================================
