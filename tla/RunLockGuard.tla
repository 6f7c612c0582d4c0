---------------------------- MODULE RunLockGuard ----------------------------
(***************************************************************************)
(* The run lock implements the guard: what RunLock does with two files and *)
(* a heartbeat is, to those who use it, what module Guard says in a line.  *)
(***************************************************************************)
EXTENDS RunLock

\* The process whose acquire_run_mutation_guard has returned and that has not
\* begun to release.
Holder ==
    IF \E p \in Proc : At(p, "hold") THEN CHOOSE p \in Proc : At(p, "hold") ELSE None

G == INSTANCE Guard WITH holder <- Holder

\* The guard is handed on only through a state in which nobody has it: a second
\* process neither joins the holder nor takes its place in one step.
ImplementsGuard == G!GuardSpec
=============================================================================
