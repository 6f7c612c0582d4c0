------------------------------- MODULE Guard -------------------------------
(***************************************************************************)
(* What the mutation guard promises those who use it: at most one of them  *)
(* has it, and it comes free when its holder releases it or dies.           *)
(* RunLock shows how two files keep this promise (RunLockGuard proves that *)
(* they do); ForgeRun builds on it.                                        *)
(***************************************************************************)
CONSTANTS
    Proc,   \* those who ask for the guard
    None    \* nobody

ASSUME GuardAssumption == None \notin Proc

VARIABLE holder

GuardInit == holder = None

\* acquire_run_mutation_guard returns.
Take(p) == holder = None /\ holder' = p

\* release(), or the death of the holder.
Give(p) == holder = p /\ holder' = None

GuardNext == \E p \in Proc : Take(p) \/ Give(p)

GuardSpec == GuardInit /\ [][GuardNext]_holder
=============================================================================
