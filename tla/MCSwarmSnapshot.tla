-------------------------- MODULE MCSwarmSnapshot ---------------------------
(* Claims for SwarmSnapshot. *)
EXTENDS SwarmSnapshot, TLC

CONSTANTS t1, t2, f, g

\* Two tasks with nothing in common, and two that are rivals for a file.
ApartAndRivals == {t1 :> {f} @@ t2 :> {g}, t1 :> {f, g} @@ t2 :> {g}}
=============================================================================
