----------------------------- MODULE MCForgeRun -----------------------------
(***************************************************************************)
(* The instance of ForgeRun that TLC checks: two terminals, two tasks of   *)
(* which the second needs the first.                                       *)
(***************************************************************************)
EXTENDS ForgeRun, TLC

SecondNeedsFirst == 1 :> {} @@ 2 :> {1}
AllCommands == {"run", "exec", "resume", "reapprove", "edit"}
OnlyCrashes == {"crash"}
=============================================================================
