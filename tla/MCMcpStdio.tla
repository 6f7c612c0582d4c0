----------------------------- MODULE MCMcpStdio -----------------------------
(***************************************************************************)
(* The instance of McpStdio that TLC checks.                               *)
(***************************************************************************)
EXTENDS McpStdio

AnyConduct == AllConduct
=============================================================================
