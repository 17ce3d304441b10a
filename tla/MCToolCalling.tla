---------------------------- MODULE MCToolCalling ----------------------------
(***************************************************************************)
(* The limits of the code with two distinct queries, with the policy's own *)
(* budget unset and below the limit of the loop.                           *)
(***************************************************************************)
EXTENDS ToolCalling

=============================================================================
