---------------------------- MODULE MCPolicyStore ----------------------------
(***************************************************************************)
(* Two updates and a read in the server, so that one update can be         *)
(* answered or in the file system while the other waits, and an update by  *)
(* a command beside it.                                                    *)
(***************************************************************************)
EXTENDS PolicyStore, TLC

CONSTANTS server, command, u1, u2, u3, r1

MCHome == (u1 :> server) @@ (u2 :> server) @@ (u3 :> command) @@ (r1 :> server)

=============================================================================
