---------------------------- MODULE MCAppService ----------------------------
(* A small instance of AppService for TLC: one client. *)
EXTENDS AppService

MCPosts == <<0, 10>>
=============================================================================
