------------------------------ MODULE MCStartup ------------------------------
(***************************************************************************)
(* Startup over three runs: one that leaves a post behind, one that uses   *)
(* it, and one that starts clean after it.                                 *)
(***************************************************************************)
EXTENDS Startup
=============================================================================
