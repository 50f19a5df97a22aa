--------------------------- MODULE MCCommandStream ---------------------------
(***************************************************************************)
(* CommandStream with two length bytes, commands of one and three bytes    *)
(* and echoes of two: enough for a length or a command in two portions, a  *)
(* portion that ends one command and begins the next, and left-over bytes. *)
(***************************************************************************)
EXTENDS CommandStream
=============================================================================
