--------------------------- MODULE MCPhotoPipeline ---------------------------
(***************************************************************************)
(* PhotoPipeline with queues of two messages, where every msgsnd can block *)
(* (safety), and with queues that hold all there can be (liveness).        *)
(***************************************************************************)
EXTENDS PhotoPipeline
=============================================================================
