--------------------------- MODULE MCWorkerGroup ----------------------------
(***************************************************************************)
(* Model checking WorkerGroup with its Workers.                            *)
(***************************************************************************)
EXTENDS WorkerGroup
=============================================================================
