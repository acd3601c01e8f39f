---------------------------- MODULE MCWorkerPool ----------------------------
(* Model of the worker pool for TLC; the constants come from the cfg.      *)
EXTENDS WorkerPoolProps
=============================================================================
