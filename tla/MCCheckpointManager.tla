------------------------ MODULE MCCheckpointManager ------------------------
(***************************************************************************)
(* Small instances of CheckpointManager.  The re-order buffer holds four   *)
(* groups in the code; two already give every order of enqueueing, serving *)
(* and retiring between a group and a younger one, under branch misses and *)
(* lost pulses, and three add the group between them where that is cheap.  *)
(***************************************************************************)
EXTENDS CheckpointManager
=============================================================================
