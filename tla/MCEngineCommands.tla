-------------------------- MODULE MCEngineCommands --------------------------
(***************************************************************************)
(* Three application threads against the network thread.  Commands repeat  *)
(* without bound: the state space is finite as it stands.                  *)
(***************************************************************************)
EXTENDS EngineCommands
=============================================================================
