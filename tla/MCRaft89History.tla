-------------------------- MODULE MCRaft89History --------------------------
(***************************************************************************)
(* Instances of the cluster that carries its past along, for TLC.          *)
(***************************************************************************)
EXTENDS MCRaft89, Raft89Past
============================================================================
