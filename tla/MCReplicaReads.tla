--------------------------- MODULE MCReplicaReads ---------------------------
(***************************************************************************)
(* Instances of ReplicaReads for TLC.  The subjects have index slots of    *)
(* their own, as private addresses have.                                   *)
(***************************************************************************)
EXTENDS ReplicaReads

CONSTANTS s1, s2, p1

Slots == [s \in Subject |-> s]
=============================================================================
