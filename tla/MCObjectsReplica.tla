-------------------------- MODULE MCObjectsReplica --------------------------
(***************************************************************************)
(* Instances of ObjectsReplica for TLC.                                    *)
(***************************************************************************)
EXTENDS ObjectsReplica, TLC

\* What the server tells its hub.
Messages == Server!ObjectMessage \cup Server!TypeMessage

\* For safety alone; the run of the liveness property has no symmetry.
Interchangeable == Permutations(Objects) \cup Permutations(Connections)

=============================================================================
