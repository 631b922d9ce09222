-------------------------- MODULE MCReplication --------------------------
(* Instances of Replication for TLC: a primary and up to two backups. *)
EXTENDS Replication, TLC

\* Two values of one length.
MCSizeOf == [v \in Val |-> 1]

MCSymmetry == Permutations(Backup) \cup Permutations(Write) \cup Permutations(Val)

=============================================================================
