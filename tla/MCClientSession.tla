-------------------------- MODULE MCClientSession --------------------------
(* Instances of ClientSession for TLC. *)
EXTENDS ClientSession, TLC

MCSymmetry == Permutations(Client) \cup Permutations(Peer) \cup Permutations(Key) \cup Permutations(Blob)

=============================================================================
