----------------------------- MODULE MCTablet -----------------------------
(* Values of the constants of Tablet for TLC. *)
EXTENDS Tablet, TLC

CONSTANTS k1, b1, b2, h1, h2, w1, w2

MCKeys1    == {k1}
MCBlobs2   == {b1, b2}
MCBlobs1   == {b1}
MCHashes   == {h1, h2}
MCHash1    == {h1}
MCWriters  == {w1, w2}
MCWriter1  == {w1}
MCZero     == {0}
MCGarbage  == {-1, 0, 2}

\* Writers, hashes and blobs are interchangeable.
MCSymmetry == Permutations(MCWriters) \cup Permutations(MCHashes) \cup Permutations(MCBlobs2)

=============================================================================
