----------------------------- MODULE Election -----------------------------
(***************************************************************************)
(* What the master promises about the primary of a range: there is one or  *)
(* none, it changes only by being lost first, and while there is none any  *)
(* server may be elected.                                                  *)
(***************************************************************************)
EXTENDS ClusterBase

VARIABLE primary

Init == primary = Cluster[1]

Lose == primary # None /\ primary' = None

Win(s) == primary = None /\ primary' = s

Next == Lose \/ \E s \in Server : Win(s)

Spec == Init /\ [][Next]_primary

=============================================================================
