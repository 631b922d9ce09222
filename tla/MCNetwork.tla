----------------------------- MODULE MCNetwork -----------------------------
(***************************************************************************)
(* Network for TLC: two ranges that share a row, one server each.          *)
(***************************************************************************)
EXTENDS Network

CONSTANTS t1, t2, c1, c2, c3, f1, f2, console

MCClusters == (<<1, 3>> :> <<t1>>) @@ (<<3, 4>> :> <<t2>>)

\* A row of both ranges, one of the first range, and one of none.
MCRow == (c1 :> 3) @@ (c2 :> 2) @@ (c3 :> 5)
MCTask == (c1 :> <<"put", "bytes", "quit">>) @@ (c2 :> <<"quit">>) @@ (c3 :> <<"get">>)
MCTable == <<"servers", "clusters">>
MCCopy == (f1 :> "frontend") @@ (f2 :> "storage")

MCParties == {{t1, c1}, {t1, c2}, {c1, c2}, {c1, c3, console}, {f1}, {f2}, {f1, f2}}

=============================================================================
