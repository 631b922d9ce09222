----------------------------- MODULE MCCluster -----------------------------
(* Values of the constants of Cluster for TLC. *)
EXTENDS Cluster, TLC

CONSTANTS s1, s2, s3
CONSTANTS MaxCrash, MaxSuspect, MaxSpawn, MaxExec, MaxDrop

MCCluster3 == <<s1, s2, s3>>

MCBudget ==
    "crash" :> MaxCrash @@ "suspect" :> MaxSuspect @@ "spawn" :> MaxSpawn
      @@ "exec" :> MaxExec @@ "drop" :> MaxDrop

=============================================================================
