---------------------------- MODULE ClusterBase ----------------------------
(***************************************************************************)
(* What the master and the tablet servers of one cluster share: the list   *)
(* of servers of one key range, read by both from the same config file,    *)
(* and the UDP commands the master sends to a tablet server.               *)
(***************************************************************************)
EXTENDS Naturals, Sequences, FiniteSets

CONSTANTS
    Cluster,    \* the servers of one range, in the order of the config file
    None        \* an unset Server: its literal is the empty string

Server == {Cluster[i] : i \in DOMAIN Cluster}

ASSUME ClusterAssumption ==
    /\ Cluster \in Seq(Server)
    /\ Len(Cluster) > 0
    /\ \A i, j \in DOMAIN Cluster : Cluster[i] = Cluster[j] => i = j
    /\ None \notin Server

\* "elect <server>", "crashed <server>", "restarted <server>"
Command == [type : {"elect"}, server : Server \cup {None}]
             \cup [type : {"crashed", "restarted"}, server : Server]

Elect(s)     == [type |-> "elect",     server |-> s]
Crashed(s)   == [type |-> "crashed",   server |-> s]
Restarted(s) == [type |-> "restarted", server |-> s]

=============================================================================
