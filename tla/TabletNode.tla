---------------------------- MODULE TabletNode ----------------------------
(***************************************************************************)
(* The part of a tablet server that follows the master's commands          *)
(* (tablet_internal.cc, ServerConfig.h, the start-up of tablet_server.cc). *)
(* The commands arrive on one UDP socket per server and are handled one at *)
(* a time by one thread, foofunc.                                          *)
(***************************************************************************)
EXTENDS ClusterBase

VARIABLES
    up,             \* up[s]: a process is bound to the address of s
    myCluster,      \* ServerConfig::myCluster, a vector without duplicates
    myPrimary,      \* ServerConfig::myPrimary
    snapThreads,    \* number of snapshotFunc threads of the process
    inbox           \* inbox[s]: the datagrams in the socket buffer of s

tabletVars == <<up, myCluster, myPrimary, snapThreads, inbox>>

TabletTypeOK ==
    /\ up \in [Server -> BOOLEAN]
    /\ myCluster \in [Server -> SUBSET Server]
    /\ myPrimary \in [Server -> Server]
    /\ snapThreads \in [Server -> Nat]
    /\ inbox \in [Server -> Seq(Command)]

\* parseServerConfig: the whole cluster, and its first server as the primary.
TabletInit ==
    /\ up = [s \in Server |-> TRUE]
    /\ myCluster = [s \in Server |-> Server]
    /\ myPrimary = [s \in Server |-> Cluster[1]]
    /\ snapThreads = [s \in Server |-> IF s = Cluster[1] THEN 1 ELSE 0]
    /\ inbox = [s \in Server |-> <<>>]

\* sendto: a datagram for an address nobody is bound to is lost.
Post(dest, msgs) ==
    inbox' = [inbox EXCEPT ![dest] = IF up[dest] THEN @ \o msgs ELSE @]

-----------------------------------------------------------------------------
(* One operator per command: what it does to the process of s.             *)

Received(s) ==
    /\ up[s]
    /\ inbox[s] # <<>>
    /\ inbox' = [inbox EXCEPT ![s] = Tail(@)]

\* Mutant of HandleElect: "elect " is taken for an election of nobody.
HandleElect_Untrimmed(s) ==
    /\ Received(s)
    /\ Head(inbox[s]).type = "elect"
    /\ myPrimary' = [myPrimary EXCEPT ![s] = Head(inbox[s]).server]
    /\ snapThreads' = [snapThreads EXCEPT ![s] = IF myPrimary'[s] = s THEN @ + 1 ELSE @]
    /\ UNCHANGED <<up, myCluster>>

\* handleElect.  "elect " with an empty name is trimmed to "elect", which is
\* no command.  Told to be the primary, a server starts one more snapshotFunc.
HandleElect(s) ==
    /\ Received(s)
    /\ Head(inbox[s]).type = "elect"
    /\ LET p == Head(inbox[s]).server IN
         \/ /\ p = None
            /\ UNCHANGED <<myPrimary, snapThreads>>
         \/ /\ p # None
            /\ myPrimary' = [myPrimary EXCEPT ![s] = p]
            /\ snapThreads' = [snapThreads EXCEPT ![s] = IF p = s THEN @ + 1 ELSE @]
    /\ UNCHANGED <<up, myCluster>>

removeFromMyCluster(s, t) == myCluster' = [myCluster EXCEPT ![s] = @ \ {t}]
addToMyCluster(s, t) == myCluster' = [myCluster EXCEPT ![s] = @ \cup {t}]

\* handleCrashed
HandleCrashed(s) ==
    /\ Received(s)
    /\ Head(inbox[s]).type = "crashed"
    /\ removeFromMyCluster(s, Head(inbox[s]).server)
    /\ UNCHANGED <<up, myPrimary, snapThreads>>

\* Mutant of HandleRestarted: the restarted server is not taken back.
HandleRestarted_Forgotten(s) ==
    /\ Received(s)
    /\ Head(inbox[s]).type = "restarted"
    /\ UNCHANGED <<up, myCluster, myPrimary, snapThreads>>

\* handleRestarted
HandleRestarted(s) ==
    /\ Received(s)
    /\ Head(inbox[s]).type = "restarted"
    /\ addToMyCluster(s, Head(inbox[s]).server)
    /\ UNCHANGED <<up, myPrimary, snapThreads>>

Foofunc(s) == HandleElect(s) \/ HandleCrashed(s) \/ HandleRestarted(s)

\* A new process starts from the config file; it knows nothing of what the
\* cluster went through, and has the one snapshotFunc of main() when the file
\* names it first.  (Its data is the subject of module Tablet.)
Boot(s) ==
    /\ up' = [up EXCEPT ![s] = TRUE]
    /\ myCluster' = [myCluster EXCEPT ![s] = Server]
    /\ myPrimary' = [myPrimary EXCEPT ![s] = Cluster[1]]
    /\ snapThreads' = [snapThreads EXCEPT ![s] = IF s = Cluster[1] THEN 1 ELSE 0]
    /\ inbox' = [inbox EXCEPT ![s] = <<>>]

\* The process dies; its socket buffer and threads go with it.
Die(s) ==
    /\ up[s]
    /\ up' = [up EXCEPT ![s] = FALSE]
    /\ snapThreads' = [snapThreads EXCEPT ![s] = 0]
    /\ inbox' = [inbox EXCEPT ![s] = <<>>]
    /\ UNCHANGED <<myCluster, myPrimary>>

=============================================================================
