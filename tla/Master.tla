------------------------------ MODULE Master ------------------------------
(***************************************************************************)
(* The failure detector of the master (master_thread.cc, MasterConfig.cc,  *)
(* ServerInfo of base_structs.h).  One detached thread per tablet server   *)
(* pings it; when it stops answering the same thread elects a new primary, *)
(* tells the peers, restarts the process and starts a successor thread.    *)
(* The threads share the ServerInfo table and take no lock, so every read  *)
(* and write of it another thread can interleave with is a step here.      *)
(*                                                                         *)
(* "thread s" is the thread that pings s.  After a restart two threads     *)
(* work for s: the successor, whose control point is pc[s], and the old    *)
(* one, which is in notifyServerRestart at peer notify[s].                 *)
(***************************************************************************)
EXTENDS TabletNode

VARIABLES
    alive, sock, isPrimary,   \* ServerInfo: alive, sockfd > 0, isPrimary
    pc,                       \* control point of thread s
    idx,                      \* its loop index over the peers
    primaryDied, newPrimary,  \* its locals in handleServerCrash
    notify                    \* loop index of notifyServerRestart, 0 when idle

masterVars == <<alive, sock, isPrimary, pc, idx, primaryDied, newPrimary, notify>>

Pc == {"start", "ping", "lost", "dead", "scan", "promote", "send",
       "restart", "wait", "stopped"}

MasterTypeOK ==
    /\ alive \in [Server -> BOOLEAN]
    /\ sock \in [Server -> BOOLEAN]
    /\ isPrimary \in [Server -> BOOLEAN]
    /\ pc \in [Server -> Pc]
    /\ idx \in [Server -> 1..(Len(Cluster) + 1)]
    /\ primaryDied \in [Server -> BOOLEAN]
    /\ newPrimary \in [Server -> Server \cup {None}]
    /\ notify \in [Server -> 0..Len(Cluster)]

\* parseMasterConfig, and main() 3 seconds after it created the threads: each
\* has published its socket and is pinging.
MasterInit ==
    /\ alive = [s \in Server |-> TRUE]
    /\ sock = [s \in Server |-> TRUE]
    /\ isPrimary = [s \in Server |-> s = Cluster[1]]
    /\ pc = [s \in Server |-> "ping"]
    /\ idx = [s \in Server |-> 1]
    /\ primaryDied = [s \in Server |-> FALSE]
    /\ newPrimary = [s \in Server |-> None]
    /\ notify = [s \in Server |-> 0]

IsHealthy(s) == alive[s] /\ sock[s]
IsHealthyBackup(s) == IsHealthy(s) /\ ~isPrimary[s]

\* getPrimaryForRange: the first one flagged, or an empty Server.
FirstFlagged(flag) ==
    LET first == {i \in DOMAIN Cluster :
                    /\ flag[Cluster[i]]
                    /\ \A j \in 1..(i - 1) : ~flag[Cluster[j]]}
    IN  IF first = {} THEN None ELSE Cluster[CHOOSE i \in first : TRUE]

PrimaryForRange == FirstFlagged(isPrimary)

Goto(s, from, to) == pc[s] = from /\ pc' = [pc EXCEPT ![s] = to]

-----------------------------------------------------------------------------
\* serverFunc: sockfd is published before, and whether or not, connect succeeds.
SetSock(s) ==
    /\ Goto(s, "start", "ping")
    /\ sock' = [sock EXCEPT ![s] = TRUE]
    /\ UNCHANGED <<tabletVars, alive, isPrimary, idx, primaryDied, newPrimary, notify>>

\* "pong" in time (or any other answer): the ping loop goes on after 10 seconds.
Ping(s) == pc[s] = "ping" /\ up[s] /\ UNCHANGED <<tabletVars, masterVars>>

\* No "pong" within 5 seconds: the ping loop ends.
LoseServer(s) ==
    /\ Goto(s, "ping", "lost")
    /\ UNCHANGED <<tabletVars, alive, sock, isPrimary, idx, primaryDied, newPrimary, notify>>

\* handleServerCrash, its first two assignments.
MarkDead(s) ==
    /\ Goto(s, "lost", "dead")
    /\ alive' = [alive EXCEPT ![s] = FALSE]
    /\ sock' = [sock EXCEPT ![s] = FALSE]
    /\ UNCHANGED <<tabletVars, isPrimary, idx, primaryDied, newPrimary, notify>>

\* Mutant of TakeFlag: the flag of the dead primary is left set.
TakeFlag_Kept(s) ==
    /\ Goto(s, "dead", IF isPrimary[s] THEN "scan" ELSE "send")
    /\ primaryDied' = [primaryDied EXCEPT ![s] = isPrimary[s]]
    /\ UNCHANGED <<tabletVars, alive, sock, isPrimary, idx, newPrimary, notify>>

\* Mutant of TakeFlag: a new primary is elected whoever died.
TakeFlag_Always(s) ==
    /\ Goto(s, "dead", "scan")
    /\ primaryDied' = [primaryDied EXCEPT ![s] = TRUE]
    /\ isPrimary' = [isPrimary EXCEPT ![s] = FALSE]
    /\ UNCHANGED <<tabletVars, alive, sock, idx, newPrimary, notify>>

\* primaryDied = crashed.isPrimary; the flag is cleared before the election.
TakeFlag(s) ==
    /\ Goto(s, "dead", IF isPrimary[s] THEN "scan" ELSE "send")
    /\ primaryDied' = [primaryDied EXCEPT ![s] = isPrimary[s]]
    /\ isPrimary' = [isPrimary EXCEPT ![s] = FALSE]
    /\ UNCHANGED <<tabletVars, alive, sock, idx, newPrimary, notify>>

\* One iteration of the election loop: the check of peer idx[s].
ScanPeer(s) ==
    /\ pc[s] = "scan"
    /\ idx[s] <= Len(Cluster)
    /\ LET peer == Cluster[idx[s]] IN
         \/ /\ IsHealthyBackup(peer)
            /\ newPrimary' = [newPrimary EXCEPT ![s] = peer]
            /\ pc' = [pc EXCEPT ![s] = "promote"]
            /\ UNCHANGED idx
         \/ /\ ~IsHealthyBackup(peer)
            /\ idx' = [idx EXCEPT ![s] = @ + 1]
            /\ UNCHANGED <<newPrimary, pc>>
    /\ UNCHANGED <<tabletVars, alive, sock, isPrimary, primaryDied, notify>>

\* The loop found nobody: newPrimary stays an empty Server.
ScanEnd(s) ==
    /\ idx[s] > Len(Cluster)
    /\ Goto(s, "scan", "send")
    /\ idx' = [idx EXCEPT ![s] = 1]
    /\ UNCHANGED <<tabletVars, alive, sock, isPrimary, primaryDied, newPrimary, notify>>

\* peer->isPrimary = true, some time after the check.
Promote(s) ==
    /\ Goto(s, "promote", "send")
    /\ isPrimary' = [isPrimary EXCEPT ![newPrimary[s]] = TRUE]
    /\ idx' = [idx EXCEPT ![s] = 1]
    /\ UNCHANGED <<tabletVars, alive, sock, primaryDied, newPrimary, notify>>

\* Mutant of SendCrashed: every peer is told, the crashed server too.
SendCrashed_All(s) ==
    /\ pc[s] = "send"
    /\ idx[s] <= Len(Cluster)
    /\ Post(Cluster[idx[s]], IF primaryDied[s] THEN <<Crashed(s), Elect(newPrimary[s])>>
                                               ELSE <<Crashed(s)>>)
    /\ idx' = [idx EXCEPT ![s] = @ + 1]
    /\ UNCHANGED <<up, myCluster, myPrimary, snapThreads,
                   alive, sock, isPrimary, pc, primaryDied, newPrimary, notify>>

\* One iteration of the loop that tells the healthy peers.
SendCrashed(s) ==
    /\ pc[s] = "send"
    /\ idx[s] <= Len(Cluster)
    /\ LET peer == Cluster[idx[s]] IN
         IF IsHealthy(peer)
         THEN Post(peer, IF primaryDied[s] THEN <<Crashed(s), Elect(newPrimary[s])>>
                                           ELSE <<Crashed(s)>>)
         ELSE UNCHANGED inbox
    /\ idx' = [idx EXCEPT ![s] = @ + 1]
    /\ UNCHANGED <<up, myCluster, myPrimary, snapThreads,
                   alive, sock, isPrimary, pc, primaryDied, newPrimary, notify>>

\* The loop is over, the locals are gone; the thread sleeps for 28 seconds.
SendEnd(s) ==
    /\ idx[s] > Len(Cluster)
    /\ Goto(s, "send", "restart")
    /\ idx' = [idx EXCEPT ![s] = 1]
    /\ primaryDied' = [primaryDied EXCEPT ![s] = FALSE]
    /\ newPrimary' = [newPrimary EXCEPT ![s] = None]
    /\ UNCHANGED <<tabletVars, alive, sock, isPrimary, notify>>

-----------------------------------------------------------------------------
(* restartCrashedServer.  The previous notifyServerRestart for s, which     *)
(* does not block, was left at least 28 + 15 seconds ago: notify[s] = 0.    *)

\* The child binds the address and runs.
Spawn(s) ==
    /\ notify[s] = 0
    /\ ~up[s]
    /\ Goto(s, "restart", "wait")
    /\ Boot(s)
    /\ UNCHANGED <<alive, sock, isPrimary, idx, primaryDied, newPrimary, notify>>

\* fork fails, the child dies early, or the address is still in use: the
\* master goes on as if it had started one.
SpawnNothing(s) ==
    /\ notify[s] = 0
    /\ Goto(s, "restart", "wait")
    /\ UNCHANGED <<tabletVars, alive, sock, isPrimary, idx, primaryDied, newPrimary, notify>>

\* pipe or execv fails: no successor thread, but serverFunc ignores the
\* return value and calls notifyServerRestart.
ExecFails(s) ==
    /\ notify[s] = 0
    /\ Goto(s, "restart", "stopped")
    /\ notify' = [notify EXCEPT ![s] = 1]
    /\ UNCHANGED <<tabletVars, alive, sock, isPrimary, idx, primaryDied, newPrimary>>

\* Mutant of Revive: the restarted server gets no thread of its own.
Revive_NoThread(s) ==
    /\ Goto(s, "wait", "stopped")
    /\ alive' = [alive EXCEPT ![s] = TRUE]
    /\ notify' = [notify EXCEPT ![s] = 1]
    /\ UNCHANGED <<tabletVars, sock, isPrimary, idx, primaryDied, newPrimary>>

\* 15 seconds later: crashed.alive = true, a successor, and the notifications.
Revive(s) ==
    /\ Goto(s, "wait", "start")
    /\ alive' = [alive EXCEPT ![s] = TRUE]
    /\ notify' = [notify EXCEPT ![s] = 1]
    /\ UNCHANGED <<tabletVars, sock, isPrimary, idx, primaryDied, newPrimary>>

\* Mutant of NotifyRestart: the restarted server is not told the primary.
NotifyRestart_NoElect(s) ==
    /\ notify[s] \in 1..Len(Cluster)
    /\ LET peer == Cluster[notify[s]] IN
         IF peer # s /\ IsHealthy(peer) THEN Post(peer, <<Restarted(s)>>)
                                       ELSE UNCHANGED inbox
    /\ notify' = [notify EXCEPT ![s] = IF @ = Len(Cluster) THEN 0 ELSE @ + 1]
    /\ UNCHANGED <<up, myCluster, myPrimary, snapThreads,
                   alive, sock, isPrimary, pc, idx, primaryDied, newPrimary>>

\* One iteration of notifyServerRestart.
NotifyRestart(s) ==
    /\ notify[s] \in 1..Len(Cluster)
    /\ LET peer == Cluster[notify[s]] IN
         CASE peer = s                        -> Post(s, <<Elect(PrimaryForRange)>>)
           [] peer # s /\ IsHealthy(peer)     -> Post(peer, <<Restarted(s)>>)
           [] peer # s /\ ~IsHealthy(peer)    -> UNCHANGED inbox
    /\ notify' = [notify EXCEPT ![s] = IF @ = Len(Cluster) THEN 0 ELSE @ + 1]
    /\ UNCHANGED <<up, myCluster, myPrimary, snapThreads,
                   alive, sock, isPrimary, pc, idx, primaryDied, newPrimary>>

\* What thread s does of its own accord while nothing more goes wrong.
Thread(s) ==
    \/ SetSock(s) \/ Ping(s) \/ MarkDead(s) \/ TakeFlag(s)
    \/ ScanPeer(s) \/ ScanEnd(s) \/ Promote(s)
    \/ SendCrashed(s) \/ SendEnd(s)
    \/ Spawn(s) \/ Revive(s) \/ NotifyRestart(s)

=============================================================================
