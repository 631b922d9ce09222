--------------------------- MODULE ClusterProofs ---------------------------
(***************************************************************************)
(* Theorems about Cluster, for any number of servers and any budget of     *)
(* faults of every kind, overlapping or not.                               *)
(***************************************************************************)
EXTENDS Cluster, SequenceTheorems, TLAPS

-----------------------------------------------------------------------------
(* The inductive invariant.                                                *)

\* A thread between clearing the flag of its server and giving it to another.
Electing(s) == pc[s] \in {"scan", "promote"}

\* The right to be primary is a token: a flag or an election, never both.
Token ==
    /\ \A s, t \in Server : isPrimary[s] /\ isPrimary[t] => s = t
    /\ \A s, t \in Server : Electing(s) /\ Electing(t) => s = t
    /\ \A s, t \in Server : ~(isPrimary[s] /\ Electing(t))
    /\ \A s \in Server : pc[s] = "promote" => newPrimary[s] \in Server

\* A server under recovery is not healthy, hence it is not told of its own crash.
DeadWhileRecovering ==
    \A s \in Server :
        pc[s] \in {"dead", "scan", "promote", "send", "restart", "wait"} => ~alive[s]

NotToldOfOwnCrash ==
    \A s \in Server : \A i \in DOMAIN inbox[s] : inbox[s][i] # Crashed(s)

-----------------------------------------------------------------------------
(* What the operators on the inbox do.                                     *)

LEMMA ServerFacts ==
    /\ Len(Cluster) \in Nat
    /\ Len(Cluster) > 0
    /\ DOMAIN Cluster = 1..Len(Cluster)
    /\ \A i \in 1..Len(Cluster) : Cluster[i] \in Server
    /\ Cluster[1] \in Server
    /\ None \notin Server
  BY ClusterAssumption DEF Server

\* A message sent is at the end of an inbox, if anywhere.
LEMMA PostContents ==
    ASSUME inbox \in [Server -> Seq(Command)],
           NEW d \in Server, NEW msgs \in Seq(Command), Post(d, msgs)
    PROVE  /\ inbox' \in [Server -> Seq(Command)]
           /\ \A s \in Server : s # d => inbox'[s] = inbox[s]
           /\ \A i \in DOMAIN inbox'[d] :
                 \/ \E j \in DOMAIN inbox[d] : inbox'[d][i] = inbox[d][j]
                 \/ \E j \in DOMAIN msgs : inbox'[d][i] = msgs[j]
  <1>1. inbox[d] \in Seq(Command)
    OBVIOUS
  <1>2. CASE up[d]
    <2>1. inbox' = [inbox EXCEPT ![d] = inbox[d] \o msgs]
      BY <1>2 DEF Post
    <2>2. /\ inbox[d] \o msgs \in Seq(Command)
          /\ Len(inbox[d] \o msgs) = Len(inbox[d]) + Len(msgs)
          /\ \A i \in 1..(Len(inbox[d]) + Len(msgs)) :
                (inbox[d] \o msgs)[i] = IF i <= Len(inbox[d]) THEN inbox[d][i]
                                                              ELSE msgs[i - Len(inbox[d])]
      BY <1>1, ConcatProperties
    <2>3. inbox'[d] = inbox[d] \o msgs
      BY <2>1
    <2>4. ASSUME NEW i \in DOMAIN inbox'[d]
          PROVE  \/ \E j \in DOMAIN inbox[d] : inbox'[d][i] = inbox[d][j]
                 \/ \E j \in DOMAIN msgs : inbox'[d][i] = msgs[j]
      <3>1. /\ i \in 1..(Len(inbox[d]) + Len(msgs))
            /\ Len(inbox[d]) \in Nat /\ Len(msgs) \in Nat
            /\ DOMAIN inbox[d] = 1..Len(inbox[d]) /\ DOMAIN msgs = 1..Len(msgs)
        BY <1>1, <2>2, <2>3
      <3>2. CASE i <= Len(inbox[d])
        BY <3>1, <3>2, <2>2, <2>3
      <3>3. CASE ~(i <= Len(inbox[d]))
        <4>1. i - Len(inbox[d]) \in DOMAIN msgs
          BY <3>1, <3>3
        <4>2. QED
          BY <3>1, <3>3, <4>1, <2>2, <2>3
      <3>4. QED
        BY <3>2, <3>3
    <2>5. QED
      BY <2>1, <2>2, <2>4
  <1>3. CASE ~up[d]
    BY <1>3 DEF Post
  <1>4. QED
    BY <1>2, <1>3

\* Taking the first message off leaves the rest.
LEMMA TailContents ==
    ASSUME inbox \in [Server -> Seq(Command)],
           NEW d \in Server, inbox[d] # <<>>,
           inbox' = [inbox EXCEPT ![d] = Tail(@)]
    PROVE  /\ inbox' \in [Server -> Seq(Command)]
           /\ Head(inbox[d]) \in Command
           /\ Head(inbox[d]) = inbox[d][1] /\ 1 \in DOMAIN inbox[d]
           /\ \A s \in Server : s # d => inbox'[s] = inbox[s]
           /\ \A i \in DOMAIN inbox'[d] :
                 \E j \in DOMAIN inbox[d] : inbox'[d][i] = inbox[d][j]
  <1>1. /\ inbox[d] \in Seq(Command)
        /\ Len(inbox[d]) \in Nat /\ Len(inbox[d]) > 0
        /\ Tail(inbox[d]) \in Seq(Command)
        /\ Head(inbox[d]) \in Command
        /\ Head(inbox[d]) = inbox[d][1]
    BY EmptySeq, LenProperties, HeadTailProperties
  <1>2. /\ Len(Tail(inbox[d])) = Len(inbox[d]) - 1
        /\ \A i \in 1..Len(Tail(inbox[d])) : Tail(inbox[d])[i] = inbox[d][i + 1]
    BY <1>1, HeadTailProperties
  <1>3. inbox'[d] = Tail(inbox[d])
    OBVIOUS
  <1>4. ASSUME NEW i \in DOMAIN inbox'[d]
        PROVE  \E j \in DOMAIN inbox[d] : inbox'[d][i] = inbox[d][j]
    <2>1. i \in 1..Len(Tail(inbox[d])) /\ i + 1 \in DOMAIN inbox[d]
      BY <1>1, <1>2, <1>3
    <2>2. QED
      BY <1>2, <1>3, <2>1
  <1>5. QED
    BY <1>1, <1>3, <1>4

-----------------------------------------------------------------------------
(* Type correctness.                                                       *)

LEMMA CommandTypes ==
    /\ \A s \in Server \cup {None} : Elect(s) \in Command
    /\ \A s \in Server : Crashed(s) \in Command /\ Restarted(s) \in Command
    /\ PrimaryForRange \in Server \cup {None}
  BY ServerFacts DEF Elect, Crashed, Restarted, Command, PrimaryForRange, FirstFlagged

LEMMA SpendType ==
    ASSUME budget \in [Fault -> Nat], NEW f \in Fault, Spend(f)
    PROVE  budget' \in [Fault -> Nat]
  BY DEF Spend

\* Every step keeps the types.
LEMMA TypeStep == TypeOK /\ [Next]_vars => TypeOK'
  <1> SUFFICES ASSUME TypeOK, [Next]_vars PROVE TypeOK'
    OBVIOUS
  <1> USE DEF TypeOK, TabletTypeOK, MasterTypeOK, Pc, Goto, tabletVars, masterVars
  <1>1. CASE UNCHANGED vars
    BY <1>1 DEF vars
  <1>2. ASSUME NEW s \in Server, Thread(s), UNCHANGED budget
        PROVE  TypeOK'
    <2>1. CASE SetSock(s)
      BY <1>2, <2>1 DEF SetSock
    <2>2. CASE Ping(s)
      BY <1>2, <2>2 DEF Ping
    <2>3. CASE MarkDead(s)
      BY <1>2, <2>3 DEF MarkDead
    <2>4. CASE TakeFlag(s)
      BY <1>2, <2>4 DEF TakeFlag
    <2>5. CASE ScanPeer(s)
      <3>1. Cluster[idx[s]] \in Server
        BY <2>5, ServerFacts DEF ScanPeer
      <3>2. /\ idx' \in [Server -> 1..(Len(Cluster) + 1)]
            /\ newPrimary' \in [Server -> Server \cup {None}]
            /\ pc' \in [Server -> Pc]
        <4>1. CASE IsHealthyBackup(Cluster[idx[s]])
          <5>1. /\ newPrimary' = [newPrimary EXCEPT ![s] = Cluster[idx[s]]]
                /\ pc' = [pc EXCEPT ![s] = "promote"]
                /\ idx' = idx
            BY <2>5, <4>1 DEF ScanPeer
          <5>2. QED
            BY <3>1, <5>1
        <4>2. CASE ~IsHealthyBackup(Cluster[idx[s]])
          <5>1. /\ idx[s] <= Len(Cluster)
                /\ idx' = [idx EXCEPT ![s] = @ + 1]
                /\ newPrimary' = newPrimary
                /\ pc' = pc
            BY <2>5, <4>2 DEF ScanPeer
          <5>2. idx' \in [Server -> 1..(Len(Cluster) + 1)]
            BY <5>1, ServerFacts, SMTT(30)
          <5>3. QED
            BY <5>1, <5>2
        <4>3. QED
          BY <4>1, <4>2
      <3>3. UNCHANGED <<up, myCluster, myPrimary, snapThreads, inbox,
                        alive, sock, isPrimary, primaryDied, notify, budget>>
        BY <1>2, <2>5 DEF ScanPeer
      <3>4. QED
        BY <3>2, <3>3
    <2>6. CASE ScanEnd(s)
      BY <1>2, <2>6, ServerFacts DEF ScanEnd
    <2>7. CASE Promote(s)
      <3>1. /\ isPrimary' \in [Server -> BOOLEAN]
            /\ idx' \in [Server -> 1..(Len(Cluster) + 1)]
            /\ pc' \in [Server -> Pc]
        <4>1. /\ isPrimary' = [isPrimary EXCEPT ![newPrimary[s]] = TRUE]
              /\ idx' = [idx EXCEPT ![s] = 1]
              /\ pc' = [pc EXCEPT ![s] = "send"]
          BY <2>7 DEF Promote
        <4>2. isPrimary' \in [Server -> BOOLEAN]
          BY <4>1
        <4>3. idx' \in [Server -> 1..(Len(Cluster) + 1)]
          BY <4>1, ServerFacts
        <4>4. QED
          BY <4>1, <4>2, <4>3
      <3>2. UNCHANGED <<up, myCluster, myPrimary, snapThreads, inbox,
                        alive, sock, primaryDied, newPrimary, notify, budget>>
        BY <1>2, <2>7 DEF Promote
      <3>3. QED
        BY <3>1, <3>2
    <2>8. CASE SendCrashed(s)
      <3> DEFINE msgs == IF primaryDied[s] THEN <<Crashed(s), Elect(newPrimary[s])>>
                                           ELSE <<Crashed(s)>>
      <3>1. msgs \in Seq(Command) /\ Cluster[idx[s]] \in Server
        BY <2>8, ServerFacts, CommandTypes DEF SendCrashed
      <3>2. inbox' \in [Server -> Seq(Command)]
        BY <2>8, <3>1, PostContents DEF SendCrashed
      <3>3. idx' \in [Server -> 1..(Len(Cluster) + 1)]
        <4>1. idx[s] <= Len(Cluster) /\ idx' = [idx EXCEPT ![s] = @ + 1]
          BY <2>8 DEF SendCrashed
        <4>2. QED
          BY <4>1, ServerFacts, SMTT(30)
      <3>4. QED
        BY <1>2, <2>8, <3>2, <3>3 DEF SendCrashed
    <2>9. CASE SendEnd(s)
      BY <1>2, <2>9, ServerFacts DEF SendEnd
    <2>10. CASE Spawn(s)
      BY <1>2, <2>10, ServerFacts, EmptySeq DEF Spawn, Boot
    <2>11. CASE Revive(s)
      BY <1>2, <2>11, ServerFacts DEF Revive
    <2>12. CASE NotifyRestart(s)
      <3>1. /\ <<Elect(PrimaryForRange)>> \in Seq(Command)
            /\ <<Restarted(s)>> \in Seq(Command)
            /\ Cluster[notify[s]] \in Server
        BY <2>12, ServerFacts, CommandTypes DEF NotifyRestart
      <3>2. inbox' \in [Server -> Seq(Command)]
        BY <2>12, <3>1, PostContents DEF NotifyRestart
      <3>3. notify' \in [Server -> 0..Len(Cluster)]
        BY <2>12, ServerFacts DEF NotifyRestart
      <3>4. QED
        BY <1>2, <2>12, <3>2, <3>3 DEF NotifyRestart
    <2>13. QED
      BY <1>2, <2>1, <2>2, <2>3, <2>4, <2>5, <2>6, <2>7, <2>8, <2>9, <2>10, <2>11, <2>12 DEF Thread
  <1>3. ASSUME NEW s \in Server, Detect(s) \/ Suspect(s)
        PROVE  TypeOK'
    <2>1. LoseServer(s) /\ budget' \in [Fault -> Nat]
      BY <1>3, SpendType DEF Detect, Suspect, Fault
    <2>2. QED
      BY <2>1 DEF LoseServer
  <1>4. ASSUME NEW s \in Server, BindFails(s) \/ SpawnFails(s)
        PROVE  TypeOK'
    <2>1. SpawnNothing(s) /\ budget' \in [Fault -> Nat]
      BY <1>4, SpendType DEF BindFails, SpawnFails, Fault
    <2>2. QED
      BY <2>1 DEF SpawnNothing
  <1>5. ASSUME NEW s \in Server, ExecvFails(s)
        PROVE  TypeOK'
    <2>1. ExecFails(s) /\ budget' \in [Fault -> Nat]
      BY <1>5, SpendType DEF ExecvFails, Fault
    <2>2. QED
      BY <2>1, ServerFacts DEF ExecFails
  <1>6. ASSUME NEW s \in Server, Crash(s)
        PROVE  TypeOK'
    <2>1. Die(s) /\ UNCHANGED masterVars /\ budget' \in [Fault -> Nat]
      BY <1>6, SpendType DEF Crash, Fault
    <2>2. QED
      BY <2>1, EmptySeq DEF Die
  <1>7. ASSUME NEW s \in Server, Drop(s)
        PROVE  TypeOK'
    <2>1. inbox' \in [Server -> Seq(Command)]
      BY <1>7, TailContents DEF Drop
    <2>2. budget' \in [Fault -> Nat]
      BY <1>7, SpendType DEF Drop, Fault
    <2>3. QED
      BY <1>7, <2>1, <2>2 DEF Drop
  <1>8. ASSUME NEW s \in Server, TabletStep(s)
        PROVE  TypeOK'
    <2>1. inbox[s] # <<>> /\ inbox' = [inbox EXCEPT ![s] = Tail(@)]
      BY <1>8 DEF TabletStep, Foofunc, HandleElect, HandleCrashed, HandleRestarted, removeFromMyCluster,
                  addToMyCluster, Received
    <2>2. inbox' \in [Server -> Seq(Command)] /\ Head(inbox[s]) \in Command
      BY <2>1, TailContents
    <2>3. /\ Head(inbox[s]).server \in Server \cup {None}
          /\ Head(inbox[s]).type # "elect" => Head(inbox[s]).server \in Server
      BY <2>2 DEF Command
    <2>4. CASE HandleElect(s)
      <3>1. /\ myPrimary' \in [Server -> Server]
            /\ snapThreads' \in [Server -> Nat]
        <4> DEFINE p == Head(inbox[s]).server
        <4>1. CASE p = None
          BY <2>4, <4>1 DEF HandleElect
        <4>2. CASE p # None
          <5>1. /\ myPrimary' = [myPrimary EXCEPT ![s] = p]
                /\ snapThreads' = [snapThreads EXCEPT ![s] = IF p = s THEN @ + 1 ELSE @]
            BY <2>4, <4>2 DEF HandleElect
          <5>2. p \in Server
            BY <2>3, <4>2
          <5>3. QED
            BY <5>1, <5>2
        <4>3. QED
          BY <4>1, <4>2
      <3>2. QED
        BY <1>8, <2>2, <2>4, <3>1 DEF TabletStep, HandleElect
    <2>5. CASE HandleCrashed(s)
      BY <1>8, <2>2, <2>3, <2>5 DEF TabletStep, HandleCrashed, removeFromMyCluster
    <2>6. CASE HandleRestarted(s)
      <3>1. myCluster' \in [Server -> SUBSET Server]
        BY <2>3, <2>6 DEF HandleRestarted, addToMyCluster
      <3>2. QED
        BY <1>8, <2>2, <2>6, <3>1 DEF TabletStep, HandleRestarted, addToMyCluster
    <2>7. QED
      BY <1>8, <2>4, <2>5, <2>6 DEF TabletStep, Foofunc
  <1>9. QED
    BY <1>1, <1>2, <1>3, <1>4, <1>5, <1>6, <1>7, <1>8 DEF Next, MasterStep

\* The shared table, the control points and the sockets always have their types.
THEOREM TypeCorrect == Spec => []TypeOK
  <1>1. Init => TypeOK
    BY ServerFacts, FaultAssumption, EmptySeq
       DEF Init, TabletInit, MasterInit, TypeOK, TabletTypeOK, MasterTypeOK, Pc
  <1>2. QED
    BY <1>1, TypeStep, PTL DEF Spec

-----------------------------------------------------------------------------
(* At most one primary.                                                    *)

LEMMA TokenStep == TypeOK /\ Token /\ [Next]_vars => Token'
  <1> SUFFICES ASSUME TypeOK, Token, [Next]_vars PROVE Token'
    OBVIOUS
  <1> USE DEF TypeOK, MasterTypeOK, Token, Electing, Goto
  <1>1. CASE UNCHANGED <<isPrimary, pc, newPrimary>>
    BY <1>1
  <1>2. ASSUME NEW s \in Server, NEW to \in {"start", "ping", "lost", "dead", "send", "restart", "wait", "stopped"},
               pc[s] \notin {"scan", "promote"},
               pc' = [pc EXCEPT ![s] = to],
               UNCHANGED isPrimary,
               \A t \in Server \ {s} : newPrimary'[t] = newPrimary[t]
        PROVE  Token'
    BY <1>2
  <1>3. ASSUME NEW s \in Server, TakeFlag(s) PROVE Token'
    <2>1. CASE isPrimary[s]
      <3>1. pc' = [pc EXCEPT ![s] = "scan"] /\ isPrimary' = [isPrimary EXCEPT ![s] = FALSE]
            /\ newPrimary' = newPrimary
        BY <1>3, <2>1 DEF TakeFlag
      <3>2. QED
        BY <2>1, <3>1
    <2>2. CASE ~isPrimary[s]
      <3>1. pc[s] = "dead" /\ pc' = [pc EXCEPT ![s] = "send"] /\ isPrimary' = isPrimary
            /\ newPrimary' = newPrimary
        BY <1>3, <2>2 DEF TakeFlag
      <3>2. QED
        BY <3>1, <1>2
    <2>3. QED
      BY <2>1, <2>2
  <1>4. ASSUME NEW s \in Server, ScanPeer(s) PROVE Token'
    <2>1. CASE IsHealthyBackup(Cluster[idx[s]])
      <3>1. /\ pc[s] = "scan"
            /\ pc' = [pc EXCEPT ![s] = "promote"]
            /\ newPrimary' = [newPrimary EXCEPT ![s] = Cluster[idx[s]]]
            /\ isPrimary' = isPrimary
            /\ Cluster[idx[s]] \in Server
        BY <1>4, <2>1, ServerFacts DEF ScanPeer
      <3>2. QED
        BY <3>1
    <2>2. CASE ~IsHealthyBackup(Cluster[idx[s]])
      BY <1>4, <2>2 DEF ScanPeer
    <2>3. QED
      BY <2>1, <2>2
  <1>5. ASSUME NEW s \in Server, ScanEnd(s) PROVE Token'
    <2>1. pc' = [pc EXCEPT ![s] = "send"] /\ UNCHANGED <<isPrimary, newPrimary>>
      BY <1>5 DEF ScanEnd
    <2>2. QED
      BY <2>1
  <1>6. ASSUME NEW s \in Server, Promote(s) PROVE Token'
    <2>1. /\ pc[s] = "promote" /\ pc' = [pc EXCEPT ![s] = "send"]
          /\ isPrimary' = [isPrimary EXCEPT ![newPrimary[s]] = TRUE]
          /\ newPrimary' = newPrimary
          /\ newPrimary[s] \in Server
      BY <1>6 DEF Promote
    <2>2. \A t \in Server : ~isPrimary[t]
      BY <2>1
    <2>3. QED
      BY <2>1, <2>2
  <1>7. ASSUME NEW s \in Server, Thread(s) PROVE Token'
    <2>1. CASE SetSock(s)
      BY <1>2, <2>1 DEF SetSock
    <2>2. CASE MarkDead(s)
      BY <1>2, <2>2 DEF MarkDead
    <2>3. CASE SendEnd(s)
      BY <1>2, <2>3 DEF SendEnd
    <2>4. CASE Spawn(s)
      BY <1>2, <2>4 DEF Spawn
    <2>5. CASE Revive(s)
      BY <1>2, <2>5 DEF Revive
    <2>6. CASE Ping(s) \/ SendCrashed(s) \/ NotifyRestart(s)
      BY <1>1, <2>6 DEF Ping, SendCrashed, NotifyRestart, masterVars
    <2>7. QED
      BY <1>3, <1>4, <1>5, <1>6, <1>7, <2>1, <2>2, <2>3, <2>4, <2>5, <2>6 DEF Thread
  <1>8. ASSUME NEW s \in Server,
               \/ Detect(s) \/ Suspect(s) \/ BindFails(s) \/ SpawnFails(s) \/ ExecvFails(s)
        PROVE  Token'
    <2>1. CASE LoseServer(s)
      BY <1>2, <2>1 DEF LoseServer
    <2>2. CASE SpawnNothing(s)
      BY <1>2, <2>2 DEF SpawnNothing
    <2>3. CASE ExecFails(s)
      BY <1>2, <2>3 DEF ExecFails
    <2>4. QED
      BY <1>8, <2>1, <2>2, <2>3 DEF Detect, Suspect, BindFails, SpawnFails, ExecvFails
  <1>9. ASSUME NEW s \in Server, Crash(s) \/ Drop(s) \/ TabletStep(s)
        PROVE  Token'
    BY <1>1, <1>9 DEF Crash, Drop, TabletStep, masterVars
  <1>10. CASE UNCHANGED vars
    BY <1>1, <1>10 DEF vars, masterVars
  <1>11. QED
    BY <1>7, <1>8, <1>9, <1>10 DEF Next, MasterStep

\* Threads that clear, look for and set the flags without a lock never make
\* two servers primary at once.
THEOREM OnePrimary == Spec => []AtMostOnePrimary
  <1>1. Init => Token
    BY DEF Init, MasterInit, Token, Electing
  <1>2. Token => AtMostOnePrimary
    BY DEF Token, AtMostOnePrimary
  <1>3. QED
    BY <1>1, <1>2, TypeCorrect, TokenStep, PTL DEF Spec

-----------------------------------------------------------------------------
(* A tablet server never loses itself from myCluster.                      *)

LEMMA RecoveringStep == TypeOK /\ DeadWhileRecovering /\ [Next]_vars => DeadWhileRecovering'
  <1> SUFFICES ASSUME TypeOK, DeadWhileRecovering, [Next]_vars PROVE DeadWhileRecovering'
    OBVIOUS
  <1> USE DEF TypeOK, MasterTypeOK, DeadWhileRecovering, Goto
  <1>1. CASE UNCHANGED <<alive, pc>>
    BY <1>1
  <1>2. ASSUME NEW s \in Server, Thread(s) PROVE DeadWhileRecovering'
    <2>1. CASE Revive(s)
      <3>1. pc' = [pc EXCEPT ![s] = "start"] /\ alive' = [alive EXCEPT ![s] = TRUE]
        BY <2>1 DEF Revive
      <3>2. QED
        BY <3>1
    <2>2. CASE MarkDead(s)
      <3>1. pc' = [pc EXCEPT ![s] = "dead"] /\ alive' = [alive EXCEPT ![s] = FALSE]
        BY <2>2 DEF MarkDead
      <3>2. QED
        BY <3>1
    <2>3. CASE ScanPeer(s)
      <3>1. pc[s] = "scan" /\ alive' = alive /\ (pc' = pc \/ pc' = [pc EXCEPT ![s] = "promote"])
        BY <2>3 DEF ScanPeer
      <3>2. QED
        BY <3>1
    <2>4. CASE SetSock(s) \/ TakeFlag(s) \/ ScanEnd(s) \/ Promote(s) \/ SendEnd(s) \/ Spawn(s)
      BY <2>4 DEF SetSock, TakeFlag, ScanEnd, Promote, SendEnd, Spawn
    <2>5. CASE Ping(s) \/ SendCrashed(s) \/ NotifyRestart(s)
      BY <1>1, <2>5 DEF Ping, SendCrashed, NotifyRestart, masterVars
    <2>6. QED
      BY <1>2, <2>1, <2>2, <2>3, <2>4, <2>5 DEF Thread
  <1>3. ASSUME NEW s \in Server,
               \/ Detect(s) \/ Suspect(s) \/ BindFails(s) \/ SpawnFails(s) \/ ExecvFails(s)
        PROVE  DeadWhileRecovering'
    BY <1>3 DEF Detect, Suspect, BindFails, SpawnFails, ExecvFails,
                LoseServer, SpawnNothing, ExecFails
  <1>4. ASSUME NEW s \in Server, Crash(s) \/ Drop(s) \/ TabletStep(s)
        PROVE  DeadWhileRecovering'
    BY <1>1, <1>4 DEF Crash, Drop, TabletStep, masterVars
  <1>5. CASE UNCHANGED vars
    BY <1>1, <1>5 DEF vars, masterVars
  <1>6. QED
    BY <1>2, <1>3, <1>4, <1>5 DEF Next, MasterStep

\* Commands with one constructor are never equal to those with another, nor
\* to those about another server.
LEMMA CommandsDiffer ==
    \A s, t : /\ Elect(s) # Crashed(t)
              /\ Restarted(s) # Crashed(t)
              /\ Crashed(s) = Crashed(t) => s = t
  BY DEF Elect, Crashed, Restarted

\* What is posted to anyone but about itself keeps its inbox clean.
LEMMA PostClean ==
    ASSUME inbox \in [Server -> Seq(Command)], NotToldOfOwnCrash,
           NEW d \in Server, NEW msgs \in Seq(Command), Post(d, msgs),
           \A j \in DOMAIN msgs : msgs[j] # Crashed(d)
    PROVE  NotToldOfOwnCrash'
  <1>1. /\ \A s \in Server : s # d => inbox'[s] = inbox[s]
        /\ \A i \in DOMAIN inbox'[d] :
              \/ \E j \in DOMAIN inbox[d] : inbox'[d][i] = inbox[d][j]
              \/ \E j \in DOMAIN msgs : inbox'[d][i] = msgs[j]
    BY PostContents
  <1>2. ASSUME NEW s \in Server, NEW i \in DOMAIN inbox'[s]
        PROVE  inbox'[s][i] # Crashed(s)
    BY <1>1, <1>2 DEF NotToldOfOwnCrash
  <1>3. QED
    BY <1>2 DEF NotToldOfOwnCrash

LEMMA SendClean ==
    ASSUME TypeOK, NotToldOfOwnCrash, DeadWhileRecovering,
           NEW s \in Server, SendCrashed(s)
    PROVE  NotToldOfOwnCrash'
  <1> DEFINE peer == Cluster[idx[s]]
             msgs == IF primaryDied[s] THEN <<Crashed(s), Elect(newPrimary[s])>>
                                       ELSE <<Crashed(s)>>
  <1>1. peer \in Server
    BY ServerFacts DEF SendCrashed, TypeOK, MasterTypeOK
  <1>2. CASE IsHealthy(peer)
    <2>1. peer # s
      BY <1>2 DEF SendCrashed, DeadWhileRecovering, IsHealthy
    <2>2. msgs \in Seq(Command)
      BY CommandTypes DEF TypeOK, MasterTypeOK
    <2>3. \A j \in DOMAIN msgs : msgs[j] # Crashed(peer)
      BY <2>1, CommandsDiffer
    <2>4. Post(peer, msgs)
      BY <1>2 DEF SendCrashed
    <2>5. QED
      BY <1>1, <2>2, <2>3, <2>4, PostClean DEF TypeOK, TabletTypeOK
  <1>3. CASE ~IsHealthy(peer)
    BY <1>3 DEF SendCrashed, NotToldOfOwnCrash
  <1>4. QED
    BY <1>2, <1>3

LEMMA NotifyClean ==
    ASSUME TypeOK, NotToldOfOwnCrash, NEW s \in Server, NotifyRestart(s)
    PROVE  NotToldOfOwnCrash'
  <1> DEFINE peer == Cluster[notify[s]]
  <1>1. peer \in Server
    BY ServerFacts DEF NotifyRestart, TypeOK, MasterTypeOK
  <1>2. /\ <<Elect(PrimaryForRange)>> \in Seq(Command)
        /\ <<Restarted(s)>> \in Seq(Command)
        /\ \A j \in DOMAIN <<Elect(PrimaryForRange)>> : <<Elect(PrimaryForRange)>>[j] # Crashed(peer)
        /\ \A j \in DOMAIN <<Restarted(s)>> : <<Restarted(s)>>[j] # Crashed(peer)
    BY CommandTypes, CommandsDiffer
  <1>3. \/ Post(peer, <<Elect(PrimaryForRange)>>)
        \/ Post(peer, <<Restarted(s)>>)
        \/ UNCHANGED inbox
    BY DEF NotifyRestart
  <1>4. CASE UNCHANGED inbox
    BY <1>4 DEF NotToldOfOwnCrash
  <1>5. QED
    BY <1>1, <1>2, <1>3, <1>4, PostClean DEF TypeOK, TabletTypeOK

MemberInv == NotToldOfOwnCrash /\ SelfInCluster

LEMMA MemberStep ==
    TypeOK /\ DeadWhileRecovering /\ MemberInv /\ [Next]_vars => MemberInv'
  <1> SUFFICES ASSUME TypeOK, DeadWhileRecovering, MemberInv, [Next]_vars
               PROVE  MemberInv'
    OBVIOUS
  <1> USE DEF MemberInv
  <1>1. CASE UNCHANGED <<inbox, myCluster>>
    BY <1>1 DEF NotToldOfOwnCrash, SelfInCluster
  <1>2. ASSUME NEW s \in Server, TabletStep(s) PROVE MemberInv'
    <2>1. inbox[s] # <<>> /\ inbox' = [inbox EXCEPT ![s] = Tail(@)]
      BY <1>2 DEF TabletStep, Foofunc, HandleElect, HandleCrashed, HandleRestarted, removeFromMyCluster,
                  addToMyCluster, Received
    <2>2. NotToldOfOwnCrash'
      BY <2>1, TailContents DEF NotToldOfOwnCrash, TypeOK, TabletTypeOK
    <2>3. Head(inbox[s]) # Crashed(s) /\ Head(inbox[s]) \in Command
      BY <2>1, TailContents DEF NotToldOfOwnCrash, TypeOK, TabletTypeOK
    <2>4. CASE HandleCrashed(s)
      <3>1. Head(inbox[s]).server # s
        BY <2>3, <2>4 DEF HandleCrashed, removeFromMyCluster, Command, Crashed
      <3>2. QED
        BY <2>2, <2>4, <3>1 DEF HandleCrashed, removeFromMyCluster, SelfInCluster, TypeOK, TabletTypeOK
    <2>5. CASE HandleElect(s)
      BY <2>2, <2>5 DEF HandleElect, SelfInCluster
    <2>6. CASE HandleRestarted(s)
      BY <2>2, <2>6 DEF HandleRestarted, addToMyCluster, SelfInCluster, TypeOK, TabletTypeOK
    <2>7. QED
      BY <1>2, <2>4, <2>5, <2>6 DEF TabletStep, Foofunc
  <1>3. ASSUME NEW s \in Server, Thread(s) PROVE MemberInv'
    <2>1. CASE SendCrashed(s)
      BY <2>1, SendClean DEF SendCrashed, SelfInCluster
    <2>2. CASE NotifyRestart(s)
      BY <2>2, NotifyClean DEF NotifyRestart, SelfInCluster
    <2>3. CASE Spawn(s)
      BY <2>3 DEF Spawn, Boot, NotToldOfOwnCrash, SelfInCluster, TypeOK, TabletTypeOK
    <2>4. CASE SetSock(s) \/ Ping(s) \/ MarkDead(s) \/ TakeFlag(s) \/ ScanPeer(s)
                 \/ ScanEnd(s) \/ Promote(s) \/ SendEnd(s) \/ Revive(s)
      BY <1>1, <2>4 DEF SetSock, Ping, MarkDead, TakeFlag, ScanPeer,
                        ScanEnd, Promote, SendEnd, Revive, tabletVars
    <2>5. QED
      BY <1>3, <2>1, <2>2, <2>3, <2>4 DEF Thread
  <1>4. ASSUME NEW s \in Server,
               \/ Detect(s) \/ Suspect(s) \/ BindFails(s) \/ SpawnFails(s) \/ ExecvFails(s)
        PROVE  MemberInv'
    BY <1>1, <1>4 DEF Detect, Suspect, BindFails, SpawnFails, ExecvFails,
                LoseServer, SpawnNothing, ExecFails, tabletVars
  <1>5. ASSUME NEW s \in Server, Crash(s) PROVE MemberInv'
    BY <1>5 DEF Crash, Die, NotToldOfOwnCrash, SelfInCluster, TypeOK, TabletTypeOK
  <1>6. ASSUME NEW s \in Server, Drop(s) PROVE MemberInv'
    <2>1. NotToldOfOwnCrash'
      BY <1>6, TailContents DEF Drop, NotToldOfOwnCrash, TypeOK, TabletTypeOK
    <2>2. QED
      BY <1>6, <2>1 DEF Drop, SelfInCluster
  <1>7. CASE UNCHANGED vars
    BY <1>1, <1>7 DEF vars, tabletVars
  <1>8. QED
    BY <1>2, <1>3, <1>4, <1>5, <1>6, <1>7 DEF Next, MasterStep

\* notifyReplicas may erase find(.., myServer) without a test: whatever fails,
\* and whatever is lost, a server is a member of its own myCluster.
THEOREM AlwaysSelf == Spec => []SelfInCluster
  <1>1. Init => DeadWhileRecovering /\ MemberInv
    BY EmptySeq DEF Init, TabletInit, MasterInit, DeadWhileRecovering, MemberInv,
                    NotToldOfOwnCrash, SelfInCluster
  <1>2. MemberInv => SelfInCluster
    BY DEF MemberInv
  <1>3. QED
    BY <1>1, <1>2, TypeCorrect, RecoveringStep, MemberStep, PTL DEF Spec

-----------------------------------------------------------------------------
(* The flags implement the register of Election.                           *)

LEMMA OneFlagged ==
    ASSUME NEW flag \in [Server -> BOOLEAN], NEW s \in Server, flag[s],
           \A t \in Server : flag[t] => t = s
    PROVE  FirstFlagged(flag) = s
  <1> DEFINE first == {i \in DOMAIN Cluster :
                         /\ flag[Cluster[i]]
                         /\ \A j \in 1..(i - 1) : ~flag[Cluster[j]]}
  <1>1. PICK k \in DOMAIN Cluster : Cluster[k] = s
    BY DEF Server
  <1>2. \A j \in 1..(k - 1) : ~flag[Cluster[j]]
    <2>1. SUFFICES ASSUME NEW j \in 1..(k - 1), flag[Cluster[j]] PROVE FALSE
      BY ServerFacts
    <2>2. j \in DOMAIN Cluster /\ j # k /\ Cluster[j] \in Server
      BY <1>1, ServerFacts
    <2>3. Cluster[j] = Cluster[k]
      BY <1>1, <2>1, <2>2
    <2>4. QED
      BY <2>2, <2>3, ClusterAssumption
  <1>3. k \in first
    BY <1>1, <1>2
  <1>4. \A i \in first : Cluster[i] = s
    BY ServerFacts
  <1>5. QED
    BY <1>3, <1>4 DEF FirstFlagged

LEMMA NoneFlagged ==
    ASSUME NEW flag \in [Server -> BOOLEAN], \A t \in Server : ~flag[t]
    PROVE  FirstFlagged(flag) = None
  BY ServerFacts DEF FirstFlagged

LEMMA RegisterStep ==
    TypeOK /\ TypeOK' /\ Token /\ [Next]_vars => [Register!Next]_PrimaryForRange
  <1> SUFFICES ASSUME TypeOK, TypeOK', Token, [Next]_vars
               PROVE  [Register!Next]_PrimaryForRange
    OBVIOUS
  <1>1. isPrimary \in [Server -> BOOLEAN] /\ isPrimary' \in [Server -> BOOLEAN]
    BY DEF TypeOK, MasterTypeOK
  <1>2. CASE UNCHANGED isPrimary
    BY <1>2 DEF PrimaryForRange
  <1>3. ASSUME NEW s \in Server, TakeFlag(s), isPrimary[s]
        PROVE  Register!Lose
    <2>1. \A t \in Server : isPrimary[t] => t = s
      BY <1>3 DEF Token
    <2>2. PrimaryForRange = s
      BY <1>1, <1>3, <2>1, OneFlagged DEF PrimaryForRange
    <2>3. \A t \in Server : ~isPrimary'[t]
      <3>1. isPrimary' = [isPrimary EXCEPT ![s] = FALSE]
        BY <1>3 DEF TakeFlag
      <3>2. QED
        BY <1>1, <2>1, <3>1
    <2>4. PrimaryForRange' = None
      BY <1>1, <2>3, NoneFlagged DEF PrimaryForRange
    <2>5. QED
      BY <2>2, <2>4, ServerFacts DEF Register!Lose
  <1>4. ASSUME NEW s \in Server, TakeFlag(s), ~isPrimary[s]
        PROVE  UNCHANGED isPrimary
    BY <1>1, <1>4 DEF TakeFlag
  <1>5. ASSUME NEW s \in Server, Promote(s)
        PROVE  Register!Win(newPrimary[s]) /\ newPrimary[s] \in Server
    <2>1. /\ newPrimary[s] \in Server
          /\ \A t \in Server : ~isPrimary[t]
          /\ isPrimary' = [isPrimary EXCEPT ![newPrimary[s]] = TRUE]
      BY <1>5 DEF Promote, Goto, Token, Electing
    <2>2. PrimaryForRange = None
      BY <1>1, <2>1, NoneFlagged DEF PrimaryForRange
    <2>3. isPrimary'[newPrimary[s]] /\ \A t \in Server : isPrimary'[t] => t = newPrimary[s]
      BY <1>1, <2>1
    <2>4. PrimaryForRange' = newPrimary[s]
      BY <1>1, <2>1, <2>3, OneFlagged DEF PrimaryForRange
    <2>5. QED
      BY <2>1, <2>2, <2>4 DEF Register!Win
  <1>6. ASSUME NEW s \in Server, Thread(s)
        PROVE  [Register!Next]_PrimaryForRange
    <2>1. CASE TakeFlag(s)
      BY <1>2, <1>3, <1>4, <2>1 DEF Register!Next
    <2>2. CASE Promote(s)
      <3>1. \E p \in Server : Register!Win(p)
        BY <1>5, <2>2
      <3>2. QED
        BY <3>1 DEF Register!Next, Register!Server, Server
    <2>3. CASE ~TakeFlag(s) /\ ~Promote(s)
      <3>1. UNCHANGED isPrimary
        BY <1>6, <2>3 DEF Thread, SetSock, Ping, MarkDead, ScanPeer, ScanEnd, SendCrashed,
                          SendEnd, Spawn, Revive, NotifyRestart, masterVars
      <3>2. QED
        BY <1>2, <3>1
    <2>4. QED
      BY <2>1, <2>2, <2>3
  <1>7. ASSUME NEW s \in Server,
               \/ Detect(s) \/ Suspect(s) \/ BindFails(s) \/ SpawnFails(s) \/ ExecvFails(s)
               \/ Crash(s) \/ Drop(s) \/ TabletStep(s)
        PROVE  UNCHANGED isPrimary
    BY <1>7 DEF Detect, Suspect, BindFails, SpawnFails, ExecvFails, LoseServer,
                SpawnNothing, ExecFails, Crash, Drop, TabletStep, masterVars
  <1>8. CASE UNCHANGED vars
    BY <1>2, <1>8 DEF vars, masterVars
  <1>9. QED
    BY <1>2, <1>6, <1>7, <1>8 DEF Next, MasterStep

\* The primary of a range is lost before another one is elected, and an
\* election replaces nobody, whatever the threads of the master interleave.
THEOREM ElectionImplemented == Spec => ImplementsElection
  <1>1. Init => Token
    BY DEF Init, MasterInit, Token, Electing
  <1>2. Init => Register!Init
    <2> SUFFICES ASSUME Init PROVE PrimaryForRange = Cluster[1]
      BY DEF Register!Init
    <2>1. /\ isPrimary \in [Server -> BOOLEAN] /\ Cluster[1] \in Server
          /\ isPrimary[Cluster[1]] /\ \A t \in Server : isPrimary[t] => t = Cluster[1]
      <3>1. isPrimary = [t \in Server |-> t = Cluster[1]]
        BY DEF Init, MasterInit
      <3>2. QED
        BY <3>1, ServerFacts
    <2>2. QED
      BY <2>1, OneFlagged DEF PrimaryForRange
  <1>3. QED
    BY <1>1, <1>2, TypeCorrect, TokenStep, RegisterStep, PTL
       DEF Spec, ImplementsElection, Register!Spec

-----------------------------------------------------------------------------
(* Who follows whom once all is quiet.                                     *)

\* What is left of a budget is never more than there was.
Spent == \A f \in Fault : budget[f] <= Budget[f]

\* What the flags of a server say about the thread that pings it.
Flags ==
    \A s \in Server :
        /\ alive[s] <=> pc[s] \in {"start", "ping", "lost"}
        /\ sock[s] <=> pc[s] \in {"ping", "lost"}

\* A thread starts each of its loops at the first peer.
Looping == \A s \in Server : pc[s] \notin {"scan", "promote", "send"} => idx[s] = 1

\* Thread s has found its server dead and not yet started another process.
Recovering == {"lost", "dead", "scan", "promote", "send", "restart", "stopped"}

\* A server that is being recovered is down until it is started, and then knows
\* the whole cluster and is told of no crash, because the master leaves out who is
\* not healthy.
DownUntilStarted ==
    \A s \in Server :
        /\ pc[s] \in Recovering => ~up[s]
        /\ up[s] /\ pc[s] \in {"wait", "start"} =>
              /\ myCluster[s] = Server
              /\ \A i \in DOMAIN inbox[s] : inbox[s][i].type # "crashed"

\* That takes that there was no false alarm.
Down == NoneSuspected => DownUntilStarted

\* A server that failed and whose recovery is not over.
Troubled(s) == ~up[s] \/ pc[s] # "ping" \/ notify[s] # 0

Alone == OneAtATime => \A s, t \in Server : Troubled(s) /\ Troubled(t) => s = t

\* The last of B in a row of commands, if any, is before a; none of B is in it.
Ends(seq, a, B) ==
    \E i \in DOMAIN seq : seq[i] = a /\ \A j \in DOMAIN seq : j > i => seq[j] \notin B

Lacks(seq, B) == \A j \in DOMAIN seq : seq[j] \notin B

\* When q has handled its commands it has t in myCluster; it follows p.
WillHave(q, t) ==
    \/ t \in myCluster[q] /\ Lacks(inbox[q], {Crashed(t)})
    \/ Ends(inbox[q], Restarted(t), {Crashed(t)})

Elections(p) == {Elect(x) : x \in Server \ {p}}

WillFollow(q, p) ==
    \/ myPrimary[q] = p /\ Lacks(inbox[q], Elections(p))
    \/ Ends(inbox[q], Elect(p), Elections(p))

\* Thread t has still to come to s in notifyServerRestart.
ToNotify(t, s) == notify[t] # 0 /\ \E i \in DOMAIN Cluster : Cluster[i] = s /\ notify[t] <= i

Owed(t, s) == pc[t] \in {"send", "restart", "wait", "stopped"} \/ ToNotify(t, s)

\* Whom a server will not have, it will be told of.
Told ==
    NoneLost /\ (NoneSuspected \/ OneAtATime) =>
        \A s, t \in Server : s # t /\ up[s] => WillHave(s, t) \/ Owed(t, s)

\* A server whose own recovery will name the primary to it, or who has still to
\* be told of the election.
Awaiting(q) == pc[q] \notin {"start", "ping"} \/ ToNotify(q, q)

ToElect(q) ==
    \E s \in Server \ {q} : \E i \in DOMAIN Cluster :
        pc[s] = "send" /\ primaryDied[s] /\ Cluster[i] = q /\ idx[s] <= i

\* Failures one at a time, and somebody to elect.
Calm == NoneLost /\ OneAtATime /\ Len(Cluster) > 1

\* The election finds another server, since all others are healthy, so that there
\* is a primary, and who does not follow it will be told to.
ElectionFinds ==
    /\ (\A s \in Server : ~Electing(s)) => \E p \in Server : isPrimary[p]
    /\ \A s \in Server :
         /\ Electing(s) => primaryDied[s]
         /\ pc[s] = "scan" => \A j \in DOMAIN Cluster : j < idx[s] => Cluster[j] = s
         /\ pc[s] = "send" /\ primaryDied[s] =>
               newPrimary[s] \in Server /\ isPrimary[newPrimary[s]]

Elected == Calm => ElectionFinds

Followed ==
    Calm => \A p, q \in Server :
        isPrimary[p] /\ up[q] => WillFollow(q, p) \/ Awaiting(q) \/ ToElect(q)

QInv == Spent /\ Flags /\ Looping /\ Down /\ Alone /\ Told /\ Elected /\ Followed

-----------------------------------------------------------------------------
(* Rows of commands.                                                       *)

LEMMA ConcatEnds ==
    ASSUME NEW seq \in Seq(Command), NEW msgs \in Seq(Command), NEW a, NEW B, Lacks(msgs, B)
    PROVE  /\ Lacks(seq, B) => Lacks(seq \o msgs, B)
           /\ Ends(seq, a, B) => Ends(seq \o msgs, a, B)
  <1> DEFINE all == seq \o msgs
  <1>1. /\ Len(seq) \in Nat /\ Len(msgs) \in Nat
        /\ DOMAIN seq = 1..Len(seq) /\ DOMAIN msgs = 1..Len(msgs)
        /\ DOMAIN all = 1..(Len(seq) + Len(msgs))
        /\ \A i \in 1..(Len(seq) + Len(msgs)) :
              all[i] = IF i <= Len(seq) THEN seq[i] ELSE msgs[i - Len(seq)]
    BY ConcatProperties
  <1> HIDE DEF all
  <1>2. \A i \in DOMAIN all : i \in DOMAIN seq \/ i - Len(seq) \in DOMAIN msgs
    BY <1>1
  <1>3. \A i \in DOMAIN all : i \notin DOMAIN seq => all[i] \notin B
    <2> SUFFICES ASSUME NEW i \in DOMAIN all, i \notin DOMAIN seq PROVE all[i] \notin B
      OBVIOUS
    <2>1. i - Len(seq) \in DOMAIN msgs /\ all[i] = msgs[i - Len(seq)]
      BY <1>1, <1>2
    <2>2. QED
      BY <2>1 DEF Lacks
  <1>4. \A i \in DOMAIN seq : i \in DOMAIN all /\ all[i] = seq[i]
    BY <1>1
  <1>5. Lacks(seq, B) => Lacks(all, B)
    BY <1>3, <1>4 DEF Lacks
  <1>6. Ends(seq, a, B) => Ends(all, a, B)
    BY <1>3, <1>4 DEF Ends
  <1>7. QED
    BY <1>5, <1>6 DEF all

LEMMA ConcatNew ==
    ASSUME NEW seq \in Seq(Command), NEW msgs \in Seq(Command), NEW a, NEW B, Ends(msgs, a, B)
    PROVE  Ends(seq \o msgs, a, B)
  <1> DEFINE all == seq \o msgs
             n == Len(seq)
  <1>1. /\ n \in Nat /\ Len(msgs) \in Nat
        /\ DOMAIN seq = 1..n /\ DOMAIN msgs = 1..Len(msgs)
        /\ DOMAIN all = 1..(n + Len(msgs))
        /\ \A i \in 1..(n + Len(msgs)) : all[i] = IF i <= n THEN seq[i] ELSE msgs[i - n]
    BY ConcatProperties
  <1> HIDE DEF all, n
  <1>2. PICK i \in DOMAIN msgs : msgs[i] = a /\ \A j \in DOMAIN msgs : j > i => msgs[j] \notin B
    BY DEF Ends
  <1>3. n + i \in DOMAIN all /\ all[n + i] = a
    BY <1>1, <1>2
  <1>4. ASSUME NEW j \in DOMAIN all, j > n + i
        PROVE  all[j] \notin B
    <2>1. j - n \in DOMAIN msgs /\ j - n > i /\ all[j] = msgs[j - n]
      BY <1>1, <1>2, <1>4
    <2>2. QED
      BY <1>2, <2>1
  <1>5. Ends(all, a, B)
    BY <1>3, <1>4 DEF Ends
  <1>6. QED
    BY <1>5 DEF all

LEMMA TailIs ==
    ASSUME NEW seq \in Seq(Command), seq # <<>>
    PROVE  /\ Len(seq) \in Nat /\ Len(seq) > 0 /\ DOMAIN seq = 1..Len(seq)
           /\ Head(seq) = seq[1] /\ DOMAIN Tail(seq) = 1..(Len(seq) - 1)
           /\ \A i \in DOMAIN Tail(seq) : i + 1 \in DOMAIN seq /\ Tail(seq)[i] = seq[i + 1]
  <1>1. /\ Len(seq) \in Nat /\ Len(seq) > 0 /\ DOMAIN seq = 1..Len(seq)
        /\ Head(seq) = seq[1] /\ DOMAIN Tail(seq) = 1..(Len(seq) - 1)
        /\ \A i \in 1..(Len(seq) - 1) : Tail(seq)[i] = seq[i + 1]
    BY EmptySeq, LenProperties, HeadTailProperties
  <1>2. \A i \in 1..(Len(seq) - 1) : i + 1 \in 1..Len(seq)
    BY <1>1
  <1>3. QED
    BY <1>1, <1>2

LEMMA TailLacks ==
    ASSUME NEW seq \in Seq(Command), seq # <<>>, NEW B, Lacks(seq, B)
    PROVE  Head(seq) \notin B /\ Lacks(Tail(seq), B)
  <1> DEFINE rest == Tail(seq)
             first == Head(seq)
  <1>1. /\ Len(seq) \in Nat /\ Len(seq) > 0 /\ DOMAIN seq = 1..Len(seq)
        /\ first = seq[1] /\ \A i \in DOMAIN rest : i + 1 \in DOMAIN seq /\ rest[i] = seq[i + 1]
    BY TailIs
  <1> HIDE DEF rest, first
  <1>2. first \notin B /\ Lacks(rest, B)
    BY <1>1 DEF Lacks
  <1>3. QED
    BY <1>2 DEF rest, first

LEMMA TailEnds ==
    ASSUME NEW seq \in Seq(Command), seq # <<>>, NEW a, NEW B, Ends(seq, a, B)
    PROVE  \/ Head(seq) = a /\ Lacks(Tail(seq), B)
           \/ Ends(Tail(seq), a, B)
  <1> DEFINE rest == Tail(seq)
             first == Head(seq)
  <1>1. /\ Len(seq) \in Nat /\ Len(seq) > 0 /\ DOMAIN seq = 1..Len(seq)
        /\ first = seq[1] /\ DOMAIN rest = 1..(Len(seq) - 1)
        /\ \A i \in DOMAIN rest : i + 1 \in DOMAIN seq /\ rest[i] = seq[i + 1]
    BY TailIs
  <1> HIDE DEF rest, first
  <1>2. PICK i \in DOMAIN seq : seq[i] = a /\ \A j \in DOMAIN seq : j > i => seq[j] \notin B
    BY DEF Ends
  <1>3. CASE i = 1
    <2>1. \A j \in DOMAIN rest : j + 1 > 1
      BY <1>1
    <2>2. first = a /\ Lacks(rest, B)
      BY <1>1, <1>2, <1>3, <2>1 DEF Lacks
    <2>3. QED
      BY <2>2 DEF rest, first
  <1>4. CASE i # 1
    <2>1. i - 1 \in DOMAIN rest /\ rest[i - 1] = a
      BY <1>1, <1>2, <1>4
    <2>2. \A j \in DOMAIN rest : j > i - 1 => j + 1 > i
      BY <1>1
    <2>3. \A j \in DOMAIN rest : j > i - 1 => rest[j] \notin B
      BY <1>1, <1>2, <2>2
    <2>4. Ends(rest, a, B)
      BY <2>1, <2>3 DEF Ends
    <2>5. QED
      BY <2>4 DEF rest
  <1>5. QED
    BY <1>3, <1>4

LEMMA CommandKinds ==
    ASSUME NEW s, NEW t
    PROVE  /\ Elect(s) # Crashed(t) /\ Elect(s) # Restarted(t) /\ Restarted(s) # Crashed(t)
           /\ Crashed(s) = Crashed(t) => s = t
           /\ Elect(s) = Elect(t) => s = t
           /\ Elect(s).type = "elect" /\ Elect(s).server = s
           /\ Crashed(s).type = "crashed" /\ Crashed(s).server = s
           /\ Restarted(s).type = "restarted" /\ Restarted(s).server = s
  BY DEF Elect, Crashed, Restarted

LEMMA CommandIs ==
    ASSUME NEW c \in Command
    PROVE  /\ c.type = "elect" => c = Elect(c.server) /\ c.server \in Server \cup {None}
           /\ c.type = "crashed" => c = Crashed(c.server) /\ c.server \in Server
           /\ c.type = "restarted" => c = Restarted(c.server) /\ c.server \in Server
  BY DEF Command, Elect, Crashed, Restarted

\* What messages do to who will have, and follow, whom.
LEMMA PostHave ==
    ASSUME TypeOK, NEW d \in Server, NEW msgs \in Seq(Command), Post(d, msgs),
           UNCHANGED myCluster, NEW s \in Server, NEW t \in Server, WillHave(s, t),
           s = d => Lacks(msgs, {Crashed(t)})
    PROVE  WillHave(s, t)'
  <1>1. inbox \in [Server -> Seq(Command)]
    BY DEF TypeOK, TabletTypeOK
  <1>2. CASE inbox'[s] = inbox[s]
    BY <1>2 DEF WillHave
  <1>3. CASE s = d /\ inbox'[s] = inbox[s] \o msgs
    BY <1>1, <1>3, ConcatEnds DEF WillHave
  <1>4. QED
    BY <1>1, <1>2, <1>3 DEF Post

LEMMA PostFollow ==
    ASSUME TypeOK, NEW d \in Server, NEW msgs \in Seq(Command), Post(d, msgs),
           UNCHANGED myPrimary, NEW q \in Server, NEW p \in Server, WillFollow(q, p),
           q = d => Lacks(msgs, Elections(p))
    PROVE  WillFollow(q, p)'
  <1>1. inbox \in [Server -> Seq(Command)]
    BY DEF TypeOK, TabletTypeOK
  <1>2. Elections(p)' = Elections(p)
    BY DEF Elections
  <1>3. CASE inbox'[q] = inbox[q]
    BY <1>2, <1>3 DEF WillFollow
  <1>4. CASE q = d /\ inbox'[q] = inbox[q] \o msgs
    BY <1>1, <1>2, <1>4, ConcatEnds DEF WillFollow
  <1>5. QED
    BY <1>1, <1>3, <1>4 DEF Post

LEMMA PostEnds ==
    ASSUME TypeOK, NEW d \in Server, up[d], NEW msgs \in Seq(Command), Post(d, msgs),
           NEW a, NEW B, Ends(msgs, a, B)
    PROVE  Ends(inbox'[d], a, B)
  <1>1. inbox \in [Server -> Seq(Command)]
    BY DEF TypeOK, TabletTypeOK
  <1>2. inbox'[d] = inbox[d] \o msgs /\ inbox[d] \in Seq(Command)
    BY <1>1 DEF Post
  <1>3. QED
    BY <1>2, ConcatNew

\* A server that is in myCluster may be added again.
LEMMA MemberAgain == ASSUME NEW S, NEW t \in S PROVE S \cup {t} = S
  OBVIOUS

LEMMA TabletFacts ==
    ASSUME TypeOK, NEW u \in Server, TabletStep(u)
    PROVE  /\ inbox[u] \in Seq(Command) /\ inbox[u] # <<>> /\ Head(inbox[u]) \in Command
           /\ inbox' = [inbox EXCEPT ![u] = Tail(@)]
           /\ inbox'[u] = Tail(inbox[u])
           /\ \A s \in Server : s # u => /\ inbox'[s] = inbox[s]
                                         /\ myCluster'[s] = myCluster[s]
                                         /\ myPrimary'[s] = myPrimary[s]
           /\ UNCHANGED <<up, masterVars, budget>>
  <1> USE DEF TypeOK, TabletTypeOK
  <1>1. inbox[u] # <<>> /\ inbox' = [inbox EXCEPT ![u] = Tail(@)]
    BY DEF TabletStep, Foofunc, HandleElect, HandleCrashed, HandleRestarted, removeFromMyCluster,
           addToMyCluster, Received
  <1>2. Head(inbox[u]) \in Command
    BY <1>1, TailContents
  <1>3. UNCHANGED <<up, masterVars, budget>>
    BY DEF TabletStep, Foofunc, HandleElect, HandleCrashed, HandleRestarted
  <1>4. ASSUME NEW s \in Server, s # u
        PROVE  myCluster'[s] = myCluster[s] /\ myPrimary'[s] = myPrimary[s]
    BY <1>4 DEF TabletStep, Foofunc, HandleElect, HandleCrashed, HandleRestarted,
                removeFromMyCluster, addToMyCluster
  <1>5. QED
    BY <1>1, <1>2, <1>3, <1>4

LEMMA TakeHave ==
    ASSUME TypeOK, NEW u \in Server, TabletStep(u), NEW s \in Server, NEW t \in Server, WillHave(s, t)
    PROVE  WillHave(s, t)'
  <1> USE DEF TypeOK, TabletTypeOK
  <1>1. CASE s # u
    BY <1>1, TabletFacts DEF WillHave
  <1>2. CASE s = u
    <2> DEFINE c == Head(inbox[u])
    <2>1. /\ inbox[u] \in Seq(Command) /\ inbox[u] # <<>> /\ c \in Command
          /\ inbox'[u] = Tail(inbox[u])
      BY TabletFacts
    <2>2. \/ c.type = "elect" /\ myCluster'[u] = myCluster[u]
          \/ c.type = "crashed" /\ myCluster'[u] = myCluster[u] \ {c.server}
          \/ c.type = "restarted" /\ myCluster'[u] = myCluster[u] \cup {c.server}
      <3>1. CASE HandleElect(u)
        BY <3>1 DEF HandleElect
      <3>2. CASE HandleCrashed(u)
        BY <3>2 DEF HandleCrashed, removeFromMyCluster
      <3>3. CASE HandleRestarted(u)
        BY <3>3 DEF HandleRestarted, addToMyCluster
      <3>4. QED
        BY <3>1, <3>2, <3>3 DEF TabletStep, Foofunc
    <2> HIDE DEF c
    <2>3. CASE t \in myCluster[u] /\ Lacks(inbox[u], {Crashed(t)})
      <3>1. c # Crashed(t) /\ Lacks(inbox'[u], {Crashed(t)})
        BY <2>1, <2>3, TailLacks DEF c
      <3>2. c.type = "crashed" => c.server # t
        BY <2>1, <3>1, CommandIs
      <3>3. t \in myCluster'[u]
        BY <2>2, <2>3, <3>2
      <3>4. QED
        BY <1>2, <3>1, <3>3 DEF WillHave
    <2>4. CASE Ends(inbox[u], Restarted(t), {Crashed(t)})
      <3>1. \/ c = Restarted(t) /\ Lacks(inbox'[u], {Crashed(t)})
            \/ Ends(inbox'[u], Restarted(t), {Crashed(t)})
        BY <2>1, <2>4, TailEnds DEF c
      <3>2. c = Restarted(t) => t \in myCluster'[u]
        BY <2>2 DEF Restarted
      <3>3. QED
        BY <1>2, <3>1, <3>2 DEF WillHave
    <2>5. QED
      BY <1>2, <2>3, <2>4 DEF WillHave
  <1>3. QED
    BY <1>1, <1>2

LEMMA TakeFollow ==
    ASSUME TypeOK, NEW u \in Server, TabletStep(u), NEW q \in Server, NEW p \in Server, WillFollow(q, p)
    PROVE  WillFollow(q, p)'
  <1> USE DEF TypeOK, TabletTypeOK
  <1>0. Elections(p)' = Elections(p)
    BY DEF Elections
  <1>1. CASE q # u
    BY <1>0, <1>1, TabletFacts DEF WillFollow
  <1>2. CASE q = u
    <2> DEFINE c == Head(inbox[u])
    <2>1. /\ inbox[u] \in Seq(Command) /\ inbox[u] # <<>> /\ c \in Command
          /\ inbox'[u] = Tail(inbox[u])
      BY TabletFacts
    <2>2. \/ c.type = "elect" /\ c.server = None /\ myPrimary'[u] = myPrimary[u]
          \/ c.type = "elect" /\ c.server # None /\ myPrimary'[u] = c.server
          \/ c.type \in {"crashed", "restarted"} /\ myPrimary'[u] = myPrimary[u]
      <3>1. CASE HandleElect(u)
        BY <3>1 DEF HandleElect
      <3>2. CASE HandleCrashed(u)
        BY <3>2 DEF HandleCrashed
      <3>3. CASE HandleRestarted(u)
        BY <3>3 DEF HandleRestarted
      <3>4. QED
        BY <3>1, <3>2, <3>3 DEF TabletStep, Foofunc
    <2> HIDE DEF c
    <2>3. CASE myPrimary[u] = p /\ Lacks(inbox[u], Elections(p))
      <3>1. c \notin Elections(p) /\ Lacks(inbox'[u], Elections(p))
        BY <2>1, <2>3, TailLacks DEF c
      <3>2. c.type = "elect" /\ c.server # None => c.server = p
        BY <2>1, <3>1, CommandIs DEF Elections
      <3>3. myPrimary'[u] = p
        BY <2>2, <2>3, <3>2
      <3>4. QED
        BY <1>0, <1>2, <3>1, <3>3 DEF WillFollow
    <2>4. CASE Ends(inbox[u], Elect(p), Elections(p))
      <3>1. \/ c = Elect(p) /\ Lacks(inbox'[u], Elections(p))
            \/ Ends(inbox'[u], Elect(p), Elections(p))
        BY <2>1, <2>4, TailEnds DEF c
      <3>2. c = Elect(p) => myPrimary'[u] = p
        BY <2>2, ServerFacts DEF Elect
      <3>3. QED
        BY <1>0, <1>2, <3>1, <3>2 DEF WillFollow
    <2>5. QED
      BY <1>2, <2>3, <2>4 DEF WillFollow
  <1>3. QED
    BY <1>1, <1>2


-----------------------------------------------------------------------------
(* The parts of QInv about the master alone.                               *)

LEMMA SpendLess ==
    ASSUME TypeOK, NEW g \in Fault, Spend(g)
    PROVE  /\ budget'[g] < budget[g]
           /\ \A f \in Fault : budget'[f] <= budget[f]
  BY DEF TypeOK, Spend

LEMMA BudgetStep ==
    ASSUME TypeOK, [Next]_vars
    PROVE  \A f \in Fault : budget'[f] <= budget[f]
  <1>1. ASSUME NEW g \in Fault, Spend(g) PROVE \A f \in Fault : budget'[f] <= budget[f]
    BY <1>1, SpendLess
  <1>2. CASE UNCHANGED budget
    BY <1>2 DEF TypeOK
  <1>3. ASSUME NEW s \in Server,
               \/ Crash(s) \/ Suspect(s) \/ SpawnFails(s) \/ ExecvFails(s) \/ Drop(s)
        PROVE  \E g \in Fault : Spend(g)
    BY <1>3 DEF Crash, Suspect, SpawnFails, ExecvFails, Drop, Fault
  <1>4. ASSUME NEW s \in Server, MasterStep(s) \/ Detect(s) \/ BindFails(s) \/ TabletStep(s)
        PROVE  UNCHANGED budget
    BY <1>4 DEF MasterStep, Detect, BindFails, TabletStep
  <1>5. QED
    BY <1>1, <1>2, <1>3, <1>4 DEF Next, vars

LEMMA SpentStep ==
    ASSUME TypeOK, TypeOK', Spent, [Next]_vars
    PROVE  /\ Spent'
           /\ NoneLost' => NoneLost
           /\ NoneSuspected' => NoneSuspected
           /\ \A s \in Server : Drop(s) => ~NoneLost'
           /\ \A s \in Server : Suspect(s) => ~NoneSuspected'
  <1>1. /\ \A f \in Fault : budget'[f] <= budget[f] /\ budget[f] <= Budget[f]
        /\ \A f \in Fault : budget[f] \in Nat /\ budget'[f] \in Nat /\ Budget[f] \in Nat
    BY BudgetStep, FaultAssumption DEF TypeOK, Spent
  <1>2. "drop" \in Fault /\ "suspect" \in Fault
    BY DEF Fault
  <1>3. Spent'
    BY <1>1 DEF Spent
  <1>4. (NoneLost' => NoneLost) /\ (NoneSuspected' => NoneSuspected)
    BY <1>1, <1>2 DEF NoneLost, NoneSuspected
  <1>5. ASSUME NEW s \in Server, Drop(s) PROVE ~NoneLost'
    <2>1. budget'["drop"] < budget["drop"]
      BY <1>2, <1>5, SpendLess DEF Drop
    <2>2. QED
      BY <1>1, <1>2, <2>1 DEF NoneLost
  <1>6. ASSUME NEW s \in Server, Suspect(s) PROVE ~NoneSuspected'
    <2>1. budget'["suspect"] < budget["suspect"]
      BY <1>2, <1>6, SpendLess DEF Suspect
    <2>2. QED
      BY <1>1, <1>2, <2>1 DEF NoneSuspected
  <1>7. QED
    BY <1>3, <1>4, <1>5, <1>6

\* One case per kind of step of thread s, and what it does to its control point.
LEMMA ThreadOf ==
    ASSUME TypeOK, NEW s \in Server,
           \/ MasterStep(s) \/ Detect(s) \/ BindFails(s)
           \/ Suspect(s) \/ SpawnFails(s) \/ ExecvFails(s)
    PROVE  \A t \in Server : t # s =>
               /\ pc'[t] = pc[t] /\ idx'[t] = idx[t] /\ notify'[t] = notify[t]
               /\ alive'[t] = alive[t] /\ sock'[t] = sock[t]
               /\ primaryDied'[t] = primaryDied[t] /\ newPrimary'[t] = newPrimary[t]
  <1> USE DEF TypeOK, MasterTypeOK, Goto
  <1>1. CASE LoseServer(s)
    BY <1>1 DEF LoseServer
  <1>2. CASE SpawnNothing(s)
    BY <1>2 DEF SpawnNothing
  <1>3. CASE ExecFails(s)
    BY <1>3 DEF ExecFails
  <1>4. CASE SetSock(s) \/ Ping(s) \/ MarkDead(s) \/ TakeFlag(s)
    BY <1>4 DEF SetSock, Ping, MarkDead, TakeFlag, masterVars
  <1>5. CASE ScanPeer(s)
    BY <1>5 DEF ScanPeer
  <1>6. CASE ScanEnd(s) \/ Promote(s)
    BY <1>6 DEF ScanEnd, Promote
  <1>7. CASE SendCrashed(s) \/ SendEnd(s)
    BY <1>7 DEF SendCrashed, SendEnd
  <1>8. CASE Spawn(s) \/ Revive(s) \/ NotifyRestart(s)
    BY <1>8 DEF Spawn, Revive, NotifyRestart
  <1>9. QED
    BY <1>1, <1>2, <1>3, <1>4, <1>5, <1>6, <1>7, <1>8
       DEF MasterStep, Thread, Detect, BindFails, Suspect, SpawnFails, ExecvFails

LEMMA FlagsStep == ASSUME TypeOK, Flags, [Next]_vars PROVE Flags'
  <1> USE DEF TypeOK, MasterTypeOK, Goto, Flags
  <1>1. CASE UNCHANGED <<alive, sock, pc>>
    BY <1>1
  <1>2. ASSUME NEW s \in Server, Thread(s) PROVE Flags'
    <2>1. CASE SetSock(s)
      BY <2>1 DEF SetSock
    <2>2. CASE MarkDead(s)
      BY <2>2 DEF MarkDead
    <2>3. CASE TakeFlag(s)
      <3>1. pc[s] = "dead" /\ pc' = [pc EXCEPT ![s] = IF isPrimary[s] THEN "scan" ELSE "send"]
            /\ UNCHANGED <<alive, sock>>
        BY <2>3 DEF TakeFlag
      <3>2. QED
        BY <3>1
    <2>4. CASE ScanPeer(s)
      <3>1. pc[s] = "scan" /\ (pc' = pc \/ pc' = [pc EXCEPT ![s] = "promote"]) /\ UNCHANGED <<alive, sock>>
        BY <2>4 DEF ScanPeer
      <3>2. QED
        BY <3>1
    <2>5. CASE ScanEnd(s) \/ Promote(s) \/ SendEnd(s) \/ Spawn(s)
      <3>1. CASE ScanEnd(s)
        BY <3>1 DEF ScanEnd
      <3>2. CASE Promote(s)
        BY <3>2 DEF Promote
      <3>3. CASE SendEnd(s)
        BY <3>3 DEF SendEnd
      <3>4. CASE Spawn(s)
        BY <3>4 DEF Spawn
      <3>5. QED
        BY <2>5, <3>1, <3>2, <3>3, <3>4
    <2>6. CASE Revive(s)
      BY <2>6 DEF Revive
    <2>7. CASE Ping(s) \/ SendCrashed(s) \/ NotifyRestart(s)
      BY <1>1, <2>7 DEF Ping, SendCrashed, NotifyRestart, masterVars
    <2>8. QED
      BY <1>2, <2>1, <2>2, <2>3, <2>4, <2>5, <2>6, <2>7 DEF Thread
  <1>3. ASSUME NEW s \in Server,
               \/ Detect(s) \/ Suspect(s) \/ BindFails(s) \/ SpawnFails(s) \/ ExecvFails(s)
        PROVE  Flags'
    BY <1>3 DEF Detect, Suspect, BindFails, SpawnFails, ExecvFails,
                LoseServer, SpawnNothing, ExecFails
  <1>4. ASSUME NEW s \in Server, Crash(s) \/ Drop(s) \/ TabletStep(s)
        PROVE  Flags'
    BY <1>1, <1>4 DEF Crash, Drop, TabletStep, masterVars
  <1>5. CASE UNCHANGED vars
    BY <1>1, <1>5 DEF vars, masterVars
  <1>6. QED
    BY <1>2, <1>3, <1>4, <1>5 DEF Next, MasterStep

LEMMA LoopingStep == ASSUME TypeOK, Looping, [Next]_vars PROVE Looping'
  <1> USE DEF TypeOK, MasterTypeOK, Goto, Looping
  <1>1. CASE UNCHANGED <<pc, idx>>
    BY <1>1
  <1>2. ASSUME NEW s \in Server, Thread(s) PROVE Looping'
    <2>1. CASE SetSock(s) \/ MarkDead(s) \/ TakeFlag(s)
      BY <2>1 DEF SetSock, MarkDead, TakeFlag
    <2>2. CASE ScanPeer(s)
      <3>1. /\ pc[s] = "scan" /\ (pc' = pc \/ pc' = [pc EXCEPT ![s] = "promote"])
            /\ \A t \in Server : t # s => idx'[t] = idx[t]
        BY <2>2 DEF ScanPeer
      <3>2. QED
        BY <3>1
    <2>3. CASE SendCrashed(s)
      BY <2>3 DEF SendCrashed
    <2>4. CASE ScanEnd(s) \/ Promote(s) \/ SendEnd(s)
      BY <2>4 DEF ScanEnd, Promote, SendEnd
    <2>5. CASE Spawn(s) \/ Revive(s)
      BY <2>5 DEF Spawn, Revive
    <2>6. CASE Ping(s) \/ NotifyRestart(s)
      BY <1>1, <2>6 DEF Ping, NotifyRestart, masterVars
    <2>7. QED
      BY <1>2, <2>1, <2>2, <2>3, <2>4, <2>5, <2>6 DEF Thread
  <1>3. ASSUME NEW s \in Server,
               \/ Detect(s) \/ Suspect(s) \/ BindFails(s) \/ SpawnFails(s) \/ ExecvFails(s)
        PROVE  Looping'
    BY <1>3 DEF Detect, Suspect, BindFails, SpawnFails, ExecvFails,
                LoseServer, SpawnNothing, ExecFails
  <1>4. ASSUME NEW s \in Server, Crash(s) \/ Drop(s) \/ TabletStep(s)
        PROVE  Looping'
    BY <1>1, <1>4 DEF Crash, Drop, TabletStep, masterVars
  <1>5. CASE UNCHANGED vars
    BY <1>1, <1>5 DEF vars, masterVars
  <1>6. QED
    BY <1>2, <1>3, <1>4, <1>5 DEF Next, MasterStep

\* Only a fault makes trouble, and it strikes one server of a quiet cluster.
LEMMA TroubleBegins ==
    ASSUME TypeOK, NEW s \in Server,
           \/ MasterStep(s) \/ Detect(s) \/ BindFails(s) \/ TabletStep(s) \/ Crash(s)
           \/ Suspect(s) \/ SpawnFails(s) \/ ExecvFails(s) \/ Drop(s),
           NEW t \in Server, Troubled(t)'
    PROVE  Troubled(t) \/ (t = s /\ Allowed)
  <1> USE DEF TypeOK, TabletTypeOK, MasterTypeOK, Goto, Troubled
  <1>1. CASE MasterStep(s)
    <2>1. CASE t # s
      <3>1. pc'[t] = pc[t] /\ notify'[t] = notify[t]
        BY <1>1, <2>1, ThreadOf
      <3>2. up'[t] = up[t]
        BY <1>1, <2>1 DEF MasterStep, Thread, SetSock, Ping, MarkDead, TakeFlag, ScanPeer, ScanEnd, Promote,
              SendCrashed, SendEnd, Spawn, Boot, Revive, NotifyRestart, tabletVars
      <3>3. QED
        BY <3>1, <3>2
    <2>2. CASE t = s /\ ~NotifyRestart(s)
      <3>1. pc[s] # "ping" \/ Ping(s)
        BY <1>1, <2>2 DEF MasterStep, Thread, SetSock, Ping, MarkDead, TakeFlag, ScanPeer, ScanEnd, Promote,
              SendCrashed, SendEnd, Spawn, Revive
      <3>2. Ping(s) => UNCHANGED <<up, pc, notify>>
        BY DEF Ping, tabletVars, masterVars
      <3>3. QED
        BY <2>2, <3>1, <3>2
    <2>3. CASE t = s /\ NotifyRestart(s)
      <3>1. notify[s] # 0
        BY <2>3, ServerFacts DEF NotifyRestart
      <3>2. QED
        BY <2>3, <3>1
    <2>4. QED
      BY <2>1, <2>2, <2>3
  <1>2. CASE TabletStep(s) \/ Drop(s)
    BY <1>2, TabletFacts DEF Drop, masterVars
  <1>3. CASE Crash(s)
    BY <1>3 DEF Crash, Die, masterVars
  <1>4. CASE Suspect(s) \/ Detect(s)
    BY <1>4 DEF Suspect, Detect, LoseServer, tabletVars
  <1>5. CASE BindFails(s) \/ SpawnFails(s) \/ ExecvFails(s)
    BY <1>5 DEF BindFails, SpawnFails, ExecvFails, SpawnNothing, ExecFails, tabletVars
  <1>6. QED
    BY <1>1, <1>2, <1>3, <1>4, <1>5

LEMMA AloneStep == ASSUME TypeOK, Alone, [Next]_vars PROVE Alone'
  <1> SUFFICES ASSUME OneAtATime, NEW s \in Server, NEW t \in Server, Troubled(s)', Troubled(t)'
               PROVE  s = t
    BY DEF Alone
  <1>1. CASE UNCHANGED vars
    BY <1>1 DEF Alone, Troubled, vars, tabletVars, masterVars
  <1>2. ASSUME NEW u \in Server,
               \/ MasterStep(u) \/ Detect(u) \/ BindFails(u) \/ TabletStep(u) \/ Crash(u)
               \/ Suspect(u) \/ SpawnFails(u) \/ ExecvFails(u) \/ Drop(u)
        PROVE  s = t
    <2>1. Troubled(s) \/ (s = u /\ Allowed)
      BY <1>2, TroubleBegins
    <2>2. Troubled(t) \/ (t = u /\ Allowed)
      BY <1>2, TroubleBegins
    <2>3. Allowed => \A v \in Server : ~Troubled(v)
      BY DEF Allowed, Quiet, Troubled
    <2>4. QED
      BY <2>1, <2>2, <2>3 DEF Alone
  <1>3. QED
    BY <1>1, <1>2 DEF Next

-----------------------------------------------------------------------------
(* Who is told of whom.                                                    *)

LEMMA ThreadDown ==
    ASSUME TypeOK, NEW s \in Server, Thread(s), pc'[s] \in Recovering
    PROVE  pc[s] \in Recovering
  <1> USE DEF TypeOK, MasterTypeOK, Goto, Recovering
  <1>1. CASE SetSock(s) \/ Ping(s) \/ MarkDead(s) \/ TakeFlag(s)
    BY <1>1 DEF SetSock, Ping, MarkDead, TakeFlag, masterVars
  <1>2. CASE ScanPeer(s) \/ ScanEnd(s) \/ Promote(s)
    BY <1>2 DEF ScanPeer, ScanEnd, Promote
  <1>3. CASE SendCrashed(s) \/ SendEnd(s)
    BY <1>3 DEF SendCrashed, SendEnd
  <1>4. CASE Spawn(s) \/ Revive(s) \/ NotifyRestart(s)
    BY <1>4 DEF Spawn, Revive, NotifyRestart
  <1>5. QED
    BY <1>1, <1>2, <1>3, <1>4 DEF Thread

\* The peer that thread s tells of a crash, and what.
Sent(s) == IF primaryDied[s] THEN <<Crashed(s), Elect(newPrimary[s])>> ELSE <<Crashed(s)>>

LEMMA SendFacts ==
    ASSUME TypeOK, NEW s \in Server, SendCrashed(s)
    PROVE  /\ idx[s] \in DOMAIN Cluster /\ Cluster[idx[s]] \in Server
           /\ Sent(s) \in Seq(Command)
           /\ IsHealthy(Cluster[idx[s]]) => Post(Cluster[idx[s]], Sent(s))
           /\ ~IsHealthy(Cluster[idx[s]]) => UNCHANGED inbox
           /\ UNCHANGED <<up, myCluster, myPrimary, pc, notify, isPrimary>>
           /\ pc[s] = "send"
  <1>1. idx[s] \in DOMAIN Cluster /\ Cluster[idx[s]] \in Server
    BY ServerFacts DEF SendCrashed, TypeOK, MasterTypeOK
  <1>2. Sent(s) \in Seq(Command)
    BY CommandTypes DEF TypeOK, MasterTypeOK, Sent
  <1>3. QED
    BY <1>1, <1>2 DEF SendCrashed, Sent

\* The peer that the old thread s tells of the restart, and what.
Notice(s) == IF Cluster[notify[s]] = s THEN <<Elect(PrimaryForRange)>> ELSE <<Restarted(s)>>

LEMMA NotifyFacts ==
    ASSUME TypeOK, NEW s \in Server, NotifyRestart(s)
    PROVE  /\ notify[s] \in DOMAIN Cluster /\ Cluster[notify[s]] \in Server
           /\ Notice(s) \in Seq(Command)
           /\ Cluster[notify[s]] = s \/ IsHealthy(Cluster[notify[s]]) => Post(Cluster[notify[s]], Notice(s))
           /\ Cluster[notify[s]] # s /\ ~IsHealthy(Cluster[notify[s]]) => UNCHANGED inbox
           /\ UNCHANGED <<up, myCluster, myPrimary, pc, isPrimary>>
  <1>1. notify[s] \in DOMAIN Cluster /\ Cluster[notify[s]] \in Server
    BY ServerFacts DEF NotifyRestart
  <1>2. Notice(s) \in Seq(Command)
    BY CommandTypes DEF Notice
  <1>3. QED
    BY <1>1, <1>2 DEF NotifyRestart, Notice

\* The threads that send nothing and start nothing leave the servers alone.
LEMMA QuietThread ==
    ASSUME NEW s \in Server,
           \/ Detect(s) \/ Suspect(s) \/ BindFails(s) \/ SpawnFails(s) \/ ExecvFails(s)
           \/ Thread(s) /\ ~SendCrashed(s) /\ ~Spawn(s) /\ ~NotifyRestart(s)
    PROVE  UNCHANGED tabletVars
  BY DEF Detect, Suspect, BindFails, SpawnFails, ExecvFails, LoseServer, SpawnNothing, ExecFails,
         Thread, SetSock, Ping, MarkDead, TakeFlag, ScanPeer, ScanEnd, Promote, SendEnd, Revive

LEMMA ThreadDownStep ==
    ASSUME TypeOK, Flags, DownUntilStarted, NEW u \in Server, MasterStep(u)
    PROVE  DownUntilStarted'
  <1> USE DEF TypeOK, TabletTypeOK, MasterTypeOK, Goto
  <1>1. CASE Spawn(u)
    <2>1. /\ pc' = [pc EXCEPT ![u] = "wait"]
          /\ up' = [up EXCEPT ![u] = TRUE]
          /\ myCluster' = [myCluster EXCEPT ![u] = Server]
          /\ inbox' = [inbox EXCEPT ![u] = <<>>]
      BY <1>1 DEF Spawn, Boot
    <2>2. ASSUME NEW s \in Server, s # u
          PROVE  pc'[s] = pc[s] /\ up'[s] = up[s] /\ myCluster'[s] = myCluster[s] /\ inbox'[s] = inbox[s]
      BY <2>1, <2>2
    <2>3. pc'[u] = "wait" /\ myCluster'[u] = Server /\ DOMAIN inbox'[u] = {}
      <3>1. inbox'[u] = <<>> /\ pc'[u] = "wait" /\ myCluster'[u] = Server
        BY <2>1
      <3>2. QED
        BY <3>1, EmptySeq
    <2>4. ASSUME NEW s \in Server
          PROVE  /\ pc'[s] \in Recovering => ~up'[s]
                 /\ up'[s] /\ pc'[s] \in {"wait", "start"} =>
                       /\ myCluster'[s] = Server
                       /\ \A i \in DOMAIN inbox'[s] : inbox'[s][i].type # "crashed"
      <3>1. CASE s = u
        BY <2>3, <3>1 DEF Recovering
      <3>2. CASE s # u
        BY <2>2, <3>2 DEF DownUntilStarted
      <3>3. QED
        BY <3>1, <3>2
    <2>5. Recovering' = Recovering
      BY DEF Recovering
    <2>6. QED
      BY <2>4, <2>5 DEF DownUntilStarted
  <1>2. CASE SendCrashed(u) \/ NotifyRestart(u)
    <2>1. UNCHANGED <<pc, up, myCluster>>
      BY <1>2, SendFacts, NotifyFacts
    <2>2. ASSUME NEW s \in Server, up[s], pc[s] \in {"wait", "start"}, NEW i \in DOMAIN inbox'[s]
          PROVE  inbox'[s][i].type # "crashed"
      <3>1. \A j \in DOMAIN inbox[s] : inbox[s][j].type # "crashed"
        BY <2>2 DEF DownUntilStarted
      <3>2. CASE inbox'[s] = inbox[s]
        BY <2>2, <3>1, <3>2
      <3>3. CASE SendCrashed(u)
        <4>1. ~IsHealthy(s)
          BY <2>2 DEF IsHealthy, Flags
        <4>2. inbox'[s] = inbox[s]
          BY <3>3, <4>1, SendFacts DEF Post
        <4>3. QED
          BY <3>2, <4>2
      <3>4. CASE NotifyRestart(u)
        <4>1. CASE Post(s, Notice(u))
          <5>1. \/ \E j \in DOMAIN inbox[s] : inbox'[s][i] = inbox[s][j]
                \/ \E j \in DOMAIN Notice(u) : inbox'[s][i] = Notice(u)[j]
            <6>1. Notice(u) \in Seq(Command) /\ inbox \in [Server -> Seq(Command)]
              BY <3>4, NotifyFacts
            <6>2. \A k \in DOMAIN inbox'[s] :
                     \/ \E j \in DOMAIN inbox[s] : inbox'[s][k] = inbox[s][j]
                     \/ \E j \in DOMAIN Notice(u) : inbox'[s][k] = Notice(u)[j]
              BY <4>1, <6>1, PostContents
            <6>3. QED
              BY <2>2, <6>2
          <5>2. \A j \in DOMAIN Notice(u) : Notice(u)[j].type # "crashed"
            BY DEF Notice, Elect, Restarted
          <5>3. QED
            BY <3>1, <5>1, <5>2
        <4>2. CASE inbox'[s] = inbox[s]
          BY <3>2, <4>2
        <4>3. QED
          <5>1. \/ Post(Cluster[notify[u]], Notice(u)) /\ Cluster[notify[u]] \in Server
                \/ UNCHANGED inbox
            BY <3>4, NotifyFacts
          <5>2. ASSUME NEW d \in Server, d # s, Post(d, Notice(u)) PROVE inbox'[s] = inbox[s]
            BY <5>2 DEF Post
          <5>3. QED
            BY <4>1, <4>2, <5>1, <5>2
      <3>5. QED
        BY <1>2, <3>3, <3>4
    <2>3. QED
      BY <2>1, <2>2 DEF DownUntilStarted
  <1>3. CASE Thread(u) /\ ~SendCrashed(u) /\ ~Spawn(u) /\ ~NotifyRestart(u)
    <2>1. UNCHANGED <<up, myCluster, inbox>>
      BY <1>3, QuietThread DEF tabletVars
    <2>2. \A t \in Server : t # u => pc'[t] = pc[t]
      BY ThreadOf
    <2>3. pc'[u] \in Recovering => pc[u] \in Recovering
      BY <1>3, ThreadDown
    <2>4. pc'[u] \in {"wait", "start"} => pc[u] \in {"wait", "start"}
      BY <1>3 DEF Thread, SetSock, Ping, MarkDead, TakeFlag, ScanPeer, ScanEnd, Promote, SendEnd, Revive, masterVars
    <2>5. QED
      BY <2>1, <2>2, <2>3, <2>4 DEF DownUntilStarted
  <1>4. QED
    BY <1>1, <1>2, <1>3 DEF MasterStep

LEMMA DownStep == ASSUME TypeOK, TypeOK', Spent, Flags, Down, [Next]_vars PROVE Down'
  <1> SUFFICES ASSUME NoneSuspected' PROVE DownUntilStarted'
    BY DEF Down
  <1>1. DownUntilStarted /\ \A s \in Server : ~Suspect(s)
    BY SpentStep DEF Down
  <1> USE DEF TypeOK, TabletTypeOK, MasterTypeOK, Goto
  <1>2. ASSUME NEW u \in Server, MasterStep(u) PROVE DownUntilStarted'
    BY <1>1, <1>2, ThreadDownStep
  <1>3. ASSUME NEW u \in Server, Detect(u) \/ BindFails(u) \/ SpawnFails(u) \/ ExecvFails(u)
        PROVE  DownUntilStarted'
    <2>1. UNCHANGED <<up, myCluster, inbox>>
      BY <1>3, QuietThread DEF tabletVars
    <2>2. ~up[u] /\ \A t \in Server : t # u => pc'[t] = pc[t]
      BY <1>1, <1>3, ThreadOf DEF Detect, BindFails, SpawnFails, ExecvFails, SpawnNothing, ExecFails,
                                  DownUntilStarted, Recovering
    <2>3. QED
      BY <1>1, <2>1, <2>2 DEF DownUntilStarted
  <1>4. ASSUME NEW u \in Server, TabletStep(u) PROVE DownUntilStarted'
    <2>1. /\ UNCHANGED <<up, pc>>
          /\ \A s \in Server : s # u => inbox'[s] = inbox[s] /\ myCluster'[s] = myCluster[s]
      <3>1. UNCHANGED <<up, masterVars>>
        BY <1>4, TabletFacts
      <3>2. ASSUME NEW s \in Server, s # u
            PROVE  inbox'[s] = inbox[s] /\ myCluster'[s] = myCluster[s]
        BY <1>4, <3>2, TabletFacts, ZenonT(30)
      <3>3. QED
        BY <3>1, <3>2 DEF masterVars
    <2>2. ASSUME up[u], pc[u] \in {"wait", "start"}
          PROVE  /\ myCluster'[u] = Server
                 /\ \A i \in DOMAIN inbox'[u] : inbox'[u][i].type # "crashed"
      <3>1. /\ myCluster[u] = Server /\ Head(inbox[u]).type # "crashed" /\ Head(inbox[u]) \in Command
            /\ \A i \in DOMAIN inbox'[u] : inbox'[u][i].type # "crashed"
        <4>1. /\ myCluster[u] = Server
              /\ \A j \in DOMAIN inbox[u] : inbox[u][j].type # "crashed"
          BY <1>1, <2>2 DEF DownUntilStarted
        <4>2. inbox[u] # <<>> /\ inbox' = [inbox EXCEPT ![u] = Tail(@)]
          BY <1>4, TabletFacts
        <4>3. /\ Head(inbox[u]) \in Command
              /\ Head(inbox[u]) = inbox[u][1] /\ 1 \in DOMAIN inbox[u]
              /\ \A i \in DOMAIN inbox'[u] :
                    \E j \in DOMAIN inbox[u] : inbox'[u][i] = inbox[u][j]
          BY <4>2, TailContents
        <4>4. Head(inbox[u]).type # "crashed"
          BY <4>1, <4>3
        <4>5. ASSUME NEW i \in DOMAIN inbox'[u] PROVE inbox'[u][i].type # "crashed"
          <5>1. PICK j \in DOMAIN inbox[u] : inbox'[u][i] = inbox[u][j]
            BY <4>3, <4>5
          <5>2. QED
            BY <4>1, <5>1
        <4>6. QED
          BY <4>1, <4>3, <4>4, <4>5
      <3>2. CASE HandleElect(u)
        BY <3>1, <3>2 DEF HandleElect
      <3>3. CASE HandleRestarted(u)
        <4> DEFINE t == Head(inbox[u]).server
        <4>1. t \in Server
          BY <3>1, <3>3, CommandIs DEF HandleRestarted
        <4>2. myCluster' = [myCluster EXCEPT ![u] = @ \cup {t}]
          BY <3>3 DEF HandleRestarted, addToMyCluster
        <4>3. myCluster'[u] = myCluster[u] \cup {t}
          BY <4>2
        <4>4. Server \cup {t} = Server
          BY <4>1, MemberAgain
        <4>5. QED
          BY <3>1, <4>3, <4>4
      <3>4. QED
        BY <1>4, <3>1, <3>2, <3>3 DEF TabletStep, Foofunc, HandleCrashed
    <2>3. Recovering' = Recovering
      BY DEF Recovering
    <2>4. ASSUME NEW s \in Server
          PROVE  /\ pc'[s] \in Recovering => ~up'[s]
                 /\ up'[s] /\ pc'[s] \in {"wait", "start"} =>
                       /\ myCluster'[s] = Server
                       /\ \A i \in DOMAIN inbox'[s] : inbox'[s][i].type # "crashed"
      <3>1. CASE s = u
        BY <1>1, <2>1, <2>2, <3>1 DEF DownUntilStarted
      <3>2. CASE s # u
        BY <1>1, <2>1, <3>2 DEF DownUntilStarted
      <3>3. QED
        BY <3>1, <3>2
    <2>5. QED
      BY <2>3, <2>4 DEF DownUntilStarted
  <1>5. ASSUME NEW u \in Server, Crash(u) PROVE DownUntilStarted'
    BY <1>1, <1>5 DEF Crash, Die, masterVars, DownUntilStarted
  <1>6. ASSUME NEW u \in Server, Drop(u) PROVE DownUntilStarted'
    BY <1>1, <1>6, TailContents DEF Drop, masterVars, DownUntilStarted
  <1>7. CASE UNCHANGED vars
    BY <1>1, <1>7 DEF vars, tabletVars, masterVars, DownUntilStarted
  <1>8. QED
    BY <1>1, <1>2, <1>3, <1>4, <1>5, <1>6, <1>7 DEF Next

\* A debt is kept, or paid: the recovery of t tells s.
LEMMA OwedKept ==
    ASSUME TypeOK, TypeOK', [Next]_vars, NEW s \in Server, NEW t \in Server, Owed(t, s)
    PROVE  Owed(t, s)' \/ (NotifyRestart(t) /\ Cluster[notify[t]] = s)
  <1> USE DEF Owed, ToNotify
  <1>1. PICK i \in DOMAIN Cluster : Cluster[i] = s
    BY DEF Server
  <1>2. i \in 1..Len(Cluster) /\ Len(Cluster) \in Nat /\ 1 <= i
    BY <1>1, ServerFacts
  <1>3. /\ pc \in [Server -> Pc] /\ notify \in [Server -> 0..Len(Cluster)]
    BY DEF TypeOK, MasterTypeOK
  <1>4. CASE pc'[t] = pc[t] /\ notify'[t] = notify[t]
    BY <1>4
  <1>5. ASSUME Thread(t), ~NotifyRestart(t) PROVE Owed(t, s)'
    <2>1. CASE SendCrashed(t) \/ Ping(t)
      BY <1>4, <2>1 DEF SendCrashed, Ping, masterVars
    <2>2. CASE SetSock(t) \/ MarkDead(t)
      BY <1>3, <2>2 DEF SetSock, MarkDead, Goto
    <2>3. CASE TakeFlag(t) \/ ScanEnd(t) \/ Promote(t)
      BY <1>3, <2>3 DEF TakeFlag, ScanEnd, Promote, Goto
    <2>4. CASE ScanPeer(t)
      <3>1. pc[t] = "scan" /\ notify'[t] = notify[t]
        BY <2>4 DEF ScanPeer
      <3>2. QED
        BY <3>1
    <2>5. CASE SendEnd(t) \/ Spawn(t)
      BY <1>3, <2>5 DEF SendEnd, Spawn, Goto
    <2>6. CASE Revive(t)
      <3>1. notify'[t] = 1
        BY <1>3, <2>6 DEF Revive
      <3>2. QED
        BY <1>1, <1>2, <3>1
    <2>7. QED
      BY <1>5, <2>1, <2>2, <2>3, <2>4, <2>5, <2>6 DEF Thread
  <1>6. ASSUME NotifyRestart(t), Cluster[notify[t]] # s PROVE Owed(t, s)'
    <2>1. /\ notify[t] \in 1..Len(Cluster) /\ pc'[t] = pc[t]
          /\ notify'[t] = IF notify[t] = Len(Cluster) THEN 0 ELSE notify[t] + 1
      BY <1>3, <1>6 DEF NotifyRestart
    <2>2. CASE ~ToNotify(t, s)
      BY <2>1, <2>2
    <2>3. CASE ToNotify(t, s)
      <3>1. PICK k \in DOMAIN Cluster : Cluster[k] = s /\ notify[t] <= k
        BY <2>3
      <3>2. k # notify[t] /\ k \in 1..Len(Cluster)
        BY <1>6, <3>1, ServerFacts
      <3>3. notify'[t] = notify[t] + 1 /\ notify'[t] <= k /\ notify'[t] # 0
        BY <1>2, <2>1, <3>1, <3>2
      <3>4. QED
        BY <3>1, <3>3
    <2>4. QED
      BY <2>2, <2>3
  <1>7. ASSUME LoseServer(t) \/ SpawnNothing(t) \/ ExecFails(t) PROVE Owed(t, s)'
    <2>1. CASE LoseServer(t) \/ SpawnNothing(t)
      BY <1>3, <2>1 DEF LoseServer, SpawnNothing, Goto
    <2>2. CASE ExecFails(t)
      BY <1>3, <2>2 DEF ExecFails, Goto
    <2>3. QED
      BY <1>7, <2>1, <2>2
  <1>8. ASSUME NEW u \in Server,
               \/ MasterStep(u) \/ Detect(u) \/ BindFails(u)
               \/ Suspect(u) \/ SpawnFails(u) \/ ExecvFails(u)
        PROVE  Owed(t, s)' \/ (NotifyRestart(t) /\ Cluster[notify[t]] = s)
    <2>1. CASE u # t
      BY <1>4, <1>8, <2>1, ThreadOf
    <2>2. CASE u = t
      BY <1>5, <1>6, <1>7, <1>8, <2>2
         DEF MasterStep, Detect, BindFails, Suspect, SpawnFails, ExecvFails
    <2>3. QED
      BY <2>1, <2>2
  <1>9. ASSUME NEW u \in Server, Crash(u) \/ Drop(u) \/ TabletStep(u)
        PROVE  Owed(t, s)'
    BY <1>4, <1>9 DEF Crash, Drop, TabletStep, masterVars
  <1>10. CASE UNCHANGED vars
    BY <1>4, <1>10 DEF vars, masterVars
  <1>11. QED
    BY <1>8, <1>9, <1>10 DEF Next

\* A server that comes up starts from the config file.
LEMMA UpStep ==
    ASSUME TypeOK, [Next]_vars, NEW s \in Server, ~up[s], up'[s]
    PROVE  pc'[s] = "wait" /\ myCluster'[s] = Server /\ inbox'[s] = <<>>
  <1> USE DEF TypeOK, TabletTypeOK, MasterTypeOK
  <1>1. ASSUME NEW u \in Server, Spawn(u)
        PROVE  pc'[s] = "wait" /\ myCluster'[s] = Server /\ inbox'[s] = <<>>
    BY <1>1 DEF Spawn, Boot, Goto
  <1>2. ASSUME NEW u \in Server, Thread(u) PROVE Spawn(u)
    <2>1. CASE SendCrashed(u) \/ NotifyRestart(u)
      BY <2>1 DEF SendCrashed, NotifyRestart
    <2>2. QED
      BY <1>2, <2>1, QuietThread DEF tabletVars
  <1>3. ASSUME NEW u \in Server,
               Detect(u) \/ Suspect(u) \/ BindFails(u) \/ SpawnFails(u) \/ ExecvFails(u)
        PROVE  FALSE
    BY <1>3, QuietThread DEF tabletVars
  <1>4. ASSUME NEW u \in Server, Crash(u) \/ Drop(u) \/ TabletStep(u) PROVE FALSE
    BY <1>4, TabletFacts DEF Crash, Die, Drop
  <1>5. QED
    BY <1>1, <1>2, <1>3, <1>4 DEF Next, MasterStep, vars, tabletVars

\* Only the recovery of t takes t out of myCluster of a server that stays up.
LEMMA HaveKept ==
    ASSUME TypeOK, [Next]_vars, NEW s \in Server, NEW t \in Server, up[s], up'[s],
           \A u \in Server : ~Drop(u), WillHave(s, t)
    PROVE  WillHave(s, t)' \/ Owed(t, s)'
  <1>1. ASSUME inbox'[s] = inbox[s], myCluster'[s] = myCluster[s]
        PROVE  WillHave(s, t)'
    BY <1>1 DEF WillHave
  <1>2. ASSUME NEW u \in Server, SendCrashed(u) PROVE WillHave(s, t)' \/ Owed(t, s)'
    <2> DEFINE d == Cluster[idx[u]]
    <2>1. /\ d \in Server /\ Sent(u) \in Seq(Command) /\ UNCHANGED <<myCluster, pc>> /\ pc[u] = "send"
          /\ Post(d, Sent(u)) \/ UNCHANGED inbox
      BY <1>2, SendFacts
    <2> HIDE DEF d
    <2>2. CASE u = t
      BY <2>1, <2>2 DEF Owed
    <2>3. CASE UNCHANGED inbox
      BY <1>1, <2>1, <2>3
    <2>4. CASE u # t /\ Post(d, Sent(u))
      <3>1. Lacks(Sent(u), {Crashed(t)})
        BY <2>4, CommandsDiffer DEF Sent, Lacks
      <3>2. QED
        BY <2>1, <2>4, <3>1, PostHave
    <2>5. QED
      BY <2>1, <2>2, <2>3, <2>4
  <1>3. ASSUME NEW u \in Server, NotifyRestart(u) PROVE WillHave(s, t)'
    <2> DEFINE d == Cluster[notify[u]]
    <2>1. /\ d \in Server /\ Notice(u) \in Seq(Command) /\ UNCHANGED myCluster
          /\ Post(d, Notice(u)) \/ UNCHANGED inbox
      BY <1>3, NotifyFacts
    <2> HIDE DEF d
    <2>2. Lacks(Notice(u), {Crashed(t)})
      BY CommandsDiffer DEF Notice, Lacks
    <2>3. CASE UNCHANGED inbox
      BY <1>1, <2>1, <2>3
    <2>4. CASE Post(d, Notice(u))
      BY <2>1, <2>2, <2>4, PostHave
    <2>5. QED
      BY <2>1, <2>3, <2>4
  <1>4. ASSUME NEW u \in Server, Spawn(u) PROVE WillHave(s, t)'
    <2>1. u # s
      BY <1>4 DEF Spawn
    <2>2. QED
      BY <1>1, <1>4, <2>1 DEF Spawn, Boot, TypeOK, TabletTypeOK
  <1>5. ASSUME NEW u \in Server, Thread(u) PROVE WillHave(s, t)' \/ Owed(t, s)'
    BY <1>1, <1>2, <1>3, <1>4, <1>5, QuietThread DEF tabletVars
  <1>6. ASSUME NEW u \in Server,
               Detect(u) \/ Suspect(u) \/ BindFails(u) \/ SpawnFails(u) \/ ExecvFails(u)
        PROVE  WillHave(s, t)'
    BY <1>1, <1>6, QuietThread DEF tabletVars
  <1>7. ASSUME NEW u \in Server, TabletStep(u) PROVE WillHave(s, t)'
    BY <1>7, TakeHave
  <1>8. ASSUME NEW u \in Server, Crash(u) PROVE WillHave(s, t)'
    <2>1. u # s
      BY <1>8 DEF Crash, Die, TypeOK, TabletTypeOK
    <2>2. QED
      BY <1>1, <1>8, <2>1 DEF Crash, Die, TypeOK, TabletTypeOK
  <1>9. CASE UNCHANGED vars
    BY <1>1, <1>9 DEF vars, tabletVars
  <1>10. QED
    BY <1>5, <1>6, <1>7, <1>8, <1>9 DEF Next, MasterStep

\* When the recovery of t comes to s, s has t, or will: a healthy server is told,
\* and one that is not has just been started.
LEMMA DebtPaid ==
    ASSUME TypeOK, Flags, Down, Alone, NoneSuspected \/ OneAtATime,
           NEW s \in Server, NEW t \in Server, s # t, up[s],
           NotifyRestart(t), Cluster[notify[t]] = s
    PROVE  WillHave(s, t)'
  <1>1. /\ Notice(t) \in Seq(Command) /\ UNCHANGED <<up, myCluster>>
        /\ IsHealthy(s) => Post(s, Notice(t))
        /\ ~IsHealthy(s) => UNCHANGED inbox
    BY NotifyFacts
  <1>2. CASE IsHealthy(s)
    <2>1. Ends(Notice(t), Restarted(t), {Crashed(t)})
      BY DEF Notice, Ends
    <2>2. Ends(inbox'[s], Restarted(t), {Crashed(t)})
      BY <1>1, <1>2, <2>1, PostEnds
    <2>3. QED
      BY <2>2 DEF WillHave
  <1>3. CASE ~IsHealthy(s)
    <2>1. pc[s] \notin {"ping", "lost"} /\ notify[t] # 0
      BY <1>3, ServerFacts DEF IsHealthy, Flags, NotifyRestart
    <2>2. ~OneAtATime
      BY <2>1 DEF Alone, Troubled
    <2>3. DownUntilStarted
      BY <2>2 DEF Down
    <2>4. pc[s] \in {"wait", "start"}
      BY <2>1, <2>3 DEF DownUntilStarted, Recovering, TypeOK, MasterTypeOK, Pc
    <2>5. myCluster[s] = Server /\ Lacks(inbox[s], {Crashed(t)})
      BY <2>3, <2>4 DEF DownUntilStarted, Lacks, Crashed
    <2>6. QED
      BY <1>1, <1>3, <2>5 DEF WillHave
  <1>4. QED
    BY <1>2, <1>3

LEMMA ToldStep ==
    ASSUME TypeOK, TypeOK', Spent, Flags, Down, Alone, Told, [Next]_vars
    PROVE  Told'
  <1> SUFFICES ASSUME NoneLost', NoneSuspected' \/ OneAtATime,
                      NEW s \in Server, NEW t \in Server, s # t, up'[s]
               PROVE  WillHave(s, t)' \/ Owed(t, s)'
    BY DEF Told
  <1>1. NoneLost /\ (NoneSuspected \/ OneAtATime) /\ \A u \in Server : ~Drop(u)
    BY SpentStep
  <1>2. CASE ~up[s]
    <2>1. myCluster'[s] = Server /\ Lacks(inbox'[s], {Crashed(t)})
      BY <1>2, UpStep, EmptySeq DEF Lacks
    <2>2. QED
      BY <2>1 DEF WillHave
  <1>3. CASE up[s] /\ WillHave(s, t)
    BY <1>1, <1>3, HaveKept
  <1>4. CASE up[s] /\ Owed(t, s)
    BY <1>1, <1>4, OwedKept, DebtPaid
  <1>5. QED
    BY <1>1, <1>2, <1>3, <1>4 DEF Told

-----------------------------------------------------------------------------
(* Who follows whom, when servers fail one at a time.                      *)

\* While one thread recovers its server, all the others are healthy.
LEMMA OthersHealthy ==
    ASSUME TypeOK, Flags, Alone, OneAtATime, NEW s \in Server, pc[s] # "ping",
           NEW t \in Server, t # s
    PROVE  up[t] /\ pc[t] = "ping" /\ notify[t] = 0 /\ IsHealthy(t)
  <1>1. ~Troubled(t)
    BY DEF Alone, Troubled
  <1>2. up[t] /\ pc[t] = "ping" /\ notify[t] = 0
    BY <1>1 DEF Troubled
  <1>3. QED
    BY <1>2 DEF IsHealthy, Flags

\* What thread s did to itself, when it set no flag.
LEMMA ElectedBy ==
    ASSUME ElectionFinds, NEW s \in Server, UNCHANGED isPrimary,
           \A t \in Server : t # s =>
               /\ pc'[t] = pc[t] /\ idx'[t] = idx[t]
               /\ primaryDied'[t] = primaryDied[t] /\ newPrimary'[t] = newPrimary[t],
           Electing(s) => Electing(s)',
           /\ Electing(s)' => primaryDied'[s]
           /\ pc'[s] = "scan" => \A j \in DOMAIN Cluster : j < idx'[s] => Cluster[j] = s
           /\ pc'[s] = "send" /\ primaryDied'[s] =>
                 newPrimary'[s] \in Server /\ isPrimary[newPrimary'[s]]
    PROVE  ElectionFinds'
  <1>1. \A t \in Server : Electing(t) => Electing(t)'
    BY DEF Electing
  <1>2. (\A t \in Server : ~Electing(t)') => \E p \in Server : isPrimary'[p]
    BY <1>1 DEF ElectionFinds
  <1>3. ASSUME NEW t \in Server
        PROVE  /\ Electing(t)' => primaryDied'[t]
               /\ pc'[t] = "scan" => \A j \in DOMAIN Cluster : j < idx'[t] => Cluster[j] = t
               /\ pc'[t] = "send" /\ primaryDied'[t] =>
                     newPrimary'[t] \in Server /\ isPrimary'[newPrimary'[t]]
    <2>1. CASE t = s
      BY <2>1
    <2>2. CASE t # s
      BY <2>2 DEF ElectionFinds, Electing
    <2>3. QED
      BY <2>1, <2>2
  <1>4. QED
    BY <1>2, <1>3 DEF ElectionFinds

LEMMA ElectedThread ==
    ASSUME TypeOK, Token, Flags, Looping, Alone, OneAtATime, Len(Cluster) > 1, ElectionFinds,
           NEW s \in Server, MasterStep(s)
    PROVE  ElectionFinds'
  <1> USE DEF TypeOK, MasterTypeOK, Goto
  <1>1. \A t \in Server : t # s =>
            /\ pc'[t] = pc[t] /\ idx'[t] = idx[t]
            /\ primaryDied'[t] = primaryDied[t] /\ newPrimary'[t] = newPrimary[t]
    BY ThreadOf
  <1>2. /\ Electing(s) => primaryDied[s]
        /\ pc[s] = "scan" => \A j \in DOMAIN Cluster : j < idx[s] => Cluster[j] = s
        /\ pc[s] = "send" /\ primaryDied[s] =>
              newPrimary[s] \in Server /\ isPrimary[newPrimary[s]]
    BY DEF ElectionFinds
  <1>3. CASE UNCHANGED <<isPrimary, pc, idx, primaryDied, newPrimary>>
    BY <1>1, <1>2, <1>3, ElectedBy DEF Electing
  <1>4. ASSUME NEW to \in {"start", "ping", "lost", "dead", "restart", "wait", "stopped"},
               pc[s] \notin {"scan", "promote"},
               pc' = [pc EXCEPT ![s] = to], UNCHANGED isPrimary
        PROVE  ElectionFinds'
    <2>1. ~Electing(s) /\ ~Electing(s)' /\ pc'[s] \notin {"scan", "send"}
      BY <1>4 DEF Electing
    <2>2. QED
      BY <1>1, <1>4, <2>1, ElectedBy
  <1>5. CASE SetSock(s) \/ MarkDead(s) \/ Revive(s) \/ Spawn(s) \/ SendEnd(s)
    <2>1. CASE SetSock(s)
      BY <1>4, <2>1 DEF SetSock
    <2>2. CASE MarkDead(s)
      BY <1>4, <2>2 DEF MarkDead
    <2>3. CASE Revive(s)
      BY <1>4, <2>3 DEF Revive
    <2>4. CASE Spawn(s)
      BY <1>4, <2>4 DEF Spawn
    <2>5. CASE SendEnd(s)
      BY <1>4, <2>5 DEF SendEnd
    <2>6. QED
      BY <1>5, <2>1, <2>2, <2>3, <2>4, <2>5
  <1>6. CASE Ping(s) \/ NotifyRestart(s)
    BY <1>3, <1>6 DEF Ping, NotifyRestart, masterVars
  <1>7. CASE SendCrashed(s)
    <2>1. UNCHANGED <<isPrimary, pc, primaryDied, newPrimary>> /\ pc[s] = "send"
      BY <1>7 DEF SendCrashed
    <2>2. QED
      BY <1>1, <1>2, <2>1, ElectedBy DEF Electing
  <1>8. CASE TakeFlag(s)
    <2>1. /\ pc[s] = "dead" /\ pc'[s] = (IF isPrimary[s] THEN "scan" ELSE "send")
          /\ primaryDied'[s] = isPrimary[s] /\ idx'[s] = 1
          /\ isPrimary' = [isPrimary EXCEPT ![s] = FALSE]
      BY <1>8 DEF TakeFlag, Looping
    <2>2. \A t \in Server : t # s => pc[t] = "ping"
      BY <2>1, OthersHealthy
    <2>3. (\A t \in Server : ~Electing(t)') => \E p \in Server : isPrimary'[p]
      <3>1. SUFFICES ASSUME ~Electing(s)' PROVE \E p \in Server : isPrimary'[p]
        OBVIOUS
      <3>2. ~isPrimary[s]
        BY <2>1, <3>1 DEF Electing
      <3>3. PICK p \in Server : isPrimary[p]
        BY <2>1, <2>2 DEF ElectionFinds, Electing
      <3>4. isPrimary'[p]
        BY <2>1, <3>2, <3>3
      <3>5. QED
        BY <3>4
    <2>4. ASSUME NEW t \in Server
          PROVE  /\ Electing(t)' => primaryDied'[t]
                 /\ pc'[t] = "scan" => \A j \in DOMAIN Cluster : j < idx'[t] => Cluster[j] = t
                 /\ pc'[t] = "send" /\ primaryDied'[t] =>
                       newPrimary'[t] \in Server /\ isPrimary'[newPrimary'[t]]
      <3>1. CASE t = s
        BY <2>1, <3>1, ServerFacts DEF Electing
      <3>2. CASE t # s
        BY <1>1, <2>2, <3>2 DEF Electing
      <3>3. QED
        BY <3>1, <3>2
    <2>5. QED
      BY <2>3, <2>4 DEF ElectionFinds
  <1>9. CASE ScanPeer(s)
    <2>1. /\ pc[s] = "scan" /\ primaryDied[s] /\ primaryDied'[s] = primaryDied[s] /\ isPrimary' = isPrimary
          /\ idx[s] \in DOMAIN Cluster /\ Cluster[idx[s]] \in Server
      BY <1>2, <1>9, ServerFacts DEF ScanPeer, Electing
    <2>2. \/ pc'[s] = "promote"
          \/ pc'[s] = "scan" /\ idx'[s] = idx[s] + 1 /\ ~IsHealthyBackup(Cluster[idx[s]])
      BY <1>9 DEF ScanPeer
    <2>3. ASSUME ~IsHealthyBackup(Cluster[idx[s]]) PROVE Cluster[idx[s]] = s
      <3>1. ~isPrimary[Cluster[idx[s]]]
        BY <2>1 DEF Token, Electing
      <3>2. ~IsHealthy(Cluster[idx[s]])
        BY <2>3, <3>1 DEF IsHealthyBackup
      <3>3. QED
        BY <2>1, <3>2, OthersHealthy
    <2>4. Electing(s)'
      BY <2>2 DEF Electing
    <2>5. ASSUME pc'[s] = "scan", NEW j \in DOMAIN Cluster, j < idx'[s] PROVE Cluster[j] = s
      <3>1. j < idx[s] \/ j = idx[s]
        BY <2>2, <2>5, ServerFacts
      <3>2. QED
        BY <1>2, <2>1, <2>2, <2>3, <2>5, <3>1
    <2>6. QED
      BY <1>1, <2>1, <2>2, <2>4, <2>5, ElectedBy
  <1>10. CASE ScanEnd(s)
    <2>1. \A j \in DOMAIN Cluster : Cluster[j] = s
      BY <1>2, <1>10, ServerFacts DEF ScanEnd
    <2>2. 1 \in DOMAIN Cluster /\ 2 \in DOMAIN Cluster
      BY ServerFacts
    <2>3. QED
      BY <2>1, <2>2, ClusterAssumption
  <1>11. CASE Promote(s)
    <2>1. /\ pc[s] = "promote" /\ pc'[s] = "send" /\ newPrimary[s] \in Server
          /\ newPrimary'[s] = newPrimary[s]
          /\ isPrimary'[newPrimary[s]]
      BY <1>11 DEF Promote, Token
    <2>2. \A t \in Server : t # s => pc[t] = "ping"
      BY <2>1, OthersHealthy
    <2>3. ASSUME NEW t \in Server
          PROVE  /\ Electing(t)' => primaryDied'[t]
                 /\ pc'[t] = "scan" => \A j \in DOMAIN Cluster : j < idx'[t] => Cluster[j] = t
                 /\ pc'[t] = "send" /\ primaryDied'[t] =>
                       newPrimary'[t] \in Server /\ isPrimary'[newPrimary'[t]]
      <3>1. CASE t = s
        BY <2>1, <3>1 DEF Electing
      <3>2. CASE t # s
        BY <1>1, <2>2, <3>2 DEF Electing
      <3>3. QED
        BY <3>1, <3>2
    <2>4. \E p \in Server : isPrimary'[p]
      BY <2>1
    <2>5. QED
      BY <2>3, <2>4 DEF ElectionFinds
  <1>12. QED
    BY <1>5, <1>6, <1>7, <1>8, <1>9, <1>10, <1>11 DEF MasterStep, Thread

LEMMA ElectedStep ==
    ASSUME TypeOK, TypeOK', Token, Spent, Flags, Looping, Alone, Elected, [Next]_vars
    PROVE  Elected'
  <1> SUFFICES ASSUME Calm' PROVE ElectionFinds'
    BY DEF Elected
  <1>1. Calm
    BY SpentStep DEF Calm
  <1>2. ElectionFinds /\ OneAtATime /\ Len(Cluster) > 1
    BY <1>1 DEF Elected, Calm
  <1> USE DEF TypeOK, MasterTypeOK, Goto
  <1>3. CASE UNCHANGED <<isPrimary, pc, idx, primaryDied, newPrimary>>
    BY <1>2, <1>3 DEF ElectionFinds, Electing
  <1>4. ASSUME NEW s \in Server, MasterStep(s) PROVE ElectionFinds'
    BY <1>2, <1>4, ElectedThread
  <1>5. ASSUME NEW s \in Server,
               Detect(s) \/ Suspect(s) \/ BindFails(s) \/ SpawnFails(s) \/ ExecvFails(s)
        PROVE  ElectionFinds'
    <2>1. /\ UNCHANGED <<isPrimary, primaryDied, newPrimary, idx>> /\ pc[s] \in {"ping", "restart"}
          /\ pc'[s] \in {"lost", "wait", "stopped"}
      BY <1>5 DEF Detect, Suspect, BindFails, SpawnFails, ExecvFails, LoseServer, SpawnNothing, ExecFails
    <2>2. \A t \in Server : t # s => pc'[t] = pc[t]
      BY <1>5, ThreadOf
    <2>3. QED
      BY <1>2, <2>1, <2>2, ElectedBy DEF Electing
  <1>6. ASSUME NEW s \in Server, Crash(s) \/ Drop(s) \/ TabletStep(s) PROVE ElectionFinds'
    BY <1>3, <1>6 DEF Crash, Drop, TabletStep, masterVars
  <1>7. CASE UNCHANGED vars
    BY <1>3, <1>7 DEF vars, masterVars
  <1>8. QED
    BY <1>4, <1>5, <1>6, <1>7 DEF Next

\* A server that waits for its own recovery to name the primary goes on waiting,
\* or is told.
LEMMA AwaitingKept ==
    ASSUME TypeOK, [Next]_vars, NEW q \in Server, Awaiting(q)
    PROVE  Awaiting(q)' \/ (NotifyRestart(q) /\ Cluster[notify[q]] = q)
  <1> USE DEF Awaiting, ToNotify
  <1>1. PICK i \in DOMAIN Cluster : Cluster[i] = q
    BY DEF Server
  <1>2. i \in 1..Len(Cluster) /\ Len(Cluster) \in Nat /\ 1 <= i
    BY <1>1, ServerFacts
  <1>3. pc \in [Server -> Pc] /\ notify \in [Server -> 0..Len(Cluster)]
    BY DEF TypeOK, MasterTypeOK
  <1>4. ASSUME pc'[q] = pc[q], notify'[q] = notify[q] PROVE Awaiting(q)'
    BY <1>4
  <1>5. ASSUME Thread(q), ~NotifyRestart(q) PROVE Awaiting(q)'
    <2>1. CASE SendCrashed(q) \/ Ping(q)
      BY <1>4, <2>1 DEF SendCrashed, Ping, masterVars
    <2>2. CASE SetSock(q)
      BY <1>3, <2>2 DEF SetSock, Goto
    <2>3. CASE Revive(q)
      <3>1. notify'[q] = 1
        BY <1>3, <2>3 DEF Revive
      <3>2. QED
        BY <1>1, <1>2, <3>1
    <2>4. CASE MarkDead(q) \/ TakeFlag(q) \/ ScanEnd(q) \/ Promote(q) \/ SendEnd(q) \/ Spawn(q)
      BY <1>3, <2>4 DEF MarkDead, TakeFlag, ScanEnd, Promote, SendEnd, Spawn, Goto
    <2>5. CASE ScanPeer(q)
      <3>1. pc'[q] \in {"scan", "promote"}
        BY <1>3, <2>5 DEF ScanPeer
      <3>2. QED
        BY <3>1
    <2>6. QED
      BY <1>5, <2>1, <2>2, <2>3, <2>4, <2>5 DEF Thread
  <1>6. ASSUME NotifyRestart(q), Cluster[notify[q]] # q PROVE Awaiting(q)'
    <2>1. /\ notify[q] \in 1..Len(Cluster) /\ pc'[q] = pc[q]
          /\ notify'[q] = IF notify[q] = Len(Cluster) THEN 0 ELSE notify[q] + 1
      BY <1>3, <1>6 DEF NotifyRestart
    <2>2. CASE ~ToNotify(q, q)
      BY <2>1, <2>2
    <2>3. CASE ToNotify(q, q)
      <3>1. PICK k \in DOMAIN Cluster : Cluster[k] = q /\ notify[q] <= k
        BY <2>3
      <3>2. k # notify[q] /\ k \in 1..Len(Cluster)
        BY <1>6, <3>1, ServerFacts
      <3>3. notify'[q] = notify[q] + 1 /\ notify'[q] <= k /\ notify'[q] # 0
        BY <1>2, <2>1, <3>1, <3>2
      <3>4. QED
        BY <3>1, <3>3
    <2>4. QED
      BY <2>2, <2>3
  <1>7. ASSUME LoseServer(q) \/ SpawnNothing(q) \/ ExecFails(q) PROVE Awaiting(q)'
    BY <1>3, <1>7 DEF LoseServer, SpawnNothing, ExecFails, Goto
  <1>8. ASSUME NEW u \in Server,
               \/ MasterStep(u) \/ Detect(u) \/ BindFails(u)
               \/ Suspect(u) \/ SpawnFails(u) \/ ExecvFails(u)
        PROVE  Awaiting(q)' \/ (NotifyRestart(q) /\ Cluster[notify[q]] = q)
    <2>1. CASE u # q
      BY <1>4, <1>8, <2>1, ThreadOf
    <2>2. CASE u = q
      BY <1>5, <1>6, <1>7, <1>8, <2>2
         DEF MasterStep, Detect, BindFails, Suspect, SpawnFails, ExecvFails
    <2>3. QED
      BY <2>1, <2>2
  <1>9. ASSUME NEW u \in Server, Crash(u) \/ Drop(u) \/ TabletStep(u)
        PROVE  Awaiting(q)'
    BY <1>4, <1>9 DEF Crash, Drop, TabletStep, masterVars
  <1>10. CASE UNCHANGED vars
    BY <1>4, <1>10 DEF vars, masterVars
  <1>11. QED
    BY <1>8, <1>9, <1>10 DEF Next

\* So does a server that the thread of the dead primary has still to come to.
LEMMA ToElectKept ==
    ASSUME TypeOK, [Next]_vars, NEW q \in Server, ToElect(q)
    PROVE  \/ ToElect(q)'
           \/ \E s \in Server \ {q} : SendCrashed(s) /\ primaryDied[s] /\ Cluster[idx[s]] = q
  <1> USE DEF TypeOK, MasterTypeOK, Goto
  <1>1. PICK s \in Server \ {q}, i \in DOMAIN Cluster :
           pc[s] = "send" /\ primaryDied[s] /\ Cluster[i] = q /\ idx[s] <= i
    BY DEF ToElect
  <1>2. ASSUME pc'[s] = pc[s], primaryDied'[s] = primaryDied[s], idx'[s] = idx[s]
        PROVE  ToElect(q)'
    BY <1>1, <1>2 DEF ToElect
  <1>3. ASSUME NEW u \in Server,
               \/ MasterStep(u) \/ Detect(u) \/ BindFails(u)
               \/ Suspect(u) \/ SpawnFails(u) \/ ExecvFails(u),
               u # s
        PROVE  ToElect(q)'
    <2>1. pc'[s] = pc[s] /\ primaryDied'[s] = primaryDied[s] /\ idx'[s] = idx[s]
      BY <1>3, ThreadOf
    <2>2. QED
      BY <1>2, <2>1
  <1>4. ASSUME MasterStep(s), ~SendCrashed(s) PROVE ToElect(q)'
    <2>1. NotifyRestart(s)
      BY <1>1, <1>4, ServerFacts DEF MasterStep, Thread, SetSock, Ping, MarkDead, TakeFlag, ScanPeer, ScanEnd,
                        Promote, SendEnd, Spawn, Revive
    <2>2. QED
      BY <1>2, <2>1 DEF NotifyRestart
  <1>5. ASSUME SendCrashed(s), Cluster[idx[s]] # q PROVE ToElect(q)'
    <2>1. idx[s] \in 1..Len(Cluster) /\ idx'[s] = idx[s] + 1 /\ UNCHANGED <<pc, primaryDied>>
      BY <1>5, ServerFacts DEF SendCrashed
    <2>2. i \in 1..Len(Cluster) /\ i # idx[s] /\ Len(Cluster) \in Nat
      BY <1>1, <1>5, ServerFacts
    <2>3. idx'[s] <= i
      BY <1>1, <2>1, <2>2
    <2>4. QED
      BY <1>1, <2>1, <2>3 DEF ToElect
  <1>6. ASSUME Detect(s) \/ BindFails(s) \/ Suspect(s) \/ SpawnFails(s) \/ ExecvFails(s)
        PROVE  FALSE
    BY <1>1, <1>6 DEF Detect, BindFails, Suspect, SpawnFails, ExecvFails, LoseServer, SpawnNothing, ExecFails
  <1>7. ASSUME NEW u \in Server, Crash(u) \/ Drop(u) \/ TabletStep(u)
        PROVE  ToElect(q)'
    BY <1>2, <1>7 DEF Crash, Drop, TabletStep, masterVars
  <1>8. CASE UNCHANGED vars
    BY <1>2, <1>8 DEF vars, masterVars
  <1>9. QED
    BY <1>1, <1>3, <1>4, <1>5, <1>6, <1>7, <1>8 DEF Next

\* The new primary is named to every server whose turn it is.
LEMMA ElectionSent ==
    ASSUME TypeOK, Token, Flags, Alone, OneAtATime, ElectionFinds,
           NEW p \in Server, isPrimary[p], NEW q \in Server, up[q],
           NEW s \in Server, s # q, SendCrashed(s), primaryDied[s], Cluster[idx[s]] = q
    PROVE  WillFollow(q, p)'
  <1>1. /\ Sent(s) \in Seq(Command) /\ pc[s] = "send"
        /\ IsHealthy(q) => Post(q, Sent(s))
    BY SendFacts
  <1>2. newPrimary[s] = p
    BY <1>1 DEF ElectionFinds, Token
  <1>3. IsHealthy(q)
    BY <1>1, OthersHealthy
  <1>4. Ends(Sent(s), Elect(p), Elections(p))
    <2>1. DOMAIN Sent(s) = 1..2 /\ Sent(s)[2] = Elect(p)
      BY <1>2 DEF Sent
    <2>2. QED
      BY <2>1 DEF Ends
  <1>5. Ends(inbox'[q], Elect(p), Elections(p))
    BY <1>1, <1>3, <1>4, PostEnds
  <1>6. Elections(p)' = Elections(p)
    BY DEF Elections
  <1>7. QED
    BY <1>5, <1>6 DEF WillFollow

\* notifyServerRestart names the primary to the restarted server.
LEMMA PrimaryIs ==
    ASSUME TypeOK, Token, NEW p \in Server, isPrimary[p]
    PROVE  PrimaryForRange = p
  BY OneFlagged DEF PrimaryForRange, Token, TypeOK, MasterTypeOK

LEMMA PrimaryNamed ==
    ASSUME TypeOK, Token, NEW p \in Server, isPrimary[p], NEW q \in Server, up[q],
           NotifyRestart(q), Cluster[notify[q]] = q
    PROVE  WillFollow(q, p)'
  <1>1. Notice(q) \in Seq(Command) /\ Post(q, Notice(q))
    BY NotifyFacts
  <1>2. Notice(q) = <<Elect(p)>>
    BY PrimaryIs DEF Notice
  <1>3. Ends(Notice(q), Elect(p), Elections(p))
    BY <1>2 DEF Ends
  <1>4. Ends(inbox'[q], Elect(p), Elections(p))
    BY <1>1, <1>3, PostEnds
  <1>5. Elections(p)' = Elections(p)
    BY DEF Elections
  <1>6. QED
    BY <1>4, <1>5 DEF WillFollow

\* Nobody who follows the primary is told of another one.
LEMMA FollowKept ==
    ASSUME TypeOK, [Next]_vars, Token, Flags, Alone, OneAtATime, ElectionFinds,
           \A u \in Server : ~Drop(u),
           NEW p \in Server, isPrimary[p], NEW q \in Server, up[q], up'[q], WillFollow(q, p)
    PROVE  WillFollow(q, p)'
  <1>0. Elections(p)' = Elections(p)
    BY DEF Elections
  <1>1. ASSUME inbox'[q] = inbox[q], myPrimary'[q] = myPrimary[q]
        PROVE  WillFollow(q, p)'
    BY <1>0, <1>1 DEF WillFollow
  <1>2. ASSUME NEW u \in Server, SendCrashed(u) PROVE WillFollow(q, p)'
    <2> DEFINE d == Cluster[idx[u]]
    <2>1. /\ d \in Server /\ Sent(u) \in Seq(Command) /\ UNCHANGED myPrimary /\ pc[u] = "send"
          /\ Post(d, Sent(u)) \/ UNCHANGED inbox
      BY <1>2, SendFacts
    <2> HIDE DEF d
    <2>2. Lacks(Sent(u), Elections(p))
      <3>1. CASE primaryDied[u]
        <4>1. newPrimary[u] = p
          BY <2>1, <3>1 DEF ElectionFinds, Token
        <4>2. Crashed(u) \notin Elections(p) /\ Elect(p) \notin Elections(p)
          BY DEF Elections, Elect, Crashed
        <4>3. QED
          BY <3>1, <4>1, <4>2 DEF Sent, Lacks
      <3>2. CASE ~primaryDied[u]
        <4>1. Crashed(u) \notin Elections(p)
          BY DEF Elections, Elect, Crashed
        <4>2. QED
          BY <3>2, <4>1 DEF Sent, Lacks
      <3>3. QED
        BY <3>1, <3>2
    <2>3. CASE UNCHANGED inbox
      BY <1>1, <2>1, <2>3
    <2>4. CASE Post(d, Sent(u))
      BY <2>1, <2>2, <2>4, PostFollow
    <2>5. QED
      BY <2>1, <2>3, <2>4
  <1>3. ASSUME NEW u \in Server, NotifyRestart(u) PROVE WillFollow(q, p)'
    <2> DEFINE d == Cluster[notify[u]]
    <2>1. /\ d \in Server /\ Notice(u) \in Seq(Command) /\ UNCHANGED myPrimary
          /\ Post(d, Notice(u)) \/ UNCHANGED inbox
      BY <1>3, NotifyFacts
    <2> HIDE DEF d
    <2>2. Lacks(Notice(u), Elections(p))
      <3>1. Restarted(u) \notin Elections(p) /\ Elect(p) \notin Elections(p)
        BY DEF Elections, Elect, Restarted
      <3>2. QED
        BY <3>1, PrimaryIs DEF Notice, Lacks
    <2>3. CASE UNCHANGED inbox
      BY <1>1, <2>1, <2>3
    <2>4. CASE Post(d, Notice(u))
      BY <2>1, <2>2, <2>4, PostFollow
    <2>5. QED
      BY <2>1, <2>3, <2>4
  <1>4. ASSUME NEW u \in Server, Spawn(u) PROVE WillFollow(q, p)'
    <2>1. u # q
      BY <1>4 DEF Spawn
    <2>2. QED
      BY <1>1, <1>4, <2>1 DEF Spawn, Boot, TypeOK, TabletTypeOK
  <1>5. ASSUME NEW u \in Server, Thread(u) PROVE WillFollow(q, p)'
    BY <1>1, <1>2, <1>3, <1>4, <1>5, QuietThread DEF tabletVars
  <1>6. ASSUME NEW u \in Server,
               Detect(u) \/ Suspect(u) \/ BindFails(u) \/ SpawnFails(u) \/ ExecvFails(u)
        PROVE  WillFollow(q, p)'
    BY <1>1, <1>6, QuietThread DEF tabletVars
  <1>7. ASSUME NEW u \in Server, TabletStep(u) PROVE WillFollow(q, p)'
    BY <1>7, TakeFollow
  <1>8. ASSUME NEW u \in Server, Crash(u) PROVE WillFollow(q, p)'
    <2>1. u # q
      BY <1>8 DEF Crash, Die, TypeOK, TabletTypeOK
    <2>2. QED
      BY <1>1, <1>8, <2>1 DEF Crash, Die, TypeOK, TabletTypeOK
  <1>9. CASE UNCHANGED vars
    BY <1>1, <1>9 DEF vars, tabletVars
  <1>10. QED
    BY <1>5, <1>6, <1>7, <1>8, <1>9 DEF Next, MasterStep

\* A server that becomes primary does so because a thread promotes it.
LEMMA PrimaryNew ==
    ASSUME TypeOK, [Next]_vars, NEW p \in Server, ~isPrimary[p], isPrimary'[p]
    PROVE  \E s \in Server : MasterStep(s) /\ Promote(s) /\ newPrimary[s] = p
  <1> USE DEF TypeOK, MasterTypeOK
  <1>1. ASSUME NEW s \in Server, Thread(s) PROVE Promote(s) /\ newPrimary[s] = p
    <2>1. CASE Promote(s)
      BY <2>1 DEF Promote
    <2>2. CASE TakeFlag(s)
      BY <2>2 DEF TakeFlag
    <2>3. CASE ~Promote(s) /\ ~TakeFlag(s)
      BY <1>1, <2>3 DEF Thread, SetSock, Ping, MarkDead, ScanPeer, ScanEnd, SendCrashed,
                        SendEnd, Spawn, Revive, NotifyRestart, masterVars
    <2>4. QED
      BY <2>1, <2>2, <2>3
  <1>2. ASSUME NEW s \in Server,
               \/ Detect(s) \/ Suspect(s) \/ BindFails(s) \/ SpawnFails(s) \/ ExecvFails(s)
               \/ Crash(s) \/ Drop(s) \/ TabletStep(s)
        PROVE  FALSE
    BY <1>2 DEF Detect, Suspect, BindFails, SpawnFails, ExecvFails, LoseServer,
                SpawnNothing, ExecFails, Crash, Drop, TabletStep, masterVars
  <1>3. QED
    BY <1>1, <1>2 DEF Next, MasterStep, vars, masterVars

LEMMA FollowedStep ==
    ASSUME TypeOK, TypeOK', Token, Spent, Flags, Alone, Elected, Followed, [Next]_vars
    PROVE  Followed'
  <1> SUFFICES ASSUME Calm', NEW p \in Server, NEW q \in Server, isPrimary'[p], up'[q]
               PROVE  WillFollow(q, p)' \/ Awaiting(q)' \/ ToElect(q)'
    BY DEF Followed
  <1>1. /\ Calm /\ OneAtATime /\ ElectionFinds
        /\ \A u \in Server : ~Drop(u)
    BY SpentStep DEF Calm, Elected
  <1>2. CASE ~isPrimary[p]
    <2>1. PICK s \in Server : MasterStep(s) /\ Promote(s) /\ newPrimary[s] = p
      BY <1>2, PrimaryNew
    <2>2. pc[s] = "promote" /\ pc'[s] = "send" /\ idx'[s] = 1 /\ primaryDied'[s] = primaryDied[s]
      BY <2>1 DEF Promote, Goto, TypeOK, MasterTypeOK
    <2>3. primaryDied[s]
      BY <1>1, <2>2 DEF ElectionFinds, Electing
    <2>4. CASE q = s
      BY <2>2, <2>4 DEF Awaiting
    <2>5. CASE q # s
      <3>1. PICK i \in DOMAIN Cluster : Cluster[i] = q
        BY DEF Server
      <3>2. 1 <= i
        BY ServerFacts
      <3>3. QED
        BY <2>2, <2>3, <2>5, <3>1, <3>2 DEF ToElect
    <2>6. QED
      BY <2>4, <2>5
  <1>3. CASE ~up[q]
    BY <1>3, UpStep DEF Awaiting
  <1>4. CASE isPrimary[p] /\ up[q]
    <2>1. CASE WillFollow(q, p)
      BY <1>1, <1>4, <2>1, FollowKept
    <2>2. CASE Awaiting(q)
      BY <1>4, <2>2, AwaitingKept, PrimaryNamed
    <2>3. CASE ToElect(q)
      <3>1. CASE ToElect(q)'
        BY <3>1
      <3>2. CASE \E s \in Server \ {q} : SendCrashed(s) /\ primaryDied[s] /\ Cluster[idx[s]] = q
        <4>1. PICK s \in Server \ {q} : SendCrashed(s) /\ primaryDied[s] /\ Cluster[idx[s]] = q
          BY <3>2
        <4>2. QED
          BY <1>1, <1>4, <4>1, ElectionSent
      <3>3. QED
        BY <2>3, <3>1, <3>2, ToElectKept
    <2>4. QED
      BY <1>1, <1>4, <2>1, <2>2, <2>3 DEF Followed
  <1>5. QED
    BY <1>2, <1>3, <1>4

QuietInv == Token /\ QInv

LEMMA QuietInit == Init => QuietInv
  <1> SUFFICES ASSUME Init PROVE QuietInv
    OBVIOUS
  <1> USE DEF Init, TabletInit, MasterInit
  <1>1. Token /\ Flags /\ Looping
    BY DEF Token, Electing, Flags, Looping
  <1>2. Spent
    BY FaultAssumption DEF Spent
  <1>3. Down /\ Alone
    BY EmptySeq DEF Down, DownUntilStarted, Recovering, Alone, Troubled
  <1>4. \A s \in Server : inbox[s] = <<>> /\ myCluster[s] = Server /\ myPrimary[s] = Cluster[1]
    OBVIOUS
  <1>5. \A s, t \in Server : WillHave(s, t)
    BY <1>4, EmptySeq DEF WillHave, Lacks
  <1>6. Told
    BY <1>5 DEF Told
  <1>7. isPrimary[Cluster[1]] /\ \A p \in Server : isPrimary[p] => p = Cluster[1]
    BY ServerFacts
  <1>8. Elected
    BY <1>7, ServerFacts DEF Elected, ElectionFinds, Electing
  <1>9. \A q \in Server : WillFollow(q, Cluster[1])
    BY <1>4, EmptySeq DEF WillFollow, Lacks
  <1>10. Followed
    BY <1>7, <1>9 DEF Followed
  <1>11. QED
    BY <1>1, <1>2, <1>3, <1>6, <1>8, <1>10 DEF QuietInv, QInv

LEMMA QuietStep == TypeOK /\ TypeOK' /\ QuietInv /\ [Next]_vars => QuietInv'
  <1> SUFFICES ASSUME TypeOK, TypeOK', QuietInv, [Next]_vars PROVE QuietInv'
    OBVIOUS
  <1>1. Token /\ Spent /\ Flags /\ Looping /\ Down /\ Alone /\ Told /\ Elected /\ Followed
    BY DEF QuietInv, QInv
  <1>2. Token'
    BY <1>1, TokenStep
  <1>3. Spent' /\ Flags' /\ Looping'
    BY <1>1, SpentStep, FlagsStep, LoopingStep
  <1>4. Down' /\ Alone'
    BY <1>1, DownStep, AloneStep
  <1>5. Told'
    BY <1>1, ToldStep
  <1>6. Elected'
    BY <1>1, ElectedStep
  <1>7. Followed'
    BY <1>1, FollowedStep
  <1>8. QED
    BY <1>2, <1>3, <1>4, <1>5, <1>6, <1>7 DEF QuietInv, QInv

\* In a quiet cluster nothing is owed and nothing is on its way.
LEMMA QuietHave ==
    ASSUME TypeOK, Quiet, QuietInv, SelfInCluster, NoneLost, NoneSuspected \/ OneAtATime,
           NEW s \in Server
    PROVE  myCluster[s] = Server
  <1>1. ASSUME NEW t \in Server PROVE t \in myCluster[s]
    <2>1. CASE t = s
      BY <2>1 DEF SelfInCluster
    <2>2. CASE t # s
      <3>1. ~Owed(t, s) /\ up[s]
        BY DEF Quiet, Owed, ToNotify
      <3>2. WillHave(s, t)
        BY <2>2, <3>1 DEF QuietInv, QInv, Told
      <3>3. ~Ends(inbox[s], Restarted(t), {Crashed(t)})
        BY EmptySeq DEF Quiet, Ends
      <3>4. QED
        BY <3>2, <3>3 DEF WillHave
    <2>3. QED
      BY <2>1, <2>2
  <1>2. myCluster[s] \in SUBSET Server
    BY DEF TypeOK, TabletTypeOK
  <1>3. QED
    BY <1>1, <1>2

LEMMA QuietFollow ==
    ASSUME TypeOK, Quiet, QuietInv, Calm
    PROVE  \E p \in Server : isPrimary[p] /\ \A s \in Server : myPrimary[s] = p
  <1>1. \A s \in Server : pc[s] = "ping" /\ up[s] /\ notify[s] = 0 /\ inbox[s] = <<>>
    BY DEF Quiet
  <1>2. \A s \in Server : ~Electing(s)
    BY <1>1 DEF Electing
  <1>3. PICK p \in Server : isPrimary[p]
    BY <1>2 DEF QuietInv, QInv, Elected, ElectionFinds
  <1>4. ASSUME NEW s \in Server PROVE myPrimary[s] = p
    <2>1. ~Awaiting(s) /\ ~ToElect(s)
      BY <1>1 DEF Awaiting, ToNotify, ToElect
    <2>2. WillFollow(s, p)
      BY <1>1, <1>3, <2>1 DEF QuietInv, QInv, Followed
    <2>3. ~Ends(inbox[s], Elect(p), Elections(p))
      BY <1>1, EmptySeq DEF Ends
    <2>4. QED
      BY <2>2, <2>3 DEF WillFollow
  <1>5. QED
    BY <1>3, <1>4

\* Once handleServerCrash, restartCrashedServer and notifyServerRestart have run
\* for every failure, however the failures overlapped, no tablet server leaves
\* another one out of its myCluster, hence out of replication.
THEOREM FullView == Spec => []QuietFullView
  <1>1. TypeOK /\ QuietInv /\ SelfInCluster => QuietFullView
    BY QuietHave DEF QuietFullView
  <1>2. QED
    BY <1>1, TypeCorrect, AlwaysSelf, QuietInit, QuietStep, PTL DEF Spec

\* When servers fail one at a time, the recovery leaves one primary flagged, and
\* every tablet server follows it: the election of handleServerCrash, the answer of
\* getPrimaryForRange and the commands of both reach everybody.
THEOREM Agreement == Spec => []QuietAgreement
  <1>1. ASSUME TypeOK, QuietInv, SelfInCluster PROVE QuietAgreement
    <2> SUFFICES ASSUME Quiet, NoneLost, OneAtATime, Len(Cluster) > 1
                 PROVE  \E p \in Server :
                            /\ isPrimary[p]
                            /\ \A s \in Server :
                                 /\ IsHealthy(s)
                                 /\ myPrimary[s] = p
                                 /\ myCluster[s] = Server
      BY DEF QuietAgreement
    <2>1. \A s \in Server : myCluster[s] = Server
      BY <1>1, QuietHave
    <2>2. \A s \in Server : IsHealthy(s)
      BY <1>1 DEF Quiet, QuietInv, QInv, Flags, IsHealthy
    <2>3. \E p \in Server : isPrimary[p] /\ \A s \in Server : myPrimary[s] = p
      BY <1>1, QuietFollow DEF Calm
    <2>4. QED
      BY <2>1, <2>2, <2>3
  <1>2. QED
    BY <1>1, TypeCorrect, AlwaysSelf, QuietInit, QuietStep, PTL DEF Spec

=============================================================================
