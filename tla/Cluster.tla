------------------------------ MODULE Cluster ------------------------------
(***************************************************************************)
(* The master and the tablet servers of one range, with the faults that    *)
(* can hit them.  Ranges share nothing but the master's socket, so one     *)
(* range stands for all.                                                   *)
(***************************************************************************)
EXTENDS Master

CONSTANTS
    Budget,     \* how often each kind of fault may still happen (bounds the model)
    OneAtATime  \* TRUE: a server fails only after the last failure is dealt with

Fault == {"crash", "suspect", "spawn", "exec", "drop"}

ASSUME FaultAssumption ==
    /\ Budget \in [Fault -> Nat]
    /\ OneAtATime \in BOOLEAN

VARIABLE budget     \* what is left of Budget

vars == <<tabletVars, masterVars, budget>>

TypeOK ==
    /\ TabletTypeOK
    /\ MasterTypeOK
    /\ budget \in [Fault -> Nat]

Init ==
    /\ TabletInit
    /\ MasterInit
    /\ budget = Budget

\* Nothing is failing, being recovered or on its way.
Quiet ==
    \A s \in Server :
        /\ up[s]
        /\ pc[s] = "ping"
        /\ notify[s] = 0
        /\ inbox[s] = <<>>

Spend(f) ==
    /\ budget[f] > 0
    /\ budget' = [budget EXCEPT ![f] = @ - 1]

Allowed == OneAtATime => Quiet

-----------------------------------------------------------------------------
(* Faults *)

Crash(s) ==
    /\ Allowed
    /\ Spend("crash")
    /\ Die(s)
    /\ UNCHANGED masterVars

\* A running server does not answer within 5 seconds.
Suspect(s) ==
    /\ Allowed
    /\ up[s]
    /\ Spend("suspect")
    /\ LoseServer(s)

\* The child of a restart does not come up although the address is free.
SpawnFails(s) ==
    /\ ~up[s]
    /\ Spend("spawn")
    /\ SpawnNothing(s)

ExecvFails(s) ==
    /\ Spend("exec")
    /\ ExecFails(s)

\* A datagram is lost.
Drop(s) ==
    /\ inbox[s] # <<>>
    /\ Spend("drop")
    /\ inbox' = [inbox EXCEPT ![s] = Tail(@)]
    /\ UNCHANGED <<up, myCluster, myPrimary, snapThreads, masterVars>>

-----------------------------------------------------------------------------
(* Steps of the program *)

MasterStep(s) == Thread(s) /\ UNCHANGED budget

\* A dead server does not answer: the ping loop ends.
Detect(s) == ~up[s] /\ LoseServer(s) /\ UNCHANGED budget

\* The old process still holds the address: bind fails and the child exits.
BindFails(s) == up[s] /\ SpawnNothing(s) /\ UNCHANGED budget

TabletStep(s) == Foofunc(s) /\ UNCHANGED <<masterVars, budget>>

Next ==
    \E s \in Server :
        \/ MasterStep(s) \/ Detect(s) \/ BindFails(s) \/ TabletStep(s)
        \/ Crash(s) \/ Suspect(s) \/ SpawnFails(s) \/ ExecvFails(s) \/ Drop(s)

Spec == Init /\ [][Next]_vars

\* The scheduler runs every thread of the master, and foofunc.  No fault is
\* fair: none has to happen.
Fairness ==
    \A s \in Server :
        /\ WF_vars(MasterStep(s))
        /\ WF_vars(Detect(s))
        /\ WF_vars(BindFails(s))
        /\ WF_vars(TabletStep(s))

FairSpec == Spec /\ Fairness

-----------------------------------------------------------------------------
(* Properties *)

\* The flags the threads write without a lock never name two primaries, so
\* getPrimaryForRange gives every restarted server the same answer.
AtMostOnePrimary ==
    \A s, t \in Server : isPrimary[s] /\ isPrimary[t] => s = t

\* A tablet server always finds itself in myCluster.  notifyReplicas erases
\* find(.., myServer) without a test for end() (ClientSession.cc:240).
SelfInCluster == \A s \in Server : s \in myCluster[s]

\* No datagram was lost; no server was taken for dead that was not.
NoneLost == budget["drop"] = Budget["drop"]
NoneSuspected == budget["suspect"] = Budget["suspect"]

\* Once the recovery from a failure is over, of a crash as of a false alarm, the
\* master has one primary, it is healthy, and every tablet server follows it and
\* replicates to the whole cluster.  (A range with one server has nobody to
\* elect: once that one fails the range has no primary again.)
QuietAgreement ==
    Quiet /\ NoneLost /\ OneAtATime /\ Len(Cluster) > 1 =>
        \E p \in Server :
            /\ isPrimary[p]
            /\ \A s \in Server :
                 /\ IsHealthy(s)
                 /\ myPrimary[s] = p
                 /\ myCluster[s] = Server

\* Even when crashes overlap, no server that is part of a quiet cluster is left
\* out of anybody's myCluster: what a peer missed while it was down, its restart
\* from the config file makes up for.  (Nothing makes up for a lost datagram, nor
\* for what a server misses that is taken for dead while it runs: the master
\* does not notify it of the restart of another one, and cannot restart it.)
QuietFullView ==
    Quiet /\ NoneLost /\ (NoneSuspected \/ OneAtATime) =>
        \A s \in Server : myCluster[s] = Server

\* Every failure is dealt with in the end.
AlwaysRecovers == []<>Quiet

\* The ServerInfo flags implement the register of Election.
Register == INSTANCE Election WITH primary <- PrimaryForRange
ImplementsElection == Register!Spec

=============================================================================
