-------------------------------- MODULE Web --------------------------------
(***************************************************************************)
(* The web tier: the load balancer and the frontends, with the faults that *)
(* stop a frontend or a tablet server.  A browser may send any request to  *)
(* any frontend: the balancer only redirects, and keeps no relation.       *)
(***************************************************************************)
EXTENDS Accounts, Pages, Balancer

CONSTANTS
    Workload,       \* what browsers ask for, and what may fail (bounds the model)
    MaxRequests     \* connections to the balancer and to all frontends (bounds the model)

ASSUME WorkloadAssumption ==
    /\ Workload \subseteq [requests : [Port -> SUBSET Request], visits : Nat,
                           kills : SUBSET Port, stops : SUBSET Tablet]
    /\ MaxRequests \in Nat

VARIABLE asked      \* the workload of this behaviour

vars == <<frontVars, accountVars, pageVars, balancerVars, asked>>

TypeOK ==
    /\ FrontTypeOK /\ AccountsTypeOK /\ PagesTypeOK /\ BalancerTypeOK
    /\ asked \in Workload

Init ==
    /\ FrontInit /\ AccountsInit /\ PagesInit /\ BalancerInit
    /\ asked \in Workload

Connections == bslot + Cardinality({c \in Child : pc[c] # "none"})

\* The parent of a frontend.
Parent(p) ==
    \/ bparent = "up" /\ startServer(p)
    \/ Connections < MaxRequests /\ \E r \in asked.requests[p] : Accept(p, r)
    \/ p \in asked.kills /\ Kill(p)

Step ==
    \/ /\ \E p \in Port : Parent(p)
       /\ UNCHANGED <<accountVars, pageVars, balancerVars>>
    \/ /\ \/ \E c \in Child : Account(c)
          \/ \E c \in Child : handleQuery(c)
          \/ \E t \in asked.stops : Stop(t)
       /\ UNCHANGED <<pageVars, balancerVars>>
    \/ /\ \/ \E c \in Child : Page(c)
          \/ PageServers
       /\ UNCHANGED <<accountVars, balancerVars>>
    \/ /\ \/ fetchFromMaster
          \/ Connections < MaxRequests /\ bslot < asked.visits /\ Visit
          \/ \E i \in Slot : Balance(i, stopped = {})
       /\ UNCHANGED <<frontVars, accountVars, pageVars>>

Next == Step /\ UNCHANGED asked

Spec == Init /\ [][Next]_vars

-----------------------------------------------------------------------------
(* Properties of the accounts *)

\* Whoever is given the cookie of a user has given the password of the one who
\* signed up, and only one has, unless two sign-ups of the name met between the
\* question for the password and its put, or that put was lost.  (A log-in
\* without a password is let in where there is no account.)
OneOwner ==
    LET honest == {c \in cookies : req[c].page = "signup" \/ req[c].pass # Blank}
    IN \A c, d \in honest :
         LET u == req[c].user
         IN req[d].user = u /\ u \notin rivals /\ <<u, "password">> \notin lost =>
              /\ req[c].pass = req[d].pass
              /\ {req[c].page, req[d].page} = {"signup"} => c = d

\* An account with a password has its names, wherever a sign-up was broken
\* off: the password, by which an account is known to exist, is put last.
AccountComplete ==
    \A u \in User : pass[u] # Absent =>
        \A col \in {"firstname", "lastname"} : <<u, col>> \in names \cup lost

\* Children take each other's answers from the master, but none is left
\* without one.
AnswersSuffice ==
    \A p \in Port :
        Cardinality({c \in Child : c[1] = p /\ pc[c] = "address"})
          = Cardinality({c \in queries : c[1] = p}) + Len(addresses[p])

-----------------------------------------------------------------------------
(* Properties of the pages *)

\* Pages that may leave something on the connection to the drive.
Careless == {"movefile", "viewfolder", "downloadfile", "fileupload"}

\* No two requests were on the connection at once, and nothing was left on it
\* by a request other than c.
Undisturbed(p, s, c) ==
    /\ <<p, s>> \notin overlap
    /\ s = "drive" =>
         /\ drive # "gone"
         /\ \A d \in Child \ {c} :
              d[1] = p /\ pc[d] # "none" => req[d].page \notin Careless

\* A page is made of the answer to its own command.
OwnAnswer ==
    \A c \in Child :
        /\ pc[c] = "done" /\ req[c].page \in MailPage \cup DrivePage
        /\ Undisturbed(c[1], ServerOf(c), c)
        => shown[c] = <<[to |-> c, what |-> "answer"]>>

\* A child that waits has its command or its answer on the connection, and
\* when none waits there is nothing on it.
Lockstep ==
    \A p \in Port, s \in Server :
        Undisturbed(p, s, <<>>) =>
            LET pending == [i \in DOMAIN up[p][s] |-> up[p][s][i].from]
                             \o [i \in DOMAIN down[p][s] |-> down[p][s][i].to]
            IN /\ Cardinality(Waiting(p, s)) = Len(pending)
               /\ Range(pending) = Waiting(p, s)

-----------------------------------------------------------------------------
(* Properties of the balancer *)

\* The browser is sent to a port that was open when the child looked, unless
\* the index ran past the ports, which takes a frontend that is not there.
RedirectsOpen ==
    \A i \in Slot : bpc[i] = "request" =>
        \/ freeport[i] \in status[i]
        \/ freeport[i] >= NumPorts /\ status[i] # Port

=============================================================================
