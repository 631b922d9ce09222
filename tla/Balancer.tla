------------------------------ MODULE Balancer ------------------------------
(***************************************************************************)
(* The load balancer (http2.cc).  It asks the master for its table, starts *)
(* the frontends and forks a child for every visit; the child looks which  *)
(* ports are open and sends the browser to one of them, chosen from the    *)
(* slot of its own connection.                                             *)
(***************************************************************************)
EXTENDS WebBase

VARIABLES
    bparent,    \* the parent process
    bslot,      \* the slot the parent accepts the next visit in
    bpc,        \* where the child of a slot is
    status,     \* the ports it found open
    freeport    \* the index it has chosen

balancerVars == <<bparent, bslot, bpc, status, freeport>>

BalancerTypeOK ==
    /\ bparent \in {"fetch", "up", "ended"}
    /\ bslot \in 0..CONNMAX
    /\ bpc \in [Slot -> {"none", "probe", "request", "hung", "done", "crashed"}]
    /\ status \in [Slot -> SUBSET Port]
    /\ freeport \in [Slot -> 0..(2 * NumPorts)]

BalancerInit ==
    /\ bparent = "fetch"
    /\ bslot = 0
    /\ bpc = [i \in Slot |-> "none"]
    /\ status = [i \in Slot |-> {}]
    /\ freeport = [i \in Slot |-> 0]

\* The archive of the table comes in pieces, into a buffer that is never
\* cleared: after a short piece the text is torn, and the archive refuses it.
\* Without a master the first write ends the process.
fetchFromMaster ==
    /\ bparent = "fetch"
    /\ bparent' \in {"up", "ended"}
    /\ UNCHANGED <<bslot, bpc, status, freeport>>

Visit ==
    /\ bparent = "up" /\ bslot < CONNMAX
    /\ bpc' = [bpc EXCEPT ![bslot] = "probe"]
    /\ bslot' = bslot + 1
    /\ UNCHANGED <<bparent, status, freeport>>

\* The first open port from index k on, cyclically.
NextOpen(k, open) ==
    CHOOSE j \in open : \A i \in open : (j + NumPorts - k) % NumPorts <= (i + NumPorts - k) % NumPorts

\* Mutant of Choose: moving the slot by the number of closed ports is enough.
Choose_Moved(k, open) == {k + NumPorts - Cardinality(open)}

\* The slot, moved by the number of closed ports, is not reduced again: status[]
\* may be read past its end, and what is there ends the search or does not.
Choose(k, open) ==
    LET first == k + NumPorts - Cardinality(open)
    IN IF first < NumPorts
       THEN {NextOpen(first, open)}
       ELSE {first} \cup (IF open = {} THEN {} ELSE {NextOpen((first + 1) % NumPorts, open)})

\* All ports are tried.  The search has no end when none is open.
Probe(i) ==
    /\ bpc[i] = "probe"
    /\ LET open == {p \in Port : IsOpen(p)}
       IN /\ status' = [status EXCEPT ![i] = open]
          /\ \/ /\ \E j \in Choose(i % NumPorts, open) : freeport' = [freeport EXCEPT ![i] = j]
                /\ bpc' = [bpc EXCEPT ![i] = "request"]
             \/ /\ open = {}
                /\ bpc' = [bpc EXCEPT ![i] = "hung"] /\ UNCHANGED freeport
    /\ UNCHANGED <<bparent, bslot>>

\* The child ends, and what it knew with it.
End(i, how) ==
    /\ bpc' = [bpc EXCEPT ![i] = how]
    /\ status' = [status EXCEPT ![i] = {}]
    /\ freeport' = [freeport EXCEPT ![i] = 0]
    /\ UNCHANGED <<bparent, bslot>>

Redirect(i) ==
    /\ bpc[i] = "request"
    /\ End(i, "done")

\* The page of the administrator asks every tablet server for its keys, and
\* the child ends at one that does not listen.
Admin(i, allUp) ==
    /\ bpc[i] = "request"
    /\ End(i, IF allUp THEN "done" ELSE "crashed")

Balance(i, allUp) == Probe(i) \/ Redirect(i) \/ Admin(i, allUp)

=============================================================================
