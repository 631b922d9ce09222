------------------------------ MODULE WriteAll ------------------------------
(***************************************************************************)
(* What the servers of a range promise of a write, without their threads,  *)
(* hashes, counts and timeouts.  The primary carries it out once, before   *)
(* any backup takes it; a backup takes it once, and may drop it as a       *)
(* duplicate; it is acknowledged when all have taken it; an answer, once   *)
(* given, is final.                                                        *)
(***************************************************************************)
CONSTANTS Primary, Backup, Write, Key, Val, Absent

VARIABLES
    tab,    \* the table of each server
    req,    \* what was asked
    taken,  \* taken[w]: the servers that have taken w
    reply   \* what the client of w was told

vars == <<tab, req, taken, reply>>

Server == Backup \cup {Primary}
Request == [key : Key, val : Val \cup {Absent}, at : Server]
NoRequest == [at |-> "nowhere"]

Init ==
    /\ tab = [s \in Server |-> [k \in Key |-> Absent]]
    /\ req = [w \in Write |-> NoRequest]
    /\ taken = [w \in Write |-> {}]
    /\ reply = [w \in Write |-> "none"]

Answer(w, r) == reply[w] = "none" /\ reply' = [reply EXCEPT ![w] = r]

\* Only a del may be refused at once.
Ask(w, r) ==
    /\ req[w] = NoRequest
    /\ req' = [req EXCEPT ![w] = r]
    /\ UNCHANGED reply \/ (r.val = Absent /\ Answer(w, "ERR"))
    /\ UNCHANGED <<tab, taken>>

Take(w, s) ==
    /\ req[w] \in Request
    /\ s \notin taken[w]
    /\ s = Primary \/ Primary \in taken[w]
    /\ taken' = [taken EXCEPT ![w] = @ \cup {s}]
    /\ \/ tab' = [tab EXCEPT ![s][req[w].key] = req[w].val]
       \/ s # Primary /\ UNCHANGED tab
    /\ UNCHANGED <<req, reply>>

Acknowledge(w) ==
    /\ taken[w] = Server
    /\ Answer(w, "OK")
    /\ UNCHANGED <<tab, req, taken>>

\* A denied write may still be carried out.
Deny(w) ==
    /\ req[w] \in Request
    /\ Answer(w, "ERR")
    /\ UNCHANGED <<tab, req, taken>>

Next ==
    \E w \in Write :
        \/ \E r \in Request : Ask(w, r)
        \/ \E s \in Server : Take(w, s)
        \/ Acknowledge(w) \/ Deny(w)

Spec == Init /\ [][Next]_vars

=============================================================================
