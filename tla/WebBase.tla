------------------------------ MODULE WebBase ------------------------------
(***************************************************************************)
(* What the parts of the web tier share: the frontends (http4.cc), each a  *)
(* parent process that listens on a port and forks a child for every       *)
(* connection, and the requests of browsers.  A child is named after the   *)
(* frontend and the slot of clients[] it was forked for: the parent never  *)
(* marks a slot as free, so every slot is used once.                       *)
(***************************************************************************)
EXTENDS Naturals, FiniteSets, SequencesExt

CONSTANTS
    NumPorts,       \* frontends
    CONNMAX,        \* connections that a process accepts
    User, Password,
    Blank           \* the password of no characters

Port == 0..(NumPorts - 1)
Slot == 0..(CONNMAX - 1)
Child == Port \X Slot

MailPage == {"mail", "inbox", "viewmail", "sentbox", "newmail"}
DrivePage == {"viewfolder", "createfolder", "deletefolder", "deletefile", "movefile",
              "movefolder", "downloadfile", "fileupload"}

\* Pages that are read from a file of the frontend, and forms, which are literals.
LocalPage == {"file", "form"}

\* The fields of the account forms; match says whether the two passwords of a
\* sign-up are the same.  Other pages are asked for with or without a cookie.
LoginForm   == [page : {"login"}, user : User, pass : Password]
SignupForm  == [page : {"signup"}, user : User, pass : Password, match : BOOLEAN]
AccountRequest == LoginForm \cup SignupForm
PageRequest == [page : MailPage \cup DrivePage \cup LocalPage, cookie : BOOLEAN]
Request == AccountRequest \cup PageRequest

ASSUME WebAssumption ==
    /\ NumPorts \in Nat \ {0} /\ CONNMAX \in Nat \ {0}
    /\ Blank \in Password

VARIABLES
    parent,     \* the parent process of each port: "none" yet, "up" or "dead"
    slot,       \* the slot it accepts the next connection in
    req, pc     \* the request of a child and where the child is

frontVars == <<parent, slot, req, pc>>

NoRequest == [page |-> "none"]
Ended == {"none", "done", "crashed"}

FrontTypeOK ==
    /\ parent \in [Port -> {"none", "up", "dead"}]
    /\ slot \in [Port -> 0..CONNMAX]
    /\ req \in [Child -> Request \cup {NoRequest}]
    /\ pc \in [Child -> Ended \cup {"start", "asked", "address", "get", "firstname",
                 "put firstname", "put lastname", "put password", "stuck"}]

FrontInit ==
    /\ parent = [p \in Port |-> "none"]
    /\ slot = [p \in Port |-> 0]
    /\ req = [c \in Child |-> NoRequest]
    /\ pc = [c \in Child |-> "none"]

\* The balancer starts the frontends and does not wait for them.
startServer(p) ==
    /\ parent[p] = "none"
    /\ parent' = [parent EXCEPT ![p] = "up"]
    /\ UNCHANGED <<slot, req, pc>>

Kill(p) ==
    /\ parent[p] = "up"
    /\ parent' = [parent EXCEPT ![p] = "dead"]
    /\ UNCHANGED <<slot, req, pc>>

\* Children inherit the listening socket: the port answers while one is left.
IsOpen(p) == parent[p] = "up" \/ \E c \in Child : c[1] = p /\ pc[c] \notin Ended

\* Mutant of Accept: the slot after the last counts as free.
Accept_Last(p, r) ==
    /\ parent[p] = "up" /\ slot[p] <= CONNMAX
    /\ slot' = [slot EXCEPT ![p] = @ + 1]
    /\ req' = [req EXCEPT ![<<p, slot[p]>>] = r]
    /\ pc' = [pc EXCEPT ![<<p, slot[p]>>] = "start"]
    /\ UNCHANGED parent

\* Without a free slot the parent looks for one for ever.
Accept(p, r) ==
    /\ parent[p] = "up" /\ slot[p] < CONNMAX
    /\ slot' = [slot EXCEPT ![p] = @ + 1]
    /\ req' = [req EXCEPT ![<<p, slot[p]>>] = r]
    /\ pc' = [pc EXCEPT ![<<p, slot[p]>>] = "start"]
    /\ UNCHANGED parent

\* Child c is at the given place of the handler of one of the given pages.
At(c, pages, where) == pc[c] = where /\ req[c].page \in pages

GoTo(c, to) == pc' = [pc EXCEPT ![c] = to] /\ UNCHANGED <<parent, slot, req>>

=============================================================================
