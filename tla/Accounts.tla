------------------------------ MODULE Accounts ------------------------------
(***************************************************************************)
(* Log-in and sign-up (http4.cc).  A child asks the master which server    *)
(* has the user's range, on a UDP socket that all children of its frontend *)
(* have inherited, and holds a session with that server (ClientSession).   *)
(* A sign-up looks for a password and then puts three cells.  The servers  *)
(* of a range are replicas and share their cells here; a write may have no *)
(* effect (Replication).                                                   *)
(***************************************************************************)
EXTENDS WebBase

CONSTANTS
    Tablet,         \* the tablet servers
    Region,         \* key ranges
    rangeOf,        \* the range of every user
    rangeServed,    \* the range of every tablet server
    Absent,         \* there is no such cell
    MaxLost         \* writes without effect (bounds the model)

ASSUME AccountAssumption ==
    /\ rangeOf \in [User -> Region] /\ rangeServed \in [Tablet -> Region]
    /\ Absent \notin Password
    /\ MaxLost \in Nat

VARIABLES
    queries,    \* children whose query the master has not answered
    addresses,  \* per frontend: the answers in its UDP socket
    server,     \* the server a child has a session with
    pass,       \* the password cells
    names,      \* <<user, column>> of the name cells that exist
    stopped,      \* tablet servers that have stopped
    cookies,    \* the children that have answered with "set-cookie: id=<user>"
    lost,       \* history: cells that a write was lost of
    rivals      \* history: users with two sign-ups at once

accountVars == <<queries, addresses, server, pass, names, stopped, cookies,
                lost, rivals>>

Column == {"firstname", "lastname", "password"}

AccountsTypeOK ==
    /\ queries \subseteq Child
    /\ addresses \in [Port -> Seq(Tablet)]
    /\ server \in [Child -> Tablet \cup {Absent}]
    /\ pass \in [User -> Password \cup {Absent}]
    /\ names \subseteq User \X Column
    /\ cookies \subseteq Child
    /\ stopped \subseteq Tablet
    /\ lost \subseteq User \X Column
    /\ rivals \subseteq User

AccountsInit ==
    /\ queries = {} /\ addresses = [p \in Port |-> <<>>]
    /\ server = [c \in Child |-> Absent]
    /\ pass = [u \in User |-> Absent] /\ names = {}
    /\ stopped = {} /\ cookies = {} /\ lost = {} /\ rivals = {}

storeVars == <<pass, names, stopped, lost>>

-----------------------------------------------------------------------------
(* The way to a server *)

\* Two sign-ups of one user are between the form and its page.
SigningUp(u) == {c \in Child : req[c].page = "signup" /\ req[c].user = u
                                 /\ pc[c] \notin Ended \cup {"start", "stuck"}}

query(c) ==
    /\ pc[c] = "start"
    /\ \/ req[c].page = "login"
       \/ req[c].page = "signup" /\ req[c].match
    /\ GoTo(c, "address")
    /\ queries' = queries \cup {c}
    /\ rivals' = IF req[c].page = "signup" /\ SigningUp(req[c].user) # {}
                 THEN rivals \cup {req[c].user} ELSE rivals
    /\ UNCHANGED <<addresses, server, storeVars, cookies>>

\* The two passwords of the form differ.
mismatch(c) ==
    /\ At(c, {"signup"}, "start") /\ ~req[c].match
    /\ GoTo(c, "done") /\ UNCHANGED accountVars

\* Any server of the range, also one that has stopped.
handleQuery(c) ==
    /\ c \in queries
    /\ \E t \in Tablet :
         /\ rangeServed[t] = rangeOf[req[c].user]
         /\ addresses' = [addresses EXCEPT ![c[1]] = Append(@, t)]
    /\ queries' = queries \ {c}
    /\ UNCHANGED <<server, storeVars, cookies, rivals, frontVars>>

\* Mutant of connect: a child that finds several answers takes them all.
connect_Drains(c) ==
    /\ pc[c] = "address" /\ addresses[c[1]] # <<>>
    /\ LET t == Last(addresses[c[1]])
       IN /\ server' = [server EXCEPT ![c] = t]
          /\ GoTo(c, IF t \in stopped THEN "crashed" ELSE "get")
    /\ addresses' = [addresses EXCEPT ![c[1]] = <<>>]
    /\ UNCHANGED <<queries, storeVars, cookies, rivals>>

\* The first answer in the socket, which need not be the child's.  The result
\* of connect is not looked at: the next write ends the child.
connect(c) ==
    /\ pc[c] = "address" /\ addresses[c[1]] # <<>>
    /\ LET t == Head(addresses[c[1]])
       IN /\ server' = [server EXCEPT ![c] = t]
          /\ GoTo(c, IF t \in stopped THEN "crashed" ELSE "get")
    /\ addresses' = [addresses EXCEPT ![c[1]] = Tail(@)]
    /\ UNCHANGED <<queries, storeVars, cookies, rivals>>

-----------------------------------------------------------------------------
(* What a child reads from and writes to the store *)

Up(c) == server[c] \notin stopped
Served(c) == rangeServed[server[c]] = rangeOf[req[c].user]

\* "-ERR": no such cell, or not in the range of this server.
Err(c) == Up(c) /\ (~Served(c) \/ pass[req[c].user] = Absent)

\* The text before "<EOB>"; none in a "-ERR" and none if the server has stopped.
command(c) == IF ~Up(c) \/ Err(c) THEN Blank ELSE pass[req[c].user]

\* What was read is the password given, or the page is shown again.
login(c) ==
    /\ At(c, {"login"}, "get")
    /\ LET auth == command(c) = req[c].pass
       IN /\ GoTo(c, IF auth THEN "firstname" ELSE "done")
          /\ cookies' = IF auth THEN cookies \cup {c} ELSE cookies
    /\ UNCHANGED <<queries, addresses, server, storeVars, rivals>>

\* The first name is read up to "<EOB>", and a "-ERR" has none.
hello(c) ==
    /\ At(c, {"login"}, "firstname")
    /\ GoTo(c, IF Up(c) /\ ~(Served(c) /\ <<req[c].user, "firstname">> \in names)
               THEN "stuck" ELSE "done")
    /\ UNCHANGED accountVars

\* Mutant of signup: a user without a password in the answer is a new one.
signup_ByText(c) ==
    /\ At(c, {"signup"}, "get")
    /\ GoTo(c, IF command(c) = Blank THEN "put firstname" ELSE "done")
    /\ UNCHANGED accountVars

\* A user without a password cell is a new one.
signup(c) ==
    /\ At(c, {"signup"}, "get")
    /\ GoTo(c, IF Err(c) THEN "put firstname" ELSE "done")
    /\ UNCHANGED accountVars

\* A write has its effect, or none.
put(c, col) ==
    LET u == req[c].user
    IN \/ /\ Up(c)
          /\ pass' = IF col = "password" THEN [pass EXCEPT ![u] = req[c].pass] ELSE pass
          /\ names' = IF col = "password" THEN names ELSE names \cup {<<u, col>>}
          /\ UNCHANGED <<stopped, lost>>
       \/ /\ Cardinality(lost) < MaxLost
          /\ lost' = lost \cup {<<u, col>>}
          /\ UNCHANGED <<pass, names, stopped>>

\* "put", the bytes, and two answers nobody looks at.  A server of another
\* range refuses the line and takes the bytes for a command without an end.
\* The second write to a server that has stopped ends the child.
PutColumn(c, from, col, to) ==
    /\ At(c, {"signup"}, from)
    /\ \/ Served(c) /\ put(c, col) /\ GoTo(c, to)
       \/ Up(c) /\ ~Served(c) /\ GoTo(c, "stuck") /\ UNCHANGED storeVars
       \/ ~Up(c) /\ GoTo(c, "crashed") /\ UNCHANGED storeVars
    /\ UNCHANGED <<queries, addresses, server, rivals>>

\* Mutant of put_firstname: the columns are put in the order of their names.
put_firstname_Sorted(c) ==
    PutColumn(c, "put firstname", "password", "put lastname") /\ UNCHANGED cookies

put_firstname(c) ==
    PutColumn(c, "put firstname", "firstname", "put lastname") /\ UNCHANGED cookies

put_lastname(c) ==
    PutColumn(c, "put lastname", "lastname", "put password") /\ UNCHANGED cookies

\* The page with the cookie follows.
put_password(c) ==
    /\ PutColumn(c, "put password", "password", "done")
    /\ cookies' = IF pc'[c] = "done" THEN cookies \cup {c} ELSE cookies

\* The session ends under the child: what it waits for does not come, and the
\* second write from now on ends it.
hangup(c) ==
    /\ pc[c] \in {"get", "firstname", "stuck"} /\ ~Up(c)
    /\ GoTo(c, IF At(c, {"login"}, "stuck") THEN "done" ELSE "crashed")
    /\ UNCHANGED accountVars

\* A tablet server stops, for the children for good: their sessions end.
Stop(t) ==
    /\ t \notin stopped
    /\ stopped' = stopped \cup {t}
    /\ UNCHANGED <<queries, addresses, server, pass, names, cookies, lost, rivals,
                   frontVars>>

Account(c) ==
    \/ query(c) \/ mismatch(c) \/ connect(c)
    \/ login(c) \/ hello(c)
    \/ signup(c) \/ put_firstname(c) \/ put_lastname(c) \/ put_password(c)
    \/ hangup(c)

=============================================================================
