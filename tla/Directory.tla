----------------------------- MODULE Directory -----------------------------
(***************************************************************************)
(* Names and ranges (Key and Range of base_structs.h), what the master and *)
(* the tablet servers make of the "clusters" of the config file, and the   *)
(* datagrams in which the master is asked for a server (master.cc), by the *)
(* clients of the store and by hand (chatclient.cc).                       *)
(*                                                                         *)
(* A range is a pair of characters; of a key only the first character of   *)
(* its row decides.  A character is a number, and NUL, the first character *)
(* of an empty row, is 0.                                                  *)
(***************************************************************************)
EXTENDS Naturals, Sequences, SequencesExt

CONSTANTS
    Tablet,         \* the tablet servers
    Clusters,       \* "clusters": the servers of every range
    Nobody,         \* the literal of an unset Server, the empty string
    Client,         \* programs that hold a session with the store
    row,            \* the first character of the row a client works on
    Console,        \* programs that send the master what is typed
    MaxTyped        \* lines typed (bounds the model)

Chars == Nat

\* Every server belongs to one cluster, and no cluster is empty: the config
\* file says so, and the code relies on it.
ASSUME DirectoryAssumption ==
    /\ DOMAIN Clusters \subseteq Chars \X Chars
    /\ \A r \in DOMAIN Clusters : Clusters[r] \in Seq(Tablet) /\ Clusters[r] # <<>>
    /\ \A t \in Tablet : \E r \in DOMAIN Clusters :
         \A s \in DOMAIN Clusters : t \in ToSet(Clusters[s]) <=> s = r
    /\ Nobody \notin Tablet
    /\ row \in [Client -> Chars]
    /\ MaxTyped \in Nat

VARIABLES
    queries,    \* the datagrams in the socket of the master: who sent what
    answers,    \* the datagrams in the socket of a client or console
    typed       \* lines typed at a console

directoryVars == <<queries, answers, typed>>

\* "query <row>", and whatever else is typed.
Message == [type : {"query", "other"}, key : Chars]

DirectoryTypeOK ==
    /\ queries \in Seq([src : Client \cup Console, msg : Message])
    /\ answers \in [Client \cup Console -> Seq(Tablet \cup {Nobody})]
    /\ typed \in [Console -> 0..MaxTyped]

DirectoryInit(silent) ==
    /\ queries = <<>>
    /\ answers = [c \in Client \cup Console |-> <<>>]
    /\ typed = [c \in Console |-> IF c \in silent THEN MaxTyped ELSE 0]

-----------------------------------------------------------------------------
(* Ranges *)

inRange(r, k) == r[1] <= k /\ k <= r[2]

\* The order of the map "clusters", and of the names in the config file.
Before(r, s) == r[1] < s[1] \/ (r[1] = s[1] /\ r[2] <= s[2])

\* parseServerConfig: the last range that lists the server.
myRange(t) ==
    CHOOSE r \in DOMAIN Clusters :
        /\ t \in ToSet(Clusters[r])
        /\ \A s \in DOMAIN Clusters : t \in ToSet(Clusters[s]) => Before(s, r)

\* Mutant of Named: the last range that does not begin after the key, as in a
\* search of the map for the key.
Named_UpperBound(k) ==
    LET low == {r \in DOMAIN Clusters : r[1] <= k}
    IN IF low = {} THEN {Nobody}
       ELSE ToSet(Clusters[CHOOSE r \in low : \A s \in low : Before(s, r)])

\* handleQuery: any server of the first range that holds the key, also one that
\* is not alive; an unset Server when there is no such range.
Named(k) ==
    LET held == {r \in DOMAIN Clusters : inRange(r, k)}
    IN IF held = {} THEN {Nobody}
       ELSE ToSet(Clusters[CHOOSE r \in held : \A s \in held : Before(r, s)])

-----------------------------------------------------------------------------
(* The datagrams *)

Send(c, m) == queries' = Append(queries, [src |-> c, msg |-> m])

\* A console sends what is typed, and prints what has come when it comes.
Type(c) ==
    /\ typed[c] < MaxTyped
    /\ typed' = [typed EXCEPT ![c] = @ + 1]
    /\ \/ \E k \in {row[d] : d \in Client} : Send(c, [type |-> "query", key |-> k])
       \/ Send(c, [type |-> "other", key |-> 0])
    /\ UNCHANGED answers

PrintAnswer(c) ==
    /\ answers[c] # <<>>
    /\ answers' = [answers EXCEPT ![c] = Tail(@)]
    /\ UNCHANGED <<queries, typed>>

handleQuery(q, t) == answers' = [answers EXCEPT ![q.src] = Append(@, t)]

\* The receiving loop of the master: one datagram at a time, and no answer to
\* what is not a query.
handleMessage ==
    /\ queries # <<>>
    /\ LET q == Head(queries)
       IN IF q.msg.type = "query" THEN \E t \in Named(q.msg.key) : handleQuery(q, t)
                                  ELSE UNCHANGED answers
    /\ queries' = Tail(queries)
    /\ UNCHANGED typed

=============================================================================
