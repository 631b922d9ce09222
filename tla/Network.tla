------------------------------ MODULE Network ------------------------------
(***************************************************************************)
(* The peers of the store's connections, and the whole.                    *)
(***************************************************************************)
EXTENDS Connections

\* The server has closed the connection: nobody there holds it any more.
Shut(p) ==
    LET l == host[p]
    IN \/ ~Running(l)
       \/ /\ p \notin ToSet(backlog[l])
          /\ \A fd \in Fd : file[l][fd] # p
          /\ \A i \in DOMAIN threads[l] : threads[l][i].conn # p

\* Something may still come: the connection is to be accepted, or a thread has
\* still to take a descriptor or to read what was sent.
Coming(p) ==
    LET l == host[p]
    IN /\ Running(l)
       /\ \/ p \in ToSet(backlog[l])
          \/ \E i \in DOMAIN threads[l] :
               \/ threads[l][i].pc = "new"
               \/ threads[l][i].conn = p /\ toServer[p] # <<>>

\* connect() succeeds before the server accepts, and the first line is sent.
Dial(p, l, line) ==
    /\ backlog' = [backlog EXCEPT ![l] = Append(@, p)]
    /\ host' = [host EXCEPT ![p] = l]
    /\ toServer' = [toServer EXCEPT ![p] = <<line>>]
    /\ UNCHANGED <<connfd, file, threads, toPeer, closed>>

Say(p, line) ==
    /\ toServer' = [toServer EXCEPT ![p] = Append(@, line)]
    /\ UNCHANGED <<backlog, connfd, file, threads, closed>>

HangUp(p) ==
    /\ closed' = closed \cup {p}
    /\ UNCHANGED <<backlog, connfd, file, threads, toServer>>

GoTo(p, to) == pc' = [pc EXCEPT ![p] = to]

-----------------------------------------------------------------------------
(* A client: it asks the master, opens a session and waits for every answer *)

Query(c) ==
    /\ pc[c] = "start" /\ GoTo(c, "asked")
    /\ Send(c, [type |-> "query", key |-> row[c]])
    /\ UNCHANGED <<answers, typed, up, netVars, host, todo, pings, text, rbuffer, mixed,
                   refused, split, short, budgetVars>>

\* Mutant of Reach: an address is made of whatever was answered.
Reach_Unchecked(c) ==
    /\ pc[c] = "asked" /\ answers[c] # <<>>
    /\ Dial(c, Head(answers[c]), "yo") /\ GoTo(c, "wait")
    /\ answers' = [answers EXCEPT ![c] = <<>>]
    /\ UNCHANGED <<queries, typed, up, todo, pings, text, rbuffer, mixed, refused,
                   split, short, budgetVars>>

\* The literal of no server cannot be converted, and the write to one that does
\* not run fails: either is the end of the client.
Reach(c) ==
    /\ pc[c] = "asked" /\ answers[c] # <<>>
    /\ LET t == Head(answers[c])
       IN IF t \in up
          THEN Dial(c, t, "yo") /\ GoTo(c, "wait")
          ELSE GoTo(c, "ended") /\ UNCHANGED <<host, netVars>>
    /\ answers' = [answers EXCEPT ![c] = <<>>]
    /\ UNCHANGED <<queries, typed, up, todo, pings, text, rbuffer, mixed, refused, split, short,
                   budgetVars>>

Refusal == {"-ERR first", "-ERR command", "-ERR range"}

\* An answer: the next command, if it was not refused and there is one.
Hear(c) ==
    /\ pc[c] = "wait" /\ toPeer[c] # <<>>
    /\ IF todo[c] # <<>> /\ ToSet(toPeer[c]) \cap Refusal = {}
       THEN /\ Say(c, Head(todo[c])) /\ todo' = [todo EXCEPT ![c] = Tail(@)]
            /\ UNCHANGED pc
       ELSE HangUp(c) /\ GoTo(c, "ended") /\ UNCHANGED todo
    /\ toPeer' = [toPeer EXCEPT ![c] = <<>>]
    /\ refused' = IF "-ERR range" \in ToSet(toPeer[c]) THEN refused \cup {c} ELSE refused
    /\ UNCHANGED <<directoryVars, up, host, pings, text, rbuffer, mixed, split, short, budgetVars>>

\* The server has hung up.
Leave(c) ==
    /\ pc[c] = "wait" /\ Shut(c) /\ toPeer[c] = <<>>
    /\ HangUp(c) /\ GoTo(c, "ended")
    /\ UNCHANGED <<directoryVars, up, toPeer, host, todo, pings, text, rbuffer, mixed,
                   refused, split, short, budgetVars>>

\* The client is killed.
Killed(c) ==
    /\ pc[c] = "wait" /\ hangups < MaxHangup /\ hangups' = hangups + 1
    /\ HangUp(c) /\ GoTo(c, "ended")
    /\ UNCHANGED <<directoryVars, up, toPeer, host, todo, pings, text, rbuffer, mixed,
                   refused, split, short, slow, crashes>>

-----------------------------------------------------------------------------
(* The master's thread for a server *)

\* The first line of the read is looked at, and the others are lost.  Without an
\* answer the wait runs out.
expectToRead(t, data, result) ==
    \/ \E n \in DOMAIN toPeer[t] :
         /\ result = IF Head(toPeer[t]) = data THEN 1 ELSE 2
         /\ toPeer' = [toPeer EXCEPT ![t] = SubSeq(@, n + 1, Len(@))]
         /\ UNCHANGED slow
    \/ /\ result = 0 /\ toPeer[t] = <<>> /\ UNCHANGED toPeer
       /\ \/ ~Coming(t) /\ UNCHANGED slow
          \/ Coming(t) /\ Cardinality(slow) < MaxSlow /\ slow' = slow \cup {t}

\* serverFunc: connect may fail, and nobody looks.
serverFunc(t) ==
    /\ pc[t] = "start"
    /\ IF t \in up
       THEN Dial(t, t, "master") /\ GoTo(t, "greet")
       ELSE GoTo(t, "lost") /\ UNCHANGED <<host, netVars>>
    /\ UNCHANGED <<directoryVars, up, todo, pings, text, rbuffer, mixed, refused, split, short,
                   budgetVars>>

\* Whatever "master" was answered, a ping is next.
Ping(t) ==
    /\ \/ pc[t] = "greet" /\ \E result \in 0..2 : expectToRead(t, "+OK master", result)
       \/ pc[t] = "rest" /\ pings[t] < MaxPing /\ UNCHANGED <<toPeer, slow>>
    /\ GoTo(t, "pong") /\ Say(t, "ping")
    /\ pings' = [pings EXCEPT ![t] = @ + 1]
    /\ UNCHANGED <<directoryVars, up, host, todo, text, rbuffer, mixed, refused, split, short,
                   crashes, hangups>>

\* Another line than "pong" is as good; without one the server is lost.
Pong(t) ==
    /\ pc[t] = "pong"
    /\ \/ /\ \E result \in 1..2 : expectToRead(t, "pong", result)
          /\ GoTo(t, "rest") /\ UNCHANGED <<backlog, connfd, file, threads, toServer, closed>>
       \/ /\ expectToRead(t, "pong", 0)
          /\ GoTo(t, "lost") /\ HangUp(t)
    /\ UNCHANGED <<directoryVars, up, host, todo, pings, text, rbuffer, mixed, refused, split, short,
                   crashes, hangups>>

-----------------------------------------------------------------------------
(* fetchFromMaster *)

\* Mutant of MarkerAt: the last place is not looked at.
MarkerAt_OffByOne(s) ==
    LET at == {i \in 1..(Len(s) - 2) : SubSeq(s, i, i + 1) = Marker}
    IN IF at = {} THEN 0 ELSE Min(at)

\* The place of the end marker in what was read, or 0.
MarkerAt(s) ==
    LET at == {i \in 1..(Len(s) - 1) : SubSeq(s, i, i + 1) = Marker}
    IN IF at = {} THEN 0 ELSE Min(at)

\* Without a master the first write ends the process.
FetchTable(f) ==
    /\ pc[f] = "start"
    /\ IF AdminPort \in up
       THEN Dial(f, AdminPort, "admin") /\ GoTo(f, "read")
       ELSE GoTo(f, "ended") /\ UNCHANGED <<host, netVars>>
    /\ UNCHANGED <<directoryVars, up, todo, pings, text, rbuffer, mixed, refused, split,
                   short, budgetVars>>

\* A read of n pieces writes over the beginning of the buffer.
Filled(f, n) == SubSeq(toPeer[f], 1, n) \o SubSeq(rbuffer[f], n + 1, BufSize + 1)

\* The string that begins at the buffer: read() sets no end, and what follows a
\* full buffer is taken too.
Buffer(f, n) ==
    LET all == Append(Filled(f, n), NUL)
    IN SubSeq(all, 1, Min({i \in DOMAIN all : all[i] = NUL}) - 1)

\* Only the copy of the store clears the buffer, after a read.
Cleared(f) == [i \in 1..BufSize |-> NUL] \o <<rbuffer[f][BufSize + 1]>>

\* Mutant of TextBefore: the text is cut after the first character of the marker.
TextBefore_Late(s, end) == SubSeq(s, 1, end)

TextBefore(s, end) == SubSeq(s, 1, end - 1)

\* The store's copy looks for the marker in the last read only.
ReadTable(f) ==
    /\ pc[f] = "read"
    /\ \E n \in DOMAIN toPeer[f] :
         /\ n <= BufSize
         /\ LET all == text[f] \o Buffer(f, n)
                end == IF copy[f] = "storage" /\ MarkerAt(Buffer(f, n)) = 0
                       THEN 0 ELSE MarkerAt(all)
            IN /\ text' = [text EXCEPT ![f] = IF end = 0 THEN all ELSE TextBefore(all, end)]
               /\ GoTo(f, IF end = 0 THEN "read" ELSE "parse")
               /\ short' = IF end = 0 /\ n < BufSize /\ (copy[f] = "frontend" \/ text[f] = <<>>)
                           THEN short \cup {f} ELSE short
         /\ rbuffer' = [rbuffer EXCEPT ![f] =
                           IF copy[f] = "storage" THEN Cleared(f) ELSE Filled(f, n)]
         /\ split' = IF toPeer[f][n] = Marker[1] THEN split \cup {f} ELSE split
         /\ toPeer' = [toPeer EXCEPT ![f] = SubSeq(@, n + 1, Len(@))]
    /\ UNCHANGED <<directoryVars, up, backlog, connfd, file, threads, toServer, closed,
                   host, todo, pings, mixed, refused, budgetVars>>

\* The end of the connection: the loop ends without the marker.
EndOfTable(f) ==
    /\ pc[f] = "read" /\ toPeer[f] = <<>> /\ Shut(f)
    /\ GoTo(f, "parse")
    /\ UNCHANGED <<directoryVars, up, netVars, host, todo, pings, text, rbuffer, mixed,
                   refused, split, short, budgetVars>>

\* What is read from the archive: the fields that were written into it.
Parses(s) == s = Table

\* The archive throws at a text that is not what was written, and the process
\* ends; else "quit" is sent and the connection closed.
ParseTable(f) ==
    /\ pc[f] = "parse"
    /\ IF Parses(text[f])
       THEN GoTo(f, "fetched") /\ toServer' = [toServer EXCEPT ![f] = Append(@, "quit")]
       ELSE GoTo(f, "ended") /\ UNCHANGED toServer
    /\ closed' = closed \cup {f}
    /\ UNCHANGED <<directoryVars, up, backlog, connfd, file, threads, toPeer, host, todo,
                   pings, text, rbuffer, mixed, refused, split, short, budgetVars>>

-----------------------------------------------------------------------------
\* A tablet server or the master dies, and what it held with it: with the master
\* the threads that watch the tablet servers.
Crash(l) ==
    /\ l \in up /\ crashes < MaxCrash
    /\ up' = up \ {l} /\ crashes' = crashes + 1
    /\ backlog' = [backlog EXCEPT ![l] = <<>>]
    /\ file' = [file EXCEPT ![l] = [fd \in Fd |-> None]]
    /\ threads' = [threads EXCEPT ![l] = <<>>]
    /\ IF l = AdminPort
       THEN /\ closed' = closed \cup Watched
            /\ pc' = [p \in Peer |-> IF p \in Watched THEN "ended" ELSE pc[p]]
       ELSE UNCHANGED <<closed, pc>>
    /\ UNCHANGED <<directoryVars, connfd, toServer, toPeer, host, todo, pings, text, rbuffer,
                   mixed, refused, split, short, slow, hangups>>

Init == ConnectionsInit

AtConsole(c) ==
    /\ Type(c) \/ PrintAnswer(c)
    /\ UNCHANGED <<up, netVars, peerVars, mixed, refused, split, short, budgetVars>>

Answer ==
    /\ AdminPort \in up /\ handleMessage
    /\ UNCHANGED <<up, netVars, peerVars, mixed, refused, split, short, budgetVars>>

Process(l) ==
    /\ Accept(l) \/ \E i \in DOMAIN threads[l] : Serve(l, i)
    /\ UNCHANGED <<directoryVars, up, peerVars, refused, split, short, budgetVars>>

Next ==
    \/ Answer
    \/ \E c \in Console : AtConsole(c)
    \/ \E l \in Listener : Process(l)
    \/ \E c \in Client : Query(c) \/ Reach(c) \/ Hear(c) \/ Leave(c) \/ Killed(c)
    \/ \E t \in Watched : serverFunc(t) \/ Ping(t) \/ Pong(t)
    \/ \E f \in Fetcher : FetchTable(f) \/ ReadTable(f) \/ EndOfTable(f) \/ ParseTable(f)
    \/ \E l \in Listener : Crash(l)

Spec == Init /\ [][Next]_vars

\* Every thread of the store runs on, the accept loops and the loop that answers
\* queries among them, and so does every peer: what waits for an answer takes it
\* when it comes, and a wait of the master runs out.
FairSpec ==
    /\ Spec
    /\ WF_vars(Answer)
    /\ \A l \in Listener : WF_vars(Process(l))
    /\ \A c \in Client : WF_vars(Reach(c)) /\ WF_vars(Hear(c)) /\ WF_vars(Leave(c))
    /\ \A t \in Watched : WF_vars(Ping(t)) /\ WF_vars(Pong(t))
    /\ \A f \in Fetcher : WF_vars(ReadTable(f) \/ EndOfTable(f) \/ ParseTable(f))

-----------------------------------------------------------------------------
(* What is promised *)

TypeOK == ConnectionsTypeOK

\* A client that asks the master is sent to a server that takes its keys: the
\* first range the master finds for a row is the range of the server it names
\* (handleQuery, parseMasterConfig, parseServerConfig, populateKey).
NamedAccepts == refused = {}

\* The master declares a server lost only if the server has died, if an answer
\* came after the wait for it, or if one accept() of that server overtook
\* another: one late "+OK master" leaves the two sides a line apart, and two
\* threads on one descriptor take each other's lines (serverFunc, expectToRead,
\* connectionFunc, masterThreadFunc).
LossExplained ==
    \A t \in Watched :
        pc[t] = "lost" => t \notin up \/ t \in slow \/ t \in mixed

\* A fetched table that the archive refuses was read in pieces, one of which did
\* not fill a buffer that nobody had cleared - that of the frontends, and that of
\* the store before the first read - or what follows the buffer in memory is not
\* NUL - or the master has died (fetchFromMaster).
TornExplained ==
    \A f \in Fetcher :
        pc[f] = "ended" /\ f \in closed =>
            \/ AdminPort \notin up \/ AdminPort \in mixed
            \/ f \in short \/ rbuffer[f][BufSize + 1] # NUL

Waits(p) == pc[p] \in {"asked", "wait", "greet", "pong", "read"}

\* Whoever waits is answered, hears that the connection has ended or gives up,
\* unless threads of the server have taken each other's descriptors, the end of
\* the table came in two reads, or the master that was asked is gone (the loops of tablet_thread.cc and
\* master_admin.cc, which keep what follows a command for the next read).
Answered ==
    \A p \in Peer : Waits(p) ~> \/ ~Waits(p)
                                \/ p \in split
                                \/ pc[p] = "asked" /\ AdminPort \notin up
                                \/ host[p] \in mixed

Gone(p) ==
    \A l \in Listener : \A i \in DOMAIN threads[l] :
        threads[l][i].conn = p => threads[l][i].pc = "fill"

\* The threads of a connection end after its peer has closed it, but for one
\* that waits for the bytes of a put: recv returns 0 and is called again
\* (connectionFunc, clientThreadFunc, masterThreadFunc, adminFunc,
\* readDataToBuffer).
Reaped == \A p \in Peer : <>[](p \in closed => Gone(p))

=============================================================================
