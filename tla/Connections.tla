---------------------------- MODULE Connections ----------------------------
(***************************************************************************)
(* The connections of the store: the accept loops of the tablet servers    *)
(* and of the master's admin port, the threads they start (tablet_thread.cc*)
(* and master_admin.cc), and the peers at the other end: clients with a    *)
(* session, the pings of the master (serverFunc, expectToRead) and the     *)
(* processes that fetch the master's table.                                *)
(*                                                                         *)
(* Every thread is given the address of the one variable connfd of the     *)
(* accept loop and reads its descriptor there later.  A thread is blocked  *)
(* in a read of a connection (conn), but writes to and closes what its     *)
(* descriptor (fd) stands for at that time.                                *)
(***************************************************************************)
EXTENDS Directory, Functions, FiniteSetsExt

CONSTANTS
    Watched,        \* tablet servers whose pings are followed
    Fetcher,        \* processes that fetch the table
    copy,           \* which of the two fetchFromMaster they are built with
    task,           \* the commands of a client after "yo"
    AdminPort, None, NUL,
    Table,          \* the pieces of the archive before its end marker
    BufSize,        \* the pieces that fit the buffer of fetchFromMaster
    Parties,        \* the peers and consoles that take part, one set for each workload
    MaxPing,        \* pings to a server (bounds the model)
    MaxSlow,        \* waits that run out although an answer would come
    MaxHangup,      \* clients that end while they wait
    MaxCrash        \* processes that die

Peer == Client \cup Watched \cup Fetcher
Listener == Tablet \cup {AdminPort}
Fd == 1..Cardinality(Peer)

ASSUME ConnectionsAssumption ==
    /\ Watched \subseteq Tablet
    /\ Client \cap (Tablet \cup Fetcher) = {} /\ Tablet \cap Fetcher = {}
    /\ AdminPort \notin Tablet /\ {None, Nobody} \cap (Peer \cup Listener) = {}
    /\ IsFiniteSet(Peer) /\ Client \cap Console = {}
    /\ copy \in [Fetcher -> {"frontend", "storage"}]
    /\ task \in [Client -> Seq({"get", "put", "bytes", "quit"})]
    /\ Parties \subseteq SUBSET (Peer \cup Console)
    /\ BufSize \in Nat \ {0}
    /\ MaxPing \in Nat \ {0} /\ MaxSlow \in Nat /\ MaxHangup \in Nat /\ MaxCrash \in Nat

\* "<EOB>" may come in two reads.
Marker == <<"EO", "B">>
Archive == Table \o Marker

\* The archive holds numbers and addresses: nothing in it looks like a part of the
\* end marker, and it is text.
ASSUME TableAssumption ==
    /\ Table \in Seq(ToSet(Table))
    /\ NUL \notin ToSet(Archive)
    /\ ToSet(Table) \cap ToSet(Marker) = {}

VARIABLES
    up,         \* the processes that run
    backlog,    \* connections made and not accepted
    connfd,     \* the variable of the accept loop
    file,       \* the connection a descriptor of the process stands for
    threads,    \* the threads of a process, in the order they were started
    toServer,   \* what a peer has sent and no thread has read
    toPeer,     \* what a thread has sent and the peer has not read
    closed,     \* peers that have closed their end
    pc,         \* where a peer is
    host,       \* the server it is connected to
    todo,       \* the commands a client has still to send
    pings,      \* pings sent to a server
    text,       \* what a fetching process has collected
    rbuffer,    \* its buffer, and what follows it in memory
    \* history
    mixed,      \* processes in which a thread took a descriptor not its own
    refused,    \* clients that heard "-ERR key out of range"
    slow,       \* servers whose answer came after the wait for it
    split,      \* processes with a read that ended inside the marker
    short,      \* processes with a read, not the last, that did not fill a buffer
                \* that had not been cleared
    crashes, hangups

netVars    == <<backlog, connfd, file, threads, toServer, toPeer, closed>>
peerVars   == <<pc, host, todo, pings, text, rbuffer>>
budgetVars == <<slow, crashes, hangups>>
vars == <<directoryVars, up, netVars, peerVars, mixed, refused, split, short, budgetVars>>

Live == {"new", "first", "master", "client", "fill", "admin"}

ConnectionsTypeOK ==
    /\ DirectoryTypeOK
    /\ up \subseteq Listener
    /\ backlog \in [Listener -> Seq(Peer)]
    /\ connfd \in [Listener -> Fd \cup {0}]
    /\ file \in [Listener -> [Fd -> Peer \cup {None}]]
    /\ \A l \in Listener : \A i \in DOMAIN threads[l] :
         /\ threads[l][i].pc \in Live \cup {"ended"}
         /\ threads[l][i].fd \in Fd
         /\ threads[l][i].conn \in Peer \cup {None}
    /\ closed \subseteq Peer
    /\ host \in [Peer -> Listener \cup {None}]
    /\ mixed \subseteq Listener /\ refused \subseteq Client
    /\ slow \subseteq Watched /\ split \cup short \subseteq Fetcher
    /\ pings \in [Watched -> 0..MaxPing]

\* Nobody has begun; some take no part.
ConnectionsInit ==
    /\ \E party \in Parties :
         /\ DirectoryInit(Console \ party)
         /\ pc = [p \in Peer |-> IF p \in party THEN "start" ELSE "ended"]
         /\ \E junk, beyond \in {NUL, "?"} :
              rbuffer = [f \in Fetcher |-> [i \in 1..BufSize |->
                            IF f \in party THEN junk ELSE NUL] \o
                            <<IF f \in party THEN beyond ELSE NUL>>]
    /\ up = Listener
    /\ backlog = [l \in Listener |-> <<>>]
    /\ connfd = [l \in Listener |-> 0]
    /\ file = [l \in Listener |-> [fd \in Fd |-> None]]
    /\ threads = [l \in Listener |-> <<>>]
    /\ toServer = [p \in Peer |-> <<>>] /\ toPeer = [p \in Peer |-> <<>>]
    /\ closed = {}
    /\ host = [p \in Peer |-> None]
    /\ todo = [c \in Client |-> task[c]]
    /\ pings = [t \in Watched |-> 0]
    /\ text = [f \in Fetcher |-> <<>>]
    /\ mixed = {} /\ refused = {} /\ slow = {} /\ split = {} /\ short = {}
    /\ crashes = 0 /\ hangups = 0

-----------------------------------------------------------------------------
(* The process that serves *)

Running(l) == l \in up

FreeFd(l) == Min({fd \in Fd : file[l][fd] = None})

\* accept() puts the descriptor into connfd, the thread gets its address.
Accept(l) ==
    /\ Running(l) /\ backlog[l] # <<>>
    /\ LET fd == FreeFd(l)
       IN /\ connfd' = [connfd EXCEPT ![l] = fd]
          /\ file' = [file EXCEPT ![l][fd] = Head(backlog[l])]
          /\ threads' = [threads EXCEPT ![l] =
                Append(@, [pc |-> "new", fd |-> fd, conn |-> None, kept |-> <<>>])]
    /\ backlog' = [backlog EXCEPT ![l] = Tail(@)]
    /\ UNCHANGED <<toServer, toPeer, closed, mixed>>

\* The thread goes on at "to", blocked in a read of its descriptor.
Become(l, i, to, kept) ==
    threads' = [threads EXCEPT ![l][i] =
        [@ EXCEPT !.pc = to, !.kept = kept,
                  !.conn = IF to = "ended" THEN None ELSE file[l][threads[l][i].fd]]]

\* *((int*) params): what the accept loop has put there last.
Start(l, i) ==
    /\ threads[l][i].pc = "new"
    /\ threads' = [threads EXCEPT ![l][i] =
          [@ EXCEPT !.pc = IF l = AdminPort THEN "admin" ELSE "first",
                    !.fd = connfd[l], !.conn = file[l][connfd[l]]]]
    /\ mixed' = IF connfd[l] = threads[l][i].fd THEN mixed ELSE mixed \cup {l}
    /\ UNCHANGED <<backlog, connfd, file, toServer, toPeer, closed>>

\* read() returns some of the lines that have come: so many of them.
Ready(l, i) ==
    LET c == threads[l][i].conn IN IF c = None THEN {} ELSE DOMAIN toServer[c]

Reads(l, i, n) ==
    toServer' = [toServer EXCEPT ![threads[l][i].conn] = SubSeq(@, n + 1, Len(@))]

Chunk(l, i, n) == SubSeq(toServer[threads[l][i].conn], 1, n)

\* The end of the connection, or a descriptor that has been closed.
Eof(l, i) ==
    LET c == threads[l][i].conn IN c = None \/ (c \in closed /\ toServer[c] = <<>>)

\* The bytes of a blob have no CRLF.
Complete(chunk) == Head(chunk) # "bytes"

\* The command is what was kept of earlier reads, up to the CRLF that is looked
\* for in the last one only.
Command(kept, chunk) == IF kept = <<>> THEN Head(chunk) ELSE "garbled"

\* sendReply: a write to a descriptor that is closed has no effect.
Reply(l, i, lines) ==
    LET c == file[l][threads[l][i].fd]
    IN toPeer' = IF c = None THEN toPeer ELSE [toPeer EXCEPT ![c] = @ \o lines]

Close(l, i) == file' = [file EXCEPT ![l][threads[l][i].fd] = None]

\* A line with no CRLF is kept for later.
Keep(l, i, n) ==
    /\ Reads(l, i, n) /\ ~Complete(Chunk(l, i, n))
    /\ Become(l, i, threads[l][i].pc, threads[l][i].kept \o Chunk(l, i, n))
    /\ UNCHANGED <<file, toPeer>>

\* Mutant of EndOfFile: the loop goes on at 0, and ends at an error only.
EndOfFile_Error(l, i) ==
    /\ threads[l][i].conn = None
    /\ Become(l, i, "ended", <<>>)
    /\ UNCHANGED <<file, toServer, toPeer>>

\* read() returns 0, the loop ends and with it the thread; nothing is closed.
EndOfFile(l, i) ==
    /\ Eof(l, i)
    /\ Become(l, i, "ended", <<>>)
    /\ UNCHANGED <<file, toServer, toPeer>>

parseFirstCommand(l, i, command) ==
    CASE command = "yo" ->
           Become(l, i, "client", <<>>) /\ Reply(l, i, <<"+OK hi">>) /\ UNCHANGED file
      [] command = "master" ->
           Become(l, i, "master", <<>>) /\ Reply(l, i, <<"+OK master">>) /\ UNCHANGED file
      [] OTHER ->
           Become(l, i, "ended", <<>>) /\ Reply(l, i, <<"-ERR first">>) /\ Close(l, i)

\* What was read after the first command is forgotten; at the end of the
\* connection the first command is what there is.
connectionFunc(l, i) ==
    /\ threads[l][i].pc = "first"
    /\ \/ \E n \in Ready(l, i) :
             \/ Keep(l, i, n)
             \/ /\ Reads(l, i, n) /\ Complete(Chunk(l, i, n))
                /\ parseFirstCommand(l, i, Command(threads[l][i].kept, Chunk(l, i, n)))
       \/ /\ Eof(l, i)
          /\ parseFirstCommand(l, i, "")
          /\ UNCHANGED toServer

\* Mutant of masterThreadFunc: cbuffer is not cleared after a command.
masterThreadFunc_NotCleared(l, i) ==
    /\ threads[l][i].pc = "master"
    /\ \/ \E n \in Ready(l, i) :
             /\ Reads(l, i, n)
             /\ Become(l, i, "master", threads[l][i].kept \o Chunk(l, i, n))
             /\ Reply(l, i, IF Command(threads[l][i].kept, Chunk(l, i, n)) = "ping"
                            THEN <<"pong">> ELSE <<>>)
             /\ UNCHANGED file
       \/ EndOfFile(l, i)

\* "pong" for "ping", and nothing for anything else.
masterThreadFunc(l, i) ==
    /\ threads[l][i].pc = "master"
    /\ \/ \E n \in Ready(l, i) :
             \/ Keep(l, i, n)
             \/ /\ Reads(l, i, n) /\ Complete(Chunk(l, i, n))
                /\ Become(l, i, "master", Tail(Chunk(l, i, n)))
                /\ Reply(l, i, IF Command(threads[l][i].kept, Chunk(l, i, n)) = "ping"
                               THEN <<"pong">> ELSE <<>>)
                /\ UNCHANGED file
       \/ EndOfFile(l, i)

\* get and put look whether the key is in the range of the server.
parseClientCommand(l, i, command, rest) ==
    LET c  == threads[l][i].conn
        ok == inRange(myRange(l), row[c])
    IN CASE command = "quit" ->
              Become(l, i, "ended", <<>>) /\ Reply(l, i, <<"+OK quit">>) /\ Close(l, i)
         [] command = "put" /\ ok ->
              Become(l, i, "fill", rest) /\ Reply(l, i, <<"+OK shoot">>) /\ UNCHANGED file
         [] OTHER ->
              /\ Become(l, i, "client", rest) /\ UNCHANGED file
              /\ Reply(l, i, IF command \notin {"get", "put"} THEN <<"-ERR command">>
                             ELSE IF ok THEN <<"cell">> ELSE <<"-ERR range">>)

clientThreadFunc(l, i) ==
    /\ threads[l][i].pc = "client"
    /\ \/ \E n \in Ready(l, i) :
             \/ Keep(l, i, n)
             \/ /\ Reads(l, i, n) /\ Complete(Chunk(l, i, n))
                /\ parseClientCommand(l, i, Command(threads[l][i].kept, Chunk(l, i, n)),
                                      Tail(Chunk(l, i, n)))
       \/ EndOfFile(l, i)

\* The bytes of a put, and whatever else comes instead.  At the end of the
\* connection recv returns 0, and the loop has no end.
readDataToBuffer(l, i) ==
    /\ threads[l][i].pc = "fill" /\ Ready(l, i) # {}
    /\ Reads(l, i, 1)
    /\ IF Complete(Chunk(l, i, 1))
       THEN Become(l, i, "fill", threads[l][i].kept) /\ UNCHANGED toPeer
       ELSE Become(l, i, "client", threads[l][i].kept) /\ Reply(l, i, <<"+OK put">>)
    /\ UNCHANGED file

\* handleAdmin writes the table, handleQuit ends the thread, and other commands
\* are not answered.
adminFunc(l, i) ==
    /\ threads[l][i].pc = "admin"
    /\ \/ \E n \in Ready(l, i) :
             /\ Reads(l, i, n)
             /\ LET command == Command(threads[l][i].kept, Chunk(l, i, n))
                IN IF command = "quit"
                   THEN /\ Become(l, i, "ended", <<>>) /\ Close(l, i)
                        /\ Reply(l, i, <<"+OK quit">>)
                   ELSE /\ Become(l, i, "admin", Tail(Chunk(l, i, n))) /\ UNCHANGED file
                        /\ Reply(l, i, IF command = "admin" THEN Archive ELSE <<>>)
       \/ EndOfFile(l, i)

Serve(l, i) ==
    \/ Start(l, i)
    \/ /\ \/ connectionFunc(l, i) \/ masterThreadFunc(l, i) \/ clientThreadFunc(l, i)
          \/ readDataToBuffer(l, i) \/ adminFunc(l, i)
       /\ UNCHANGED <<backlog, connfd, closed, mixed>>

=============================================================================
