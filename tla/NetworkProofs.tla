--------------------------- MODULE NetworkProofs ---------------------------
(***************************************************************************)
(* Proofs about Network: for any number of servers, clients and processes  *)
(* that fetch the table, any ranges, and any crash, late answer or mix-up  *)
(* of descriptors.                                                         *)
(***************************************************************************)
EXTENDS Network, FiniteSetTheorems, SequenceTheorems, NaturalsInduction, TLAPS

\* What the peers say, and what clients and the pinging threads hear.
Said(p) == IF p \in Client THEN {"yo", "get", "put", "bytes", "quit"}
           ELSE IF p \in Watched THEN {"master", "ping"} ELSE {"admin", "quit"}
Line == {"yo", "get", "put", "bytes", "quit", "master", "ping", "admin"}
Word == {"+OK hi", "+OK master", "-ERR first", "pong", "+OK quit", "+OK shoot", "-ERR command",
         "cell", "+OK put"}

Thread == [pc : Live \cup {"ended"}, fd : Fd, conn : Peer \cup {None}, kept : Seq(Line)]

NetTypes ==
    /\ TypeOK
    /\ threads \in [Listener -> Seq(Thread)]
    /\ DOMAIN toServer = Peer /\ DOMAIN toPeer = Peer /\ DOMAIN pc = Peer
    /\ \A p \in Peer : toServer[p] \in Seq(Said(p))
    /\ \A p \in Client \cup Watched : toPeer[p] \in Seq(Word)
    /\ todo \in [Client -> Seq({"get", "put", "bytes", "quit"})]
    /\ \A t \in Watched : pc[t] \in {"start", "greet"} => pings[t] = 0
    /\ \A l \in Listener : threads[l] # <<>> => connfd[l] \in Fd
    /\ \A l \in Tablet : \A i \in DOMAIN threads[l] : threads[l][i].pc # "admin"

\* Clients are told servers of a range that holds their row.
Directed ==
    /\ \A i \in DOMAIN queries : queries[i].src \in Client =>
         queries[i].msg = [type |-> "query", key |-> row[queries[i].src]]
    /\ \A c \in Client : \A i \in DOMAIN answers[c] : answers[c][i] \in Named(row[c])

Home(p) == IF p \in Client THEN {l \in Tablet : inRange(myRange(l), row[p])}
           ELSE IF p \in Watched THEN {p} ELSE {AdminPort}

\* A peer calls once, and is known only where it has called.
Hosted ==
    /\ \A p \in Peer : host[p] \in Home(p) \cup {None}
    /\ \A p \in Peer : pc[p] \in {"start", "asked"} => host[p] = None
    /\ \A l \in Listener :
         /\ \A i \in DOMAIN backlog[l] : host[backlog[l][i]] = l
         /\ \A fd \in Fd : file[l][fd] # None => host[file[l][fd]] = l
         /\ \A i \in DOMAIN threads[l] : threads[l][i].conn # None => host[threads[l][i].conn] = l

\* A connection waits once, or has one descriptor.
Once ==
    \A l \in Listener :
        /\ \A i, j \in DOMAIN backlog[l] : backlog[l][i] = backlog[l][j] => i = j
        /\ \A fd, gd \in Fd : file[l][fd] = file[l][gd] /\ file[l][fd] # None => fd = gd
        /\ \A i \in DOMAIN backlog[l], fd \in Fd : backlog[l][i] # file[l][fd]

\* Where no thread took a descriptor not its own, every thread has one.
Own ==
    \A l \in Listener \ mixed : \A i \in DOMAIN threads[l] :
        threads[l][i].pc # "ended" =>
          /\ file[l][threads[l][i].fd] # None
          /\ threads[l][i].pc # "new" => threads[l][i].conn = file[l][threads[l][i].fd]
          /\ \A j \in DOMAIN threads[l] :
               j # i /\ threads[l][j].pc # "ended" => threads[l][j].fd # threads[l][i].fd

\* What the master's thread and that of the server know of each other.
Waiting(t) == pc[t] = "greet" /\ toServer[t] = <<"master">> /\ toPeer[t] = <<>>
Speaks(t) ==
    \/ pc[t] = "greet" /\ toServer[t] = <<>> /\ toPeer[t] = <<"+OK master">>
    \/ pc[t] = "pong" /\ toServer[t] = <<"ping">> /\ toPeer[t] = <<>>
    \/ pc[t] = "pong" /\ toServer[t] = <<>> /\ toPeer[t] = <<"pong">>
    \/ pc[t] = "rest" /\ toServer[t] = <<>> /\ toPeer[t] = <<>>

InTouch(t) ==
    \/ Waiting(t) /\ t \in ToSet(backlog[t])
    \/ \E i \in DOMAIN threads[t] :
         /\ file[t][threads[t][i].fd] = t /\ threads[t][i].kept = <<>>
         /\ \/ threads[t][i].pc \in {"new", "first"} /\ Waiting(t)
            \/ threads[t][i].pc = "master" /\ Speaks(t)

Watching ==
    \A t \in Watched :
        /\ pc[t] = "start" => toPeer[t] = <<>>
        /\ pc[t] \in {"start", "greet", "pong", "rest"} => t \notin closed
        /\ pc[t] \in {"greet", "pong", "rest"} /\ t \in up \ (slow \cup mixed) => InTouch(t)

NInv == NetTypes /\ Directed /\ Hosted /\ Once /\ Own /\ Watching /\ NamedAccepts /\ LossExplained

-----------------------------------------------------------------------------
(* Ranges and descriptors *)

LEMMA Least ==
    ASSUME NEW D, D \subseteq Nat, D # {}
    PROVE  \E n \in D : \A m \in D : n <= m
  <1>1. PICK n \in D : \A m \in D : ~(<<m, n>> \in OpToRel(<, Nat))
    BY NatLessThanWellFounded, WFMin
  <1>2. ASSUME NEW m \in D
        PROVE  n <= m
    <2>1. ~(<<m, n>> \in OpToRel(<, Nat))
      BY <1>1
    <2>2. m \in Nat /\ n \in Nat
      OBVIOUS
    <2>3. ~(m < n)
      BY <2>1, <2>2 DEF OpToRel
    <2>4. QED
      BY <2>2, <2>3
  <1>3. QED
    BY <1>2

\* A server has one range, and that is the one it takes its keys from.
LEMMA OneRange ==
    ASSUME NEW t \in Tablet, NEW r \in DOMAIN Clusters, t \in ToSet(Clusters[r])
    PROVE  myRange(t) = r
  <1>1. \A s \in DOMAIN Clusters : t \in ToSet(Clusters[s]) <=> s = r
    BY DirectoryAssumption
  <1>2. r[1] \in Nat /\ r[2] \in Nat
    BY DirectoryAssumption DEF Chars
  <1>3. Before(r, r)
    BY <1>2 DEF Before
  <1>4. QED
    BY <1>1, <1>3 DEF myRange

\* Of any ranges there is a first.
LEMMA FirstRange ==
    ASSUME NEW H, H \subseteq DOMAIN Clusters, H # {}
    PROVE  \E r \in H : \A s \in H : Before(r, s)
  <1>1. \A r \in H : r[1] \in Nat /\ r[2] \in Nat
    BY DirectoryAssumption DEF Chars
  <1> DEFINE A == {r[1] : r \in H}
  <1>2. PICK a \in A : \A b \in A : a <= b
    <2>1. A \subseteq Nat /\ A # {}
      BY <1>1
    <2> HIDE DEF A
    <2>2. QED
      BY <2>1, Least
  <1> DEFINE G == {r \in H : r[1] = a}
             B == {r[2] : r \in G}
  <1>3. PICK b \in B : \A c \in B : b <= c
    <2>1. B \subseteq Nat /\ B # {}
      BY <1>1, <1>2
    <2> HIDE DEF B
    <2>2. QED
      BY <2>1, Least
  <1>4. PICK r \in H : r[1] = a /\ r[2] = b
    BY <1>3
  <1>5. ASSUME NEW s \in H
        PROVE  Before(r, s)
    <2>1. a <= s[1]
      BY <1>2
    <2>2. s[1] = a => b <= s[2]
      BY <1>3
    <2>3. QED
      BY <1>1, <1>4, <2>1, <2>2 DEF Before
  <1>6. QED
    BY <1>4, <1>5

\* The server a client is sent to takes its keys.
LEMMA NamedTakes ==
    ASSUME NEW k \in Chars, NEW t \in Named(k), t # Nobody
    PROVE  t \in Tablet /\ inRange(myRange(t), k)
  <1> DEFINE held == {r \in DOMAIN Clusters : inRange(r, k)}
             first == CHOOSE r \in held : \A s \in held : Before(r, s)
  <1>1. held # {} /\ t \in ToSet(Clusters[first])
    BY DEF Named
  <1>2. first \in held
    BY <1>1, FirstRange
  <1> HIDE DEF first
  <1>3. t \in Tablet
    BY <1>1, <1>2, DirectoryAssumption DEF ToSet
  <1>4. QED
    BY <1>1, <1>2, <1>3, OneRange

LEMMA NamedSome ==
    ASSUME NEW k \in Chars
    PROVE  Named(k) \subseteq Tablet \cup {Nobody}
  BY NamedTakes

\* There is a descriptor left for a connection that waits.
LEMMA FreeFdExists ==
    ASSUME NEW l \in Listener, ConnectionsTypeOK, Once, backlog[l] # <<>>
    PROVE  FreeFd(l) \in Fd /\ file[l][FreeFd(l)] = None
  <1> DEFINE free == {fd \in Fd : file[l][fd] = None}
             p == Head(backlog[l])
             f == [fd \in Fd |-> file[l][fd]]
             Q == Peer \ {p}
  <1>1. p \in Peer /\ 1 \in DOMAIN backlog[l] /\ p = backlog[l][1]
    BY DEF ConnectionsTypeOK
  <1>2. IsFiniteSet(Peer) /\ Cardinality(Peer) \in Nat
    BY ConnectionsAssumption, FS_CardinalityType
  <1>3. IsFiniteSet(Q) /\ Cardinality(Q) = Cardinality(Peer) - 1
    BY <1>1, <1>2, FS_RemoveElement
  <1>4. IsFiniteSet(Fd) /\ Cardinality(Fd) = Cardinality(Peer)
    <2>1. Cardinality(Peer) > 0
      BY <1>1, <1>2, FS_EmptySet
    <2>2. QED
      BY <1>2, <2>1, FS_Interval DEF Fd
  <1>5. free # {}
    <2> SUFFICES ASSUME free = {} PROVE FALSE
      OBVIOUS
    <2>1. \A fd \in Fd : file[l][fd] \in Q
      BY <1>1 DEF ConnectionsTypeOK, Once
    <2>2. f \in [Fd -> Q]
      BY <2>1
    <2>3. Cardinality(Q) < Cardinality(Fd)
      BY <1>2, <1>3, <1>4
    <2> HIDE DEF f, Q
    <2>4. \E x, y \in Fd : x # y /\ f[x] = f[y]
      BY <1>3, <1>4, <2>2, <2>3, FS_PigeonHole
    <2>5. QED
      BY <2>1, <2>4 DEF f, Q, Once
  <1>6. free \subseteq Nat
    BY DEF Fd
  <1> HIDE DEF free
  <1>7. \E n \in free : \A m \in free : n <= m
    BY <1>5, <1>6, Least
  <1>8. FreeFd(l) \in free
    BY <1>7 DEF FreeFd, Min, free
  <1>9. QED
    BY <1>8 DEF free

-----------------------------------------------------------------------------
(* What a thread of a server does, in three parts *)

\* It goes on or ends, and closes its descriptor only at its end.
GoesOn(l, i) ==
    \E to \in Live \cup {"ended"}, kept \in Seq(Line) :
        /\ to # "new" /\ (l \in Tablet => to # "admin")
        /\ Become(l, i, to, kept)
        /\ UNCHANGED file \/ (to = "ended" /\ Close(l, i))

\* It may take lines of the connection it is blocked in.
Takes(l, i) == UNCHANGED toServer \/ \E n \in Ready(l, i) : Reads(l, i, n)

\* It may write to what its descriptor stands for.
Tells(l, i) ==
    UNCHANGED toPeer \/ \E lines : (l \in Tablet => lines \in Seq(Word)) /\ Reply(l, i, lines)

Serves(l, i) == GoesOn(l, i) /\ Takes(l, i) /\ Tells(l, i)

LEMMA ThreadTyped ==
    ASSUME NetTypes, NEW l \in Listener, NEW i \in DOMAIN threads[l]
    PROVE  /\ threads[l] \in Seq(Thread) /\ threads[l][i] \in Thread
           /\ threads[l][i].pc \in Live \cup {"ended"} /\ threads[l][i].fd \in Fd
           /\ threads[l][i].conn \in Peer \cup {None} /\ threads[l][i].kept \in Seq(Line)
           /\ file[l][threads[l][i].fd] \in Peer \cup {None}
  <1>1. threads[l] \in Seq(Thread)
    BY DEF NetTypes
  <1>2. threads[l][i] \in Thread
    BY <1>1
  <1>3. /\ threads[l][i].pc \in Live \cup {"ended"} /\ threads[l][i].fd \in Fd
        /\ threads[l][i].conn \in Peer \cup {None} /\ threads[l][i].kept \in Seq(Line)
    BY <1>2 DEF Thread
  <1>4. QED
    BY <1>1, <1>2, <1>3 DEF NetTypes, TypeOK, ConnectionsTypeOK

LEMMA SaidLines ==
    ASSUME NEW p
    PROVE  Said(p) \subseteq Line /\ Seq(Said(p)) \subseteq Seq(Line)
  <1>1. Said(p) \subseteq Line
    BY DEF Said, Line
  <1>2. QED
    BY <1>1, SeqMonotonic

\* What follows the first n of some words.
LEMMA Rest ==
    ASSUME NEW S, NEW s \in Seq(S), NEW n \in 1..Len(s)
    PROVE  /\ SubSeq(s, 1, n) \in Seq(S) /\ Len(SubSeq(s, 1, n)) = n
           /\ SubSeq(s, n + 1, Len(s)) \in Seq(S)
           /\ Len(SubSeq(s, n + 1, Len(s))) = Len(s) - n
           /\ Head(SubSeq(s, 1, n)) = s[1]
  <1>1. Len(s) \in Nat /\ \A j \in 1..Len(s) : s[j] \in S
    OBVIOUS
  <1>2. n \in Int /\ n <= Len(s) /\ 1 \in Int /\ n + 1 \in Int /\ Len(s) \in Int
    BY <1>1
  <1>3. (\A j \in 1..n : s[j] \in S) /\ \A j \in (n + 1)..Len(s) : s[j] \in S
    BY <1>1
  <1>4. /\ SubSeq(s, 1, n) \in Seq(S) /\ Len(SubSeq(s, 1, n)) = n
        /\ SubSeq(s, 1, n)[1] = s[1]
    BY <1>2, <1>3, SubSeqProperties
  <1>5. /\ SubSeq(s, n + 1, Len(s)) \in Seq(S)
        /\ Len(SubSeq(s, n + 1, Len(s))) = IF n + 1 <= Len(s) THEN Len(s) - (n + 1) + 1 ELSE 0
    BY <1>2, <1>3, SubSeqProperties
  <1>6. QED
    BY <1>1, <1>2, <1>4, <1>5

LEMMA ChunkTyped ==
    ASSUME NetTypes, NEW l \in Listener, NEW i \in DOMAIN threads[l], NEW n \in Ready(l, i)
    PROVE  LET c == threads[l][i].conn
           IN /\ c \in Peer /\ n \in 1..Len(toServer[c])
              /\ Chunk(l, i, n) \in Seq(Said(c)) /\ Chunk(l, i, n) # <<>>
              /\ Head(Chunk(l, i, n)) = toServer[c][1]
              /\ toServer[c][1] \in Said(c)
              /\ Tail(Chunk(l, i, n)) \in Seq(Line)
              /\ threads[l][i].kept \o Chunk(l, i, n) \in Seq(Line)
  <1> DEFINE c == threads[l][i].conn
             s == Chunk(l, i, n)
  <1>1. c \in Peer /\ n \in DOMAIN toServer[c]
    BY ThreadTyped DEF Ready
  <1>2. toServer[c] \in Seq(Said(c))
    BY <1>1 DEF NetTypes
  <1>3. n \in 1..Len(toServer[c])
    BY <1>1, <1>2
  <1>4. s \in Seq(Said(c)) /\ Len(s) = n /\ Head(s) = toServer[c][1]
    BY <1>2, <1>3, Rest DEF Chunk
  <1> HIDE DEF s
  <1>5. s # <<>> /\ s \in Seq(Line)
    BY <1>3, <1>4, SaidLines, EmptySeq
  <1>6. Tail(s) \in Seq(Line)
    BY <1>5, HeadTailProperties
  <1>7. threads[l][i].kept \in Seq(Line)
    BY ThreadTyped
  <1>8. threads[l][i].kept \o s \in Seq(Line)
    BY <1>5, <1>7, ConcatProperties
  <1>9. toServer[c][1] \in Said(c)
    BY <1>2, <1>3
  <1>10. QED
    BY <1>1, <1>3, <1>4, <1>5, <1>6, <1>8, <1>9 DEF s

LEMMA KeepServes ==
    ASSUME NetTypes, NEW l \in Listener, NEW i \in DOMAIN threads[l], NEW n \in Ready(l, i),
           Keep(l, i, n), threads[l][i].pc # "new", l \in Tablet => threads[l][i].pc # "admin"
    PROVE  Serves(l, i)
  <1>1. threads[l][i].kept \o Chunk(l, i, n) \in Seq(Line)
    BY ChunkTyped
  <1>2. threads[l][i].pc \in Live \cup {"ended"}
    BY ThreadTyped
  <1>3. GoesOn(l, i)
    BY <1>1, <1>2 DEF GoesOn, Keep
  <1>4. QED
    BY <1>3 DEF Serves, Takes, Tells, Keep

LEMMA EndServes ==
    ASSUME NEW l \in Listener, NEW i \in DOMAIN threads[l], EndOfFile(l, i)
    PROVE  Serves(l, i)
  <1>1. <<>> \in Seq(Line)
    OBVIOUS
  <1>2. GoesOn(l, i)
    BY <1>1 DEF GoesOn, EndOfFile, Live
  <1>3. QED
    BY <1>2 DEF Serves, Takes, Tells, EndOfFile

LEMMA FirstServes ==
    ASSUME NetTypes, NEW l \in Listener, NEW i \in DOMAIN threads[l], connectionFunc(l, i)
    PROVE  Serves(l, i)
  <1>1. ASSUME NEW command, parseFirstCommand(l, i, command)
        PROVE  GoesOn(l, i) /\ Tells(l, i)
    <2>1. <<>> \in Seq(Line) /\ <<"+OK hi">> \in Seq(Word) /\ <<"+OK master">> \in Seq(Word)
          /\ <<"-ERR first">> \in Seq(Word)
      BY DEF Word
    <2>2. CASE command = "yo"
      <3>1. Become(l, i, "client", <<>>) /\ Reply(l, i, <<"+OK hi">>) /\ UNCHANGED file
        BY <1>1, <2>2 DEF parseFirstCommand
      <3>2. QED
        BY <2>1, <3>1 DEF GoesOn, Tells, Live
    <2>3. CASE command = "master"
      <3>1. Become(l, i, "master", <<>>) /\ Reply(l, i, <<"+OK master">>) /\ UNCHANGED file
        BY <1>1, <2>3 DEF parseFirstCommand
      <3>2. QED
        BY <2>1, <3>1 DEF GoesOn, Tells, Live
    <2>4. CASE command \notin {"yo", "master"}
      <3>1. Become(l, i, "ended", <<>>) /\ Reply(l, i, <<"-ERR first">>) /\ Close(l, i)
        BY <1>1, <2>4 DEF parseFirstCommand
      <3>2. QED
        BY <2>1, <3>1 DEF GoesOn, Tells, Live
    <2>5. QED
      BY <2>2, <2>3, <2>4
  <1>2. threads[l][i].pc = "first"
    BY DEF connectionFunc
  <1>3. CASE \E n \in Ready(l, i) : Keep(l, i, n)
    BY <1>2, <1>3, KeepServes
  <1>4. CASE \E n \in Ready(l, i) :
               /\ Reads(l, i, n)
               /\ parseFirstCommand(l, i, Command(threads[l][i].kept, Chunk(l, i, n)))
    BY <1>1, <1>4 DEF Serves, Takes
  <1>5. CASE parseFirstCommand(l, i, "") /\ UNCHANGED toServer
    BY <1>1, <1>5 DEF Serves, Takes
  <1>6. QED
    BY <1>3, <1>4, <1>5 DEF connectionFunc

LEMMA MasterServes ==
    ASSUME NetTypes, NEW l \in Listener, NEW i \in DOMAIN threads[l], masterThreadFunc(l, i)
    PROVE  Serves(l, i)
  <1>1. threads[l][i].pc = "master"
    BY DEF masterThreadFunc
  <1>2. CASE \E n \in Ready(l, i) : Keep(l, i, n)
    BY <1>1, <1>2, KeepServes
  <1>3. CASE EndOfFile(l, i)
    BY <1>3, EndServes
  <1>4. ASSUME NEW n \in Ready(l, i), Reads(l, i, n),
               Become(l, i, "master", Tail(Chunk(l, i, n))),
               NEW lines, Reply(l, i, lines), lines \in {<<"pong">>, <<>>}, UNCHANGED file
        PROVE  Serves(l, i)
    <2>1. lines \in Seq(Word)
      <3>1. <<"pong">> \in Seq(Word) /\ <<>> \in Seq(Word)
        BY DEF Word
      <3>2. QED
        BY <1>4, <3>1
    <2>2. Tail(Chunk(l, i, n)) \in Seq(Line)
      BY ChunkTyped
    <2>3. GoesOn(l, i)
      BY <1>4, <2>2 DEF GoesOn, Live
    <2>4. QED
      BY <1>4, <2>1, <2>3 DEF Serves, Takes, Tells
  <1>5. QED
    BY <1>2, <1>3, <1>4 DEF masterThreadFunc

\* A thread is asked for a key only by a client that was sent to its server.
LEMMA ClientServes ==
    ASSUME NetTypes, Hosted, NEW l \in Listener, NEW i \in DOMAIN threads[l], clientThreadFunc(l, i)
    PROVE  Serves(l, i)
  <1>1. threads[l][i].pc = "client"
    BY DEF clientThreadFunc
  <1>2. CASE \E n \in Ready(l, i) : Keep(l, i, n)
    BY <1>1, <1>2, KeepServes
  <1>3. CASE EndOfFile(l, i)
    BY <1>3, EndServes
  <1>4. ASSUME NEW n \in Ready(l, i), Reads(l, i, n),
               parseClientCommand(l, i, Command(threads[l][i].kept, Chunk(l, i, n)),
                                  Tail(Chunk(l, i, n)))
        PROVE  Serves(l, i)
    <2> DEFINE c == threads[l][i].conn
               command == Command(threads[l][i].kept, Chunk(l, i, n))
               rest == Tail(Chunk(l, i, n))
               ok == inRange(myRange(l), row[c])
    <2>1. c \in Peer /\ rest \in Seq(Line) /\ command \in Said(c) \cup {"garbled"}
      BY ChunkTyped DEF Command
    <2>2. l \in Tablet /\ command \in {"get", "put"} => ok
      <3>1. c \in Client \/ command \notin {"get", "put"}
        BY <2>1 DEF Said
      <3>2. host[c] = l
        BY <2>1, ConnectionsAssumption DEF Hosted, Peer
      <3>3. c \in Client => l \in Home(c)
        BY <2>1, <3>2, ConnectionsAssumption DEF Hosted
      <3>4. QED
        BY <3>1, <3>3 DEF Home
    <2> HIDE DEF command, rest
    <2>3. CASE command = "quit"
      <3>1. Become(l, i, "ended", <<>>) /\ Reply(l, i, <<"+OK quit">>) /\ Close(l, i)
        BY <1>4, <2>3 DEF parseClientCommand, command
      <3>2. <<"+OK quit">> \in Seq(Word) /\ <<>> \in Seq(Line)
        BY DEF Word
      <3>3. QED
        BY <1>4, <3>1, <3>2 DEF Serves, GoesOn, Takes, Tells, Live
    <2>4. CASE command = "put" /\ ok
      <3>1. Become(l, i, "fill", rest) /\ Reply(l, i, <<"+OK shoot">>) /\ UNCHANGED file
        BY <1>4, <2>4 DEF parseClientCommand, command, rest
      <3>2. <<"+OK shoot">> \in Seq(Word)
        BY DEF Word
      <3>3. QED
        BY <1>4, <2>1, <3>1, <3>2 DEF Serves, GoesOn, Takes, Tells, Live
    <2>5. CASE command # "quit" /\ ~(command = "put" /\ ok)
      <3> DEFINE lines == IF command \notin {"get", "put"} THEN <<"-ERR command">>
                          ELSE IF ok THEN <<"cell">> ELSE <<"-ERR range">>
      <3>1. Become(l, i, "client", rest) /\ UNCHANGED file /\ Reply(l, i, lines)
        BY <1>4, <2>5 DEF parseClientCommand, command, rest
      <3>2. l \in Tablet => lines \in Seq(Word)
        <4>1. <<"-ERR command">> \in Seq(Word) /\ <<"cell">> \in Seq(Word)
          BY DEF Word
        <4>2. QED
          BY <2>2, <4>1
      <3> HIDE DEF lines
      <3>3. QED
        BY <1>4, <2>1, <3>1, <3>2 DEF Serves, GoesOn, Takes, Tells, Live
    <2>6. QED
      BY <2>3, <2>4, <2>5
  <1>5. QED
    BY <1>2, <1>3, <1>4 DEF clientThreadFunc

LEMMA FillServes ==
    ASSUME NetTypes, NEW l \in Listener, NEW i \in DOMAIN threads[l], readDataToBuffer(l, i)
    PROVE  Serves(l, i)
  <1>1. 1 \in Ready(l, i)
    <2>1. PICK n \in Ready(l, i) : TRUE
      BY DEF readDataToBuffer
    <2>2. n \in 1..Len(toServer[threads[l][i].conn]) /\ threads[l][i].conn \in Peer
      BY ChunkTyped
    <2>3. toServer[threads[l][i].conn] \in Seq(Said(threads[l][i].conn))
      BY <2>2 DEF NetTypes
    <2>4. 1 \in DOMAIN toServer[threads[l][i].conn]
      BY <2>2, <2>3
    <2>5. QED
      BY <2>1, <2>4 DEF Ready
  <1>2. Takes(l, i) /\ UNCHANGED file
    BY <1>1 DEF readDataToBuffer, Takes
  <1>3. threads[l][i].kept \in Seq(Line) /\ <<"+OK put">> \in Seq(Word)
    BY ThreadTyped DEF Word
  <1>4. GoesOn(l, i)
    <2>1. \/ Become(l, i, "fill", threads[l][i].kept)
          \/ Become(l, i, "client", threads[l][i].kept)
      <3>1. CASE Complete(Chunk(l, i, 1))
        BY <3>1, Zenon DEF readDataToBuffer
      <3>2. CASE ~Complete(Chunk(l, i, 1))
        BY <3>2, Zenon DEF readDataToBuffer
      <3>3. QED
        BY <3>1, <3>2, Zenon
    <2>2. /\ "fill" \in Live \cup {"ended"} /\ "fill" \notin {"new", "admin"}
          /\ "client" \in Live \cup {"ended"} /\ "client" \notin {"new", "admin"}
      BY DEF Live
    <2>3. QED
      BY <1>2, <1>3, <2>1, <2>2, Zenon DEF GoesOn
  <1>5. Tells(l, i)
    BY <1>3 DEF readDataToBuffer, Tells
  <1>6. QED
    BY <1>2, <1>4, <1>5 DEF Serves

LEMMA AdminServes ==
    ASSUME NetTypes, NEW l \in Listener, NEW i \in DOMAIN threads[l], adminFunc(l, i)
    PROVE  Serves(l, i)
  <1>1. l \notin Tablet
    BY DEF adminFunc, NetTypes
  <1>2. CASE EndOfFile(l, i)
    BY <1>2, EndServes
  <1>3. ASSUME NEW n \in Ready(l, i), Reads(l, i, n), NEW lines, Reply(l, i, lines),
               \/ Become(l, i, "ended", <<>>) /\ Close(l, i)
               \/ Become(l, i, "admin", Tail(Chunk(l, i, n))) /\ UNCHANGED file
        PROVE  Serves(l, i)
    <2>1. Tail(Chunk(l, i, n)) \in Seq(Line) /\ <<>> \in Seq(Line)
      BY ChunkTyped
    <2>2. GoesOn(l, i)
      BY <1>1, <1>3, <2>1 DEF GoesOn, Live
    <2>3. QED
      BY <1>1, <1>3, <2>2 DEF Serves, Takes, Tells
  <1>4. QED
    BY <1>2, <1>3 DEF adminFunc

LEMMA ThreadServes ==
    ASSUME NetTypes, Hosted, NEW l \in Listener, NEW i \in DOMAIN threads[l], Serve(l, i),
           ~Start(l, i)
    PROVE  Serves(l, i) /\ UNCHANGED <<backlog, connfd, closed, mixed>>
  BY FirstServes, MasterServes, ClientServes, FillServes, AdminServes DEF Serve

-----------------------------------------------------------------------------
(* The state after a step of a thread *)

LEMMA Distinct == None \notin Peer /\ None \notin Listener /\ AdminPort \notin Tablet /\ Watched \subseteq Tablet
                  /\ Nobody \notin Listener
  BY ConnectionsAssumption

LEMMA ThreadParts ==
    ASSUME NEW some \in [Listener -> Seq(Thread)]
    PROVE  \A l \in Listener : \A i \in DOMAIN some[l] :
              /\ some[l][i].pc \in Live \cup {"ended"}
              /\ some[l][i].fd \in Fd
              /\ some[l][i].conn \in Peer \cup {None}
  <1> SUFFICES ASSUME NEW l \in Listener, NEW i \in DOMAIN some[l]
               PROVE  some[l][i] \in Thread
    BY DEF Thread
  <1>1. some[l] \in Seq(Thread)
    OBVIOUS
  <1>2. QED
    BY <1>1

\* One thread is another than before.
Only(l, i) ==
    /\ threads' \in [Listener -> Seq(Thread)]
    /\ \A k \in Listener : DOMAIN threads'[k] = DOMAIN threads[k]
    /\ \A k \in Listener \ {l} : threads'[k] = threads[k]
    /\ \A j \in DOMAIN threads[l] : j # i => threads'[l][j] = threads[l][j]

LEMMA ThreadSet ==
    ASSUME NetTypes, NEW l \in Listener, NEW i \in DOMAIN threads[l], NEW th \in Thread,
           threads' = [threads EXCEPT ![l][i] = th]
    PROVE  Only(l, i) /\ threads'[l][i] = th
  <1> DEFINE s == [threads[l] EXCEPT ![i] = th]
  <1>1. threads \in [Listener -> Seq(Thread)] /\ threads[l] \in Seq(Thread)
    BY DEF NetTypes
  <1>2. i \in 1..Len(threads[l]) /\ DOMAIN threads[l] = 1..Len(threads[l])
    BY <1>1
  <1>3. /\ s \in Seq(Thread) /\ Len(s) = Len(threads[l])
        /\ \A j \in 1..Len(threads[l]) : s[j] = IF j = i THEN th ELSE threads[l][j]
    BY <1>1, <1>2, ExceptSeq
  <1>4. threads' = [threads EXCEPT ![l] = s]
    BY <1>1
  <1> HIDE DEF s
  <1>5. threads' \in [Listener -> Seq(Thread)] /\ threads'[l] = s
        /\ \A k \in Listener \ {l} : threads'[k] = threads[k]
    BY <1>1, <1>3, <1>4
  <1>6. DOMAIN s = DOMAIN threads[l]
    BY <1>2, <1>3
  <1>7. QED
    BY <1>2, <1>3, <1>5, <1>6 DEF Only

LEMMA BecomeSets ==
    ASSUME NetTypes, NEW l \in Listener, NEW i \in DOMAIN threads[l],
           NEW to \in Live \cup {"ended"}, NEW kept \in Seq(Line), Become(l, i, to, kept)
    PROVE  LET th == threads[l][i]
           IN /\ Only(l, i)
              /\ threads'[l][i].pc = to /\ threads'[l][i].kept = kept
              /\ threads'[l][i].fd = th.fd
              /\ threads'[l][i].conn = IF to = "ended" THEN None ELSE file[l][th.fd]
  <1> DEFINE old == threads[l][i]
             th == [old EXCEPT !.pc = to, !.kept = kept,
                               !.conn = IF to = "ended" THEN None ELSE file[l][old.fd]]
  <1>1. old \in Thread /\ file[l][old.fd] \in Peer \cup {None} /\ threads[l] \in Seq(Thread)
        /\ threads \in [Listener -> Seq(Thread)]
    BY ThreadTyped DEF NetTypes
  <1>2. /\ th \in Thread /\ th.pc = to /\ th.kept = kept /\ th.fd = old.fd
        /\ th.conn = IF to = "ended" THEN None ELSE file[l][old.fd]
    BY <1>1 DEF Thread
  <1>3. threads' = [threads EXCEPT ![l][i] = th]
    BY <1>1 DEF Become
  <1> HIDE DEF th
  <1>4. QED
    BY <1>2, <1>3, ThreadSet

\* A step of a thread reads and writes only there, and changes no other
\* descriptor than its own.
LEMMA ServesEffect ==
    ASSUME NetTypes, Hosted, NEW l \in Listener, NEW i \in DOMAIN threads[l], Serves(l, i)
    PROVE  LET th == threads[l][i]
               c == file[l][th.fd]
           IN /\ Only(l, i)
              /\ threads'[l][i].pc \in Live \cup {"ended"}
              /\ threads'[l][i].pc # "new" /\ (l \in Tablet => threads'[l][i].pc # "admin")
              /\ threads'[l][i].fd = th.fd
              /\ threads'[l][i].conn = IF threads'[l][i].pc = "ended" THEN None ELSE c
              /\ file' \in [Listener -> [Fd -> Peer \cup {None}]]
              /\ \A k \in Listener : \A fd \in Fd :
                   k # l \/ fd # th.fd \/ threads'[l][i].pc # "ended" => file'[k][fd] = file[k][fd]
              /\ \A k \in Listener : \A fd \in Fd : file'[k][fd] \in {file[k][fd], None}
              /\ DOMAIN toServer' = Peer /\ DOMAIN toPeer' = Peer
              /\ \A p \in Peer : toServer'[p] \in Seq(Said(p))
              /\ \A p \in Client \cup Watched : toPeer'[p] \in Seq(Word)
              /\ \A p \in Peer : p # th.conn => toServer'[p] = toServer[p]
              /\ \A p \in Peer : p # c => toPeer'[p] = toPeer[p]
  <1> DEFINE th == threads[l][i]
             c == file[l][th.fd]
  <1>1. th.fd \in Fd /\ c \in Peer \cup {None} /\ file \in [Listener -> [Fd -> Peer \cup {None}]]
    BY ThreadTyped DEF NetTypes, TypeOK, ConnectionsTypeOK
  <1>2. PICK to \in Live \cup {"ended"}, kept \in Seq(Line) :
          /\ to # "new" /\ (l \in Tablet => to # "admin")
          /\ Become(l, i, to, kept)
          /\ UNCHANGED file \/ (to = "ended" /\ Close(l, i))
    BY DEF Serves, GoesOn
  <1>3. /\ Only(l, i)
        /\ threads'[l][i].pc = to /\ threads'[l][i].fd = th.fd
        /\ threads'[l][i].conn = IF to = "ended" THEN None ELSE c
    BY <1>2, BecomeSets
  <1>4. /\ file' \in [Listener -> [Fd -> Peer \cup {None}]]
        /\ \A k \in Listener : \A fd \in Fd :
             k # l \/ fd # th.fd \/ to # "ended" => file'[k][fd] = file[k][fd]
        /\ \A k \in Listener : \A fd \in Fd : file'[k][fd] \in {file[k][fd], None}
    <2>1. CASE UNCHANGED file
      BY <1>1, <2>1
    <2>2. CASE to = "ended" /\ Close(l, i)
      BY <1>1, <2>2 DEF Close
    <2>3. QED
      BY <1>2, <2>1, <2>2
  <1> DEFINE Taken == /\ DOMAIN toServer' = Peer
                      /\ \A p \in Peer : toServer'[p] \in Seq(Said(p))
                      /\ \A p \in Peer : p # th.conn => toServer'[p] = toServer[p]
             Told == /\ DOMAIN toPeer' = Peer
                     /\ \A p \in Client \cup Watched : toPeer'[p] \in Seq(Word)
                     /\ \A p \in Peer : p # c => toPeer'[p] = toPeer[p]
  <1>5. Taken
    <2>1. CASE UNCHANGED toServer
      BY <2>1 DEF NetTypes
    <2>2. ASSUME NEW n \in Ready(l, i), Reads(l, i, n)
          PROVE  Taken
      <3>1. th.conn \in Peer /\ n \in 1..Len(toServer[th.conn])
        BY ChunkTyped
      <3>2. toServer[th.conn] \in Seq(Said(th.conn))
        BY <3>1 DEF NetTypes
      <3>3. SubSeq(toServer[th.conn], n + 1, Len(toServer[th.conn])) \in Seq(Said(th.conn))
        BY <3>1, <3>2, Rest
      <3>4. QED
        BY <2>2, <3>1, <3>3 DEF Reads, NetTypes
    <2>3. QED
      BY <2>1, <2>2 DEF Serves, Takes
  <1>6. Told
    <2>1. CASE UNCHANGED toPeer
      BY <2>1 DEF NetTypes, Peer
    <2>2. ASSUME NEW lines, l \in Tablet => lines \in Seq(Word), Reply(l, i, lines), c # None
          PROVE  Told
      <3>1. c \in Peer /\ host[c] = l
        BY <1>1, <2>2 DEF Hosted
      <3>2. c \in Client \cup Watched => l \in Tablet
        BY <3>1, Distinct DEF Hosted, Home
      <3>3. toPeer' = [toPeer EXCEPT ![c] = @ \o lines]
        BY <2>2 DEF Reply
      <3>4. c \in Client \cup Watched => toPeer[c] \o lines \in Seq(Word)
        BY <2>2, <3>2, ConcatProperties DEF NetTypes
      <3>5. /\ DOMAIN toPeer' = Peer /\ toPeer'[c] = toPeer[c] \o lines
            /\ \A p \in Peer : p # c => toPeer'[p] = toPeer[p]
        BY <3>1, <3>3 DEF NetTypes
      <3>6. \A p \in Client \cup Watched : p \in Peer /\ toPeer[p] \in Seq(Word)
        BY DEF NetTypes, Peer
      <3>7. QED
        BY <3>4, <3>5, <3>6
    <2>3. QED
      <3>1. ASSUME NEW lines, Reply(l, i, lines), c = None
            PROVE  UNCHANGED toPeer
        BY <3>1 DEF Reply
      <3>2. QED
        <4> HIDE DEF Told
        <4>1. QED
          BY <2>1, <2>2, <3>1 DEF Serves, Tells
  <1>7. QED
    BY <1>2, <1>3, <1>4, <1>5, <1>6

-----------------------------------------------------------------------------
(* Every thread step keeps types, places and descriptors *)

\* What a process leaves alone.
Rests == UNCHANGED <<directoryVars, up, peerVars, refused, split, short, budgetVars>>

LEMMA ServesTyped ==
    ASSUME NetTypes, Hosted, NEW l \in Listener, NEW i \in DOMAIN threads[l], Serves(l, i),
           UNCHANGED <<backlog, connfd, closed, mixed>>, Rests
    PROVE  NetTypes'
  <1>1. /\ Only(l, i)
        /\ l \in Tablet => threads'[l][i].pc # "admin"
        /\ file' \in [Listener -> [Fd -> Peer \cup {None}]]
        /\ DOMAIN toServer' = Peer /\ DOMAIN toPeer' = Peer
        /\ \A p \in Peer : toServer'[p] \in Seq(Said(p))
        /\ \A p \in Client \cup Watched : toPeer'[p] \in Seq(Word)
    BY ServesEffect
  <1>2. /\ UNCHANGED <<queries, answers, typed>> /\ UNCHANGED up
        /\ UNCHANGED <<pc, host, todo, pings, text, rbuffer>>
        /\ UNCHANGED refused /\ UNCHANGED split /\ UNCHANGED short
        /\ UNCHANGED <<slow, crashes, hangups>>
        /\ UNCHANGED <<backlog, connfd, closed, mixed>>
    BY DEF Rests, directoryVars, peerVars, budgetVars
  <1>3. threads' \in [Listener -> Seq(Thread)] /\ threads \in [Listener -> Seq(Thread)]
    BY <1>1 DEF Only, NetTypes
  <1>4. ConnectionsTypeOK'
    <2>1. DirectoryTypeOK'
      BY <1>2 DEF NetTypes, TypeOK, ConnectionsTypeOK, DirectoryTypeOK
    <2>2. QED
      BY <1>1, <1>2, <1>3, <2>1, ThreadParts DEF NetTypes, TypeOK, ConnectionsTypeOK
  <1>5. \A k \in Listener : threads'[k] # <<>> => connfd'[k] \in Fd
    <2> SUFFICES ASSUME NEW k \in Listener, threads'[k] # <<>> PROVE connfd'[k] \in Fd
      OBVIOUS
    <2>1. DOMAIN threads'[k] = DOMAIN threads[k]
      BY <1>1 DEF Only
    <2>2. threads'[k] \in Seq(Thread) /\ threads[k] \in Seq(Thread)
      BY <1>3
    <2>3. threads[k] # <<>>
      BY <2>1, <2>2
    <2>4. QED
      BY <1>2, <2>3 DEF NetTypes
  <1>6. \A k \in Tablet : \A j \in DOMAIN threads'[k] : threads'[k][j].pc # "admin"
    <2> SUFFICES ASSUME NEW k \in Tablet, NEW j \in DOMAIN threads'[k]
                 PROVE  threads'[k][j].pc # "admin"
      OBVIOUS
    <2>1. k \in Listener
      BY DEF Listener
    <2>2. j \in DOMAIN threads[k]
      BY <1>1, <2>1 DEF Only
    <2>3. (k = l /\ j = i) \/ threads'[k][j] = threads[k][j]
      BY <1>1, <2>1, <2>2 DEF Only
    <2>4. QED
      BY <1>1, <2>2, <2>3 DEF NetTypes
  <1>7. QED
    BY <1>1, <1>2, <1>3, <1>4, <1>5, <1>6 DEF NetTypes, TypeOK

LEMMA ServesHosted ==
    ASSUME NetTypes, Hosted, NEW l \in Listener, NEW i \in DOMAIN threads[l], Serves(l, i),
           UNCHANGED backlog, UNCHANGED pc, UNCHANGED host
    PROVE  Hosted'
  <1> DEFINE c == file[l][threads[l][i].fd]
  <1>1. /\ Only(l, i) /\ threads'[l][i].conn \in {None, c}
        /\ \A k \in Listener : \A fd \in Fd : file'[k][fd] \in {file[k][fd], None}
    BY ServesEffect
  <1>2. c # None => host[c] = l
    BY ThreadTyped DEF Hosted
  <1>3. ASSUME NEW k \in Listener, NEW j \in DOMAIN threads'[k], threads'[k][j].conn # None
        PROVE  host[threads'[k][j].conn] = k
    <2>1. j \in DOMAIN threads[k]
      BY <1>1 DEF Only
    <2>2. CASE k = l /\ j = i
      BY <1>1, <1>2, <1>3, <2>2
    <2>3. CASE ~(k = l /\ j = i)
      BY <1>1, <1>3, <2>1, <2>3 DEF Only, Hosted
    <2>4. QED
      BY <2>2, <2>3
  <1>4. ASSUME NEW k \in Listener, NEW fd \in Fd, file'[k][fd] # None
        PROVE  host[file'[k][fd]] = k
    <2>1. file'[k][fd] = file[k][fd]
      BY <1>1, <1>4
    <2>2. QED
      BY <1>4, <2>1 DEF Hosted
  <1>5. QED
    BY <1>3, <1>4 DEF Hosted

LEMMA ServesOnce ==
    ASSUME NetTypes, Hosted, Once, NEW l \in Listener, NEW i \in DOMAIN threads[l], Serves(l, i),
           UNCHANGED backlog
    PROVE  Once'
  <1>1. \A k \in Listener : \A fd \in Fd : file'[k][fd] \in {file[k][fd], None}
    BY ServesEffect
  <1>2. ASSUME NEW k \in Listener, NEW j \in DOMAIN backlog[k], NEW fd \in Fd
        PROVE  backlog[k][j] # file'[k][fd]
    <2>1. backlog[k] \in Seq(Peer)
      BY DEF NetTypes, TypeOK, ConnectionsTypeOK
    <2>2. backlog[k][j] # None
      BY <2>1, Distinct
    <2>3. QED
      BY <1>1, <2>2 DEF Once
  <1>3. ASSUME NEW k \in Listener, NEW fd \in Fd, NEW gd \in Fd,
               file'[k][fd] = file'[k][gd], file'[k][fd] # None
        PROVE  fd = gd
    <2>1. file'[k][fd] \in {file[k][fd], None} /\ file'[k][gd] \in {file[k][gd], None}
      BY <1>1
    <2>2. QED
      BY <1>3, <2>1 DEF Once
  <1>4. QED
    BY <1>2, <1>3 DEF Once

\* A thread that serves is one that has begun and has not ended.
LEMMA Serving ==
    ASSUME NEW l, NEW i, Serve(l, i), ~Start(l, i)
    PROVE  threads[l][i].pc \in {"first", "master", "client", "fill", "admin"}
  BY DEF Serve, connectionFunc, masterThreadFunc, clientThreadFunc, readDataToBuffer, adminFunc

LEMMA ServesOwn ==
    ASSUME NetTypes, Hosted, Own, NEW l \in Listener, NEW i \in DOMAIN threads[l], Serves(l, i),
           threads[l][i].pc # "ended", UNCHANGED mixed
    PROVE  Own'
  <1> SUFFICES ASSUME NEW k \in Listener \ mixed, NEW a \in DOMAIN threads'[k],
                      threads'[k][a].pc # "ended"
               PROVE  /\ file'[k][threads'[k][a].fd] # None
                      /\ threads'[k][a].pc # "new" =>
                           threads'[k][a].conn = file'[k][threads'[k][a].fd]
                      /\ \A j \in DOMAIN threads'[k] :
                           j # a /\ threads'[k][j].pc # "ended" =>
                             threads'[k][j].fd # threads'[k][a].fd
    BY DEF Own
  <1> DEFINE th == threads[l][i]
  <1>1. /\ Only(l, i)
        /\ threads'[l][i].pc # "new" /\ threads'[l][i].fd = th.fd
        /\ threads'[l][i].conn = IF threads'[l][i].pc = "ended" THEN None ELSE file[l][th.fd]
        /\ \A m \in Listener : \A fd \in Fd :
             m # l \/ fd # th.fd \/ threads'[l][i].pc # "ended" => file'[m][fd] = file[m][fd]
    BY ServesEffect
  <1>2. CASE k # l
    <2>1. threads'[k] = threads[k]
      BY <1>1, <1>2 DEF Only
    <2>2. threads[k][a].fd \in Fd
      BY <2>1, ThreadTyped
    <2>3. file'[k][threads[k][a].fd] = file[k][threads[k][a].fd]
      BY <1>1, <1>2, <2>2
    <2>4. QED
      BY <2>1, <2>3 DEF Own
  <1>3. CASE k = l
    <2>1. a \in DOMAIN threads[l] /\ DOMAIN threads'[l] = DOMAIN threads[l]
      BY <1>1, <1>3 DEF Only
    <2>2. \A j \in DOMAIN threads[l] :
            /\ threads'[l][j].fd = threads[l][j].fd
            /\ threads'[l][j].pc # "ended" => threads[l][j].pc # "ended"
      BY <1>1 DEF Only
    <2>3. threads[l][a].pc # "ended" /\ l \in Listener \ mixed
      BY <1>3, <2>1, <2>2
    <2>4. /\ file[l][threads[l][a].fd] # None
          /\ threads[l][a].pc # "new" => threads[l][a].conn = file[l][threads[l][a].fd]
          /\ \A j \in DOMAIN threads[l] :
               j # a /\ threads[l][j].pc # "ended" => threads[l][j].fd # threads[l][a].fd
      BY <2>1, <2>3 DEF Own
    <2>5. file'[l][threads[l][a].fd] = file[l][threads[l][a].fd]
      <3>1. threads[l][a].fd \in Fd
        BY <2>1, ThreadTyped
      <3>2. a # i => threads[l][a].fd # th.fd
        BY <2>4
      <3>3. QED
        BY <1>1, <1>3, <3>1, <3>2
    <2>6. threads'[l][a].pc # "new" => threads'[l][a].conn = file[l][threads[l][a].fd]
      <3>1. CASE a = i
        BY <1>1, <1>3, <3>1
      <3>2. CASE a # i
        BY <1>1, <2>1, <2>4, <3>2 DEF Only
      <3>3. QED
        BY <3>1, <3>2
    <2>7. QED
      BY <1>3, <2>1, <2>2, <2>4, <2>5, <2>6
  <1>4. QED
    BY <1>2, <1>3

-----------------------------------------------------------------------------
(* The two sides of a ping stay in touch *)

LEMMA TouchStays ==
    ASSUME NEW t, InTouch(t), pc'[t] = pc[t], toServer'[t] = toServer[t], toPeer'[t] = toPeer[t],
           t \in ToSet(backlog[t]) => t \in ToSet(backlog'[t]),
           \A i \in DOMAIN threads[t] :
              file[t][threads[t][i].fd] = t /\ threads[t][i].pc # "ended" =>
                /\ i \in DOMAIN threads'[t] /\ threads'[t][i] = threads[t][i]
                /\ file'[t][threads[t][i].fd] = t
    PROVE  InTouch(t)'
  <1>1. (Waiting(t) => Waiting(t)') /\ (Speaks(t) => Speaks(t)')
    BY DEF Waiting, Speaks
  <1>2. CASE Waiting(t) /\ t \in ToSet(backlog[t])
    <2>1. t \in ToSet(backlog'[t])
      BY <1>2
    <2>2. QED
      BY <1>1, <1>2, <2>1 DEF InTouch
  <1>3. ASSUME NEW i \in DOMAIN threads[t], file[t][threads[t][i].fd] = t,
               threads[t][i].kept = <<>>,
               \/ threads[t][i].pc \in {"new", "first"} /\ Waiting(t)
               \/ threads[t][i].pc = "master" /\ Speaks(t)
        PROVE  InTouch(t)'
    <2>1. threads[t][i].pc # "ended"
      BY <1>3
    <2>2. /\ i \in DOMAIN threads'[t] /\ threads'[t][i] = threads[t][i]
          /\ file'[t][threads[t][i].fd] = t
      BY <1>3, <2>1
    <2>3. /\ file'[t][threads'[t][i].fd] = t /\ threads'[t][i].kept = <<>>
          /\ \/ threads'[t][i].pc \in {"new", "first"} /\ Waiting(t)'
             \/ threads'[t][i].pc = "master" /\ Speaks(t)'
      BY <1>1, <1>3, <2>2
    <2>4. QED
      BY <2>2, <2>3 DEF InTouch
  <1>4. QED
    BY <1>2, <1>3 DEF InTouch

\* One word is all that is there to be read.
LEMMA OneWord ==
    ASSUME NetTypes, NEW l \in Listener, NEW i \in DOMAIN threads[l], NEW n \in Ready(l, i),
           NEW word, toServer[threads[l][i].conn] = <<word>>, threads[l][i].kept = <<>>
    PROVE  /\ Command(threads[l][i].kept, Chunk(l, i, n)) = word
           /\ Complete(Chunk(l, i, n)) <=> word # "bytes"
           /\ Tail(Chunk(l, i, n)) = <<>>
           /\ SubSeq(toServer[threads[l][i].conn], n + 1, Len(toServer[threads[l][i].conn])) = <<>>
  <1> DEFINE c == threads[l][i].conn
  <1>1. c \in Peer /\ n \in 1..Len(toServer[c]) /\ toServer[c] \in Seq(Said(c))
        /\ Head(Chunk(l, i, n)) = word /\ Chunk(l, i, n) # <<>>
    <2>1. /\ c \in Peer /\ n \in 1..Len(toServer[c]) /\ Chunk(l, i, n) # <<>>
          /\ Head(Chunk(l, i, n)) = toServer[c][1]
      BY ChunkTyped
    <2>2. toServer[c][1] = word
      OBVIOUS
    <2>3. QED
      BY <2>1, <2>2 DEF NetTypes
  <1>2. n = 1 /\ Len(toServer[c]) = 1
    BY <1>1
  <1>3. /\ Len(Chunk(l, i, n)) = 1 /\ Chunk(l, i, n) \in Seq(Said(c))
        /\ SubSeq(toServer[c], n + 1, Len(toServer[c])) \in Seq(Said(c))
        /\ Len(SubSeq(toServer[c], n + 1, Len(toServer[c]))) = 0
    BY <1>1, <1>2, Rest DEF Chunk
  <1>4. Tail(Chunk(l, i, n)) = <<>>
    <2>1. Chunk(l, i, n) # <<>>
      BY <1>1
    <2>2. Tail(Chunk(l, i, n)) \in Seq(Said(c)) /\ Len(Tail(Chunk(l, i, n))) = 0
      BY <1>3, <2>1, HeadTailProperties
    <2>3. QED
      BY <2>2, EmptySeq
  <1>5. SubSeq(toServer[c], n + 1, Len(toServer[c])) = <<>>
    BY <1>3, EmptySeq
  <1>6. QED
    BY <1>1, <1>4, <1>5 DEF Command, Complete

\* The thread that took the connection of server t answers.
LEMMA Answering ==
    ASSUME NetTypes, NEW t \in Watched, t \notin closed, NEW i \in DOMAIN threads[t],
           Serve(t, i), ~Start(t, i), threads[t][i].kept = <<>>,
           threads[t][i].conn = t, file[t][threads[t][i].fd] = t,
           \/ threads[t][i].pc = "first" /\ Waiting(t)
           \/ threads[t][i].pc = "master" /\ Speaks(t),
           UNCHANGED pc
    PROVE  InTouch(t)'
  <1> DEFINE th == threads[t][i]
  <1>1. t \in Listener /\ t \in Peer /\ t # None
    BY Distinct DEF Listener, Peer
  <1>2. ~Eof(t, i) /\ ~EndOfFile(t, i)
    BY <1>1 DEF Eof, EndOfFile
  <1>3. ASSUME NEW word, toServer[t] = <<word>>, NEW n \in Ready(t, i), Reads(t, i, n)
        PROVE  toServer'[t] = <<>>
    <2>1. toServer' = [toServer EXCEPT ![t] = SubSeq(@, n + 1, Len(@))]
      BY <1>3 DEF Reads
    <2>2. SubSeq(toServer[t], n + 1, Len(toServer[t])) = <<>>
      BY <1>1, <1>3, OneWord
    <2>3. QED
      BY <1>1, <2>1, <2>2 DEF NetTypes
  <1>4. ASSUME NEW lines \in Seq(Word), Reply(t, i, lines), toPeer[t] = <<>>
        PROVE  toPeer'[t] = lines
    <2>1. toPeer' = [toPeer EXCEPT ![t] = @ \o lines]
      BY <1>1, <1>4 DEF Reply
    <2>2. toPeer'[t] = <<>> \o lines
      BY <1>1, <1>4, <2>1 DEF NetTypes
    <2>3. QED
      BY <2>2, ConcatEmptySeq
  <1>5. CASE th.pc = "first" /\ Waiting(t)
    <2>1. toServer[t] = <<"master">> /\ toPeer[t] = <<>> /\ pc[t] = "greet"
      BY <1>5 DEF Waiting
    <2>2. connectionFunc(t, i)
      BY <1>5 DEF Serve, masterThreadFunc, clientThreadFunc, readDataToBuffer, adminFunc
    <2>3. PICK n \in Ready(t, i) :
            \/ Keep(t, i, n)
            \/ /\ Reads(t, i, n) /\ Complete(Chunk(t, i, n))
               /\ parseFirstCommand(t, i, Command(th.kept, Chunk(t, i, n)))
      BY <1>2, <2>2 DEF connectionFunc
    <2>4. Reads(t, i, n) /\ parseFirstCommand(t, i, "master")
      BY <1>1, <2>1, <2>3, OneWord DEF Keep
    <2>5. Become(t, i, "master", <<>>) /\ Reply(t, i, <<"+OK master">>) /\ UNCHANGED file
      BY <2>4 DEF parseFirstCommand
    <2>6. toServer'[t] = <<>> /\ toPeer'[t] = <<"+OK master">>
      <3>1. <<"+OK master">> \in Seq(Word)
        BY DEF Word
      <3>2. QED
        BY <1>3, <1>4, <2>1, <2>4, <2>5, <3>1
    <2>7. /\ Only(t, i)
          /\ threads'[t][i].pc = "master" /\ threads'[t][i].kept = <<>>
          /\ threads'[t][i].fd = th.fd
      <3>1. "master" \in Live \cup {"ended"} /\ <<>> \in Seq(Line)
        BY DEF Live
      <3>2. \A to \in Live \cup {"ended"}, kept \in Seq(Line) :
              Become(t, i, to, kept) =>
                /\ Only(t, i)
                /\ threads'[t][i].pc = to /\ threads'[t][i].kept = kept
                /\ threads'[t][i].fd = th.fd
        BY <1>1, BecomeSets
      <3>3. QED
        BY <2>5, <3>1, <3>2
    <2>8. Speaks(t)'
      BY <2>1, <2>6 DEF Speaks
    <2>9. i \in DOMAIN threads'[t] /\ file'[t][threads'[t][i].fd] = t
      BY <1>1, <2>5, <2>7 DEF Only
    <2>10. QED
      BY <2>7, <2>8, <2>9 DEF InTouch
  <1>6. CASE th.pc = "master" /\ Speaks(t)
    <2>1. masterThreadFunc(t, i)
      BY <1>6 DEF Serve, connectionFunc, clientThreadFunc, readDataToBuffer, adminFunc
    <2>2. PICK n \in Ready(t, i) :
            \/ Keep(t, i, n)
            \/ /\ Reads(t, i, n) /\ Complete(Chunk(t, i, n))
               /\ Become(t, i, "master", Tail(Chunk(t, i, n)))
               /\ Reply(t, i, IF Command(th.kept, Chunk(t, i, n)) = "ping"
                              THEN <<"pong">> ELSE <<>>)
               /\ UNCHANGED file
      BY <1>2, <2>1 DEF masterThreadFunc
    <2>3. toServer[t] # <<>>
      <3>1. n \in 1..Len(toServer[t])
        BY <1>1, ChunkTyped
      <3>2. QED
        BY <3>1
    <2>4. pc[t] = "pong" /\ toServer[t] = <<"ping">> /\ toPeer[t] = <<>>
      BY <1>6, <2>3 DEF Speaks
    <2>5. /\ Reads(t, i, n) /\ UNCHANGED file
          /\ Become(t, i, "master", <<>>) /\ Reply(t, i, <<"pong">>)
      <3>1. /\ Command(th.kept, Chunk(t, i, n)) = "ping"
            /\ Complete(Chunk(t, i, n)) /\ Tail(Chunk(t, i, n)) = <<>>
        BY <1>1, <2>4, OneWord
      <3>2. QED
        BY <2>2, <3>1 DEF Keep
    <2>6. toServer'[t] = <<>> /\ toPeer'[t] = <<"pong">>
      <3>1. <<"pong">> \in Seq(Word)
        BY DEF Word
      <3>2. QED
        BY <1>3, <1>4, <2>4, <2>5, <3>1
    <2>7. /\ Only(t, i)
          /\ threads'[t][i].pc = "master" /\ threads'[t][i].kept = <<>>
          /\ threads'[t][i].fd = th.fd
      <3>1. "master" \in Live \cup {"ended"} /\ <<>> \in Seq(Line)
        BY DEF Live
      <3>2. \A to \in Live \cup {"ended"}, kept \in Seq(Line) :
              Become(t, i, to, kept) =>
                /\ Only(t, i)
                /\ threads'[t][i].pc = to /\ threads'[t][i].kept = kept
                /\ threads'[t][i].fd = th.fd
        BY <1>1, BecomeSets
      <3>3. QED
        BY <2>5, <3>1, <3>2
    <2>8. Speaks(t)'
      BY <2>4, <2>6 DEF Speaks
    <2>9. i \in DOMAIN threads'[t] /\ file'[t][threads'[t][i].fd] = t
      BY <1>1, <2>5, <2>7 DEF Only
    <2>10. QED
      BY <2>7, <2>8, <2>9 DEF InTouch
  <1>7. QED
    BY <1>5, <1>6

LEMMA ServesWatching ==
    ASSUME NetTypes, Hosted, Once, Own, Watching, NEW l \in Listener, NEW i \in DOMAIN threads[l],
           Serve(l, i), ~Start(l, i), Rests
    PROVE  Watching'
  <1>1. Serves(l, i) /\ UNCHANGED <<backlog, connfd, closed, mixed>>
    BY ThreadServes
  <1>2. UNCHANGED <<pc, host, slow, up>>
    BY DEF Rests, peerVars, budgetVars
  <1> DEFINE th == threads[l][i]
             c == file[l][th.fd]
  <1>3. /\ Only(l, i)
        /\ \A k \in Listener : \A fd \in Fd : k # l \/ fd # th.fd => file'[k][fd] = file[k][fd]
        /\ \A p \in Peer : p # th.conn => toServer'[p] = toServer[p]
        /\ \A p \in Peer : p # c => toPeer'[p] = toPeer[p]
    BY <1>1, ServesEffect
  <1>4. c \in Peer \cup {None} /\ th.conn \in Peer \cup {None} /\ th.fd \in Fd
    BY ThreadTyped
  <1>5. (c # None => host[c] = l) /\ (th.conn # None => host[th.conn] = l)
    BY <1>4 DEF Hosted
  <1> SUFFICES ASSUME NEW t \in Watched
               PROVE  /\ pc[t] = "start" => toPeer'[t] = <<>>
                      /\ pc[t] \in {"start", "greet", "pong", "rest"} => t \notin closed
                      /\ pc[t] \in {"greet", "pong", "rest"} /\ t \in up \ (slow \cup mixed) =>
                           InTouch(t)'
    BY <1>1, <1>2 DEF Watching
  <1>6. t \in Peer /\ t \in Listener /\ t # None /\ host[t] \in {t, None} /\ None \notin Listener
    <2>1. t \in Peer /\ t \in Listener /\ t \notin Client /\ None \notin Peer /\ None \notin Listener
      BY ConnectionsAssumption DEF Peer, Listener
    <2>2. host[t] \in Home(t) \cup {None}
      BY <2>1 DEF Hosted
    <2>3. QED
      BY <2>1, <2>2 DEF Home
  <1>7. pc[t] = "start" => toPeer'[t] = <<>>
    <2> SUFFICES ASSUME pc[t] = "start" PROVE toPeer'[t] = <<>>
      OBVIOUS
    <2>1. host[t] = None /\ toPeer[t] = <<>>
      BY <1>6 DEF Hosted, Watching
    <2>2. t # c
      BY <1>5, <1>6, <2>1
    <2>3. QED
      BY <1>3, <1>6, <2>1, <2>2
  <1>8. ASSUME pc[t] \in {"greet", "pong", "rest"}, t \in up \ (slow \cup mixed)
        PROVE  InTouch(t)'
    <2>1. InTouch(t) /\ t \notin closed
      BY <1>8 DEF Watching
    <2>2. ASSUME NEW j \in DOMAIN threads[t], file[t][threads[t][j].fd] = t,
                 threads[t][j].pc # "ended", l # t \/ j # i
          PROVE  /\ t # c /\ t # th.conn
                 /\ j \in DOMAIN threads'[t] /\ threads'[t][j] = threads[t][j]
                 /\ file'[t][threads[t][j].fd] = t
      <3>1. threads[t][j].fd \in Fd
        BY <1>6, ThreadTyped
      <3>2. CASE l # t
        BY <1>3, <1>5, <1>6, <2>2, <3>1, <3>2 DEF Only
      <3>3. CASE l = t
        <4>1. j # i /\ t \in Listener \ mixed
          BY <1>6, <1>8, <2>2, <3>3
        <4>2. th.pc \notin {"new", "ended"}
          BY Serving
        <4>3. th.conn = c /\ threads[t][j].fd # th.fd
          BY <2>2, <3>3, <4>1, <4>2 DEF Own
        <4>4. c # t
          BY <1>4, <1>6, <2>2, <3>1, <3>3, <4>3 DEF Once
        <4>5. QED
          BY <1>3, <1>6, <2>2, <3>1, <3>3, <4>1, <4>3, <4>4 DEF Only
      <3>4. QED
        BY <3>2, <3>3
    <2>3. ASSUME t # c, t # th.conn, 
                 \A j \in DOMAIN threads[t] :
                    file[t][threads[t][j].fd] = t /\ threads[t][j].pc # "ended" => l # t \/ j # i
          PROVE  InTouch(t)'
      <3>1. toServer'[t] = toServer[t] /\ toPeer'[t] = toPeer[t]
        BY <1>3, <1>6, <2>3
      <3>2. \A j \in DOMAIN threads[t] :
              file[t][threads[t][j].fd] = t /\ threads[t][j].pc # "ended" =>
                /\ j \in DOMAIN threads'[t] /\ threads'[t][j] = threads[t][j]
                /\ file'[t][threads[t][j].fd] = t
        BY <2>2, <2>3
      <3>3. QED
        BY <1>1, <1>2, <2>1, <3>1, <3>2, TouchStays
    <2>4. CASE l # t
      BY <1>5, <1>6, <2>3, <2>4
    <2>5. CASE l = t /\ c # t
      <3>1. th.conn = c
        <4>1. th.pc \notin {"new", "ended"}
          BY Serving
        <4>2. l \in Listener \ mixed
          BY <1>8, <2>5
        <4>3. QED
          BY <4>1, <4>2 DEF Own
      <3>2. QED
        BY <2>3, <2>5, <3>1
    <2>6. CASE l = t /\ c = t
      <3>1. th.pc \notin {"new", "ended"}
        BY Serving
      <3>2. th.conn = t
        <4>1. l \in Listener \ mixed
          BY <1>8, <2>6
        <4>2. QED
          BY <2>6, <3>1, <4>1 DEF Own
      <3>3. t \notin ToSet(backlog[t])
        BY <1>4, <2>6 DEF Once, ToSet
      <3>4. PICK j \in DOMAIN threads[t] :
              /\ file[t][threads[t][j].fd] = t /\ threads[t][j].kept = <<>>
              /\ \/ threads[t][j].pc \in {"new", "first"} /\ Waiting(t)
                 \/ threads[t][j].pc = "master" /\ Speaks(t)
        BY <2>1, <3>3 DEF InTouch
      <3>5. j = i
        BY <2>2, <2>6, <3>4
      <3>6. QED
        BY <1>2, <2>1, <2>6, <3>1, <3>2, <3>4, <3>5, Answering
    <2>7. QED
      BY <2>4, <2>5, <2>6
  <1>9. QED
    BY <1>7, <1>8 DEF Watching

-----------------------------------------------------------------------------
(* The accept loop, and a thread that takes its descriptor *)

LEMMA StartEffect ==
    ASSUME NetTypes, NEW l \in Listener, NEW i \in DOMAIN threads[l], Start(l, i)
    PROVE  /\ Only(l, i) /\ connfd[l] \in Fd
           /\ threads'[l][i].pc = (IF l = AdminPort THEN "admin" ELSE "first")
           /\ threads'[l][i].fd = connfd[l] /\ threads'[l][i].conn = file[l][connfd[l]]
           /\ threads'[l][i].kept = threads[l][i].kept
  <1> DEFINE old == threads[l][i]
             th == [old EXCEPT !.pc = IF l = AdminPort THEN "admin" ELSE "first",
                               !.fd = connfd[l], !.conn = file[l][connfd[l]]]
  <1>1. old \in Thread /\ threads[l] \in Seq(Thread) /\ threads \in [Listener -> Seq(Thread)]
    BY ThreadTyped DEF NetTypes
  <1>2. threads[l] # <<>>
    BY <1>1
  <1>3. connfd[l] \in Fd
    BY <1>2 DEF NetTypes
  <1>4. file[l][connfd[l]] \in Peer \cup {None}
    BY <1>3 DEF NetTypes, TypeOK, ConnectionsTypeOK
  <1>5. /\ th \in Thread /\ th.pc = (IF l = AdminPort THEN "admin" ELSE "first")
        /\ th.fd = connfd[l] /\ th.conn = file[l][connfd[l]] /\ th.kept = old.kept
    BY <1>1, <1>3, <1>4 DEF Thread, Live
  <1>6. threads' = [threads EXCEPT ![l][i] = th]
    BY <1>1 DEF Start
  <1> HIDE DEF th
  <1>7. QED
    BY <1>3, <1>5, <1>6, ThreadSet

LEMMA StartTyped ==
    ASSUME NetTypes, NEW l \in Listener, NEW i \in DOMAIN threads[l], Start(l, i), Rests
    PROVE  NetTypes'
  <1>1. Only(l, i) /\ threads'[l][i].pc = (IF l = AdminPort THEN "admin" ELSE "first")
    BY StartEffect
  <1>2. /\ UNCHANGED <<queries, answers, typed>> /\ UNCHANGED up
        /\ UNCHANGED <<pc, host, todo, pings, text, rbuffer>>
        /\ UNCHANGED refused /\ UNCHANGED split /\ UNCHANGED short
        /\ UNCHANGED <<slow, crashes, hangups>>
        /\ UNCHANGED <<backlog, connfd, file, toServer, toPeer, closed>>
    BY DEF Start, Rests, directoryVars, peerVars, budgetVars
  <1>3. threads' \in [Listener -> Seq(Thread)] /\ threads \in [Listener -> Seq(Thread)]
    BY <1>1 DEF Only, NetTypes
  <1>4. mixed' \in {mixed, mixed \cup {l}}
    BY DEF Start
  <1>5. ConnectionsTypeOK'
    <2>1. DirectoryTypeOK'
      BY <1>2 DEF NetTypes, TypeOK, ConnectionsTypeOK, DirectoryTypeOK
    <2>2. QED
      BY <1>2, <1>3, <1>4, <2>1, ThreadParts DEF NetTypes, TypeOK, ConnectionsTypeOK
  <1>6. \A k \in Listener : threads'[k] # <<>> => connfd'[k] \in Fd
    <2> SUFFICES ASSUME NEW k \in Listener, threads'[k] # <<>> PROVE connfd'[k] \in Fd
      OBVIOUS
    <2>1. DOMAIN threads'[k] = DOMAIN threads[k]
      BY <1>1 DEF Only
    <2>2. threads'[k] \in Seq(Thread) /\ threads[k] \in Seq(Thread)
      BY <1>3
    <2>3. threads[k] # <<>>
      BY <2>1, <2>2
    <2>4. QED
      BY <1>2, <2>3 DEF NetTypes
  <1>7. \A k \in Tablet : \A j \in DOMAIN threads'[k] : threads'[k][j].pc # "admin"
    <2> SUFFICES ASSUME NEW k \in Tablet, NEW j \in DOMAIN threads'[k]
                 PROVE  threads'[k][j].pc # "admin"
      OBVIOUS
    <2>1. k \in Listener /\ k # AdminPort
      BY Distinct DEF Listener
    <2>2. j \in DOMAIN threads[k]
      BY <1>1, <2>1 DEF Only
    <2>3. (k = l /\ j = i) \/ threads'[k][j] = threads[k][j]
      BY <1>1, <2>1, <2>2 DEF Only
    <2>4. QED
      BY <1>1, <2>1, <2>2, <2>3 DEF NetTypes
  <1>8. QED
    BY <1>2, <1>3, <1>5, <1>6, <1>7 DEF NetTypes, TypeOK

\* The descriptor that the thread takes is its own, or the two are mixed up.
LEMMA StartPlaces ==
    ASSUME NetTypes, Hosted, Once, Own, NEW l \in Listener, NEW i \in DOMAIN threads[l],
           Start(l, i), Rests
    PROVE  Hosted' /\ Once' /\ Own'
  <1>1. /\ Only(l, i) /\ connfd[l] \in Fd
        /\ threads'[l][i].pc \notin {"new", "ended"}
        /\ threads'[l][i].fd = connfd[l] /\ threads'[l][i].conn = file[l][connfd[l]]
    BY StartEffect
  <1>2. UNCHANGED <<pc, host, backlog, file>>
    BY DEF Start, Rests, peerVars
  <1>3. Hosted'
    <2>1. ASSUME NEW k \in Listener, NEW j \in DOMAIN threads'[k], threads'[k][j].conn # None
          PROVE  host[threads'[k][j].conn] = k
      <3>1. j \in DOMAIN threads[k]
        BY <1>1 DEF Only
      <3>2. CASE k = l /\ j = i
        BY <1>1, <2>1, <3>2 DEF Hosted
      <3>3. CASE ~(k = l /\ j = i)
        BY <1>1, <2>1, <3>1, <3>3 DEF Only, Hosted
      <3>4. QED
        BY <3>2, <3>3
    <2>2. QED
      BY <1>2, <2>1 DEF Hosted
  <1>4. Once'
    BY <1>2 DEF Once
  <1>5. Own'
    <2> SUFFICES ASSUME NEW k \in Listener \ mixed', NEW a \in DOMAIN threads'[k],
                        threads'[k][a].pc # "ended"
                 PROVE  /\ file[k][threads'[k][a].fd] # None
                        /\ threads'[k][a].pc # "new" =>
                             threads'[k][a].conn = file[k][threads'[k][a].fd]
                        /\ \A j \in DOMAIN threads'[k] :
                             j # a /\ threads'[k][j].pc # "ended" =>
                               threads'[k][j].fd # threads'[k][a].fd
      BY <1>2 DEF Own
    <2>1. k \in Listener \ mixed
      BY DEF Start
    <2>2. CASE k # l
      <3>1. threads'[k] = threads[k]
        BY <1>1, <2>2 DEF Only
      <3>2. QED
        BY <2>1, <3>1 DEF Own
    <2>3. CASE k = l
      <3>1. connfd[l] = threads[l][i].fd /\ threads[l][i].pc = "new"
        BY <2>3 DEF Start
      <3>2. a \in DOMAIN threads[l] /\ DOMAIN threads'[l] = DOMAIN threads[l]
        BY <1>1, <2>3 DEF Only
      <3>3. \A j \in DOMAIN threads[l] :
              /\ threads'[l][j].fd = threads[l][j].fd
              /\ threads'[l][j].pc # "ended" => threads[l][j].pc # "ended"
        BY <1>1, <3>1 DEF Only
      <3>4. /\ file[l][threads[l][a].fd] # None
            /\ threads[l][a].pc # "new" => threads[l][a].conn = file[l][threads[l][a].fd]
            /\ \A j \in DOMAIN threads[l] :
                 j # a /\ threads[l][j].pc # "ended" => threads[l][j].fd # threads[l][a].fd
        BY <2>1, <2>3, <3>2, <3>3 DEF Own
      <3>5. threads'[l][a].pc # "new" => threads'[l][a].conn = file[l][threads[l][a].fd]
        <4>1. CASE a = i
          BY <1>1, <3>1, <4>1
        <4>2. CASE a # i
          BY <1>1, <3>2, <3>4, <4>2 DEF Only
        <4>3. QED
          BY <4>1, <4>2
      <3>6. QED
        BY <2>3, <3>2, <3>3, <3>4, <3>5
    <2>4. QED
      BY <2>2, <2>3
  <1>6. QED
    BY <1>3, <1>4, <1>5

LEMMA StartWatching ==
    ASSUME NetTypes, Watching, NEW l \in Listener, NEW i \in DOMAIN threads[l],
           Start(l, i), Rests
    PROVE  Watching'
  <1>1. /\ Only(l, i)
        /\ threads'[l][i].pc = (IF l = AdminPort THEN "admin" ELSE "first")
        /\ threads'[l][i].fd = connfd[l] /\ threads'[l][i].kept = threads[l][i].kept
    BY StartEffect
  <1>2. UNCHANGED <<pc, host, backlog, file, toServer, toPeer, closed, slow, up>>
    BY DEF Start, Rests, peerVars, budgetVars
  <1>3. ASSUME NEW t \in Watched, t \notin mixed', InTouch(t)
        PROVE  InTouch(t)'
    <2>1. t \in Listener /\ t # AdminPort
      BY Distinct DEF Listener
    <2>2. CASE l # t
      <3>1. threads'[t] = threads[t]
        BY <1>1, <2>1, <2>2 DEF Only
      <3>2. QED
        BY <1>2, <1>3, <3>1, TouchStays
    <2>3. CASE l = t
      <3>1. connfd[t] = threads[t][i].fd /\ threads[t][i].pc = "new"
        BY <1>3, <2>3 DEF Start
      <3>2. (Waiting(t) => Waiting(t)') /\ (Speaks(t) => Speaks(t)')
        BY <1>2 DEF Waiting, Speaks
      <3>3. CASE Waiting(t) /\ t \in ToSet(backlog[t])
        BY <1>2, <3>2, <3>3 DEF InTouch
      <3>4. ASSUME NEW j \in DOMAIN threads[t],
                   file[t][threads[t][j].fd] = t, threads[t][j].kept = <<>>,
                   \/ threads[t][j].pc \in {"new", "first"} /\ Waiting(t)
                   \/ threads[t][j].pc = "master" /\ Speaks(t)
            PROVE  InTouch(t)'
        <4>1. /\ j \in DOMAIN threads'[t] /\ threads'[t][j].fd = threads[t][j].fd
              /\ threads'[t][j].kept = threads[t][j].kept
              /\ threads'[t][j].pc = IF j = i THEN "first" ELSE threads[t][j].pc
          BY <1>1, <2>1, <2>3, <3>1 DEF Only
        <4>2. /\ file'[t][threads'[t][j].fd] = t /\ threads'[t][j].kept = <<>>
              /\ \/ threads'[t][j].pc \in {"new", "first"} /\ Waiting(t)'
                 \/ threads'[t][j].pc = "master" /\ Speaks(t)'
          BY <1>2, <3>1, <3>2, <3>4, <4>1
        <4>3. QED
          BY <4>1, <4>2 DEF InTouch
      <3>5. QED
        BY <1>3, <3>3, <3>4 DEF InTouch
    <2>4. QED
      BY <2>2, <2>3
  <1>4. mixed \subseteq mixed'
    BY DEF Start
  <1>5. QED
    BY <1>2, <1>3, <1>4 DEF Watching

-----------------------------------------------------------------------------

LEMMA AcceptEffect ==
    ASSUME NetTypes, Once, NEW l \in Listener, Accept(l)
    PROVE  LET fd == FreeFd(l)
               p == Head(backlog[l])
               n == Len(threads[l]) + 1
           IN /\ fd \in Fd /\ file[l][fd] = None
              /\ p \in Peer /\ 1 \in DOMAIN backlog[l] /\ p = backlog[l][1]
              /\ connfd' = [connfd EXCEPT ![l] = fd]
              /\ file' \in [Listener -> [Fd -> Peer \cup {None}]]
              /\ \A k \in Listener : \A gd \in Fd :
                   file'[k][gd] = IF k = l /\ gd = fd THEN p ELSE file[k][gd]
              /\ threads' \in [Listener -> Seq(Thread)]
              /\ \A k \in Listener \ {l} : threads'[k] = threads[k]
              /\ DOMAIN threads'[l] = DOMAIN threads[l] \cup {n} /\ n \notin DOMAIN threads[l]
              /\ \A j \in DOMAIN threads[l] : threads'[l][j] = threads[l][j]
              /\ threads'[l][n] = [pc |-> "new", fd |-> fd, conn |-> None, kept |-> <<>>]
              /\ backlog' \in [Listener -> Seq(Peer)]
              /\ \A k \in Listener \ {l} : backlog'[k] = backlog[k]
              /\ \A j \in DOMAIN backlog'[l] : j + 1 \in DOMAIN backlog[l] /\ backlog'[l][j] = backlog[l][j + 1]
              /\ \A q \in ToSet(backlog[l]) : q = p \/ q \in ToSet(backlog'[l])
  <1> DEFINE fd == FreeFd(l)
             p == Head(backlog[l])
             n == Len(threads[l]) + 1
             th == [pc |-> "new", fd |-> fd, conn |-> None, kept |-> <<>>]
             s == Append(threads[l], th)
  <1>1. backlog[l] # <<>> /\ backlog[l] \in Seq(Peer) /\ backlog \in [Listener -> Seq(Peer)]
    BY DEF Accept, NetTypes, TypeOK, ConnectionsTypeOK
  <1>2. fd \in Fd /\ file[l][fd] = None
    BY <1>1, FreeFdExists DEF NetTypes, TypeOK
  <1>3. p \in Peer /\ 1 \in DOMAIN backlog[l] /\ p = backlog[l][1]
    BY <1>1
  <1>4. connfd' = [connfd EXCEPT ![l] = fd] /\ file' = [file EXCEPT ![l][fd] = p]
        /\ threads' = [threads EXCEPT ![l] = s] /\ backlog' = [backlog EXCEPT ![l] = Tail(@)]
    BY DEF Accept
  <1> HIDE DEF fd, p
  <1>5. th \in Thread /\ threads[l] \in Seq(Thread) /\ threads \in [Listener -> Seq(Thread)]
    <2>1. <<>> \in Seq(Line)
      OBVIOUS
    <2>2. th \in Thread
      BY <1>2, <2>1 DEF Thread, Live
    <2>3. threads \in [Listener -> Seq(Thread)]
      BY DEF NetTypes
    <2>4. QED
      BY <2>2, <2>3
  <1> HIDE DEF th
  <1>6. /\ s \in Seq(Thread) /\ Len(s) = n /\ s[n] = th /\ Len(threads[l]) \in Nat
        /\ \A j \in 1..Len(threads[l]) : s[j] = threads[l][j]
    BY <1>5, AppendProperties
  <1>7. DOMAIN s = DOMAIN threads[l] \cup {n} /\ n \notin DOMAIN threads[l]
    BY <1>5, <1>6
  <1>8. /\ threads' \in [Listener -> Seq(Thread)] /\ threads'[l] = s
        /\ \A k \in Listener \ {l} : threads'[k] = threads[k]
    BY <1>4, <1>5, <1>6
  <1>9. \A j \in DOMAIN threads[l] : s[j] = threads[l][j]
    BY <1>5, <1>6
  <1> HIDE DEF s
  <1>10. /\ file' \in [Listener -> [Fd -> Peer \cup {None}]]
         /\ \A k \in Listener : \A gd \in Fd :
              file'[k][gd] = IF k = l /\ gd = fd THEN p ELSE file[k][gd]
    BY <1>2, <1>3, <1>4 DEF NetTypes, TypeOK, ConnectionsTypeOK
  <1>11. /\ Tail(backlog[l]) \in Seq(Peer) /\ Len(Tail(backlog[l])) = Len(backlog[l]) - 1
         /\ \A j \in 1..Len(Tail(backlog[l])) : Tail(backlog[l])[j] = backlog[l][j + 1]
    BY <1>1, HeadTailProperties
  <1>12. /\ backlog' \in [Listener -> Seq(Peer)] /\ backlog'[l] = Tail(backlog[l])
         /\ \A k \in Listener \ {l} : backlog'[k] = backlog[k]
    BY <1>1, <1>4, <1>11
  <1>13. \A j \in DOMAIN backlog'[l] : j + 1 \in DOMAIN backlog[l] /\ backlog'[l][j] = backlog[l][j + 1]
    BY <1>1, <1>11, <1>12
  <1>14. ASSUME NEW q \in ToSet(backlog[l]), q # p
         PROVE  q \in ToSet(backlog'[l])
    <2>1. PICK j \in DOMAIN backlog[l] : q = backlog[l][j]
      BY DEF ToSet
    <2>2. j # 1 /\ j \in 1..Len(backlog[l]) /\ Len(backlog[l]) \in Nat
      BY <1>1, <1>3, <1>14, <2>1
    <2>3. j - 1 \in 1..Len(Tail(backlog[l])) /\ j - 1 + 1 = j
      BY <1>11, <2>2
    <2>4. Tail(backlog[l])[j - 1] = q
      BY <1>11, <2>1, <2>3
    <2>5. j - 1 \in DOMAIN backlog'[l] /\ backlog'[l][j - 1] = q
      BY <1>11, <1>12, <2>3, <2>4
    <2>6. QED
      BY <2>5 DEF ToSet
  <1>15. QED
    BY <1>2, <1>3, <1>4, <1>7, <1>8, <1>9, <1>6, <1>10, <1>12, <1>13, <1>14 DEF th, fd, p

LEMMA AcceptTyped ==
    ASSUME NetTypes, Once, NEW l \in Listener, Accept(l), Rests
    PROVE  NetTypes'
  <1> DEFINE fd == FreeFd(l)
             n == Len(threads[l]) + 1
  <1>1. /\ fd \in Fd /\ connfd' = [connfd EXCEPT ![l] = fd]
        /\ file' \in [Listener -> [Fd -> Peer \cup {None}]]
        /\ threads' \in [Listener -> Seq(Thread)]
        /\ \A k \in Listener \ {l} : threads'[k] = threads[k]
        /\ DOMAIN threads'[l] = DOMAIN threads[l] \cup {n}
        /\ \A j \in DOMAIN threads[l] : threads'[l][j] = threads[l][j]
        /\ threads'[l][n] = [pc |-> "new", fd |-> fd, conn |-> None, kept |-> <<>>]
        /\ backlog' \in [Listener -> Seq(Peer)]
    BY AcceptEffect
  <1>2. /\ UNCHANGED <<queries, answers, typed>> /\ UNCHANGED up
        /\ UNCHANGED <<pc, host, todo, pings, text, rbuffer>>
        /\ UNCHANGED refused /\ UNCHANGED split /\ UNCHANGED short
        /\ UNCHANGED <<slow, crashes, hangups>>
        /\ UNCHANGED <<toServer, toPeer, closed, mixed>>
    BY DEF Accept, Rests, directoryVars, peerVars, budgetVars
  <1> HIDE DEF fd, n
  <1>3. connfd \in [Listener -> Fd \cup {0}]
    BY DEF NetTypes, TypeOK, ConnectionsTypeOK
  <1>4. /\ connfd' \in [Listener -> Fd \cup {0}] /\ connfd'[l] = fd
        /\ \A k \in Listener \ {l} : connfd'[k] = connfd[k]
    BY <1>1, <1>3
  <1>5. ConnectionsTypeOK'
    <2>1. DirectoryTypeOK'
      BY <1>2 DEF NetTypes, TypeOK, ConnectionsTypeOK, DirectoryTypeOK
    <2>2. QED
      BY <1>1, <1>2, <1>4, <2>1, ThreadParts DEF NetTypes, TypeOK, ConnectionsTypeOK
  <1>6. \A k \in Listener : threads'[k] # <<>> => connfd'[k] \in Fd
    BY <1>1, <1>4 DEF NetTypes
  <1>7. \A k \in Tablet : \A j \in DOMAIN threads'[k] : threads'[k][j].pc # "admin"
    <2> SUFFICES ASSUME NEW k \in Tablet, NEW j \in DOMAIN threads'[k]
                 PROVE  threads'[k][j].pc # "admin"
      OBVIOUS
    <2>1. k \in Listener
      BY DEF Listener
    <2>2. CASE k # l
      BY <1>1, <2>1, <2>2 DEF NetTypes
    <2>3. CASE k = l
      <3>1. threads'[l][n].pc = "new"
        BY <1>1
      <3>2. QED
        BY <1>1, <2>3, <3>1 DEF NetTypes
    <2>4. QED
      BY <2>2, <2>3
  <1>8. QED
    BY <1>1, <1>2, <1>5, <1>6, <1>7 DEF NetTypes, TypeOK

LEMMA AcceptPlaces ==
    ASSUME NetTypes, Hosted, Once, Own, NEW l \in Listener, Accept(l), Rests
    PROVE  Hosted' /\ Once' /\ Own'
  <1> DEFINE fd == FreeFd(l)
             p == Head(backlog[l])
             n == Len(threads[l]) + 1
  <1>1. /\ fd \in Fd /\ file[l][fd] = None
        /\ p \in Peer /\ 1 \in DOMAIN backlog[l] /\ p = backlog[l][1]
        /\ \A k \in Listener : \A gd \in Fd :
             file'[k][gd] = IF k = l /\ gd = fd THEN p ELSE file[k][gd]
        /\ \A k \in Listener \ {l} : threads'[k] = threads[k]
        /\ DOMAIN threads'[l] = DOMAIN threads[l] \cup {n} /\ n \notin DOMAIN threads[l]
        /\ \A j \in DOMAIN threads[l] : threads'[l][j] = threads[l][j]
        /\ threads'[l][n] = [pc |-> "new", fd |-> fd, conn |-> None, kept |-> <<>>]
        /\ \A k \in Listener \ {l} : backlog'[k] = backlog[k]
        /\ \A j \in DOMAIN backlog'[l] : j + 1 \in DOMAIN backlog[l] /\ backlog'[l][j] = backlog[l][j + 1]
    BY AcceptEffect
  <1>2. /\ threads'[l][n].pc = "new" /\ threads'[l][n].fd = fd /\ threads'[l][n].conn = None
    BY <1>1
  <1>3. UNCHANGED <<pc, host, mixed>> /\ p # None
    BY <1>1, Distinct DEF Accept, Rests, peerVars
  <1>4. \A k \in Listener : \A j \in DOMAIN backlog'[k] : j \in Nat /\ \E i \in DOMAIN backlog[k] :
           backlog'[k][j] = backlog[k][i] /\ i = (IF k = l THEN j + 1 ELSE j)
    <2>1. \A k \in Listener : backlog'[k] \in Seq(Peer)
      BY AcceptEffect
    <2>2. QED
      BY <1>1, <2>1
  <1> HIDE DEF fd, p, n
  <1>5. Hosted'
    <2>1. ASSUME NEW k \in Listener, NEW j \in DOMAIN threads'[k], threads'[k][j].conn # None
          PROVE  host[threads'[k][j].conn] = k
      <3>1. CASE k # l
        BY <1>1, <2>1, <3>1 DEF Hosted
      <3>2. CASE k = l
        BY <1>1, <1>2, <2>1, <3>2 DEF Hosted
      <3>3. QED
        BY <3>1, <3>2
    <2>2. ASSUME NEW k \in Listener, NEW gd \in Fd, file'[k][gd] # None
          PROVE  host[file'[k][gd]] = k
      BY <1>1, <2>2 DEF Hosted
    <2>3. ASSUME NEW k \in Listener, NEW j \in DOMAIN backlog'[k]
          PROVE  host[backlog'[k][j]] = k
      BY <1>4, <2>3 DEF Hosted
    <2>4. QED
      BY <1>3, <2>1, <2>2, <2>3 DEF Hosted
  <1>6. Once'
    <2>1. ASSUME NEW k \in Listener, NEW a \in DOMAIN backlog'[k], NEW b \in DOMAIN backlog'[k],
                 backlog'[k][a] = backlog'[k][b]
          PROVE  a = b
      <3>1. a \in Nat /\ b \in Nat
        BY <1>4
      <3>2. QED
        BY <1>4, <2>1, <3>1 DEF Once
    <2>2. ASSUME NEW k \in Listener, NEW a \in DOMAIN backlog'[k], NEW gd \in Fd
          PROVE  backlog'[k][a] # file'[k][gd]
      <3>1. PICK i \in DOMAIN backlog[k] :
              backlog'[k][a] = backlog[k][i] /\ i = (IF k = l THEN a + 1 ELSE a) /\ a \in Nat
        BY <1>4
      <3>2. backlog[k][i] # file[k][gd]
        BY DEF Once
      <3>3. k = l => backlog[k][i] # p
        <4>1. k = l => i # 1
          <5>1. a # 0
            <6>1. backlog'[k] \in Seq(Peer)
              BY AcceptEffect
            <6>2. QED
              BY <6>1
          <5>2. QED
            BY <3>1, <5>1
        <4>2. QED
          BY <1>1, <4>1 DEF Once
      <3>4. QED
        BY <1>1, <3>1, <3>2, <3>3
    <2>3. ASSUME NEW k \in Listener, NEW gd \in Fd, NEW hd \in Fd,
                 file'[k][gd] = file'[k][hd], file'[k][gd] # None
          PROVE  gd = hd
      <3>1. k = l => file[k][gd] # p /\ file[k][hd] # p
        BY <1>1 DEF Once
      <3>2. file'[k][gd] = (IF k = l /\ gd = fd THEN p ELSE file[k][gd])
            /\ file'[k][hd] = (IF k = l /\ hd = fd THEN p ELSE file[k][hd])
        BY <1>1
      <3>3. QED
        <4>1. CASE k = l /\ (gd = fd \/ hd = fd)
          BY <2>3, <3>1, <3>2, <4>1
        <4>2. CASE ~(k = l /\ (gd = fd \/ hd = fd))
          BY <2>3, <3>2, <4>2 DEF Once
        <4>3. QED
          BY <4>1, <4>2
    <2>4. QED
      BY <2>1, <2>2, <2>3 DEF Once
  <1>7. Own'
    <2> SUFFICES ASSUME NEW k \in Listener \ mixed, NEW a \in DOMAIN threads'[k],
                        threads'[k][a].pc # "ended"
                 PROVE  /\ file'[k][threads'[k][a].fd] # None
                        /\ threads'[k][a].pc # "new" =>
                             threads'[k][a].conn = file'[k][threads'[k][a].fd]
                        /\ \A j \in DOMAIN threads'[k] :
                             j # a /\ threads'[k][j].pc # "ended" =>
                               threads'[k][j].fd # threads'[k][a].fd
      BY <1>3 DEF Own
    <2>1. \A j \in DOMAIN threads[k] : threads[k][j].fd \in Fd
      BY ThreadTyped
    <2>2. CASE k # l
      <3>1. threads'[k] = threads[k]
        BY <1>1, <2>2
      <3>2. file'[k][threads[k][a].fd] = file[k][threads[k][a].fd]
        BY <1>1, <2>1, <2>2, <3>1
      <3>3. QED
        BY <3>1, <3>2 DEF Own
    <2>3. CASE k = l
      <3>1. \A j \in DOMAIN threads[l] : threads[l][j].pc # "ended" =>
              /\ threads[l][j].fd # fd /\ file'[l][threads[l][j].fd] = file[l][threads[l][j].fd]
              /\ threads[l][j].fd \in Fd
        BY <1>1, <2>1, <2>3 DEF Own
      <3>2. CASE a = n
        BY <1>1, <1>2, <1>3, <2>3, <3>1, <3>2
      <3>3. CASE a # n
        <4>1. a \in DOMAIN threads[l] /\ threads'[l][a] = threads[l][a] /\ threads[l][a].pc # "ended"
          BY <1>1, <2>3, <3>3
        <4>2. /\ file'[l][threads[l][a].fd] # None
              /\ threads[l][a].pc # "new" => threads[l][a].conn = file'[l][threads[l][a].fd]
              /\ \A j \in DOMAIN threads[l] :
                   j # a /\ threads[l][j].pc # "ended" => threads[l][j].fd # threads[l][a].fd
          BY <2>3, <3>1, <4>1 DEF Own
        <4>3. threads'[l][n].fd # threads[l][a].fd
          BY <1>2, <3>1, <4>1
        <4>4. QED
          BY <1>1, <2>3, <4>1, <4>2, <4>3
      <3>4. QED
        BY <3>2, <3>3
    <2>4. QED
      BY <2>2, <2>3
  <1>8. QED
    BY <1>5, <1>6, <1>7

LEMMA AcceptWatching ==
    ASSUME NetTypes, Once, Watching, NEW l \in Listener, Accept(l), Rests
    PROVE  Watching'
  <1> DEFINE fd == FreeFd(l)
             p == Head(backlog[l])
             n == Len(threads[l]) + 1
  <1>1. /\ fd \in Fd /\ file[l][fd] = None
        /\ \A k \in Listener : \A gd \in Fd :
             file'[k][gd] = IF k = l /\ gd = fd THEN p ELSE file[k][gd]
        /\ \A k \in Listener \ {l} : threads'[k] = threads[k]
        /\ \A k \in Listener \ {l} : backlog'[k] = backlog[k]
        /\ DOMAIN threads'[l] = DOMAIN threads[l] \cup {n}
        /\ \A j \in DOMAIN threads[l] : threads'[l][j] = threads[l][j]
        /\ threads'[l][n] = [pc |-> "new", fd |-> fd, conn |-> None, kept |-> <<>>]
        /\ \A q \in ToSet(backlog[l]) : q = p \/ q \in ToSet(backlog'[l])
    BY AcceptEffect
  <1>2. threads'[l][n].pc = "new" /\ threads'[l][n].fd = fd /\ threads'[l][n].kept = <<>>
    BY <1>1
  <1>3. UNCHANGED <<pc, toServer, toPeer, closed, slow, up, mixed>>
    BY DEF Accept, Rests, peerVars, budgetVars
  <1> HIDE DEF fd, p, n
  <1>4. ASSUME NEW t \in Watched, InTouch(t)
        PROVE  InTouch(t)'
    <2>1. t \in Listener /\ t # None
      BY Distinct DEF Listener
    <2>2. \A j \in DOMAIN threads[t] : file[t][threads[t][j].fd] = t =>
            /\ j \in DOMAIN threads'[t] /\ threads'[t][j] = threads[t][j]
            /\ file'[t][threads[t][j].fd] = t
      <3>1. \A j \in DOMAIN threads[t] : threads[t][j].fd \in Fd
        BY <2>1, ThreadTyped
      <3>2. QED
        BY <1>1, <2>1, <3>1
    <2>3. CASE t \in ToSet(backlog[t]) => t \in ToSet(backlog'[t])
      BY <1>3, <1>4, <2>2, <2>3, TouchStays
    <2>4. CASE t \in ToSet(backlog[t]) /\ t \notin ToSet(backlog'[t])
      <3>1. l = t /\ p = t
        BY <1>1, <2>1, <2>4
      <3>2. n \in DOMAIN threads'[t] /\ file'[t][threads'[t][n].fd] = t
        BY <1>1, <1>2, <2>1, <3>1
      <3>3. CASE Waiting(t)
        <4>1. Waiting(t)'
          BY <1>3, <3>3 DEF Waiting
        <4>2. QED
          BY <1>2, <3>1, <3>2, <4>1 DEF InTouch
      <3>4. CASE ~Waiting(t)
        <4>1. PICK j \in DOMAIN threads[t] :
                /\ file[t][threads[t][j].fd] = t /\ threads[t][j].kept = <<>>
                /\ threads[t][j].pc = "master" /\ Speaks(t)
          BY <1>4, <3>4 DEF InTouch
        <4>2. Speaks(t)'
          BY <1>3, <4>1 DEF Speaks
        <4>3. QED
          BY <2>2, <4>1, <4>2 DEF InTouch
      <3>5. QED
        BY <3>3, <3>4
    <2>5. QED
      BY <2>3, <2>4
  <1>5. QED
    BY <1>3, <1>4 DEF Watching

-----------------------------------------------------------------------------
(* The peers *)

\* What is shown of the two sides of a ping.
Watch(t) ==
    /\ pc[t] = "start" => toPeer[t] = <<>>
    /\ pc[t] \in {"start", "greet", "pong", "rest"} => t \notin closed
    /\ pc[t] \in {"greet", "pong", "rest"} /\ t \in up \ (slow \cup mixed) => InTouch(t)
    /\ pc[t] = "lost" => t \notin up \/ t \in slow \/ t \in mixed

\* A peer does something, and the others do not.
Alone(p) ==
    /\ DOMAIN pc' = Peer /\ DOMAIN toServer' = Peer /\ DOMAIN toPeer' = Peer
    /\ \A q \in Peer \ {p} :
         pc'[q] = pc[q] /\ toServer'[q] = toServer[q] /\ toPeer'[q] = toPeer[q]

LEMMA AloneIs ==
    ASSUME NetTypes, NEW p \in Peer,
           UNCHANGED pc \/ \E to : pc' = [pc EXCEPT ![p] = to],
           UNCHANGED toServer \/ \E s : toServer' = [toServer EXCEPT ![p] = s],
           UNCHANGED toPeer \/ \E s : toPeer' = [toPeer EXCEPT ![p] = s]
    PROVE  Alone(p)
  <1>1. DOMAIN pc = Peer /\ DOMAIN toServer = Peer /\ DOMAIN toPeer = Peer
    BY DEF NetTypes
  <1>2. DOMAIN pc' = Peer /\ \A q \in Peer \ {p} : pc'[q] = pc[q]
    BY <1>1
  <1>3. DOMAIN toServer' = Peer /\ \A q \in Peer \ {p} : toServer'[q] = toServer[q]
    BY <1>1
  <1>4. DOMAIN toPeer' = Peer /\ \A q \in Peer \ {p} : toPeer'[q] = toPeer[q]
    BY <1>1
  <1>5. QED
    BY <1>2, <1>3, <1>4 DEF Alone

LEMMA PeerTyped ==
    ASSUME NetTypes, NEW p \in Peer, Alone(p), DirectoryTypeOK',
           UNCHANGED <<up, connfd, file, threads, mixed>>,
           backlog' \in [Listener -> Seq(Peer)], closed' \in {closed, closed \cup {p}},
           host' \in [Peer -> Listener \cup {None}],
           toServer'[p] \in Seq(Said(p)), p \in Client \cup Watched => toPeer'[p] \in Seq(Word),
           todo' \in [Client -> Seq({"get", "put", "bytes", "quit"})],
           refused' \subseteq Client, slow' \subseteq Watched, split' \cup short' \subseteq Fetcher,
           pings' \in [Watched -> 0..MaxPing],
           \A t \in Watched : pc'[t] \in {"start", "greet"} => pings'[t] = 0
    PROVE  NetTypes'
  <1>1. DOMAIN toServer' = Peer /\ DOMAIN toPeer' = Peer /\ DOMAIN pc' = Peer
    BY DEF Alone
  <1>2. \A q \in Peer : toServer'[q] \in Seq(Said(q))
    BY DEF Alone, NetTypes
  <1>3. \A q \in Client \cup Watched : toPeer'[q] \in Seq(Word)
    BY DEF Alone, NetTypes, Peer
  <1>4. threads' \in [Listener -> Seq(Thread)]
    BY DEF NetTypes
  <1>5. ConnectionsTypeOK'
    BY <1>4, ThreadParts DEF NetTypes, TypeOK, ConnectionsTypeOK
  <1>6. QED
    BY <1>1, <1>2, <1>3, <1>4, <1>5 DEF NetTypes, TypeOK

\* Nothing that a peer does touches those that watch other servers.
LEMMA OthersWatch ==
    ASSUME NetTypes, Watching, LossExplained, NEW p \in Peer, Alone(p),
           UNCHANGED <<up, file, threads, mixed>>, slow \subseteq slow',
           closed' \subseteq closed \cup {p},
           \A t \in Watched : t \in ToSet(backlog[t]) => t \in ToSet(backlog'[t]),
           p \in Watched => Watch(p)'
    PROVE  Watching' /\ LossExplained'
  <1>1. \A t \in Watched : Watch(t)
    BY DEF Watching, LossExplained, Watch
  <1>2. ASSUME NEW t \in Watched, t # p
        PROVE  Watch(t)'
    <2>1. t \in Peer
      BY DEF Peer
    <2>2. pc'[t] = pc[t] /\ toServer'[t] = toServer[t] /\ toPeer'[t] = toPeer[t]
      BY <1>2, <2>1 DEF Alone
    <2>3. InTouch(t) => InTouch(t)'
      BY <2>2, TouchStays
    <2>4. QED
      BY <1>1, <1>2, <2>2, <2>3 DEF Watch
  <1>3. \A t \in Watched : Watch(t)'
    BY <1>2
  <1>4. QED
    BY <1>3 DEF Watching, LossExplained, Watch

LEMMA PlacesStay ==
    ASSUME Hosted, Once, Own, UNCHANGED <<backlog, file, threads, host, mixed>>,
           \A p \in Peer : pc'[p] \in {"start", "asked"} => pc[p] \in {"start", "asked"}
    PROVE  Hosted' /\ Once' /\ Own'
  <1>1. Hosted'
    BY DEF Hosted
  <1>2. Once'
    BY DEF Once
  <1>3. Own'
    BY DEF Own
  <1>4. QED
    BY <1>1, <1>2, <1>3

\* A connection is made by a peer that has none.
LEMMA DialPlaces ==
    ASSUME NetTypes, Hosted, Once, Own, NEW p \in Peer, NEW l \in Listener, l \in Home(p),
           pc[p] \in {"start", "asked"}, NEW line, Dial(p, l, line),
           NEW to, to \notin {"start", "asked"}, pc' = [pc EXCEPT ![p] = to], UNCHANGED mixed
    PROVE  /\ Hosted' /\ Once' /\ Own'
           /\ backlog' \in [Listener -> Seq(Peer)]
           /\ host' \in [Peer -> Listener \cup {None}]
           /\ \A k \in Listener : \A q \in ToSet(backlog[k]) : q \in ToSet(backlog'[k])
           /\ p \in ToSet(backlog'[l])
  <1> DEFINE n == Len(backlog[l]) + 1
  <1>1. /\ backlog \in [Listener -> Seq(Peer)] /\ host \in [Peer -> Listener \cup {None}]
        /\ file \in [Listener -> [Fd -> Peer \cup {None}]]
        /\ backlog[l] \in Seq(Peer) /\ DOMAIN pc = Peer
    BY DEF NetTypes, TypeOK, ConnectionsTypeOK
  <1>2. /\ backlog' = [backlog EXCEPT ![l] = Append(@, p)]
        /\ host' = [host EXCEPT ![p] = l]
        /\ UNCHANGED <<file, threads>>
    BY DEF Dial
  <1>3. Append(backlog[l], p) \in Seq(Peer) /\ n \notin DOMAIN backlog[l]
        /\ DOMAIN Append(backlog[l], p) = DOMAIN backlog[l] \cup {n}
        /\ Append(backlog[l], p)[n] = p
        /\ \A i \in DOMAIN backlog[l] : Append(backlog[l], p)[i] = backlog[l][i]
    <2>1. /\ Append(backlog[l], p) \in Seq(Peer) /\ Len(Append(backlog[l], p)) = n
          /\ Append(backlog[l], p)[n] = p /\ Len(backlog[l]) \in Nat
          /\ \A i \in 1..Len(backlog[l]) : Append(backlog[l], p)[i] = backlog[l][i]
      BY <1>1, AppendProperties
    <2>2. DOMAIN Append(backlog[l], p) = 1..n /\ DOMAIN backlog[l] = 1..Len(backlog[l])
      BY <1>1, <2>1
    <2>3. QED
      BY <2>1, <2>2
  <1>4. /\ backlog' \in [Listener -> Seq(Peer)]
        /\ \A k \in Listener \ {l} : backlog'[k] = backlog[k]
        /\ DOMAIN backlog'[l] = DOMAIN backlog[l] \cup {n} /\ backlog'[l][n] = p
        /\ \A i \in DOMAIN backlog[l] : backlog'[l][i] = backlog[l][i]
    BY <1>1, <1>2, <1>3
  <1>5. /\ host' \in [Peer -> Listener \cup {None}] /\ host'[p] = l
        /\ \A q \in Peer \ {p} : host'[q] = host[q]
    BY <1>1, <1>2
  <1> HIDE DEF n
  <1>6. host[p] = None /\ None \notin Listener
    BY Distinct DEF Hosted
  <1>7. \A k \in Listener :
          /\ \A i \in DOMAIN backlog[k] : backlog[k][i] # p /\ backlog[k][i] \in Peer
          /\ \A fd \in Fd : file[k][fd] # p \/ p = None
          /\ \A i \in DOMAIN threads[k] : threads[k][i].conn \in Peer \cup {None}
    <2> SUFFICES ASSUME NEW k \in Listener
                 PROVE  /\ \A i \in DOMAIN backlog[k] : backlog[k][i] # p /\ backlog[k][i] \in Peer
                        /\ \A fd \in Fd : file[k][fd] # p \/ p = None
                        /\ \A i \in DOMAIN threads[k] : threads[k][i].conn \in Peer \cup {None}
      OBVIOUS
    <2>1. \A i \in DOMAIN backlog[k] : backlog[k][i] # p
      BY <1>6 DEF Hosted
    <2>2. \A i \in DOMAIN backlog[k] : backlog[k][i] \in Peer
      <3>1. backlog[k] \in Seq(Peer)
        BY <1>1
      <3>2. QED
        BY <3>1
    <2>3. \A fd \in Fd : file[k][fd] # p \/ p = None
      BY <1>6 DEF Hosted
    <2>4. QED
      BY <2>1, <2>2, <2>3, ThreadTyped
  <1>8. p # None
    BY Distinct
  <1>9. Hosted'
    <2>1. \A q \in Peer : host'[q] \in Home(q) \cup {None}
      BY <1>5 DEF Hosted
    <2>2. \A q \in Peer : pc'[q] \in {"start", "asked"} => host'[q] = None
      BY <1>1, <1>5 DEF Hosted
    <2>3. ASSUME NEW k \in Listener, NEW i \in DOMAIN backlog'[k]
          PROVE  host'[backlog'[k][i]] = k
      <3>1. CASE k = l /\ i = n
        BY <1>4, <1>5, <3>1
      <3>2. CASE ~(k = l /\ i = n)
        <4>1. i \in DOMAIN backlog[k] /\ backlog'[k][i] = backlog[k][i]
          BY <1>4, <2>3, <3>2
        <4>2. QED
          BY <1>5, <1>7, <4>1 DEF Hosted
      <3>3. QED
        BY <3>1, <3>2
    <2>4. ASSUME NEW k \in Listener, NEW fd \in Fd, file[k][fd] # None
          PROVE  host'[file[k][fd]] = k
      <3>1. file[k][fd] \in Peer \ {p}
        BY <1>1, <1>7, <1>8, <2>4
      <3>2. QED
        BY <1>5, <2>4, <3>1 DEF Hosted
    <2>5. ASSUME NEW k \in Listener, NEW i \in DOMAIN threads[k], threads[k][i].conn # None
          PROVE  host'[threads[k][i].conn] = k
      <3>1. host[threads[k][i].conn] = k
        BY <2>5 DEF Hosted
      <3>2. threads[k][i].conn \in Peer \ {p}
        BY <1>6, <1>7, <2>5, <3>1
      <3>3. QED
        BY <1>5, <3>1, <3>2
    <2>6. QED
      BY <1>2, <2>1, <2>2, <2>3, <2>4, <2>5 DEF Hosted, Home
  <1>10. Once'
    <2>1. ASSUME NEW k \in Listener, NEW i \in DOMAIN backlog'[k], NEW j \in DOMAIN backlog'[k],
                 backlog'[k][i] = backlog'[k][j]
          PROVE  i = j
      <3>1. CASE k # l
        BY <1>4, <2>1, <3>1 DEF Once
      <3>2. CASE k = l
        <4>1. i \in DOMAIN backlog[l] /\ j \in DOMAIN backlog[l] => i = j
          BY <1>4, <2>1, <3>2 DEF Once
        <4>2. (i = n => j \notin DOMAIN backlog[l]) /\ (j = n => i \notin DOMAIN backlog[l])
          BY <1>4, <1>7, <2>1, <3>2
        <4>3. QED
          BY <1>4, <2>1, <3>2, <4>1, <4>2
      <3>3. QED
        BY <3>1, <3>2
    <2>2. ASSUME NEW k \in Listener, NEW i \in DOMAIN backlog'[k], NEW fd \in Fd
          PROVE  backlog'[k][i] # file[k][fd]
      <3>1. CASE k # l
        BY <1>4, <2>2, <3>1 DEF Once
      <3>2. CASE k = l
        BY <1>4, <1>7, <1>8, <2>2, <3>2 DEF Once
      <3>3. QED
        BY <3>1, <3>2
    <2>3. QED
      BY <1>2, <2>1, <2>2 DEF Once
  <1>11. Own'
    BY <1>2 DEF Own
  <1>12. \A k \in Listener : \A q \in ToSet(backlog[k]) : q \in ToSet(backlog'[k])
    <2> SUFFICES ASSUME NEW k \in Listener, NEW q \in ToSet(backlog[k]) PROVE q \in ToSet(backlog'[k])
      OBVIOUS
    <2>1. PICK i \in DOMAIN backlog[k] : q = backlog[k][i]
      BY DEF ToSet
    <2>2. i \in DOMAIN backlog'[k] /\ q = backlog'[k][i]
      BY <1>4, <2>1
    <2>3. QED
      BY <2>2 DEF ToSet
  <1>13. p \in ToSet(backlog'[l])
    BY <1>4 DEF ToSet
  <1>14. QED
    BY <1>4, <1>5, <1>9, <1>10, <1>11, <1>12, <1>13

-----------------------------------------------------------------------------
(* The actions of the peers *)

LEMMA Peers ==
    /\ \A c \in Client : c \in Peer /\ c \notin Watched /\ c \notin Fetcher /\ c \notin Tablet
    /\ \A t \in Watched : t \in Peer /\ t \notin Client /\ t \notin Fetcher /\ t \in Listener
    /\ \A f \in Fetcher : f \in Peer /\ f \notin Client /\ f \notin Watched
    /\ AdminPort \in Listener
  BY ConnectionsAssumption DEF Peer, Listener

\* What of the types a step of a peer needs.
LEMMA PeerParts ==
    ASSUME NetTypes
    PROVE  /\ DirectoryTypeOK /\ backlog \in [Listener -> Seq(Peer)] /\ closed \subseteq Peer
           /\ host \in [Peer -> Listener \cup {None}]
           /\ \A p \in Peer : toServer[p] \in Seq(Said(p))
           /\ \A p \in Client \cup Watched : toPeer[p] \in Seq(Word)
           /\ todo \in [Client -> Seq({"get", "put", "bytes", "quit"})]
           /\ refused \subseteq Client /\ slow \subseteq Watched /\ split \cup short \subseteq Fetcher
           /\ pings \in [Watched -> 0..MaxPing]
           /\ \A t \in Watched : pc[t] \in {"start", "greet"} => pings[t] = 0
           /\ DOMAIN toServer = Peer /\ DOMAIN toPeer = Peer /\ DOMAIN pc = Peer
           /\ up \subseteq Listener
  BY DEF NetTypes, TypeOK, ConnectionsTypeOK

LEMMA DirectoryStays ==
    ASSUME DirectoryTypeOK, Directed, UNCHANGED directoryVars
    PROVE  DirectoryTypeOK' /\ Directed'
  BY DEF directoryVars, DirectoryTypeOK, Directed

\* A step of a peer that makes no connection and asks nothing.
LEMMA PeerKept ==
    ASSUME NInv, NEW p \in Peer,
           UNCHANGED <<directoryVars, up, backlog, connfd, file, threads, host, mixed, refused>>,
           UNCHANGED pc \/ (\E to : to \notin {"start", "asked", "greet"} /\ GoTo(p, to)),
           UNCHANGED toServer \/ \E s \in Seq(Said(p)) : toServer' = [toServer EXCEPT ![p] = s],
           \/ UNCHANGED toPeer
           \/ \E s : /\ p \in Client \cup Watched => s \in Seq(Word)
                     /\ toPeer' = [toPeer EXCEPT ![p] = s],
           closed' \in {closed, closed \cup {p}},
           todo' \in [Client -> Seq({"get", "put", "bytes", "quit"})],
           slow \subseteq slow' /\ slow' \subseteq Watched, split' \cup short' \subseteq Fetcher,
           pings' \in [Watched -> 0..MaxPing],
           \A t \in Watched : pings'[t] = pings[t] \/ (t = p /\ pc'[t] \notin {"start", "greet"}),
           p \in Watched => Watch(p)'
    PROVE  NInv'
  <1>1. Alone(p)
    BY AloneIs DEF NInv, GoTo
  <1>2. DirectoryTypeOK' /\ Directed'
    BY PeerParts, DirectoryStays DEF NInv
  <1>3. toServer'[p] \in Seq(Said(p))
    BY PeerParts DEF NInv
  <1>4. p \in Client \cup Watched => toPeer'[p] \in Seq(Word)
    BY PeerParts DEF NInv
  <1>5. \A q \in Peer : pc'[q] \in {"start", "asked", "greet"} => pc'[q] = pc[q]
    BY PeerParts DEF NInv, GoTo
  <1>6. \A t \in Watched : pc'[t] \in {"start", "greet"} => pings'[t] = 0
    BY <1>5, Peers, PeerParts DEF NInv
  <1>7. NetTypes'
    BY <1>1, <1>2, <1>3, <1>4, <1>6, PeerParts, PeerTyped DEF NInv
  <1>8. Hosted' /\ Once' /\ Own'
    BY <1>5, PlacesStay DEF NInv
  <1>9. Watching' /\ LossExplained'
    BY <1>1, OthersWatch DEF NInv
  <1>10. NamedAccepts'
    BY DEF NInv, NamedAccepts
  <1>11. QED
    BY <1>2, <1>7, <1>8, <1>9, <1>10 DEF NInv

\* A step of a peer that makes its connection.
LEMMA PeerDials ==
    ASSUME NInv, NEW p \in Peer, NEW l \in Listener, l \in Home(p), pc[p] \in {"start", "asked"},
           NEW line \in Said(p), Dial(p, l, line),
           NEW to, to \notin {"start", "asked"}, to = "greet" => p \in Watched,
           p \in Watched => pc[p] = "start" /\ to = "greet" /\ line = "master", GoTo(p, to),
           UNCHANGED <<up, todo, pings, text, rbuffer, mixed, refused, split, short, budgetVars>>,
           DirectoryTypeOK', Directed'
    PROVE  NInv'
  <1>1. toServer' = [toServer EXCEPT ![p] = <<line>>] /\ pc' = [pc EXCEPT ![p] = to]
        /\ UNCHANGED <<connfd, file, threads, toPeer, closed>>
    BY DEF Dial, GoTo
  <1>2. Alone(p)
    BY <1>1, AloneIs DEF NInv
  <1>3. /\ Hosted' /\ Once' /\ Own'
        /\ backlog' \in [Listener -> Seq(Peer)]
        /\ host' \in [Peer -> Listener \cup {None}]
        /\ \A k \in Listener : \A q \in ToSet(backlog[k]) : q \in ToSet(backlog'[k])
        /\ p \in ToSet(backlog'[l])
    BY <1>1, DialPlaces DEF NInv
  <1>4. UNCHANGED <<slow, crashes, hangups>>
    BY DEF budgetVars
  <1>5. toServer'[p] = <<line>> /\ <<line>> \in Seq(Said(p))
    BY <1>1, PeerParts DEF NInv
  <1>6. \A t \in Watched : pc'[t] \in {"start", "greet"} => pings'[t] = 0
    <2> SUFFICES ASSUME NEW t \in Watched, pc'[t] \in {"start", "greet"} PROVE pings[t] = 0
      OBVIOUS
    <2>1. pc[t] \in {"start", "greet"}
      BY <1>1, Peers, PeerParts DEF NInv
    <2>2. QED
      BY <2>1, PeerParts DEF NInv
  <1>7. NetTypes'
    BY <1>1, <1>2, <1>3, <1>4, <1>5, <1>6, PeerParts, PeerTyped DEF NInv
  <1>8. ASSUME p \in Watched
        PROVE  Watch(p)'
    <2>1. l = p /\ toServer'[p] = <<"master">>
      BY <1>5, <1>8, Peers DEF Home
    <2>2. pc'[p] = "greet"
      BY <1>1, <1>8, PeerParts DEF NInv
    <2>3. toPeer[p] = <<>> /\ p \notin closed
      BY <1>8 DEF NInv, Watching
    <2>4. InTouch(p)'
      BY <1>1, <1>3, <2>1, <2>2, <2>3 DEF InTouch, Waiting
    <2>5. QED
      BY <1>1, <2>2, <2>3, <2>4 DEF Watch
  <1>9. Watching' /\ LossExplained'
    <2>1. \A t \in Watched : t \in ToSet(backlog[t]) => t \in ToSet(backlog'[t])
      BY <1>3, Peers
    <2>2. QED
      BY <1>1, <1>2, <1>4, <1>8, <2>1, OthersWatch DEF NInv
  <1>10. NamedAccepts'
    BY DEF NInv, NamedAccepts
  <1>11. QED
    BY <1>3, <1>7, <1>9, <1>10 DEF NInv

LEMMA SendKept ==
    ASSUME DirectoryTypeOK, Directed, NEW c \in Client \cup Console, NEW m \in Message,
           c \in Client => m = [type |-> "query", key |-> row[c]],
           Send(c, m), UNCHANGED answers, typed' \in [Console -> 0..MaxTyped]
    PROVE  DirectoryTypeOK' /\ Directed'
  <1> DEFINE D == [src : Client \cup Console, msg : Message]
             q == [src |-> c, msg |-> m]
  <1>1. queries \in Seq(D) /\ q \in D /\ q.src = c /\ q.msg = m
    BY DEF DirectoryTypeOK
  <1>2. queries' = Append(queries, q)
    BY DEF Send
  <1> HIDE DEF q, D
  <1>3. /\ queries' \in Seq(D) /\ Len(queries') = Len(queries) + 1 /\ Len(queries) \in Nat
        /\ queries'[Len(queries) + 1] = q
        /\ \A i \in 1..Len(queries) : queries'[i] = queries[i]
    BY <1>1, <1>2, AppendProperties
  <1>4. \A i \in DOMAIN queries' : queries'[i] = q \/ (i \in DOMAIN queries /\ queries'[i] = queries[i])
    BY <1>1, <1>3
  <1>5. DirectoryTypeOK'
    BY <1>3 DEF DirectoryTypeOK, D
  <1>6. Directed'
    BY <1>1, <1>4 DEF Directed
  <1>7. QED
    BY <1>5, <1>6

LEMMA RowTyped ==
    /\ \A c \in Client : row[c] \in Chars
    /\ \A k \in Chars : [type |-> "query", key |-> k] \in Message
    /\ [type |-> "other", key |-> 0] \in Message
  BY DirectoryAssumption DEF Message, Chars

LEMMA QueryKept ==
    ASSUME NInv, NEW c \in Client, Query(c)
    PROVE  NInv'
  <1>1. /\ pc[c] = "start" /\ pc' = [pc EXCEPT ![c] = "asked"]
        /\ UNCHANGED <<up, host, todo, pings, text, rbuffer, mixed, refused, split, short>>
        /\ UNCHANGED <<backlog, connfd, file, threads, toServer, toPeer, closed>>
        /\ UNCHANGED <<slow, crashes, hangups>> /\ UNCHANGED <<answers, typed>>
        /\ Send(c, [type |-> "query", key |-> row[c]])
    BY DEF Query, GoTo, netVars, budgetVars
  <1>2. DirectoryTypeOK' /\ Directed'
    <2>1. [type |-> "query", key |-> row[c]] \in Message /\ typed \in [Console -> 0..MaxTyped]
      BY RowTyped, PeerParts DEF NInv, DirectoryTypeOK
    <2>2. QED
      BY <1>1, <2>1, PeerParts, SendKept DEF NInv
  <1>3. c \in Peer /\ c \notin Watched /\ DOMAIN pc = Peer
    BY Peers, PeerParts DEF NInv
  <1>4. Alone(c)
    BY <1>1, <1>3, AloneIs DEF NInv
  <1>5. \A t \in Watched : pc'[t] \in {"start", "greet"} => pings'[t] = 0
    BY <1>1, <1>3, PeerParts, Peers DEF NInv
  <1>6. NetTypes'
    BY <1>1, <1>2, <1>3, <1>4, <1>5, PeerParts, PeerTyped DEF NInv
  <1>7. Hosted' /\ Once' /\ Own'
    <2>1. \A p \in Peer : pc'[p] \in {"start", "asked"} => pc[p] \in {"start", "asked"}
      BY <1>1, <1>3
    <2>2. QED
      BY <1>1, <2>1, PlacesStay DEF NInv
  <1>8. Watching' /\ LossExplained'
    BY <1>1, <1>3, <1>4, OthersWatch DEF NInv
  <1>9. NamedAccepts'
    BY <1>1 DEF NInv, NamedAccepts
  <1>10. QED
    BY <1>2, <1>6, <1>7, <1>8, <1>9 DEF NInv

LEMMA ReachKept ==
    ASSUME NInv, NEW c \in Client, Reach(c)
    PROVE  NInv'
  <1> DEFINE t == Head(answers[c])
  <1>1. /\ pc[c] = "asked" /\ answers[c] # <<>>
        /\ answers' = [answers EXCEPT ![c] = <<>>]
        /\ UNCHANGED <<queries, typed>>
        /\ UNCHANGED <<up, todo, pings, text, rbuffer, mixed, refused, split, short, budgetVars>>
        /\ IF t \in up THEN Dial(c, t, "yo") /\ GoTo(c, "wait")
                       ELSE GoTo(c, "ended") /\ UNCHANGED <<host, netVars>>
    BY DEF Reach
  <1>2. c \in Peer /\ c \notin Watched /\ DOMAIN pc = Peer
    BY Peers, PeerParts DEF NInv
  <1>3. /\ answers \in [Client \cup Console -> Seq(Tablet \cup {Nobody})]
        /\ DirectoryTypeOK /\ Directed
    BY PeerParts DEF NInv, DirectoryTypeOK
  <1>4. DirectoryTypeOK' /\ Directed'
    <2>1. /\ answers' \in [Client \cup Console -> Seq(Tablet \cup {Nobody})]
          /\ \A d \in Client : answers'[d] \in {answers[d], <<>>}
      BY <1>1, <1>3
    <2>2. DirectoryTypeOK'
      BY <1>1, <1>3, <2>1 DEF DirectoryTypeOK
    <2>3. Directed'
      <3>1. \A d \in Client : \A i \in DOMAIN answers'[d] : answers'[d][i] \in Named(row[d])
        <4> SUFFICES ASSUME NEW d \in Client, NEW i \in DOMAIN answers'[d]
                     PROVE  answers'[d][i] \in Named(row[d])
          OBVIOUS
        <4>1. answers'[d] # <<>>
          OBVIOUS
        <4>2. answers'[d] = answers[d]
          BY <2>1, <4>1
        <4>3. QED
          BY <1>3, <4>2 DEF Directed
      <3>2. QED
        BY <1>1, <1>3, <3>1 DEF Directed
    <2>4. QED
      BY <2>2, <2>3
  <1>5. t \in Named(row[c])
    <2>1. answers[c] \in Seq(Tablet \cup {Nobody})
      BY <1>3
    <2>2. 1 \in DOMAIN answers[c] /\ t = answers[c][1]
      BY <1>1, <2>1
    <2>3. QED
      BY <1>3, <2>2 DEF Directed
  <1> HIDE DEF t
  <1>6. CASE t \in up
    <2>1. t \in Listener /\ t # Nobody
      BY <1>6, PeerParts, Distinct DEF NInv
    <2>2. t \in Home(c)
      BY <1>5, <2>1, RowTyped, NamedTakes DEF Home
    <2>3. "yo" \in Said(c)
      BY DEF Said
    <2>4. QED
      BY <1>1, <1>2, <1>4, <1>6, <2>1, <2>2, <2>3, PeerDials
  <1>7. CASE t \notin up
    <2>1. /\ pc' = [pc EXCEPT ![c] = "ended"] /\ UNCHANGED host
          /\ UNCHANGED <<backlog, connfd, file, threads, toServer, toPeer, closed>>
          /\ UNCHANGED <<slow, crashes, hangups>>
      BY <1>1, <1>7 DEF GoTo, netVars, budgetVars
    <2>2. Alone(c)
      BY <1>2, <2>1, AloneIs DEF NInv
    <2>3. \A w \in Watched : pc'[w] \in {"start", "greet"} => pings'[w] = 0
      BY <1>1, <1>2, <2>1, PeerParts, Peers DEF NInv
    <2>4. NetTypes'
      BY <1>1, <1>2, <1>4, <2>1, <2>2, <2>3, PeerParts, PeerTyped DEF NInv
    <2>5. Hosted' /\ Once' /\ Own'
      <3>1. \A p \in Peer : pc'[p] \in {"start", "asked"} => pc[p] \in {"start", "asked"}
        BY <1>2, <2>1
      <3>2. QED
        BY <1>1, <2>1, <3>1, PlacesStay DEF NInv
    <2>6. Watching' /\ LossExplained'
      BY <1>1, <1>2, <2>1, <2>2, OthersWatch DEF NInv
    <2>7. NamedAccepts'
      BY <1>1 DEF NInv, NamedAccepts
    <2>8. QED
      BY <1>4, <2>4, <2>5, <2>6, <2>7 DEF NInv
  <1>8. QED
    BY <1>6, <1>7

LEMMA HearKept ==
    ASSUME NInv, NEW c \in Client, Hear(c)
    PROVE  NInv'
  <1>1. /\ toPeer[c] # <<>>
        /\ UNCHANGED <<directoryVars, up, host, pings, text, rbuffer, mixed, split, short>>
        /\ UNCHANGED <<slow, crashes, hangups>>
        /\ toPeer' = [toPeer EXCEPT ![c] = <<>>]
        /\ refused' = IF "-ERR range" \in ToSet(toPeer[c]) THEN refused \cup {c} ELSE refused
    BY DEF Hear, budgetVars
  <1>2. /\ c \in Peer /\ c \notin Watched /\ DOMAIN pc = Peer
        /\ toPeer[c] \in Seq(Word) /\ toServer[c] \in Seq(Said(c))
        /\ todo \in [Client -> Seq({"get", "put", "bytes", "quit"})]
    BY Peers, PeerParts DEF NInv
  <1>3. UNCHANGED refused
    <2>1. "-ERR range" \notin Word
      BY DEF Word
    <2>2. "-ERR range" \notin ToSet(toPeer[c])
      <3>1. \A i \in DOMAIN toPeer[c] : toPeer[c][i] \in Word
        BY <1>2
      <3>2. QED
        BY <2>1, <3>1 DEF ToSet
    <2>3. QED
      BY <1>1, <2>2
  <1>4. /\ UNCHANGED pc \/ GoTo(c, "ended")
        /\ UNCHANGED <<backlog, connfd, file, threads>>
        /\ UNCHANGED toServer \/ \E s \in Seq(Said(c)) : toServer' = [toServer EXCEPT ![c] = s]
        /\ closed' \in {closed, closed \cup {c}}
        /\ todo' \in [Client -> Seq({"get", "put", "bytes", "quit"})]
    <2>1. CASE todo[c] # <<>> /\ ToSet(toPeer[c]) \cap Refusal = {}
      <3>1. /\ Say(c, Head(todo[c])) /\ todo' = [todo EXCEPT ![c] = Tail(@)] /\ UNCHANGED pc
        BY <2>1 DEF Hear
      <3>2. todo[c] \in Seq({"get", "put", "bytes", "quit"})
        BY <1>2
      <3>3. Head(todo[c]) \in Said(c) /\ Tail(todo[c]) \in Seq({"get", "put", "bytes", "quit"})
        BY <2>1, <3>2, HeadTailProperties DEF Said
      <3>4. Append(toServer[c], Head(todo[c])) \in Seq(Said(c))
        BY <1>2, <3>3, AppendProperties
      <3>5. QED
        BY <1>2, <3>1, <3>3, <3>4 DEF Say
    <2>2. CASE ~(todo[c] # <<>> /\ ToSet(toPeer[c]) \cap Refusal = {})
      <3>1. HangUp(c) /\ GoTo(c, "ended") /\ UNCHANGED todo
        BY <2>2 DEF Hear
      <3>2. QED
        BY <1>2, <3>1 DEF HangUp
    <2>3. QED
      BY <2>1, <2>2
  <1>5. \E s : /\ c \in Client \cup Watched => s \in Seq(Word)
               /\ toPeer' = [toPeer EXCEPT ![c] = s]
    <2>1. <<>> \in Seq(Word)
      OBVIOUS
    <2>2. QED
      BY <1>1, <2>1
  <1>6. QED
    BY <1>1, <1>2, <1>3, <1>4, <1>5, PeerParts, PeerKept DEF NInv

LEMMA GoneKept ==
    ASSUME NInv, NEW c \in Client, Leave(c) \/ Killed(c)
    PROVE  NInv'
  <1>1. /\ UNCHANGED <<directoryVars, up, host, pings, mixed, split, short, toPeer, todo, refused>>
        /\ UNCHANGED slow /\ HangUp(c) /\ GoTo(c, "ended")
    BY DEF Leave, Killed, budgetVars
  <1>2. UNCHANGED <<backlog, connfd, file, threads, toServer>> /\ closed' = closed \cup {c}
    BY <1>1 DEF HangUp
  <1>3. QED
    BY <1>1, <1>2, Peers, PeerParts, PeerKept DEF NInv

-----------------------------------------------------------------------------
(* The master's thread for a server *)

LEMMA ServerFuncKept ==
    ASSUME NInv, NEW t \in Watched, serverFunc(t)
    PROVE  NInv'
  <1>1. /\ pc[t] = "start"
        /\ UNCHANGED <<directoryVars, up, todo, pings, text, rbuffer, mixed, refused, split, short,
                       budgetVars>>
        /\ IF t \in up THEN Dial(t, t, "master") /\ GoTo(t, "greet")
                       ELSE GoTo(t, "lost") /\ UNCHANGED <<host, netVars>>
    BY DEF serverFunc
  <1>2. t \in Peer /\ t \in Listener /\ t \in Home(t) /\ "master" \in Said(t) /\ DOMAIN pc = Peer
    BY Peers, PeerParts DEF Home, Said, NInv
  <1>3. DirectoryTypeOK' /\ Directed'
    BY <1>1, PeerParts, DirectoryStays DEF NInv
  <1>4. CASE t \in up
    BY <1>1, <1>2, <1>3, <1>4, PeerDials
  <1>5. CASE t \notin up
    <2>1. /\ GoTo(t, "lost") /\ UNCHANGED <<directoryVars, up, host, todo, pings, mixed, refused>>
          /\ UNCHANGED <<backlog, connfd, file, threads, toServer, toPeer, closed>>
          /\ UNCHANGED <<slow, crashes, hangups>> /\ UNCHANGED <<split, short>>
      BY <1>1, <1>5 DEF netVars, budgetVars
    <2>2. pc'[t] = "lost" /\ up' = up
      BY <1>2, <2>1 DEF GoTo
    <2>3. Watch(t)'
      BY <1>5, <2>2 DEF Watch
    <2>4. QED
      BY <1>2, <2>1, <2>3, PeerParts, PeerKept DEF NInv
  <1>6. QED
    BY <1>4, <1>5

\* Where the two sides are in touch something is still to come, unless the
\* server has answered or nothing was asked.
LEMMA TouchComing ==
    ASSUME NInv, NEW t \in Watched, t \in up \ mixed, InTouch(t), host[t] = t,
           pc[t] \in {"greet", "pong"}, toPeer[t] = <<>>
    PROVE  Coming(t)
  <1>1. t \in Listener /\ Running(t)
    BY Peers DEF Running
  <1>2. CASE t \in ToSet(backlog[t])
    BY <1>1, <1>2 DEF Coming
  <1>3. ASSUME NEW i \in DOMAIN threads[t], file[t][threads[t][i].fd] = t,
               \/ threads[t][i].pc \in {"new", "first"} /\ Waiting(t)
               \/ threads[t][i].pc = "master" /\ Speaks(t)
        PROVE  Coming(t)
    <2>1. CASE threads[t][i].pc = "new"
      BY <1>1, <2>1 DEF Coming
    <2>2. CASE threads[t][i].pc # "new"
      <3>1. threads[t][i].conn = t
        BY <1>1, <1>3, <2>2 DEF NInv, Own
      <3>2. toServer[t] # <<>>
        BY <1>3, SMTT(30) DEF Waiting, Speaks
      <3>3. QED
        BY <1>1, <3>1, <3>2 DEF Coming
    <2>3. QED
      BY <2>1, <2>2
  <1>4. QED
    BY <1>2, <1>3 DEF InTouch

\* A peer that is in touch with its server has called it.
LEMMA TouchHosted ==
    ASSUME NInv, NEW t \in Watched, InTouch(t)
    PROVE  host[t] = t
  <1>1. t \in Listener /\ t # None
    BY Peers, Distinct
  <1>2. CASE t \in ToSet(backlog[t])
    BY <1>1, <1>2 DEF ToSet, NInv, Hosted
  <1>3. ASSUME NEW i \in DOMAIN threads[t], file[t][threads[t][i].fd] = t
        PROVE  host[t] = t
    <2>1. threads[t][i].fd \in Fd
      BY <1>1, ThreadTyped DEF NInv
    <2>2. QED
      BY <1>1, <1>3, <2>1 DEF NInv, Hosted
  <1>4. QED
    BY <1>2, <1>3 DEF InTouch

\* A read of the master's thread, or a wait that has run out.
LEMMA Expects ==
    ASSUME NInv, NEW t \in Watched, NEW data, NEW result, expectToRead(t, data, result)
    PROVE  /\ UNCHANGED toPeer \/ \E s \in Seq(Word) : toPeer' = [toPeer EXCEPT ![t] = s]
           /\ slow \subseteq slow' /\ slow' \subseteq Watched
           /\ \A word : toPeer[t] = <<word>> => toPeer'[t] = <<>> /\ slow' = slow
           /\ toPeer[t] = <<>> => toPeer'[t] = <<>> /\ (~Coming(t) \/ t \in slow')
           /\ result = 0 => toPeer[t] = <<>>
  <1>1. toPeer[t] \in Seq(Word) /\ t \in Peer /\ DOMAIN toPeer = Peer /\ slow \subseteq Watched
    BY Peers, PeerParts DEF NInv
  <1>2. ASSUME NEW n \in DOMAIN toPeer[t], result = IF Head(toPeer[t]) = data THEN 1 ELSE 2,
               toPeer' = [toPeer EXCEPT ![t] = SubSeq(@, n + 1, Len(@))], UNCHANGED slow
        PROVE  /\ \E s \in Seq(Word) : toPeer' = [toPeer EXCEPT ![t] = s]
               /\ result # 0 /\ toPeer[t] # <<>>
               /\ \A word : toPeer[t] = <<word>> => toPeer'[t] = <<>>
    <2>1. n \in 1..Len(toPeer[t])
      BY <1>1
    <2>2. SubSeq(toPeer[t], n + 1, Len(toPeer[t])) \in Seq(Word)
          /\ Len(SubSeq(toPeer[t], n + 1, Len(toPeer[t]))) = Len(toPeer[t]) - n
      BY <1>1, <2>1, Rest
    <2>3. toPeer'[t] = SubSeq(toPeer[t], n + 1, Len(toPeer[t]))
      BY <1>1, <1>2
    <2>4. ASSUME NEW word, toPeer[t] = <<word>>
          PROVE  toPeer'[t] = <<>>
      <3>1. Len(toPeer[t]) = 1 /\ n = 1
        BY <2>1, <2>4
      <3>2. QED
        BY <2>2, <2>3, <3>1, EmptySeq
    <2>5. toPeer[t] # <<>>
      BY <2>1
    <2>6. \E s \in Seq(Word) : toPeer' = [toPeer EXCEPT ![t] = s]
      BY <1>2, <2>2
    <2>7. result # 0
      BY <1>2
    <2>8. QED
      BY <2>4, <2>5, <2>6, <2>7
  <1>3. ASSUME result = 0, toPeer[t] = <<>>, UNCHANGED toPeer,
               \/ ~Coming(t) /\ UNCHANGED slow
               \/ Coming(t) /\ slow' = slow \cup {t}
        PROVE  /\ slow \subseteq slow' /\ slow' \subseteq Watched
               /\ toPeer'[t] = <<>> /\ (~Coming(t) \/ t \in slow')
               /\ \A word : toPeer[t] # <<word>>
    BY <1>1, <1>3
  <1>4. QED
    BY <1>1, <1>2, <1>3, SMTT(30) DEF expectToRead

LEMMA PingKept ==
    ASSUME NInv, NEW t \in Watched, Ping(t)
    PROVE  NInv'
  <1>1. /\ GoTo(t, "pong") /\ Say(t, "ping")
        /\ pings' = [pings EXCEPT ![t] = @ + 1]
        /\ UNCHANGED <<directoryVars, up, host, todo, mixed, refused, split, short>>
    BY DEF Ping
  <1>2. /\ UNCHANGED <<backlog, connfd, file, threads, closed>>
        /\ toServer' = [toServer EXCEPT ![t] = Append(@, "ping")]
        /\ pc' = [pc EXCEPT ![t] = "pong"]
    BY <1>1 DEF Say, GoTo
  <1>3. /\ t \in Peer /\ t \in Listener /\ DOMAIN pc = Peer /\ DOMAIN toServer = Peer
        /\ toServer[t] \in Seq(Said(t)) /\ "ping" \in Said(t)
        /\ pings \in [Watched -> 0..MaxPing] /\ slow \subseteq Watched
    BY Peers, PeerParts DEF NInv, Said
  <1>4. Append(toServer[t], "ping") \in Seq(Said(t))
    BY <1>3, AppendProperties
  <1>5. pings' \in [Watched -> 0..MaxPing] /\ \A w \in Watched : w # t => pings'[w] = pings[w]
    <2>1. pings[t] < MaxPing
      <3>1. pc[t] = "greet" => pings[t] = 0
        BY PeerParts DEF NInv
      <3>2. pc[t] = "greet" \/ pings[t] < MaxPing
        BY DEF Ping
      <3>3. MaxPing > 0
        BY ConnectionsAssumption
      <3>4. QED
        BY <3>1, <3>2, <3>3
    <2>2. QED
      BY <1>1, <1>3, <2>1, ConnectionsAssumption
  <1>6. /\ UNCHANGED toPeer \/ \E s \in Seq(Word) : toPeer' = [toPeer EXCEPT ![t] = s]
        /\ slow \subseteq slow' /\ slow' \subseteq Watched
    <2>1. CASE pc[t] = "rest" /\ UNCHANGED <<toPeer, slow>>
      BY <1>3, <2>1
    <2>2. CASE \E result \in 0..2 : expectToRead(t, "+OK master", result)
      BY <2>2, Expects
    <2>3. QED
      BY <2>1, <2>2 DEF Ping
  <1>7. ASSUME t \in up \ (slow' \cup mixed)
        PROVE  InTouch(t)'
    <2>1. InTouch(t) /\ pc[t] \in {"greet", "rest"}
      BY <1>6, <1>7 DEF NInv, Watching, Ping
    <2>2. Speaks(t) /\ toServer[t] = <<>> /\ toPeer'[t] = <<>>
      <3>1. CASE pc[t] = "rest" /\ UNCHANGED <<toPeer, slow>>
        BY <2>1, <3>1 DEF InTouch, Waiting, Speaks
      <3>2. ASSUME pc[t] = "greet", NEW result, expectToRead(t, "+OK master", result)
            PROVE  Speaks(t) /\ toServer[t] = <<>> /\ toPeer'[t] = <<>>
        <4>1. toPeer[t] # <<>>
          <5> SUFFICES ASSUME toPeer[t] = <<>> PROVE FALSE
            OBVIOUS
          <5>1. Coming(t)
            BY <1>6, <1>7, <2>1, <3>2, TouchHosted, TouchComing
          <5>2. QED
            BY <1>7, <3>2, <5>1, Expects
        <4>2. toPeer[t] = <<"+OK master">> /\ toServer[t] = <<>> /\ Speaks(t)
          BY <2>1, <3>2, <4>1 DEF InTouch, Waiting, Speaks
        <4>3. QED
          BY <3>2, <4>2, Expects
      <3>3. QED
        BY <3>1, <3>2 DEF Ping
    <2>3. ~Waiting(t)
      BY <2>2 DEF Waiting
    <2>4. PICK i \in DOMAIN threads[t] :
            /\ file[t][threads[t][i].fd] = t /\ threads[t][i].kept = <<>>
            /\ threads[t][i].pc = "master"
      BY <2>1, <2>3 DEF InTouch
    <2>5. toServer'[t] = <<"ping">> /\ pc'[t] = "pong"
      BY <1>2, <1>3, <2>2
    <2>6. Speaks(t)'
      BY <2>2, <2>5 DEF Speaks
    <2>7. QED
      BY <1>2, <2>4, <2>6 DEF InTouch
  <1>8. Watch(t)'
    <2>1. pc'[t] = "pong" /\ up' = up /\ mixed' = mixed
      BY <1>1, <1>2, <1>3
    <2>2. t \notin closed'
      BY <1>2 DEF NInv, Watching, Ping
    <2>3. QED
      BY <1>7, <2>1, <2>2 DEF Watch
  <1>9. pc'[t] \notin {"start", "greet"}
    BY <1>2, <1>3
  <1>10. QED
    BY <1>1, <1>2, <1>3, <1>4, <1>5, <1>6, <1>8, <1>9, PeerParts, PeerKept, ZenonT(40) DEF NInv

LEMMA PongKept ==
    ASSUME NInv, NEW t \in Watched, Pong(t)
    PROVE  NInv'
  <1>1. /\ pc[t] = "pong"
        /\ UNCHANGED <<directoryVars, up, host, todo, pings, mixed, refused, split, short>>
        /\ \/ /\ \E result \in 1..2 : expectToRead(t, "pong", result)
              /\ GoTo(t, "rest") /\ UNCHANGED <<backlog, connfd, file, threads, toServer, closed>>
           \/ /\ expectToRead(t, "pong", 0)
              /\ GoTo(t, "lost") /\ HangUp(t)
    BY DEF Pong
  <1>2. /\ t \in Peer /\ t \in Listener /\ DOMAIN pc = Peer
        /\ slow \subseteq Watched
    BY Peers, PeerParts DEF NInv
  <1>3. PICK result \in 0..2 : expectToRead(t, "pong", result)
    BY <1>1
  <1>4. /\ UNCHANGED <<backlog, connfd, file, threads, toServer>>
        /\ closed' \in {closed, closed \cup {t}}
        /\ GoTo(t, "rest") \/ GoTo(t, "lost")
    BY <1>1 DEF HangUp
  <1>5. /\ UNCHANGED toPeer \/ \E s \in Seq(Word) : toPeer' = [toPeer EXCEPT ![t] = s]
        /\ slow \subseteq slow' /\ slow' \subseteq Watched
    BY <1>3, Expects
  <1>6. Watch(t)'
    <2>1. up' = up /\ mixed' = mixed
      BY <1>1
    <2>2. CASE /\ \E r \in 1..2 : expectToRead(t, "pong", r)
               /\ GoTo(t, "rest") /\ UNCHANGED <<backlog, connfd, file, threads, toServer, closed>>
      <3>1. pc'[t] = "rest" /\ t \notin closed'
        BY <1>1, <1>2, <2>2 DEF GoTo, NInv, Watching
      <3>2. ASSUME t \in up \ (slow' \cup mixed)
            PROVE  InTouch(t)'
        <4>1. InTouch(t)
          BY <1>1, <1>5, <3>2 DEF NInv, Watching
        <4>2. toPeer[t] # <<>>
          <5> SUFFICES ASSUME toPeer[t] = <<>> PROVE FALSE
            OBVIOUS
          <5>1. Coming(t)
            BY <1>1, <1>5, <3>2, <4>1, TouchHosted, TouchComing
          <5>2. QED
            BY <1>3, <3>2, <5>1, Expects
        <4>3. ~Waiting(t) /\ (Speaks(t) => toServer[t] = <<>> /\ toPeer[t] = <<"pong">>)
          BY <1>1, <4>2 DEF Waiting, Speaks
        <4>4. PICK i \in DOMAIN threads[t] :
                /\ file[t][threads[t][i].fd] = t /\ threads[t][i].kept = <<>>
                /\ threads[t][i].pc = "master" /\ Speaks(t)
          BY <4>1, <4>3 DEF InTouch
        <4>5. toPeer'[t] = <<>> /\ toServer'[t] = <<>>
          BY <1>3, <1>4, <4>3, <4>4, Expects
        <4>6. Speaks(t)'
          BY <3>1, <4>5 DEF Speaks
        <4>7. QED
          BY <1>4, <4>4, <4>6 DEF InTouch
      <3>3. QED
        BY <2>1, <3>1, <3>2 DEF Watch
    <2>3. CASE expectToRead(t, "pong", 0) /\ GoTo(t, "lost") /\ HangUp(t)
      <3>1. pc'[t] = "lost"
        BY <1>2, <2>3 DEF GoTo
      <3>2. t \notin up \/ t \in slow' \/ t \in mixed
        <4> SUFFICES ASSUME t \in up, t \notin slow', t \notin mixed PROVE FALSE
          OBVIOUS
        <4>1. InTouch(t) /\ toPeer[t] = <<>>
          BY <1>1, <1>5, <2>3, Expects DEF NInv, Watching
        <4>2. Coming(t)
          BY <1>1, <4>1, TouchHosted, TouchComing
        <4>3. QED
          BY <2>3, <4>1, <4>2, Expects
      <3>3. QED
        BY <2>1, <3>1, <3>2 DEF Watch
    <2>4. QED
      BY <1>1, <2>2, <2>3
  <1>7. QED
    BY <1>1, <1>2, <1>4, <1>5, <1>6, PeerParts, PeerKept DEF NInv

-----------------------------------------------------------------------------
(* fetchFromMaster *)

LEMMA FetchTableKept ==
    ASSUME NInv, NEW f \in Fetcher, FetchTable(f)
    PROVE  NInv'
  <1>1. /\ pc[f] = "start"
        /\ UNCHANGED <<directoryVars, up, todo, pings, text, rbuffer, mixed, refused, split,
                       short, budgetVars>>
        /\ IF AdminPort \in up THEN Dial(f, AdminPort, "admin") /\ GoTo(f, "read")
                               ELSE GoTo(f, "ended") /\ UNCHANGED <<host, netVars>>
    BY DEF FetchTable
  <1>2. /\ f \in Peer /\ f \notin Client /\ f \notin Watched /\ AdminPort \in Listener
        /\ AdminPort \in Home(f) /\ "admin" \in Said(f)
    BY Peers DEF Home, Said
  <1>3. DirectoryTypeOK' /\ Directed'
    BY <1>1, PeerParts, DirectoryStays DEF NInv
  <1>4. CASE AdminPort \in up
    BY <1>1, <1>2, <1>3, <1>4, PeerDials
  <1>5. CASE AdminPort \notin up
    <2>1. /\ GoTo(f, "ended") /\ UNCHANGED <<directoryVars, up, host, todo, pings, mixed, refused>>
          /\ UNCHANGED <<backlog, connfd, file, threads, toServer, toPeer, closed>>
          /\ UNCHANGED <<slow, crashes, hangups>> /\ UNCHANGED <<split, short>>
      BY <1>1, <1>5 DEF netVars, budgetVars
    <2>2. QED
      BY <1>2, <2>1, PeerParts, PeerKept DEF NInv
  <1>6. QED
    BY <1>4, <1>5

LEMMA ReadTableKept ==
    ASSUME NInv, NEW f \in Fetcher, ReadTable(f)
    PROVE  NInv'
  <1>1. /\ UNCHANGED <<directoryVars, up, host, todo, pings, mixed, refused>>
        /\ UNCHANGED <<backlog, connfd, file, threads, toServer, closed>>
        /\ UNCHANGED <<slow, crashes, hangups>>
        /\ GoTo(f, "read") \/ GoTo(f, "parse")
        /\ \E s : toPeer' = [toPeer EXCEPT ![f] = s]
        /\ split' \in {split, split \cup {f}} /\ short' \in {short, short \cup {f}}
    BY DEF ReadTable, budgetVars
  <1>2. /\ f \in Peer /\ f \notin Client /\ f \notin Watched
        /\ split' \cup short' \subseteq Fetcher
    BY <1>1, Peers, PeerParts DEF NInv
  <1>3. QED
    BY <1>1, <1>2, PeerParts, PeerKept DEF NInv

LEMMA EndOfTableKept ==
    ASSUME NInv, NEW f \in Fetcher, EndOfTable(f)
    PROVE  NInv'
  <1>1. /\ UNCHANGED <<directoryVars, up, host, todo, pings, mixed, refused>>
        /\ UNCHANGED <<backlog, connfd, file, threads, toServer, toPeer, closed>>
        /\ UNCHANGED <<slow, crashes, hangups>> /\ UNCHANGED <<split, short>>
        /\ GoTo(f, "parse")
    BY DEF EndOfTable, netVars, budgetVars
  <1>2. f \in Peer /\ f \notin Watched
    BY Peers
  <1>3. QED
    BY <1>1, <1>2, PeerParts, PeerKept DEF NInv

LEMMA ParseTableKept ==
    ASSUME NInv, NEW f \in Fetcher, ParseTable(f)
    PROVE  NInv'
  <1>1. /\ UNCHANGED <<directoryVars, up, host, todo, pings, mixed, refused>>
        /\ UNCHANGED <<backlog, connfd, file, threads, toPeer>>
        /\ UNCHANGED <<slow, crashes, hangups>> /\ UNCHANGED <<split, short>>
        /\ GoTo(f, "fetched") \/ GoTo(f, "ended")
        /\ UNCHANGED toServer \/ toServer' = [toServer EXCEPT ![f] = Append(@, "quit")]
        /\ closed' = closed \cup {f}
    BY DEF ParseTable, budgetVars
  <1>2. f \in Peer /\ f \notin Client /\ f \notin Watched /\ "quit" \in Said(f)
        /\ toServer[f] \in Seq(Said(f))
    BY Peers, PeerParts DEF Said, NInv
  <1>3. UNCHANGED toServer \/ \E s \in Seq(Said(f)) : toServer' = [toServer EXCEPT ![f] = s]
    <2>1. Append(toServer[f], "quit") \in Seq(Said(f))
      BY <1>2, AppendProperties
    <2>2. QED
      BY <1>1, <2>1
  <1>4. QED
    BY <1>1, <1>2, <1>3, PeerParts, PeerKept DEF NInv

-----------------------------------------------------------------------------
(* Crashes, and the datagrams *)

LEMMA CrashKept ==
    ASSUME NInv, NEW l \in Listener, Crash(l)
    PROVE  NInv'
  <1>1. /\ up' = up \ {l}
        /\ backlog' = [backlog EXCEPT ![l] = <<>>]
        /\ file' = [file EXCEPT ![l] = [fd \in Fd |-> None]]
        /\ threads' = [threads EXCEPT ![l] = <<>>]
        /\ UNCHANGED directoryVars
        /\ UNCHANGED <<connfd, toServer, toPeer, host, todo, pings, text, rbuffer,
                       mixed, refused, split, short, slow, hangups>>
        /\ \/ /\ closed' = closed \cup Watched
              /\ pc' = [p \in Peer |-> IF p \in Watched THEN "ended" ELSE pc[p]]
           \/ l # AdminPort /\ UNCHANGED <<closed, pc>>
    BY DEF Crash
  <1>2. /\ backlog \in [Listener -> Seq(Peer)] /\ file \in [Listener -> [Fd -> Peer \cup {None}]]
        /\ threads \in [Listener -> Seq(Thread)] /\ DOMAIN pc = Peer
    BY DEF NInv, NetTypes, TypeOK, ConnectionsTypeOK
  <1>3. /\ backlog' \in [Listener -> Seq(Peer)] /\ file' \in [Listener -> [Fd -> Peer \cup {None}]]
        /\ threads' \in [Listener -> Seq(Thread)]
        /\ backlog'[l] = <<>> /\ threads'[l] = <<>> /\ \A fd \in Fd : file'[l][fd] = None
        /\ \A k \in Listener \ {l} :
             backlog'[k] = backlog[k] /\ threads'[k] = threads[k] /\ file'[k] = file[k]
    <2>1. <<>> \in Seq(Peer) /\ <<>> \in Seq(Thread)
          /\ [fd \in Fd |-> None] \in [Fd -> Peer \cup {None}]
      OBVIOUS
    <2>2. /\ backlog' \in [Listener -> Seq(Peer)] /\ backlog'[l] = <<>>
          /\ \A k \in Listener \ {l} : backlog'[k] = backlog[k]
      BY <1>1, <1>2, <2>1
    <2>3. /\ threads' \in [Listener -> Seq(Thread)] /\ threads'[l] = <<>>
          /\ \A k \in Listener \ {l} : threads'[k] = threads[k]
      BY <1>1, <1>2, <2>1
    <2>4. /\ file' \in [Listener -> [Fd -> Peer \cup {None}]]
          /\ \A fd \in Fd : file'[l][fd] = None
          /\ \A k \in Listener \ {l} : file'[k] = file[k]
      BY <1>1, <1>2, <2>1
    <2>5. QED
      BY <2>2, <2>3, <2>4
  <1>4. DOMAIN backlog'[l] = {} /\ DOMAIN threads'[l] = {}
    BY <1>3
  <1>5. /\ DOMAIN pc' = Peer
        /\ \A p \in Peer : pc'[p] = pc[p] \/ (p \in Watched /\ pc'[p] = "ended")
    BY <1>1, <1>2
  <1>6. DirectoryTypeOK' /\ Directed'
    BY <1>1, PeerParts, DirectoryStays DEF NInv
  <1>7. NetTypes'
    <2>1. ConnectionsTypeOK'
      <3>1. closed' \subseteq Peer /\ up' \subseteq Listener
        BY <1>1, PeerParts DEF NInv, Peer
      <3>2. QED
        BY <1>1, <1>3, <1>6, <3>1, ThreadParts DEF NInv, NetTypes, TypeOK, ConnectionsTypeOK
    <2>2. \A k \in Listener : threads'[k] # <<>> => connfd'[k] \in Fd
      BY <1>1, <1>3 DEF NInv, NetTypes
    <2>3. \A k \in Tablet : \A i \in DOMAIN threads'[k] : threads'[k][i].pc # "admin"
      <3>1. Tablet \subseteq Listener
        BY DEF Listener
      <3>2. QED
        BY <1>3, <1>4, <3>1 DEF NInv, NetTypes
    <2>4. \A t \in Watched : pc'[t] \in {"start", "greet"} => pings'[t] = 0
      BY <1>1, <1>5, Peers, PeerParts DEF NInv
    <2>5. QED
      BY <1>1, <1>3, <1>5, <2>1, <2>2, <2>3, <2>4 DEF NInv, NetTypes, TypeOK
  <1>8. Hosted'
    <2>1. \A p \in Peer : pc'[p] \in {"start", "asked"} => host'[p] = None
      BY <1>1, <1>5 DEF NInv, Hosted
    <2>2. \A k \in Listener :
            /\ \A i \in DOMAIN backlog'[k] : host'[backlog'[k][i]] = k
            /\ \A fd \in Fd : file'[k][fd] # None => host'[file'[k][fd]] = k
            /\ \A i \in DOMAIN threads'[k] : threads'[k][i].conn # None =>
                 host'[threads'[k][i].conn] = k
      BY <1>1, <1>3, <1>4 DEF NInv, Hosted
    <2>3. QED
      BY <1>1, <2>1, <2>2 DEF NInv, Hosted
  <1>9. Once'
    <2> SUFFICES ASSUME NEW k \in Listener
                 PROVE  /\ \A i, j \in DOMAIN backlog'[k] : backlog'[k][i] = backlog'[k][j] => i = j
                        /\ \A fd, gd \in Fd :
                             file'[k][fd] = file'[k][gd] /\ file'[k][fd] # None => fd = gd
                        /\ \A i \in DOMAIN backlog'[k], fd \in Fd : backlog'[k][i] # file'[k][fd]
      BY DEF Once
    <2>1. CASE k = l
      <3>1. DOMAIN backlog'[k] = {} /\ \A fd \in Fd : file'[k][fd] = None
        BY <1>3, <1>4, <2>1
      <3>2. QED
        BY <3>1
    <2>2. CASE k # l
      <3>1. backlog'[k] = backlog[k] /\ file'[k] = file[k]
        BY <1>3, <2>2
      <3>2. /\ \A i, j \in DOMAIN backlog[k] : backlog[k][i] = backlog[k][j] => i = j
            /\ \A fd, gd \in Fd : file[k][fd] = file[k][gd] /\ file[k][fd] # None => fd = gd
            /\ \A i \in DOMAIN backlog[k], fd \in Fd : backlog[k][i] # file[k][fd]
        BY DEF NInv, Once
      <3>3. QED
        BY <3>1, <3>2
    <2>3. QED
      BY <2>1, <2>2
  <1>10. Own'
    BY <1>1, <1>3, <1>4 DEF NInv, Own
  <1>11. Watching' /\ LossExplained'
    <2> SUFFICES ASSUME NEW t \in Watched PROVE Watch(t)'
      BY DEF Watching, LossExplained, Watch
    <2>1. Watch(t) /\ t \in Peer /\ t \in Listener /\ t # AdminPort
      BY Peers, Distinct DEF NInv, Watching, LossExplained, Watch
    <2>2. CASE pc'[t] = "ended"
      BY <2>2 DEF Watch
    <2>3. CASE pc'[t] # "ended"
      <3>1. /\ pc'[t] = pc[t] /\ (t \in closed' => t \in closed)
        BY <1>1, <1>5, <2>1, <2>3
      <3>2. ASSUME t \in up', InTouch(t)
            PROVE  InTouch(t)'
        <4>1. t # l
          BY <1>1, <3>2
        <4>2. backlog'[t] = backlog[t] /\ threads'[t] = threads[t] /\ file'[t] = file[t]
          BY <1>3, <2>1, <4>1
        <4>3. QED
          BY <1>1, <3>1, <3>2, <4>2, TouchStays
      <3>3. QED
        BY <1>1, <2>1, <3>1, <3>2 DEF Watch
    <2>4. QED
      BY <2>2, <2>3
  <1>12. NamedAccepts'
    BY <1>1 DEF NInv, NamedAccepts
  <1>13. QED
    BY <1>6, <1>7, <1>8, <1>9, <1>10, <1>11, <1>12 DEF NInv

\* Only the datagrams change.
LEMMA DatagramsKept ==
    ASSUME NInv, DirectoryTypeOK', Directed',
           UNCHANGED <<up, netVars, peerVars, mixed, refused, split, short, budgetVars>>
    PROVE  NInv'
  <1>1. /\ UNCHANGED <<up, mixed, refused, split, short>>
        /\ UNCHANGED <<backlog, connfd, file, threads, toServer, toPeer, closed>>
        /\ UNCHANGED <<pc, host, todo, pings, text, rbuffer>>
        /\ UNCHANGED <<slow, crashes, hangups>>
    BY DEF netVars, peerVars, budgetVars
  <1>2. NetTypes'
    BY <1>1 DEF NInv, NetTypes, TypeOK, ConnectionsTypeOK
  <1>3. Hosted' /\ Once' /\ Own'
    BY <1>1, PlacesStay DEF NInv
  <1>4. Watching' /\ LossExplained' /\ NamedAccepts'
    <2>1. \A t \in Watched : InTouch(t)' = InTouch(t)
      BY <1>1 DEF InTouch, Waiting, Speaks
    <2>2. QED
      BY <1>1, <2>1 DEF NInv, Watching, LossExplained, NamedAccepts
  <1>5. QED
    BY <1>2, <1>3, <1>4 DEF NInv

LEMMA TypeKept ==
    ASSUME NInv, NEW c \in Console, Type(c)
    PROVE  DirectoryTypeOK' /\ Directed'
  <1>1. DirectoryTypeOK /\ Directed
    BY PeerParts DEF NInv
  <1>2. typed' \in [Console -> 0..MaxTyped] /\ UNCHANGED answers
    BY <1>1, DirectoryAssumption DEF Type, DirectoryTypeOK
  <1>3. c \notin Client
    BY ConnectionsAssumption
  <1>4. PICK m \in Message : Send(c, m)
    BY RowTyped DEF Type
  <1>5. QED
    BY <1>1, <1>2, <1>3, <1>4, SendKept

\* An answer is taken from those for its sender.
LEMMA PrintKept ==
    ASSUME NInv, NEW c \in Console, PrintAnswer(c)
    PROVE  DirectoryTypeOK' /\ Directed'
  <1>1. /\ DirectoryTypeOK /\ Directed
        /\ answers \in [Client \cup Console -> Seq(Tablet \cup {Nobody})]
    BY PeerParts DEF NInv, DirectoryTypeOK
  <1>2. /\ answers[c] # <<>> /\ answers' = [answers EXCEPT ![c] = Tail(@)]
        /\ UNCHANGED <<queries, typed>>
    BY DEF PrintAnswer
  <1>3. answers[c] \in Seq(Tablet \cup {Nobody})
    BY <1>1
  <1>4. Tail(answers[c]) \in Seq(Tablet \cup {Nobody})
    BY <1>2, <1>3, HeadTailProperties
  <1>5. /\ answers' \in [Client \cup Console -> Seq(Tablet \cup {Nobody})]
        /\ \A d \in Client : answers'[d] = answers[d]
    BY <1>1, <1>2, <1>4, ConnectionsAssumption
  <1>6. DirectoryTypeOK'
    BY <1>1, <1>2, <1>5 DEF DirectoryTypeOK
  <1>7. Directed'
    BY <1>1, <1>2, <1>5 DEF Directed
  <1>8. QED
    BY <1>6, <1>7

LEMMA HandleKept ==
    ASSUME NInv, handleMessage
    PROVE  DirectoryTypeOK' /\ Directed'
  <1> DEFINE D == [src : Client \cup Console, msg : Message]
             T == Tablet \cup {Nobody}
             q == Head(queries)
  <1>1. /\ DirectoryTypeOK /\ Directed
        /\ answers \in [Client \cup Console -> Seq(T)] /\ queries \in Seq(D)
    BY PeerParts DEF NInv, DirectoryTypeOK
  <1>2. /\ queries # <<>> /\ queries' = Tail(queries) /\ UNCHANGED typed
        /\ UNCHANGED answers \/ (q.msg.type = "query" /\ \E t \in Named(q.msg.key) : handleQuery(q, t))
    BY DEF handleMessage
  <1>3. q \in D /\ 1 \in DOMAIN queries /\ q = queries[1]
    <2> HIDE DEF D, q
    <2>1. Len(queries) \in Nat \ {0} /\ \A i \in 1..Len(queries) : queries[i] \in D
      BY <1>1, <1>2, EmptySeq
    <2> USE DEF q
    <2>2. q = queries[1] /\ 1 \in 1..Len(queries)
      BY <2>1
    <2>3. QED
      BY <1>1, <2>1, <2>2
  <1> HIDE DEF q
  <1>4. q.src \in Client \cup Console /\ q.msg \in Message /\ q.msg.key \in Chars
    BY <1>3 DEF Message
  <1>5. q.src \in Client => q.msg.key = row[q.src]
    <2>1. q.src \in Client => q.msg = [type |-> "query", key |-> row[q.src]]
      BY <1>1, <1>3 DEF Directed
    <2>2. QED
      BY <2>1
  <1>6. /\ answers' \in [Client \cup Console -> Seq(T)]
        /\ \A d \in Client : \A i \in DOMAIN answers'[d] : answers'[d][i] \in Named(row[d])
    <2>1. CASE UNCHANGED answers
      BY <1>1, <2>1 DEF Directed
    <2>2. ASSUME NEW t \in Named(q.msg.key), handleQuery(q, t)
          PROVE  /\ answers' \in [Client \cup Console -> Seq(T)]
                 /\ \A d \in Client : \A i \in DOMAIN answers'[d] : answers'[d][i] \in Named(row[d])
      <3>1. t \in T
        BY <1>4, NamedSome
      <3>2. answers' = [answers EXCEPT ![q.src] = Append(@, t)]
        BY <2>2 DEF handleQuery
      <3>3. answers[q.src] \in Seq(T)
        BY <1>1, <1>4
      <3>4. /\ Append(answers[q.src], t) \in Seq(T)
            /\ \A i \in DOMAIN Append(answers[q.src], t) :
                 \/ Append(answers[q.src], t)[i] = t
                 \/ i \in DOMAIN answers[q.src] /\ Append(answers[q.src], t)[i] = answers[q.src][i]
        BY <3>1, <3>3, AppendProperties
      <3>5. /\ answers' \in [Client \cup Console -> Seq(T)]
            /\ answers'[q.src] = Append(answers[q.src], t)
            /\ \A d \in Client : d # q.src => answers'[d] = answers[d]
        BY <1>1, <1>4, <3>2, <3>4
      <3>6. ASSUME NEW d \in Client, NEW i \in DOMAIN answers'[d]
            PROVE  answers'[d][i] \in Named(row[d])
        <4>1. CASE d # q.src
          BY <1>1, <3>5, <3>6, <4>1 DEF Directed
        <4>2. CASE d = q.src
          <5>1. answers'[d] = Append(answers[q.src], t) /\ t \in Named(row[d])
            BY <1>5, <2>2, <3>5, <4>2
          <5>2. CASE answers'[d][i] = t
            BY <5>1, <5>2
          <5>3. CASE i \in DOMAIN answers[d] /\ answers'[d][i] = answers[d][i]
            BY <1>1, <5>3 DEF Directed
          <5>4. QED
            BY <3>4, <3>6, <4>2, <5>1, <5>2, <5>3
        <4>3. QED
          BY <4>1, <4>2
      <3>7. QED
        BY <3>5, <3>6
    <2>3. QED
      BY <1>2, <2>1, <2>2
  <1>7. queries' \in Seq(D) /\ \A i \in DOMAIN queries' : i + 1 \in DOMAIN queries /\ queries'[i] = queries[i + 1]
    BY <1>1, <1>2, HeadTailProperties
  <1>8. DirectoryTypeOK'
    BY <1>1, <1>2, <1>6, <1>7 DEF DirectoryTypeOK
  <1>9. Directed'
    BY <1>1, <1>6, <1>7 DEF Directed
  <1>10. QED
    BY <1>8, <1>9

-----------------------------------------------------------------------------
(* The whole *)

LEMMA InitHolds ==
    ASSUME Init
    PROVE  NInv
  <1>1. PICK party \in Parties :
          /\ DirectoryInit(Console \ party)
          /\ pc = [p \in Peer |-> IF p \in party THEN "start" ELSE "ended"]
    BY DEF Init, ConnectionsInit
  <1>2. /\ up = Listener
        /\ backlog = [l \in Listener |-> <<>>]
        /\ connfd = [l \in Listener |-> 0]
        /\ file = [l \in Listener |-> [fd \in Fd |-> None]]
        /\ threads = [l \in Listener |-> <<>>]
        /\ toServer = [p \in Peer |-> <<>>] /\ toPeer = [p \in Peer |-> <<>>]
        /\ closed = {}
        /\ host = [p \in Peer |-> None]
        /\ todo = [c \in Client |-> task[c]]
        /\ pings = [t \in Watched |-> 0]
        /\ mixed = {} /\ refused = {} /\ slow = {} /\ split = {} /\ short = {}
    BY DEF Init, ConnectionsInit
  <1>3. DirectoryTypeOK /\ Directed
    <2>1. /\ queries = <<>>
          /\ answers = [c \in Client \cup Console |-> <<>>]
          /\ typed = [c \in Console |-> IF c \in Console \ party THEN MaxTyped ELSE 0]
      BY <1>1 DEF DirectoryInit
    <2>2. DirectoryTypeOK
      BY <2>1, DirectoryAssumption DEF DirectoryTypeOK
    <2>3. \A c \in Client : answers[c] = <<>>
      BY <2>1
    <2>4. Directed
      BY <2>1, <2>3 DEF Directed
    <2>5. QED
      BY <2>2, <2>4
  <1>4. \A l \in Listener : /\ backlog[l] = <<>> /\ threads[l] = <<>>
                            /\ DOMAIN backlog[l] = {} /\ DOMAIN threads[l] = {}
                            /\ \A fd \in Fd : file[l][fd] = None
    BY <1>2
  <1>5. NetTypes
    <2>1. threads \in [Listener -> Seq(Thread)]
      BY <1>2
    <2>2. ConnectionsTypeOK
      <3>1. /\ backlog \in [Listener -> Seq(Peer)] /\ connfd \in [Listener -> Fd \cup {0}]
            /\ file \in [Listener -> [Fd -> Peer \cup {None}]]
            /\ host \in [Peer -> Listener \cup {None}]
        BY <1>2
      <3>2. pings \in [Watched -> 0..MaxPing]
        BY <1>2, ConnectionsAssumption
      <3>3. QED
        BY <1>2, <1>3, <1>4, <3>1, <3>2 DEF ConnectionsTypeOK
    <2>3. DOMAIN toServer = Peer /\ DOMAIN toPeer = Peer /\ DOMAIN pc = Peer
      BY <1>1, <1>2
    <2>4. (\A p \in Peer : toServer[p] \in Seq(Said(p)))
          /\ \A p \in Client \cup Watched : toPeer[p] \in Seq(Word)
      <3>1. \A p \in Peer : toServer[p] = <<>> /\ toPeer[p] = <<>>
        BY <1>2
      <3>2. \A p \in Client \cup Watched : p \in Peer
        BY Peers
      <3>3. (\A p \in Peer : <<>> \in Seq(Said(p))) /\ <<>> \in Seq(Word)
        OBVIOUS
      <3>4. QED
        BY <3>1, <3>2, <3>3
    <2>5. todo \in [Client -> Seq({"get", "put", "bytes", "quit"})]
      BY <1>2, ConnectionsAssumption
    <2>6. /\ \A t \in Watched : pc[t] \in {"start", "greet"} => pings[t] = 0
          /\ \A l \in Listener : threads[l] # <<>> => connfd[l] \in Fd
      BY <1>2, <1>4
    <2>7. \A l \in Tablet : \A i \in DOMAIN threads[l] : threads[l][i].pc # "admin"
      BY <1>4 DEF Listener
    <2>8. QED
      BY <2>1, <2>2, <2>3, <2>4, <2>5, <2>6, <2>7 DEF NetTypes, TypeOK
  <1>6. Hosted
    BY <1>2, <1>4 DEF Hosted
  <1>7. Once
    BY <1>4 DEF Once
  <1>8. Own
    BY <1>4 DEF Own
  <1>9. Watching /\ LossExplained /\ NamedAccepts
    <2>1. \A t \in Watched : pc[t] \in {"start", "ended"} /\ toPeer[t] = <<>>
      BY <1>1, <1>2, Peers
    <2>2. QED
      BY <1>2, <2>1 DEF Watching, LossExplained, NamedAccepts
  <1>10. QED
    BY <1>3, <1>5, <1>6, <1>7, <1>8, <1>9 DEF NInv

LEMMA ProcessKept ==
    ASSUME NInv, NEW l \in Listener, Process(l)
    PROVE  NInv'
  <1>1. Rests
    BY DEF Process, Rests
  <1>2. /\ NetTypes /\ Directed /\ Hosted /\ Once /\ Own /\ Watching
        /\ NamedAccepts /\ LossExplained
    BY DEF NInv
  <1>3. UNCHANGED directoryVars /\ UNCHANGED <<pc, refused, up, slow>>
    BY <1>1 DEF Rests, peerVars, budgetVars
  <1>4. Directed' /\ NamedAccepts'
    BY <1>2, <1>3, PeerParts, DirectoryStays DEF NamedAccepts
  <1>5. ASSUME mixed \subseteq mixed'
        PROVE  LossExplained'
    BY <1>2, <1>3, <1>5 DEF LossExplained
  <1>6. CASE Accept(l)
    <2>1. mixed' = mixed
      BY <1>6 DEF Accept
    <2>2. QED
      BY <1>1, <1>2, <1>4, <1>5, <1>6, <2>1, AcceptTyped, AcceptPlaces, AcceptWatching DEF NInv
  <1>7. ASSUME NEW i \in DOMAIN threads[l], Start(l, i)
        PROVE  NInv'
    <2>1. mixed \subseteq mixed'
      BY <1>7 DEF Start
    <2>2. QED
      BY <1>1, <1>2, <1>4, <1>5, <1>7, <2>1, StartTyped, StartPlaces, StartWatching DEF NInv
  <1>8. ASSUME NEW i \in DOMAIN threads[l], Serve(l, i), ~Start(l, i)
        PROVE  NInv'
    <2>1. Serves(l, i) /\ UNCHANGED <<backlog, connfd, closed, mixed>>
      BY <1>2, <1>8, ThreadServes
    <2>2. threads[l][i].pc # "ended"
      BY <1>8, Serving
    <2>3. NetTypes'
      BY <1>1, <1>2, <2>1, ServesTyped
    <2>4. Hosted' /\ Once' /\ Own'
      BY <1>2, <1>3, <1>1, <2>1, <2>2, ServesHosted, ServesOnce, ServesOwn DEF Rests, peerVars
    <2>5. Watching'
      BY <1>1, <1>2, <1>8, ServesWatching
    <2>6. QED
      BY <1>4, <1>5, <2>1, <2>3, <2>4, <2>5 DEF NInv
  <1>9. QED
    BY <1>6, <1>7, <1>8 DEF Process

LEMMA Stutters ==
    ASSUME NInv, UNCHANGED vars
    PROVE  NInv'
  <1>1. /\ UNCHANGED directoryVars
        /\ UNCHANGED <<up, netVars, peerVars, mixed, refused, split, short, budgetVars>>
    BY DEF vars
  <1>2. QED
    BY <1>1, PeerParts, DirectoryStays, DatagramsKept DEF NInv

\* Every state that is reached satisfies the invariant.
THEOREM NetworkInvariant == Spec => []NInv
  <1>1. Init => NInv
    BY InitHolds
  <1>2. NInv /\ [Next]_vars => NInv'
    <2> SUFFICES ASSUME NInv, [Next]_vars PROVE NInv'
      OBVIOUS
    <2>1. CASE Answer
      BY <2>1, HandleKept, DatagramsKept DEF Answer
    <2>2. ASSUME NEW c \in Console, AtConsole(c) PROVE NInv'
      BY <2>2, TypeKept, PrintKept, DatagramsKept DEF AtConsole
    <2>3. ASSUME NEW l \in Listener, Process(l) PROVE NInv'
      BY <2>3, ProcessKept
    <2>4. ASSUME NEW c \in Client, Query(c) \/ Reach(c) \/ Hear(c) \/ Leave(c) \/ Killed(c)
          PROVE  NInv'
      BY <2>4, QueryKept, ReachKept, HearKept, GoneKept
    <2>5. ASSUME NEW t \in Watched, serverFunc(t) \/ Ping(t) \/ Pong(t) PROVE NInv'
      BY <2>5, ServerFuncKept, PingKept, PongKept
    <2>6. ASSUME NEW f \in Fetcher,
                 FetchTable(f) \/ ReadTable(f) \/ EndOfTable(f) \/ ParseTable(f)
          PROVE  NInv'
      BY <2>6, FetchTableKept, ReadTableKept, EndOfTableKept, ParseTableKept
    <2>7. ASSUME NEW l \in Listener, Crash(l) PROVE NInv'
      BY <2>7, CrashKept
    <2>8. CASE UNCHANGED vars
      BY <2>8, Stutters
    <2>9. QED
      BY <2>1, <2>2, <2>3, <2>4, <2>5, <2>6, <2>7, <2>8 DEF Next
  <1>3. QED
    BY <1>1, <1>2, PTL DEF Spec

\* The state of the connections has its types.
THEOREM NetworkTypeCorrect == Spec => []TypeOK
  <1>1. NInv => TypeOK
    BY DEF NInv, NetTypes
  <1>2. QED
    BY <1>1, NetworkInvariant, PTL

\* No client that asks the master is sent to a server that refuses its keys,
\* for any ranges, also where they overlap (handleQuery, populateKey).
THEOREM ClientsSentRight == Spec => []NamedAccepts
  <1>1. NInv => NamedAccepts
    BY DEF NInv
  <1>2. QED
    BY <1>1, NetworkInvariant, PTL

\* The master loses no server but for one of the three reasons, for any number
\* of servers, clients and connections (serverFunc, expectToRead).
THEOREM LossesExplained == Spec => []LossExplained
  <1>1. NInv => LossExplained
    BY DEF NInv
  <1>2. QED
    BY <1>1, NetworkInvariant, PTL

-----------------------------------------------------------------------------
(* The table that a process fetches *)

\* Nothing has happened yet that may tear the table of process f.
Sound(f) == AdminPort \in up \ mixed /\ f \notin short /\ rbuffer[f][BufSize + 1] = NUL

Byte == Word \cup {"-ERR range"} \cup ToSet(Archive) \cup {NUL, "?"}

\* The table was asked for; what was read of it and what is on its way is all of it.
Asked(f) == toServer[f] = <<"admin">> /\ toPeer[f] = <<>> /\ text[f] = <<>>
Arriving(f) == toServer[f] = <<>> /\ text[f] \in Seq(Byte) /\ text[f] \o toPeer[f] = Archive

\* The connection waits for the master, or one thread has it.
Linked(f) ==
    \/ Asked(f) /\ f \in ToSet(backlog[AdminPort])
    \/ \E i \in DOMAIN threads[AdminPort] :
         /\ file[AdminPort][threads[AdminPort][i].fd] = f /\ threads[AdminPort][i].kept = <<>>
         /\ \/ threads[AdminPort][i].pc \in {"new", "admin"} /\ Asked(f)
            \/ threads[AdminPort][i].pc = "admin" /\ Arriving(f)

\* What is in the buffer from before is no end of a marker, and the copy of the
\* store has cleared it since the first read.
Stale(f) ==
    \A j \in 1..BufSize : /\ rbuffer[f][j] # Marker[2]
                          /\ copy[f] = "storage" /\ text[f] # <<>> => rbuffer[f][j] = NUL

Fetch(f) ==
    /\ pc[f] \in {"start", "read", "parse"} => f \notin closed
    /\ pc[f] = "start" => text[f] = <<>> /\ toPeer[f] = <<>>
    /\ pc[f] \in {"start", "read"} /\ Sound(f) => Stale(f)
    /\ pc[f] = "read" /\ Sound(f) => Linked(f)
    /\ pc[f] = "parse" /\ Sound(f) => text[f] = Table
    /\ pc[f] = "ended" /\ Sound(f) => f \notin closed

FetchTypes ==
    /\ DOMAIN text = Fetcher /\ DOMAIN rbuffer = Fetcher
    /\ \A f \in Fetcher : /\ toPeer[f] \in Seq(Byte) /\ rbuffer[f] \in Seq(Byte)
                          /\ Len(rbuffer[f]) = BufSize + 1

FInv == FetchTypes /\ \A f \in Fetcher : Fetch(f)

\* The archive is text, and ends with the only marker in it.
LEMMA ArchiveIs ==
    /\ Len(Table) \in Nat /\ Table \in Seq(Byte) /\ Archive \in Seq(Byte)
    /\ Len(Archive) = Len(Table) + 2
    /\ \A i \in 1..Len(Table) : Archive[i] = Table[i]
    /\ Archive[Len(Table) + 1] = Marker[1] /\ Archive[Len(Table) + 2] = Marker[2]
    /\ \A i \in 1..Len(Archive) :
         Archive[i] # NUL /\ (Archive[i] = Marker[2] => i = Len(Table) + 2)
    /\ Marker[2] # NUL /\ Marker[2] # "?" /\ NUL \in Byte
  <1> DEFINE S == ToSet(Table) \cup ToSet(Marker)
             N == Len(Table)
  <1>1. Marker \in Seq(ToSet(Marker)) /\ Len(Marker) = 2 /\ Marker[1] # Marker[2] /\ Marker[2] # "?"
        /\ Marker[1] \in ToSet(Marker) /\ Marker[2] \in ToSet(Marker)
    <2>1. Len(Marker) = 2 /\ DOMAIN Marker = 1..2 /\ Marker[1] = "EO" /\ Marker[2] = "B"
      BY DEF Marker
    <2>2. "EO" \in ToSet(Marker) /\ "B" \in ToSet(Marker)
      BY <2>1 DEF ToSet
    <2>3. Marker \in Seq(ToSet(Marker))
      <3> DEFINE M == ToSet(Marker)
      <3> HIDE DEF M
      <3>1. \A A : "EO" \in A /\ "B" \in A => <<"EO", "B">> \in Seq(A)
        OBVIOUS
      <3>2. QED
        BY <2>2, <3>1 DEF M, Marker
    <2>4. QED
      BY <2>1, <2>2, <2>3
  <1>2. Table \in Seq(S) /\ Marker \in Seq(S)
    BY <1>1, TableAssumption, SeqMonotonic
  <1>3. /\ Archive \in Seq(S) /\ Len(Archive) = N + 2 /\ N \in Nat
        /\ \A i \in 1..(N + 2) : Archive[i] = IF i <= N THEN Table[i] ELSE Marker[i - N]
    <2> HIDE DEF S
    <2>1. /\ Archive \in Seq(S) /\ Len(Archive) = Len(Table) + Len(Marker) /\ Len(Table) \in Nat
          /\ \A i \in 1..(Len(Table) + Len(Marker)) :
               Archive[i] = IF i <= Len(Table) THEN Table[i] ELSE Marker[i - Len(Table)]
      BY <1>2, ConcatProperties, LenProperties DEF Archive
    <2>2. QED
      BY <1>1, <2>1
  <1>4. \A i \in 1..N : Archive[i] = Table[i] /\ Table[i] \in ToSet(Table) /\ Archive[i] # Marker[2]
    <2> SUFFICES ASSUME NEW i \in 1..N
                 PROVE  Archive[i] = Table[i] /\ Table[i] \in ToSet(Table) /\ Archive[i] # Marker[2]
      OBVIOUS
    <2>1. Archive[i] = Table[i]
      BY <1>3
    <2>2. Table[i] \in ToSet(Table)
      BY TableAssumption
    <2>3. QED
      BY <1>1, <2>1, <2>2, TableAssumption
  <1>5. Archive[N + 1] = Marker[1] /\ Archive[N + 2] = Marker[2]
    <2>1. /\ N + 1 \in 1..(N + 2) /\ ~(N + 1 <= N) /\ N + 1 - N = 1
          /\ N + 2 \in 1..(N + 2) /\ ~(N + 2 <= N) /\ N + 2 - N = 2
      BY <1>3
    <2>2. QED
      BY <1>3, <2>1
  <1>6. \A i \in 1..Len(Archive) : Archive[i] \in ToSet(Archive)
    BY <1>3 DEF ToSet
  <1>7. \A i \in 1..Len(Archive) : Archive[i] = Marker[2] => i = N + 2
    <2> SUFFICES ASSUME NEW i \in 1..(N + 2), Archive[i] = Marker[2] PROVE i = N + 2
      BY <1>3
    <2>1. i \notin 1..N
      BY <1>4
    <2>2. i # N + 1
      BY <1>1, <1>5
    <2>3. QED
      BY <1>3, <2>1, <2>2
  <1>8. Marker[2] \in ToSet(Archive)
    <2>1. N + 2 \in 1..Len(Archive)
      BY <1>3
    <2>2. QED
      BY <1>5, <1>6, <2>1
  <1>9. Archive \in Seq(Byte) /\ Table \in Seq(Byte)
    <2>1. \A i \in 1..Len(Archive) : Archive[i] \in Byte
      BY <1>6 DEF Byte
    <2>2. \A i \in 1..N : Table[i] \in Byte
      BY <1>3, <1>4, <2>1
    <2>3. DOMAIN Archive = 1..Len(Archive) /\ Archive \in Seq(S) /\ Table \in Seq(S) /\ DOMAIN Table = 1..N
      BY <1>2, <1>3, LenProperties
    <2>4. \A T, B : \A u \in Seq(T) : (\A i \in 1..Len(u) : u[i] \in B) => u \in Seq(B)
      OBVIOUS
    <2> HIDE DEF S, N
    <2>5. QED
      BY <2>1, <2>2, <2>3, <2>4 DEF N
  <1>10. NUL \in Byte
    BY DEF Byte
  <1>11. QED
    BY <1>1, <1>3, <1>4, <1>5, <1>6, <1>7, <1>8, <1>9, <1>10, TableAssumption

\* Where there is at most one place for the end of a marker.
LEMMA MarkerIs ==
    ASSUME NEW s \in Seq(Byte), NEW q \in Nat, q >= 2,
           \A i \in 1..Len(s) : s[i] = Marker[2] => i = q
    PROVE  MarkerAt(s) = IF q <= Len(s) /\ s[q - 1] = Marker[1] /\ s[q] = Marker[2] THEN q - 1 ELSE 0
  <1> DEFINE at == {i \in 1..(Len(s) - 1) : SubSeq(s, i, i + 1) = Marker}
  <1>1. Len(s) \in Nat
    OBVIOUS
  <1>2. ASSUME NEW i \in 1..(Len(s) - 1)
        PROVE  SubSeq(s, i, i + 1) = Marker <=> s[i] = Marker[1] /\ s[i + 1] = Marker[2]
    <2>1. \A j \in i..(i + 1) : s[j] \in Byte
      BY <1>1
    <2>2. /\ SubSeq(s, i, i + 1) \in Seq(Byte) /\ Len(SubSeq(s, i, i + 1)) = 2
          /\ SubSeq(s, i, i + 1)[1] = s[i] /\ SubSeq(s, i, i + 1)[2] = s[i + 1]
      <3>1. /\ SubSeq(s, i, i + 1) \in Seq(Byte)
            /\ Len(SubSeq(s, i, i + 1)) = IF i <= i + 1 THEN i + 1 - i + 1 ELSE 0
            /\ \A j \in 1..(i + 1 - i + 1) : SubSeq(s, i, i + 1)[j] = s[i + j - 1]
        BY <2>1, SubSeqProperties
      <3>2. i + 1 - i + 1 = 2 /\ i + 1 - 1 = i /\ i + 2 - 1 = i + 1
        OBVIOUS
      <3>3. 1 \in 1..(i + 1 - i + 1) /\ 2 \in 1..(i + 1 - i + 1)
        BY <3>2
      <3>4. QED
        BY <3>1, <3>2, <3>3
    <2> DEFINE u == SubSeq(s, i, i + 1)
    <2> HIDE DEF u
    <2>3. \A v \in Seq(Byte) : Len(v) = 2 => v = <<v[1], v[2]>>
      OBVIOUS
    <2>4. u = <<s[i], s[i + 1]>>
      BY <2>2, <2>3 DEF u
    <2>5. QED
      BY <2>4 DEF Marker, u
  <1>3. \A i \in at : i = q - 1 /\ q <= Len(s) /\ s[q - 1] = Marker[1] /\ s[q] = Marker[2]
    <2> SUFFICES ASSUME NEW i \in 1..(Len(s) - 1), SubSeq(s, i, i + 1) = Marker
                 PROVE  i = q - 1 /\ q <= Len(s) /\ s[q - 1] = Marker[1] /\ s[q] = Marker[2]
      OBVIOUS
    <2>1. s[i] = Marker[1] /\ s[i + 1] = Marker[2] /\ i + 1 \in 1..Len(s)
      BY <1>1, <1>2
    <2>2. i + 1 = q
      BY <2>1
    <2>3. QED
      BY <1>1, <2>1, <2>2
  <1>4. CASE q <= Len(s) /\ s[q - 1] = Marker[1] /\ s[q] = Marker[2]
    <2>1. q - 1 \in 1..(Len(s) - 1) /\ q - 1 + 1 = q
      BY <1>1, <1>4
    <2>2. q - 1 \in at
      BY <1>2, <1>4, <2>1
    <2>3. at = {q - 1}
      BY <1>3, <2>2
    <2>4. Min({q - 1}) = q - 1
      BY DEF Min
    <2>5. QED
      BY <1>4, <2>3, <2>4 DEF MarkerAt
  <1>5. CASE ~(q <= Len(s) /\ s[q - 1] = Marker[1] /\ s[q] = Marker[2])
    <2>1. at = {}
      BY <1>3, <1>5
    <2>2. QED
      BY <1>5, <2>1 DEF MarkerAt
  <1>6. QED
    BY <1>4, <1>5

\* The buffer after a read of n pieces.
LEMMA FilledIs ==
    ASSUME FetchTypes, NEW f \in Fetcher, NEW n \in DOMAIN toPeer[f], n <= BufSize
    PROVE  /\ Filled(f, n) \in Seq(Byte) /\ Len(Filled(f, n)) = BufSize + 1
           /\ \A j \in 1..(BufSize + 1) :
                Filled(f, n)[j] = IF j <= n THEN toPeer[f][j] ELSE rbuffer[f][j]
           /\ SubSeq(toPeer[f], 1, n) \in Seq(Byte) /\ Len(SubSeq(toPeer[f], 1, n)) = n
           /\ \A j \in 1..n : SubSeq(toPeer[f], 1, n)[j] = toPeer[f][j] /\ toPeer[f][j] \in Byte
           /\ n \in 1..Len(toPeer[f])
           /\ SubSeq(toPeer[f], n + 1, Len(toPeer[f])) \in Seq(Byte)
           /\ Len(SubSeq(toPeer[f], n + 1, Len(toPeer[f]))) = Len(toPeer[f]) - n
           /\ \A j \in 1..(Len(toPeer[f]) - n) :
                SubSeq(toPeer[f], n + 1, Len(toPeer[f]))[j] = toPeer[f][n + j]
  <1> DEFINE p == toPeer[f]
             r == rbuffer[f]
             u == SubSeq(p, 1, n)
             v == SubSeq(r, n + 1, BufSize + 1)
             w == SubSeq(p, n + 1, Len(p))
  <1>1. /\ p \in Seq(Byte) /\ r \in Seq(Byte) /\ Len(r) = BufSize + 1 /\ BufSize \in Nat
        /\ n \in 1..Len(p) /\ n \in Nat /\ Len(p) \in Nat
    BY ConnectionsAssumption DEF FetchTypes
  <1>2. (\A j \in 1..Len(p) : p[j] \in Byte) /\ \A j \in 1..(BufSize + 1) : r[j] \in Byte
    BY <1>1
  <1> HIDE DEF p, r
  <1>3. u \in Seq(Byte) /\ Len(u) = n /\ \A j \in 1..n : u[j] = p[j] /\ p[j] \in Byte
    <2>1. \A j \in 1..n : p[j] \in Byte
      BY <1>1, <1>2
    <2>2. /\ u \in Seq(Byte) /\ Len(u) = IF 1 <= n THEN n - 1 + 1 ELSE 0
          /\ \A j \in 1..(n - 1 + 1) : u[j] = p[1 + j - 1]
      BY <1>1, <2>1, SubSeqProperties
    <2> HIDE DEF u
    <2>3. \A j \in 1..n : 1 + j - 1 = j
      BY <1>1
    <2>4. QED
      BY <1>1, <2>1, <2>2, <2>3
  <1>4. v \in Seq(Byte) /\ Len(v) = BufSize + 1 - n
        /\ \A j \in 1..(BufSize + 1 - n) : v[j] = r[n + j]
    <2> DEFINE k == n + 1
               e == BufSize + 1
    <2>1. k \in Int /\ e \in Int /\ k <= e /\ \A j \in k..e : r[j] \in Byte
      BY <1>1, <1>2
    <2>2. v = SubSeq(r, k, e) /\ e - k + 1 = BufSize + 1 - n
          /\ \A j \in 1..(BufSize + 1 - n) : k + j - 1 = n + j
      BY <1>1
    <2> HIDE DEF k, e, v
    <2>3. /\ SubSeq(r, k, e) \in Seq(Byte) /\ Len(SubSeq(r, k, e)) = e - k + 1
          /\ \A j \in 1..(e - k + 1) : SubSeq(r, k, e)[j] = r[k + j - 1]
      BY <2>1, SubSeqProperties
    <2>4. v \in Seq(Byte) /\ Len(v) = BufSize + 1 - n
      BY <2>2, <2>3
    <2>5. ASSUME NEW j \in 1..(BufSize + 1 - n)
          PROVE  v[j] = r[n + j]
      <3>1. k + j - 1 = n + j /\ j \in 1..(e - k + 1)
        BY <2>2
      <3>2. v[j] = r[k + j - 1]
        BY <2>2, <2>3, <3>1
      <3>3. QED
        BY <3>1, <3>2
    <2>6. QED
      BY <2>4, <2>5
  <1>5. w \in Seq(Byte) /\ Len(w) = Len(p) - n
        /\ \A j \in 1..(Len(p) - n) : w[j] = p[n + j]
    <2>1. \A j \in (n + 1)..Len(p) : p[j] \in Byte
      BY <1>1, <1>2
    <2>2. /\ w \in Seq(Byte)
          /\ Len(w) = IF n + 1 <= Len(p) THEN Len(p) - (n + 1) + 1 ELSE 0
          /\ \A j \in 1..(Len(p) - (n + 1) + 1) : w[j] = p[n + 1 + j - 1]
      <3>1. n + 1 \in Int /\ Len(p) \in Int
        BY <1>1
      <3>2. QED
        BY <2>1, <3>1, SubSeqProperties
    <2> HIDE DEF w
    <2>3. /\ Len(p) - (n + 1) + 1 = Len(p) - n /\ (~(n + 1 <= Len(p)) => Len(p) - n = 0)
          /\ \A j \in 1..(Len(p) - n) : n + 1 + j - 1 = n + j
      BY <1>1
    <2>4. QED
      BY <2>2, <2>3
  <1>6. /\ u \o v \in Seq(Byte) /\ Len(u \o v) = Len(u) + Len(v)
        /\ \A j \in 1..(Len(u) + Len(v)) : (u \o v)[j] = IF j <= Len(u) THEN u[j] ELSE v[j - Len(u)]
    <2> HIDE DEF u, v
    <2>1. QED
      BY <1>3, <1>4, ConcatProperties
  <1> DEFINE a == u \o v
  <1>7. Filled(f, n) = a
    BY DEF Filled, p, r
  <1> HIDE DEF u, v, w
  <1>8. a \in Seq(Byte) /\ Len(a) = BufSize + 1
    BY <1>1, <1>3, <1>4, <1>6
  <1>9. ASSUME NEW j \in 1..(BufSize + 1)
        PROVE  a[j] = IF j <= n THEN p[j] ELSE r[j]
    <2>1. j \in 1..(Len(u) + Len(v)) /\ Len(u) = n
      BY <1>1, <1>3, <1>4
    <2>2. CASE j <= n
      BY <1>1, <1>3, <1>6, <2>1, <2>2
    <2>3. CASE ~(j <= n)
      <3>1. j - n \in 1..(BufSize + 1 - n) /\ n + (j - n) = j
        BY <1>1, <2>3
      <3>2. a[j] = v[j - n]
        BY <1>6, <2>1, <2>3
      <3>3. QED
        BY <1>4, <2>3, <3>1, <3>2
    <2>4. QED
      BY <2>2, <2>3
  <1> HIDE DEF a
  <1>10. QED
    BY <1>1, <1>3, <1>5, <1>7, <1>8, <1>9 DEF u, w, p, r

\* What a read hands on: the pieces that came, and what the buffer held behind them.
LEMMA BufferIs ==
    ASSUME FetchTypes, NEW f \in Fetcher, NEW n \in DOMAIN toPeer[f], n <= BufSize,
           rbuffer[f][BufSize + 1] = NUL, \A j \in 1..n : toPeer[f][j] # NUL
    PROVE  \E m \in n..BufSize :
              /\ Buffer(f, n) \in Seq(Byte) /\ Len(Buffer(f, n)) = m
              /\ \A j \in 1..m : Buffer(f, n)[j] = IF j <= n THEN toPeer[f][j] ELSE rbuffer[f][j]
              /\ n = BufSize \/ (\A j \in 1..BufSize : rbuffer[f][j] = NUL) => m = n
  <1> DEFINE a == Filled(f, n)
             all == Append(a, NUL)
             D == {i \in DOMAIN all : all[i] = NUL}
             x == Min(D)
             b == SubSeq(all, 1, x - 1)
  <1>1. /\ a \in Seq(Byte) /\ Len(a) = BufSize + 1 /\ n \in Nat \ {0} /\ BufSize \in Nat
        /\ \A j \in 1..(BufSize + 1) : a[j] = IF j <= n THEN toPeer[f][j] ELSE rbuffer[f][j]
    BY FilledIs, ConnectionsAssumption DEF FetchTypes
  <1> HIDE DEF a
  <1>2. /\ all \in Seq(Byte) /\ Len(all) = BufSize + 2 /\ all[BufSize + 2] = NUL
        /\ \A j \in 1..(BufSize + 1) : all[j] = a[j]
    <2>1. /\ all \in Seq(Byte) /\ Len(all) = Len(a) + 1 /\ all[Len(a) + 1] = NUL
          /\ \A j \in 1..Len(a) : all[j] = a[j]
      BY <1>1, ArchiveIs, AppendProperties
    <2>2. Len(a) + 1 = BufSize + 2
      BY <1>1
    <2>3. QED
      BY <1>1, <2>1, <2>2
  <1> HIDE DEF all
  <1>3. DOMAIN all = 1..(BufSize + 2)
    BY <1>2, LenProperties
  <1>4. BufSize + 1 \in D /\ D \subseteq Nat
    <2>1. BufSize + 1 \in 1..(BufSize + 1) /\ BufSize + 1 \in 1..(BufSize + 2) /\ ~(BufSize + 1 <= n)
      BY <1>1
    <2>2. all[BufSize + 1] = NUL
      BY <1>1, <1>2, <2>1
    <2>3. D \subseteq 1..(BufSize + 2)
      BY <1>3
    <2>4. QED
      BY <1>3, <2>1, <2>2, <2>3
  <1>5. \E i \in D : \A k \in D : i <= k
    <2> HIDE DEF D
    <2>1. D # {}
      BY <1>4
    <2>2. QED
      BY <1>4, <2>1, Least
  <1>6. x \in D /\ \A k \in D : x <= k
    <2> HIDE DEF D
    <2>1. QED
      BY <1>5 DEF Min
  <1>7. x \in Nat /\ x <= BufSize + 1 /\ all[x] = NUL /\ x \in 1..(BufSize + 2)
    BY <1>3, <1>4, <1>6
  <1> HIDE DEF x
  <1>8. \A j \in 1..(x - 1) : /\ all[j] # NUL /\ all[j] \in Byte
                              /\ all[j] = IF j <= n THEN toPeer[f][j] ELSE rbuffer[f][j]
    <2> SUFFICES ASSUME NEW j \in 1..(x - 1)
                 PROVE  /\ all[j] # NUL /\ all[j] \in Byte
                        /\ all[j] = IF j <= n THEN toPeer[f][j] ELSE rbuffer[f][j]
      OBVIOUS
    <2>1. j \in 1..(BufSize + 1) /\ j \in DOMAIN all /\ ~(x <= j)
      BY <1>1, <1>3, <1>7
    <2>2. j \notin D
      BY <1>6, <2>1
    <2>3. all[j] \in Byte
      BY <1>2, <2>1
    <2>4. QED
      BY <1>1, <1>2, <2>1, <2>2, <2>3
  <1>9. n < x
    <2> SUFFICES ASSUME x <= n PROVE FALSE
      BY <1>1, <1>7
    <2>1. x \in 1..n /\ x \in 1..(BufSize + 1)
      BY <1>1, <1>7
    <2>2. QED
      BY <1>1, <1>2, <1>7, <2>1
  <1>10. b \in Seq(Byte) /\ Len(b) = x - 1 /\ \A j \in 1..(x - 1) : b[j] = all[j]
    <2>1. x - 1 \in Int /\ 1 \in Int /\ 1 <= x - 1 /\ x - 1 - 1 + 1 = x - 1
      BY <1>1, <1>7, <1>9
    <2>2. /\ b \in Seq(Byte) /\ Len(b) = IF 1 <= x - 1 THEN x - 1 - 1 + 1 ELSE 0
          /\ \A j \in 1..(x - 1 - 1 + 1) : b[j] = all[1 + j - 1]
      BY <1>8, <2>1, SubSeqProperties
    <2> HIDE DEF b
    <2>3. \A j \in 1..(x - 1) : 1 + j - 1 = j
      BY <1>7
    <2>4. QED
      BY <2>1, <2>2, <2>3
  <1>11. Buffer(f, n) = b
    BY DEF Buffer, x, all, a
  <1>12. x - 1 \in n..BufSize
    BY <1>1, <1>7, <1>9
  <1>13. n = BufSize \/ (\A j \in 1..BufSize : rbuffer[f][j] = NUL) => x - 1 = n
    <2>1. CASE n = BufSize
      BY <1>12, <2>1, <1>1
    <2>2. ASSUME \A j \in 1..BufSize : rbuffer[f][j] = NUL, x - 1 # n
          PROVE  FALSE
      <3>1. n + 1 \in 1..(x - 1) /\ n + 1 \in 1..BufSize /\ ~(n + 1 <= n)
        BY <1>1, <1>7, <1>12, <2>2
      <3>2. QED
        BY <1>8, <2>2, <3>1
    <2>3. QED
      BY <2>1, <2>2
  <1> HIDE DEF b
  <1>14. \A j \in 1..(x - 1) : b[j] = IF j <= n THEN toPeer[f][j] ELSE rbuffer[f][j]
    BY <1>8, <1>10
  <1>15. QED
    BY <1>10, <1>11, <1>12, <1>13, <1>14

\* What a read makes of the table, if nothing has torn it: the marker is found when
\* all has come, in its place, and a read that filled the buffer, or one of a
\* buffer that had been cleared, adds what came and nothing else.
LEMMA ReadIs ==
    ASSUME FetchTypes, NEW f \in Fetcher, NEW n \in DOMAIN toPeer[f], n <= BufSize,
           Sound(f), Stale(f), Arriving(f)
    PROVE  LET all == text[f] \o Buffer(f, n)
               k == Len(text[f])
               N == Len(Table)
           IN /\ MarkerAt(all) = IF k + n = N + 2 THEN N + 1 ELSE 0
              /\ k + n = N + 2 => TextBefore(all, N + 1) = Table
              /\ n = BufSize \/ (copy[f] = "storage" /\ text[f] # <<>>) =>
                   /\ all \in Seq(Byte)
                   /\ all \o SubSeq(toPeer[f], n + 1, Len(toPeer[f])) = Archive
              /\ \A j \in 1..n : toPeer[f][j] = Marker[2] => k + n = N + 2
  <1> DEFINE p == toPeer[f]
             r == rbuffer[f]
             t == text[f]
             b == Buffer(f, n)
             all == t \o b
             rest == SubSeq(p, n + 1, Len(p))
             k == Len(t)
             N == Len(Table)
  <1>1. /\ N \in Nat /\ Archive \in Seq(Byte) /\ Len(Archive) = N + 2
        /\ \A i \in 1..N : Archive[i] = Table[i]
        /\ Archive[N + 1] = Marker[1] /\ Archive[N + 2] = Marker[2]
        /\ \A i \in 1..(N + 2) :
             Archive[i] # NUL /\ (Archive[i] = Marker[2] => i = N + 2)
    BY ArchiveIs
  <1>2. /\ p \in Seq(Byte) /\ t \in Seq(Byte) /\ n \in 1..Len(p) /\ Len(p) \in Nat /\ k \in Nat
        /\ BufSize \in Nat /\ r[BufSize + 1] = NUL /\ t \o p = Archive
    BY ConnectionsAssumption, LenProperties DEF FetchTypes, Arriving, Sound
  <1>2a. r[BufSize + 1] = NUL /\ (\A j \in 1..n : p[j] # NUL) =>
           \E m \in n..BufSize :
             /\ b \in Seq(Byte) /\ Len(b) = m
             /\ \A j \in 1..m : b[j] = IF j <= n THEN p[j] ELSE r[j]
             /\ n = BufSize \/ (\A j \in 1..BufSize : r[j] = NUL) => m = n
    BY BufferIs
  <1> HIDE DEF p, t, r, k, N
  <1>3. k + Len(p) = N + 2 /\ (\A j \in 1..k : t[j] = Archive[j])
        /\ \A j \in 1..Len(p) : p[j] = Archive[k + j]
    <2>1. /\ Len(Archive) = k + Len(p)
          /\ \A i \in 1..(k + Len(p)) : Archive[i] = IF i <= k THEN t[i] ELSE p[i - k]
      BY <1>2, ConcatProperties DEF k
    <2>2. \A j \in 1..k : j \in 1..(k + Len(p)) /\ j <= k
      BY <1>2
    <2>3. ASSUME NEW j \in 1..Len(p)
          PROVE  p[j] = Archive[k + j]
      <3> DEFINE i == k + j
      <3>1. i \in 1..(k + Len(p)) /\ ~(i <= k) /\ i - k = j
        BY <1>2
      <3> HIDE DEF i
      <3>2. Archive[i] = p[i - k]
        BY <2>1, <3>1
      <3>3. QED
        BY <3>1, <3>2 DEF i
    <2>4. QED
      BY <1>1, <2>1, <2>2, <2>3
  <1>4. \A j \in 1..n : /\ p[j] = Archive[k + j] /\ p[j] # NUL /\ k + j \in 1..(N + 2)
                        /\ p[j] = Marker[2] => k + n = N + 2
    <2> SUFFICES ASSUME NEW j \in 1..n
                 PROVE  /\ p[j] = Archive[k + j] /\ p[j] # NUL /\ k + j \in 1..(N + 2)
                        /\ p[j] = Marker[2] => k + n = N + 2
      OBVIOUS
    <2>1. j \in 1..Len(p) /\ k + j \in 1..(N + 2) /\ k + n <= N + 2
      BY <1>2, <1>3
    <2>2. p[j] = Archive[k + j] /\ Archive[k + j] # NUL
      BY <1>1, <1>3, <2>1
    <2>3. p[j] = Marker[2] => k + j = N + 2
      BY <1>1, <2>1, <2>2
    <2>4. QED
      BY <1>1, <1>2, <2>1, <2>2, <2>3
  <1>5. PICK m \in n..BufSize :
          /\ b \in Seq(Byte) /\ Len(b) = m
          /\ \A j \in 1..m : b[j] = IF j <= n THEN p[j] ELSE r[j]
          /\ n = BufSize \/ (\A j \in 1..BufSize : r[j] = NUL) => m = n
    BY <1>2, <1>2a, <1>4
  <1>6. m \in Nat /\ n <= m /\ m <= BufSize /\ n \in Nat \ {0}
    BY <1>2, <1>5
  <1> HIDE DEF b
  <1>7. /\ all \in Seq(Byte) /\ Len(all) = k + m
        /\ \A i \in 1..(k + m) : all[i] = IF i <= k THEN t[i] ELSE b[i - k]
    BY <1>2, <1>5, ConcatProperties DEF k
  <1> HIDE DEF all
  <1>8. /\ k + n <= k + m /\ k + n <= N + 2 /\ k + n \in Nat
        /\ \A i \in 1..(k + n) : all[i] = Archive[i]
        /\ \A i \in (k + n + 1)..(k + m) : all[i] # Marker[2]
    <2>1. k + n <= k + m /\ k + n <= N + 2 /\ k + n \in Nat
      <3>1. /\ n \in Nat /\ m \in Nat /\ k \in Nat /\ N \in Nat /\ Len(p) \in Nat
            /\ n <= m /\ n <= Len(p) /\ k + Len(p) = N + 2
        BY <1>1, <1>2, <1>3, <1>6
      <3>2. QED
        BY <3>1
    <2>2. ASSUME NEW i \in 1..(k + n)
          PROVE  all[i] = Archive[i]
      <3>1. i \in 1..(k + m)
        BY <1>2, <1>6
      <3>2. CASE i <= k
        <4>1. i \in 1..k
          BY <1>2, <3>2
        <4>2. all[i] = t[i]
          BY <1>7, <3>1, <3>2
        <4>3. QED
          BY <1>3, <4>1, <4>2
      <3>3. CASE ~(i <= k)
        <4>1. i - k \in 1..m /\ i - k <= n /\ i - k \in 1..n /\ k + (i - k) = i
          BY <1>2, <1>6, <3>3
        <4>2. all[i] = b[i - k] /\ b[i - k] = p[i - k]
          BY <1>5, <1>7, <3>1, <3>3, <4>1
        <4>3. p[i - k] = Archive[k + (i - k)]
          BY <1>4, <4>1
        <4>4. QED
          BY <4>1, <4>2, <4>3
      <3>4. QED
        BY <3>2, <3>3
    <2>3. ASSUME NEW i \in (k + n + 1)..(k + m)
          PROVE  all[i] # Marker[2]
      <3>1. i \in 1..(k + m) /\ ~(i <= k) /\ i - k \in 1..m /\ ~(i - k <= n) /\ i - k \in 1..BufSize
        BY <1>2, <1>6
      <3>2. all[i] = b[i - k] /\ b[i - k] = r[i - k]
        BY <1>5, <1>7, <3>1
      <3>3. r[i - k] # Marker[2]
        BY <3>1 DEF Stale, r
      <3>4. QED
        BY <3>2, <3>3
    <2>4. QED
      BY <2>1, <2>2, <2>3
  <1>9. \A i \in 1..Len(all) : all[i] = Marker[2] => i = N + 2
    <2> SUFFICES ASSUME NEW i \in 1..(k + m), all[i] = Marker[2] PROVE i = N + 2
      BY <1>7
    <2>1. i \notin (k + n + 1)..(k + m)
      BY <1>8
    <2>2. i \in 1..(k + n) /\ i \in 1..(N + 2)
      BY <1>1, <1>2, <1>6, <1>8, <2>1
    <2>3. QED
      BY <1>1, <1>8, <2>2
  <1>10. MarkerAt(all) = IF N + 2 <= k + m /\ all[N + 1] = Marker[1] /\ all[N + 2] = Marker[2]
                         THEN N + 1 ELSE 0
    <2> DEFINE q == N + 2
    <2>1. q \in Nat /\ q >= 2 /\ q - 1 = N + 1
      BY <1>1
    <2>2. \A i \in 1..Len(all) : all[i] = Marker[2] => i = q
      BY <1>9
    <2> HIDE DEF q
    <2>3. MarkerAt(all) =
            IF q <= Len(all) /\ all[q - 1] = Marker[1] /\ all[q] = Marker[2] THEN q - 1 ELSE 0
      BY <1>7, <2>1, <2>2, MarkerIs
    <2>4. QED
      BY <1>7, <2>1, <2>3 DEF q
  <1>11. MarkerAt(all) = IF k + n = N + 2 THEN N + 1 ELSE 0
    <2>1. CASE k + n = N + 2
      <3>1. N + 1 \in 1..(k + n) /\ N + 2 \in 1..(k + n) /\ N + 2 <= k + m
        BY <1>1, <1>8, <2>1
      <3>2. all[N + 1] = Marker[1] /\ all[N + 2] = Marker[2]
        BY <1>1, <1>8, <3>1
      <3>3. QED
        BY <1>10, <2>1, <3>1, <3>2
    <2>2. CASE k + n # N + 2
      <3>1. N \in Nat /\ k + n \in Nat /\ k + n <= N + 2 /\ k + m \in Nat
        BY <1>1, <1>2, <1>6, <1>8
      <3>2. N + 2 <= k + m => N + 2 \in (k + n + 1)..(k + m)
        BY <2>2, <3>1
      <3>3. QED
        BY <1>8, <1>10, <2>2, <3>2
    <2>3. QED
      BY <2>1, <2>2
  <1>12. ASSUME k + n = N + 2
         PROVE  TextBefore(all, N + 1) = Table
    <2>1. ASSUME NEW i \in 1..N
          PROVE  i \in 1..(k + n) /\ i \in 1..Len(all) /\ all[i] = Table[i]
      <3>1. i \in 1..(k + n)
        BY <1>1, <1>12
      <3>2. i \in 1..Len(all)
        BY <1>2, <1>6, <1>7, <1>8, <3>1
      <3>3. all[i] = Archive[i]
        BY <1>8, <3>1
      <3>4. QED
        BY <1>1, <3>1, <3>2, <3>3
    <2>2. \A i \in 1..N : all[i] \in Byte
      BY <1>7, <2>1
    <2> DEFINE u == SubSeq(all, 1, N)
    <2>3. /\ u \in Seq(Byte) /\ Len(u) = IF 1 <= N THEN N - 1 + 1 ELSE 0
          /\ \A i \in 1..(N - 1 + 1) : u[i] = all[1 + i - 1]
      BY <1>1, <2>2, SubSeqProperties
    <2> HIDE DEF u
    <2>4. N - 1 + 1 = N /\ (~(1 <= N) => N = 0) /\ N + 1 - 1 = N /\ \A i \in 1..N : 1 + i - 1 = i
      BY <1>1
    <2>5. Len(u) = N /\ \A i \in 1..N : u[i] = Table[i]
      BY <2>1, <2>3, <2>4
    <2>6. u = Table
      <3>1. Table \in Seq(Byte) /\ Len(Table) = N
        BY ArchiveIs DEF N
      <3>2. QED
        BY <2>3, <2>5, <3>1, SeqEqual
    <2> DEFINE e == N + 1
    <2>7. e - 1 = N
      BY <1>1
    <2> HIDE DEF e
    <2>8. TextBefore(all, e) = Table
      BY <2>6, <2>7 DEF TextBefore, u
    <2>9. QED
      BY <2>8 DEF e
  <1>13. ASSUME n = BufSize \/ (copy[f] = "storage" /\ text[f] # <<>>)
         PROVE  all \o rest = Archive
    <2>1. m = n
      <3>1. CASE n = BufSize
        BY <1>5, <3>1
      <3>2. CASE copy[f] = "storage" /\ text[f] # <<>>
        <4>1. \A j \in 1..BufSize : r[j] = NUL
          BY <3>2 DEF Stale, r
        <4>2. QED
          BY <1>5, <4>1
      <3>3. QED
        BY <1>13, <3>1, <3>2
    <2>2. /\ rest \in Seq(Byte) /\ Len(rest) = Len(p) - n
          /\ \A j \in 1..(Len(p) - n) : rest[j] = p[n + j]
      BY FilledIs DEF p
    <2> HIDE DEF rest
    <2>3. /\ all \o rest \in Seq(Byte) /\ Len(all \o rest) = Len(all) + Len(rest)
          /\ \A i \in 1..(Len(all) + Len(rest)) :
               (all \o rest)[i] = IF i <= Len(all) THEN all[i] ELSE rest[i - Len(all)]
      BY <1>7, <2>2, ConcatProperties
    <2>4. Len(all) = k + n /\ Len(all) + Len(rest) = N + 2
      <3>1. Len(all) = k + n
        BY <1>7, <2>1
      <3>2. QED
        BY <1>2, <1>3, <1>6, <2>2, <3>1
    <2>5. ASSUME NEW i \in 1..(N + 2)
          PROVE  (all \o rest)[i] = Archive[i]
      <3>1. CASE i <= k + n
        <4>1. i \in 1..(k + n)
          BY <1>8, <3>1
        <4>2. QED
          BY <1>8, <2>3, <2>4, <3>1, <4>1
      <3>2. CASE ~(i <= k + n)
        <4> DEFINE d == i - (k + n)
        <4>1. /\ Len(p) - n = N + 2 - (k + n) /\ Len(p) \in Nat /\ n \in Nat /\ k \in Nat
              /\ i \in Int /\ i <= N + 2 /\ N \in Nat
          <5>1. k + Len(p) = N + 2 /\ Len(p) \in Nat /\ n \in Nat /\ k \in Nat /\ N \in Nat
            BY <1>1, <1>2, <1>3, <1>6
          <5>2. QED
            BY <5>1
        <4> DEFINE e == Len(p) - n
        <4>2. e \in Int /\ Len(p) = n + e /\ e = N + 2 - (k + n)
          BY <4>1
        <4> HIDE DEF e
        <4>3. d \in Int /\ 1 <= d /\ d <= e /\ k + (n + d) = i
          BY <3>2, <4>1, <4>2
        <4>4. d = i - Len(all)
          BY <2>4
        <4> HIDE DEF d
        <4>5. d \in 1..e /\ n + d \in 1..Len(p)
          BY <4>1, <4>2, <4>3
        <4>6. d \in 1..(Len(p) - n)
          BY <4>5 DEF e
        <4>7. (all \o rest)[i] = rest[d]
          BY <2>3, <2>4, <3>2, <4>4
        <4>8. rest[d] = p[n + d]
          BY <2>2, <4>6
        <4>9. p[n + d] = Archive[k + (n + d)]
          BY <1>3, <4>5
        <4>10. QED
          BY <4>3, <4>7, <4>8, <4>9
      <3>3. QED
        BY <3>1, <3>2
    <2> DEFINE whole == all \o rest
    <2> HIDE DEF whole
    <2>6. whole \in Seq(Byte) /\ Len(whole) = Len(Archive) /\ \A i \in 1..Len(whole) : whole[i] = Archive[i]
      BY <1>1, <2>3, <2>4, <2>5 DEF whole
    <2>7. whole = Archive
      BY <1>1, <2>6, SeqEqual
    <2>8. QED
      BY <2>7 DEF whole
  <1>14. QED
    BY <1>4, <1>7, <1>11, <1>12, <1>13 DEF all, b, p, r, t, k, N, rest

-----------------------------------------------------------------------------
(* The two sides of a fetch stay in touch *)

LEMMA FetchStays ==
    ASSUME NEW f, Fetch(f), pc'[f] = pc[f], text'[f] = text[f], rbuffer'[f] = rbuffer[f],
           f \in closed' => f \in closed, pc[f] = "start" => toPeer'[f] = toPeer[f],
           Sound(f)' => Sound(f),
           pc[f] = "read" /\ f \notin closed /\ Sound(f) /\ Sound(f)' /\ Linked(f) => Linked(f)'
    PROVE  Fetch(f)'
  <1>1. Stale(f) => Stale(f)'
    BY DEF Stale
  <1>2. QED
    BY <1>1 DEF Fetch

LEMMA LinkedStays ==
    ASSUME NEW f, Linked(f), text'[f] = text[f], toServer'[f] = toServer[f], toPeer'[f] = toPeer[f],
           f \in ToSet(backlog[AdminPort]) => f \in ToSet(backlog'[AdminPort]),
           \A i \in DOMAIN threads[AdminPort] :
              file[AdminPort][threads[AdminPort][i].fd] = f /\ threads[AdminPort][i].pc # "ended" =>
                /\ i \in DOMAIN threads'[AdminPort]
                /\ threads'[AdminPort][i] = threads[AdminPort][i]
                /\ file'[AdminPort][threads[AdminPort][i].fd] = f
    PROVE  Linked(f)'
  <1>1. (Asked(f) => Asked(f)') /\ (Arriving(f) => Arriving(f)')
    BY DEF Asked, Arriving
  <1>2. CASE Asked(f) /\ f \in ToSet(backlog[AdminPort])
    <2>1. f \in ToSet(backlog'[AdminPort])
      BY <1>2
    <2>2. QED
      BY <1>1, <1>2, <2>1 DEF Linked
  <1>3. ASSUME NEW i \in DOMAIN threads[AdminPort],
               file[AdminPort][threads[AdminPort][i].fd] = f, threads[AdminPort][i].kept = <<>>,
               \/ threads[AdminPort][i].pc \in {"new", "admin"} /\ Asked(f)
               \/ threads[AdminPort][i].pc = "admin" /\ Arriving(f)
        PROVE  Linked(f)'
    <2>1. threads[AdminPort][i].pc # "ended"
      BY <1>3
    <2>2. /\ i \in DOMAIN threads'[AdminPort] /\ threads'[AdminPort][i] = threads[AdminPort][i]
          /\ file'[AdminPort][threads[AdminPort][i].fd] = f
      BY <1>3, <2>1
    <2>3. /\ file'[AdminPort][threads'[AdminPort][i].fd] = f /\ threads'[AdminPort][i].kept = <<>>
          /\ \/ threads'[AdminPort][i].pc \in {"new", "admin"} /\ Asked(f)'
             \/ threads'[AdminPort][i].pc = "admin" /\ Arriving(f)'
      BY <1>1, <1>3, <2>2
    <2>4. QED
      BY <2>2, <2>3 DEF Linked
  <1>4. QED
    BY <1>2, <1>3 DEF Linked

LEMMA FetcherPeer ==
    ASSUME NEW f \in Fetcher
    PROVE  /\ f \in Peer /\ f # None /\ f \notin Client /\ f \notin Watched
           /\ AdminPort \in Listener /\ AdminPort # None
           /\ Hosted => host[f] \in {AdminPort, None}
  BY Peers, Distinct DEF Hosted, Home

\* Every line that a thread sends is of the master's archive or one of the words.
LEMMA TellsBytes ==
    ASSUME NEW l \in Listener, NEW i \in DOMAIN threads[l], Serve(l, i), ~Start(l, i)
    PROVE  UNCHANGED toPeer \/ \E lines \in Seq(Byte) : Reply(l, i, lines)
  <1>1. /\ \A w \in Word \cup {"-ERR range"} : <<w>> \in Seq(Byte)
        /\ <<>> \in Seq(Byte) /\ Archive \in Seq(Byte)
    <2>1. Word \cup {"-ERR range"} \subseteq Byte
      BY DEF Byte
    <2>2. \A w \in Byte : <<w>> \in Seq(Byte)
      OBVIOUS
    <2>3. \A S : S \subseteq Byte => \A w \in S : <<w>> \in Seq(Byte)
      BY <2>2
    <2>4. <<>> \in Seq(Byte) /\ Archive \in Seq(Byte)
      BY ArchiveIs
    <2>5. QED
      BY <2>1, <2>3, <2>4, Zenon
  <1>2. {"+OK hi", "+OK master", "-ERR first", "pong", "+OK quit", "+OK shoot", "-ERR command",
         "cell", "+OK put"} = Word
    BY DEF Word
  <1>3. CASE connectionFunc(l, i)
    <2>1. ASSUME NEW command, parseFirstCommand(l, i, command)
          PROVE  \E lines \in Seq(Byte) : Reply(l, i, lines)
      <3>1. Reply(l, i, <<"+OK hi">>) \/ Reply(l, i, <<"+OK master">>) \/ Reply(l, i, <<"-ERR first">>)
        BY <2>1 DEF parseFirstCommand
      <3>2. QED
        BY <1>1, <1>2, <3>1
    <2>2. QED
      BY <1>3, <2>1 DEF connectionFunc, Keep
  <1>4. CASE masterThreadFunc(l, i)
    <2>1. <<"pong">> \in Seq(Byte)
      BY <1>1, <1>2
    <2>2. ASSUME NEW lines, lines \in {<<"pong">>, <<>>} PROVE lines \in Seq(Byte)
      BY <1>1, <2>1, <2>2
    <2>3. QED
      BY <1>4, <2>2 DEF masterThreadFunc, Keep, EndOfFile
  <1>5. CASE clientThreadFunc(l, i)
    <2>1. ASSUME NEW command, NEW rest, parseClientCommand(l, i, command, rest)
          PROVE  \E lines \in Seq(Byte) : Reply(l, i, lines)
      <3>1. \E w \in {"+OK quit", "+OK shoot", "-ERR command", "cell", "-ERR range"} :
              Reply(l, i, <<w>>)
        BY <2>1 DEF parseClientCommand
      <3>2. QED
        BY <1>1, <1>2, <3>1
    <2>2. QED
      BY <1>5, <2>1 DEF clientThreadFunc, Keep, EndOfFile
  <1>6. CASE readDataToBuffer(l, i)
    <2>1. <<"+OK put">> \in Seq(Byte)
      BY <1>1, <1>2
    <2>2. QED
      BY <1>6, <2>1 DEF readDataToBuffer
  <1>7. CASE adminFunc(l, i)
    <2>1. <<"+OK quit">> \in Seq(Byte)
      BY <1>1, <1>2
    <2>2. \A lines : lines \in {Archive, <<>>} => lines \in Seq(Byte)
      BY <1>1
    <2>3. QED
      BY <1>7, <2>1, <2>2 DEF adminFunc, EndOfFile
  <1>8. QED
    BY <1>3, <1>4, <1>5, <1>6, <1>7 DEF Serve

\* The thread that took the connection of process f sends the whole archive.
LEMMA AdminAnswers ==
    ASSUME NetTypes, NEW f \in Fetcher, f \notin closed,
           NEW i \in DOMAIN threads[AdminPort],
           Serve(AdminPort, i), ~Start(AdminPort, i), threads[AdminPort][i].kept = <<>>,
           threads[AdminPort][i].conn = f, file[AdminPort][threads[AdminPort][i].fd] = f,
           threads[AdminPort][i].pc = "admin", Asked(f) \/ Arriving(f),
           text'[f] = text[f]
    PROVE  Linked(f)'
  <1> DEFINE th == threads[AdminPort][i]
  <1>1. f \in Peer /\ f # None /\ AdminPort \in Listener
    BY FetcherPeer
  <1>2. ~Eof(AdminPort, i) /\ ~EndOfFile(AdminPort, i)
    BY <1>1 DEF Eof, EndOfFile
  <1>3. adminFunc(AdminPort, i)
    BY DEF Serve, connectionFunc, masterThreadFunc, clientThreadFunc, readDataToBuffer
  <1>4. PICK n \in Ready(AdminPort, i) :
          /\ Reads(AdminPort, i, n)
          /\ LET command == Command(th.kept, Chunk(AdminPort, i, n))
             IN IF command = "quit"
                THEN /\ Become(AdminPort, i, "ended", <<>>) /\ Close(AdminPort, i)
                     /\ Reply(AdminPort, i, <<"+OK quit">>)
                ELSE /\ Become(AdminPort, i, "admin", Tail(Chunk(AdminPort, i, n)))
                     /\ UNCHANGED file
                     /\ Reply(AdminPort, i, IF command = "admin" THEN Archive ELSE <<>>)
    BY <1>2, <1>3 DEF adminFunc
  <1>5. toServer[f] # <<>>
    <2>1. n \in 1..Len(toServer[f])
      BY <1>1, ChunkTyped
    <2>2. QED
      BY <2>1
  <1>6. toServer[f] = <<"admin">> /\ toPeer[f] = <<>> /\ text[f] = <<>>
    BY <1>5 DEF Asked, Arriving
  <1>7. /\ Command(th.kept, Chunk(AdminPort, i, n)) = "admin"
        /\ Tail(Chunk(AdminPort, i, n)) = <<>>
        /\ SubSeq(toServer[f], n + 1, Len(toServer[f])) = <<>>
    BY <1>1, <1>6, OneWord
  <1>8. Become(AdminPort, i, "admin", <<>>) /\ UNCHANGED file /\ Reply(AdminPort, i, Archive)
    BY <1>4, <1>7
  <1>9. toServer'[f] = <<>>
    <2>1. toServer' = [toServer EXCEPT ![f] = SubSeq(@, n + 1, Len(@))]
      BY <1>4 DEF Reads
    <2>2. QED
      BY <1>1, <1>7, <2>1 DEF NetTypes
  <1>10. toPeer'[f] = Archive
    <2>1. toPeer' = [toPeer EXCEPT ![f] = @ \o Archive]
      BY <1>1, <1>8 DEF Reply
    <2>2. toPeer'[f] = <<>> \o Archive
      BY <1>1, <1>6, <2>1 DEF NetTypes
    <2>3. Archive \in Seq(Byte)
      BY ArchiveIs
    <2>4. QED
      BY <2>2, <2>3, ConcatEmptySeq
  <1>11. Arriving(f)'
    <2>1. <<>> \o Archive = Archive /\ <<>> \in Seq(Byte)
      <3>1. Archive \in Seq(Byte)
        BY ArchiveIs
      <3>2. QED
        BY <3>1, ConcatEmptySeq
    <2>2. QED
      BY <1>6, <1>9, <1>10, <2>1 DEF Arriving
  <1>12. /\ Only(AdminPort, i)
         /\ threads'[AdminPort][i].pc = "admin" /\ threads'[AdminPort][i].kept = <<>>
         /\ threads'[AdminPort][i].fd = th.fd
    <2>1. "admin" \in Live \cup {"ended"} /\ <<>> \in Seq(Line)
      BY DEF Live
    <2>2. \A to \in Live \cup {"ended"}, kept \in Seq(Line) :
            Become(AdminPort, i, to, kept) =>
              /\ Only(AdminPort, i)
              /\ threads'[AdminPort][i].pc = to /\ threads'[AdminPort][i].kept = kept
              /\ threads'[AdminPort][i].fd = th.fd
      BY <1>1, BecomeSets
    <2>3. QED
      BY <1>8, <2>1, <2>2
  <1>13. i \in DOMAIN threads'[AdminPort] /\ file'[AdminPort][threads'[AdminPort][i].fd] = f
    BY <1>1, <1>8, <1>12 DEF Only
  <1>14. QED
    BY <1>11, <1>12, <1>13 DEF Linked

LEMMA ServesFetching ==
    ASSUME NetTypes, Hosted, Once, Own, FInv, NEW l \in Listener, NEW i \in DOMAIN threads[l],
           Serve(l, i), ~Start(l, i), Rests
    PROVE  FInv'
  <1>1. Serves(l, i) /\ UNCHANGED <<backlog, connfd, closed, mixed>>
    BY ThreadServes
  <1>2. UNCHANGED <<pc, host, text, rbuffer, up, short>>
    BY DEF Rests, peerVars
  <1> DEFINE th == threads[l][i]
             c == file[l][th.fd]
  <1>3. /\ Only(l, i)
        /\ \A k \in Listener : \A fd \in Fd : k # l \/ fd # th.fd => file'[k][fd] = file[k][fd]
        /\ \A p \in Peer : p # th.conn => toServer'[p] = toServer[p]
        /\ \A p \in Peer : p # c => toPeer'[p] = toPeer[p]
    BY <1>1, ServesEffect
  <1>4. c \in Peer \cup {None} /\ th.conn \in Peer \cup {None} /\ th.fd \in Fd
        /\ th.pc \notin {"new", "ended"}
    BY ThreadTyped, Serving
  <1>5. (c # None => host[c] = l) /\ (th.conn # None => host[th.conn] = l)
    BY <1>4 DEF Hosted
  <1>6. FetchTypes'
    <2>1. ASSUME NEW f \in Fetcher
          PROVE  toPeer'[f] \in Seq(Byte)
      <3>1. f \in Peer /\ toPeer[f] \in Seq(Byte) /\ DOMAIN toPeer = Peer
        BY FetcherPeer DEF FInv, FetchTypes, NetTypes
      <3>2. ASSUME NEW lines \in Seq(Byte), Reply(l, i, lines)
            PROVE  toPeer'[f] \in Seq(Byte)
        <4>1. toPeer[f] \o lines \in Seq(Byte)
          BY <3>1, ConcatProperties
        <4>2. CASE f = c
          <5>1. toPeer' = [toPeer EXCEPT ![c] = @ \o lines]
            BY <3>2, <4>2, FetcherPeer DEF Reply
          <5>2. QED
            BY <3>1, <4>1, <4>2, <5>1
        <4>3. CASE f # c
          BY <1>3, <3>1, <4>3
        <4>4. QED
          BY <4>2, <4>3
      <3>3. QED
        BY <3>1, <3>2, TellsBytes
    <2>2. QED
      BY <1>2, <2>1 DEF FInv, FetchTypes
  <1>7. ASSUME NEW f \in Fetcher
        PROVE  Fetch(f)'
    <2>1. /\ f \in Peer /\ f # None /\ AdminPort \in Listener /\ AdminPort # None
          /\ host[f] \in {AdminPort, None}
      BY FetcherPeer
    <2>2. pc[f] = "start" => toPeer'[f] = toPeer[f]
      <3>1. pc[f] = "start" => host[f] = None
        BY <2>1 DEF Hosted
      <3>2. None \notin Listener
        BY Distinct
      <3>3. pc[f] = "start" => f # c
        BY <1>5, <2>1, <3>1, <3>2
      <3>4. QED
        BY <1>3, <2>1, <3>3
    <2>3. Sound(f)' => Sound(f)
      BY <1>1, <1>2 DEF Sound
    <2>4. ASSUME Sound(f), Linked(f), f \notin closed
          PROVE  Linked(f)'
      <3>1. AdminPort \in Listener \ mixed
        BY <2>1, <2>4 DEF Sound
      <3>2. ASSUME NEW j \in DOMAIN threads[AdminPort],
                   file[AdminPort][threads[AdminPort][j].fd] = f,
                   threads[AdminPort][j].pc # "ended", l # AdminPort \/ j # i
            PROVE  /\ f # c /\ f # th.conn
                   /\ j \in DOMAIN threads'[AdminPort]
                   /\ threads'[AdminPort][j] = threads[AdminPort][j]
                   /\ file'[AdminPort][threads[AdminPort][j].fd] = f
        <4>1. threads[AdminPort][j].fd \in Fd
          BY <2>1, ThreadTyped
        <4>2. CASE l # AdminPort
          <5>1. f # c /\ f # th.conn
            <6>1. host[f] = AdminPort
              BY <2>1, <3>2, <4>1 DEF Hosted
            <6>2. QED
              BY <1>5, <2>1, <4>2, <6>1
          <5>2. QED
            BY <1>3, <2>1, <3>2, <4>1, <4>2, <5>1 DEF Only
        <4>3. CASE l = AdminPort
          <5>1. j # i
            BY <3>2, <4>3
          <5>2. th.conn = c /\ threads[AdminPort][j].fd # th.fd
            BY <1>4, <3>1, <3>2, <4>3, <5>1 DEF Own
          <5>3. c # f
            BY <1>4, <2>1, <3>2, <4>1, <4>3, <5>2 DEF Once
          <5>4. QED
            BY <1>3, <2>1, <3>2, <4>1, <4>3, <5>1, <5>2, <5>3 DEF Only
        <4>4. QED
          BY <4>2, <4>3
      <3>3. ASSUME f # c, f # th.conn,
                   \A j \in DOMAIN threads[AdminPort] :
                      file[AdminPort][threads[AdminPort][j].fd] = f
                      /\ threads[AdminPort][j].pc # "ended" => l # AdminPort \/ j # i
            PROVE  Linked(f)'
        <4>1. toServer'[f] = toServer[f] /\ toPeer'[f] = toPeer[f] /\ text'[f] = text[f]
          BY <1>2, <1>3, <2>1, <3>3
        <4>2. \A j \in DOMAIN threads[AdminPort] :
                file[AdminPort][threads[AdminPort][j].fd] = f /\ threads[AdminPort][j].pc # "ended" =>
                  /\ j \in DOMAIN threads'[AdminPort]
                  /\ threads'[AdminPort][j] = threads[AdminPort][j]
                  /\ file'[AdminPort][threads[AdminPort][j].fd] = f
          BY <3>2, <3>3
        <4>3. f \in ToSet(backlog[AdminPort]) => f \in ToSet(backlog'[AdminPort])
          BY <1>1
        <4>4. QED
          BY <2>4, <4>1, <4>2, <4>3, LinkedStays
      <3>4. CASE l # AdminPort
        <4>1. l # None
          BY Distinct
        <4>2. f # c /\ f # th.conn
          BY <1>5, <2>1, <3>4, <4>1
        <4>3. QED
          BY <3>3, <3>4, <4>2
      <3>5. ASSUME l = AdminPort
            PROVE  th.conn = c
        BY <1>4, <3>1, <3>5 DEF Own
      <3>6. CASE l = AdminPort /\ c # f
        <4>1. f # c /\ f # th.conn
          BY <3>5, <3>6
        <4>2. \A j \in DOMAIN threads[AdminPort] :
                file[AdminPort][threads[AdminPort][j].fd] = f => j # i
          BY <3>6
        <4>3. QED
          BY <3>3, <4>1, <4>2
      <3>7. CASE l = AdminPort /\ c = f
        <4>1. f \notin ToSet(backlog[AdminPort])
          BY <1>4, <3>7 DEF Once, ToSet
        <4>2. PICK j \in DOMAIN threads[AdminPort] :
                /\ file[AdminPort][threads[AdminPort][j].fd] = f
                /\ threads[AdminPort][j].kept = <<>>
                /\ \/ threads[AdminPort][j].pc \in {"new", "admin"} /\ Asked(f)
                   \/ threads[AdminPort][j].pc = "admin" /\ Arriving(f)
          BY <2>4, <4>1 DEF Linked
        <4>3. j = i
          BY <3>2, <3>7, <4>2
        <4>4. i \in DOMAIN threads[AdminPort] /\ Serve(AdminPort, i) /\ ~Start(AdminPort, i)
              /\ threads[AdminPort][i].conn = f /\ threads[AdminPort][i].pc # "new"
          BY <1>4, <3>5, <3>7
        <4>5. QED
          BY <1>2, <2>4, <4>2, <4>3, <4>4, AdminAnswers
      <3>8. QED
        BY <3>4, <3>6, <3>7
    <2>5. Fetch(f) /\ pc'[f] = pc[f] /\ text'[f] = text[f] /\ rbuffer'[f] = rbuffer[f]
          /\ (f \in closed' => f \in closed)
      BY <1>1, <1>2 DEF FInv
    <2>6. QED
      BY <2>2, <2>3, <2>4, <2>5, FetchStays
  <1>8. QED
    BY <1>6, <1>7 DEF FInv

LEMMA StartFetching ==
    ASSUME NetTypes, FInv, NEW l \in Listener, NEW i \in DOMAIN threads[l], Start(l, i), Rests
    PROVE  FInv'
  <1>1. /\ Only(l, i)
        /\ threads'[l][i].pc = (IF l = AdminPort THEN "admin" ELSE "first")
        /\ threads'[l][i].fd = connfd[l] /\ threads'[l][i].kept = threads[l][i].kept
    BY StartEffect
  <1>2. UNCHANGED <<pc, host, text, rbuffer, backlog, file, toServer, toPeer, closed, up, short>>
    BY DEF Start, Rests, peerVars
  <1>3. FetchTypes'
    BY <1>2 DEF FInv, FetchTypes
  <1>4. ASSUME NEW f \in Fetcher, AdminPort \notin mixed', Linked(f)
        PROVE  Linked(f)'
    <2>1. AdminPort \in Listener
      BY FetcherPeer
    <2>2. CASE l # AdminPort
      <3>1. threads'[AdminPort] = threads[AdminPort]
        BY <1>1, <2>1, <2>2 DEF Only
      <3>2. QED
        BY <1>2, <1>4, <3>1, LinkedStays
    <2>3. CASE l = AdminPort
      <3>1. connfd[AdminPort] = threads[AdminPort][i].fd /\ threads[AdminPort][i].pc = "new"
        BY <1>4, <2>3 DEF Start
      <3>2. (Asked(f) => Asked(f)') /\ (Arriving(f) => Arriving(f)')
        BY <1>2 DEF Asked, Arriving
      <3>3. CASE Asked(f) /\ f \in ToSet(backlog[AdminPort])
        BY <1>2, <3>2, <3>3 DEF Linked
      <3>4. ASSUME NEW j \in DOMAIN threads[AdminPort],
                   file[AdminPort][threads[AdminPort][j].fd] = f,
                   threads[AdminPort][j].kept = <<>>,
                   \/ threads[AdminPort][j].pc \in {"new", "admin"} /\ Asked(f)
                   \/ threads[AdminPort][j].pc = "admin" /\ Arriving(f)
            PROVE  Linked(f)'
        <4>1. /\ j \in DOMAIN threads'[AdminPort]
              /\ threads'[AdminPort][j].fd = threads[AdminPort][j].fd
              /\ threads'[AdminPort][j].kept = threads[AdminPort][j].kept
              /\ threads'[AdminPort][j].pc = IF j = i THEN "admin" ELSE threads[AdminPort][j].pc
          BY <1>1, <2>1, <2>3, <3>1 DEF Only
        <4>2. /\ file'[AdminPort][threads'[AdminPort][j].fd] = f
              /\ threads'[AdminPort][j].kept = <<>>
              /\ \/ threads'[AdminPort][j].pc \in {"new", "admin"} /\ Asked(f)'
                 \/ threads'[AdminPort][j].pc = "admin" /\ Arriving(f)'
          BY <1>2, <3>1, <3>2, <3>4, <4>1
        <4>3. QED
          BY <4>1, <4>2 DEF Linked
      <3>5. QED
        BY <1>4, <3>3, <3>4 DEF Linked
    <2>4. QED
      BY <2>2, <2>3
  <1>5. mixed \subseteq mixed'
    BY DEF Start
  <1>6. ASSUME NEW f \in Fetcher
        PROVE  Fetch(f)'
    <2>1. Sound(f)' => Sound(f) /\ AdminPort \notin mixed'
      BY <1>2, <1>5 DEF Sound
    <2>2. Fetch(f)
      BY DEF FInv
    <2>3. QED
      BY <1>2, <1>4, <2>1, <2>2, FetchStays
  <1>7. QED
    BY <1>3, <1>6 DEF FInv

LEMMA AcceptFetching ==
    ASSUME NetTypes, Once, FInv, NEW l \in Listener, Accept(l), Rests
    PROVE  FInv'
  <1> DEFINE fd == FreeFd(l)
             p == Head(backlog[l])
             n == Len(threads[l]) + 1
  <1>1. /\ fd \in Fd /\ file[l][fd] = None
        /\ \A k \in Listener : \A gd \in Fd :
             file'[k][gd] = IF k = l /\ gd = fd THEN p ELSE file[k][gd]
        /\ \A k \in Listener \ {l} : threads'[k] = threads[k]
        /\ \A k \in Listener \ {l} : backlog'[k] = backlog[k]
        /\ DOMAIN threads'[l] = DOMAIN threads[l] \cup {n}
        /\ \A j \in DOMAIN threads[l] : threads'[l][j] = threads[l][j]
        /\ threads'[l][n] = [pc |-> "new", fd |-> fd, conn |-> None, kept |-> <<>>]
        /\ \A q \in ToSet(backlog[l]) : q = p \/ q \in ToSet(backlog'[l])
    BY AcceptEffect
  <1>2. threads'[l][n].pc = "new" /\ threads'[l][n].fd = fd /\ threads'[l][n].kept = <<>>
    BY <1>1
  <1>3. UNCHANGED <<pc, text, rbuffer, toServer, toPeer, closed, up, mixed, short>>
    BY DEF Accept, Rests, peerVars
  <1> HIDE DEF fd, p, n
  <1>4. FetchTypes'
    BY <1>3 DEF FInv, FetchTypes
  <1>5. ASSUME NEW f \in Fetcher, Linked(f)
        PROVE  Linked(f)'
    <2>1. AdminPort \in Listener /\ f # None
      BY FetcherPeer
    <2>2. \A j \in DOMAIN threads[AdminPort] : file[AdminPort][threads[AdminPort][j].fd] = f =>
            /\ j \in DOMAIN threads'[AdminPort]
            /\ threads'[AdminPort][j] = threads[AdminPort][j]
            /\ file'[AdminPort][threads[AdminPort][j].fd] = f
      <3>1. \A j \in DOMAIN threads[AdminPort] : threads[AdminPort][j].fd \in Fd
        BY <2>1, ThreadTyped
      <3>2. QED
        BY <1>1, <2>1, <3>1
    <2>3. CASE f \in ToSet(backlog[AdminPort]) => f \in ToSet(backlog'[AdminPort])
      BY <1>3, <1>5, <2>2, <2>3, LinkedStays
    <2>4. CASE f \in ToSet(backlog[AdminPort]) /\ f \notin ToSet(backlog'[AdminPort])
      <3>1. l = AdminPort /\ p = f
        BY <1>1, <2>1, <2>4
      <3>2. n \in DOMAIN threads'[AdminPort] /\ file'[AdminPort][threads'[AdminPort][n].fd] = f
        BY <1>1, <1>2, <2>1, <3>1
      <3>3. CASE Asked(f)
        <4>1. Asked(f)'
          BY <1>3, <3>3 DEF Asked
        <4>2. QED
          BY <1>2, <3>1, <3>2, <4>1 DEF Linked
      <3>4. CASE ~Asked(f)
        <4>1. PICK j \in DOMAIN threads[AdminPort] :
                /\ file[AdminPort][threads[AdminPort][j].fd] = f
                /\ threads[AdminPort][j].kept = <<>>
                /\ threads[AdminPort][j].pc = "admin" /\ Arriving(f)
          BY <1>5, <3>4 DEF Linked
        <4>2. Arriving(f)'
          BY <1>3, <4>1 DEF Arriving
        <4>3. QED
          BY <2>2, <4>1, <4>2 DEF Linked
      <3>5. QED
        BY <3>3, <3>4
    <2>5. QED
      BY <2>3, <2>4
  <1>6. ASSUME NEW f \in Fetcher
        PROVE  Fetch(f)'
    <2>1. Sound(f)' => Sound(f)
      BY <1>3 DEF Sound
    <2>2. Fetch(f)
      BY DEF FInv
    <2>3. QED
      BY <1>3, <1>5, <2>1, <2>2, FetchStays
  <1>7. QED
    BY <1>4, <1>6 DEF FInv

LEMMA ProcessFetching ==
    ASSUME NInv, FInv, NEW l \in Listener, Process(l)
    PROVE  FInv'
  <1>1. Rests /\ NetTypes /\ Hosted /\ Once /\ Own
    BY DEF Process, Rests, NInv
  <1>2. CASE Accept(l)
    BY <1>1, <1>2, AcceptFetching
  <1>3. ASSUME NEW i \in DOMAIN threads[l], Start(l, i) PROVE FInv'
    BY <1>1, <1>3, StartFetching
  <1>4. ASSUME NEW i \in DOMAIN threads[l], Serve(l, i), ~Start(l, i) PROVE FInv'
    BY <1>1, <1>4, ServesFetching
  <1>5. QED
    BY <1>2, <1>3, <1>4 DEF Process

\* Nothing that a peer does touches the fetch of another.
LEMMA OthersFetch ==
    ASSUME NEW f \in Fetcher, Fetch(f), NEW p \in Peer, Alone(p), f # p,
           text'[f] = text[f], rbuffer'[f] = rbuffer[f],
           UNCHANGED <<file, threads>>, up' \subseteq up, mixed' = mixed,
           f \in short => f \in short',
           f \in closed' => f \in closed,
           f \in ToSet(backlog[AdminPort]) => f \in ToSet(backlog'[AdminPort])
    PROVE  Fetch(f)' /\ toPeer'[f] = toPeer[f]
  <1>1. f \in Peer
    BY FetcherPeer
  <1>2. pc'[f] = pc[f] /\ toServer'[f] = toServer[f] /\ toPeer'[f] = toPeer[f]
    BY <1>1 DEF Alone
  <1>3. Sound(f)' => Sound(f)
    BY DEF Sound
  <1>4. Linked(f) => Linked(f)'
    BY <1>2, LinkedStays
  <1>5. QED
    BY <1>2, <1>3, <1>4, FetchStays

LEMMA DialGrows ==
    ASSUME NetTypes, NEW p \in Peer, NEW l \in Listener, NEW line, Dial(p, l, line)
    PROVE  /\ \A k \in Listener : \A q \in ToSet(backlog[k]) : q \in ToSet(backlog'[k])
           /\ p \in ToSet(backlog'[l])
  <1>1. backlog \in [Listener -> Seq(Peer)] /\ backlog[l] \in Seq(Peer)
    BY DEF NetTypes, TypeOK, ConnectionsTypeOK
  <1>2. /\ DOMAIN backlog[l] = 1..Len(backlog[l]) /\ Len(backlog[l]) \in Nat
        /\ Append(backlog[l], p) \in Seq(Peer)
        /\ Len(Append(backlog[l], p)) = Len(backlog[l]) + 1
        /\ Append(backlog[l], p)[Len(backlog[l]) + 1] = p
        /\ \A i \in 1..Len(backlog[l]) : Append(backlog[l], p)[i] = backlog[l][i]
    BY <1>1, AppendProperties, LenProperties
  <1>3. /\ backlog'[l] = Append(backlog[l], p)
        /\ \A k \in Listener \ {l} : backlog'[k] = backlog[k]
    BY <1>1 DEF Dial
  <1>4. DOMAIN backlog'[l] = 1..(Len(backlog[l]) + 1)
    BY <1>2, <1>3, LenProperties
  <1>5. ASSUME NEW q \in ToSet(backlog[l])
        PROVE  q \in ToSet(backlog'[l])
    <2>1. PICK i \in DOMAIN backlog[l] : q = backlog[l][i]
      BY DEF ToSet
    <2>2. i \in DOMAIN backlog'[l] /\ q = backlog'[l][i]
      BY <1>2, <1>3, <1>4, <2>1
    <2>3. QED
      BY <2>2 DEF ToSet
  <1>6. p \in ToSet(backlog'[l])
    <2>1. Len(backlog[l]) + 1 \in DOMAIN backlog'[l] /\ p = backlog'[l][Len(backlog[l]) + 1]
      BY <1>2, <1>3, <1>4
    <2>2. QED
      BY <2>1 DEF ToSet
  <1>7. QED
    BY <1>3, <1>5, <1>6

\* A step of a peer that fetches nothing.
LEMMA PeerFetching ==
    ASSUME NetTypes, FInv, NEW p \in Client \cup Watched, Alone(p),
           UNCHANGED <<file, threads, up, mixed, text, rbuffer, short>>,
           closed' \subseteq closed \cup {p},
           \A k \in Listener : \A q \in ToSet(backlog[k]) : q \in ToSet(backlog'[k])
    PROVE  FInv'
  <1>1. ASSUME NEW f \in Fetcher
        PROVE  Fetch(f)' /\ toPeer'[f] = toPeer[f]
    <2>1. f # p /\ p \in Peer /\ AdminPort \in Listener /\ Fetch(f)
      BY FetcherPeer DEF Peer, FInv
    <2>2. (f \in closed' => f \in closed)
          /\ (f \in ToSet(backlog[AdminPort]) => f \in ToSet(backlog'[AdminPort]))
      BY <2>1
    <2>3. QED
      BY <2>1, <2>2, OthersFetch
  <1>2. QED
    BY <1>1 DEF FInv, FetchTypes

\* One step of a client or of a thread of the master, as a process that fetches sees it.
LEMMA PeerSteps ==
    ASSUME NetTypes, FInv, NEW p \in Client \cup Watched, NEW l \in Listener, NEW line,
           NEW to, GoTo(p, to) \/ UNCHANGED pc,
           UNCHANGED <<up, text, rbuffer, mixed, short>>,
           \/ Dial(p, l, line)
           \/ /\ UNCHANGED toServer \/ Say(p, line)
              /\ UNCHANGED closed \/ HangUp(p)
              /\ UNCHANGED <<backlog, connfd, file, threads>>,
           UNCHANGED toPeer \/ \E s : toPeer' = [toPeer EXCEPT ![p] = s]
    PROVE  FInv'
  <1>1. p \in Peer
    BY DEF Peer
  <1>2. UNCHANGED pc \/ \E a : pc' = [pc EXCEPT ![p] = a]
    BY DEF GoTo
  <1>3. UNCHANGED toServer \/ \E s : toServer' = [toServer EXCEPT ![p] = s]
    BY DEF Dial, Say
  <1>4. Alone(p)
    BY <1>1, <1>2, <1>3, AloneIs
  <1>5. UNCHANGED <<file, threads>> /\ closed' \subseteq closed \cup {p}
    BY DEF Dial, HangUp
  <1>6. \A k \in Listener : \A q \in ToSet(backlog[k]) : q \in ToSet(backlog'[k])
    <2>1. CASE Dial(p, l, line)
      BY <1>1, <2>1, DialGrows
    <2>2. CASE UNCHANGED backlog
      BY <2>2
    <2>3. QED
      BY <2>1, <2>2
  <1>7. QED
    BY <1>4, <1>5, <1>6, PeerFetching

LEMMA ClientFetching ==
    ASSUME NInv, FInv, NEW c \in Client, Query(c) \/ Reach(c) \/ Hear(c) \/ Leave(c) \/ Killed(c)
    PROVE  FInv'
  <1>1. NetTypes /\ c \in Client \cup Watched /\ AdminPort \in Listener
    BY Peers DEF NInv
  <1>2. CASE Query(c)
    <2>1. /\ GoTo(c, "asked") /\ UNCHANGED <<up, text, rbuffer, mixed, short>>
          /\ UNCHANGED toServer /\ UNCHANGED closed /\ UNCHANGED toPeer
          /\ UNCHANGED <<backlog, connfd, file, threads>>
      BY <1>2 DEF Query, netVars
    <2>2. QED
      BY <1>1, <2>1, PeerSteps
  <1>3. CASE Reach(c)
    <2>1. UNCHANGED <<up, text, rbuffer, mixed, short>>
      BY <1>3 DEF Reach
    <2>2. CASE Head(answers[c]) \in up
      <3>1. Dial(c, Head(answers[c]), "yo") /\ GoTo(c, "wait") /\ Head(answers[c]) \in Listener
        BY <1>1, <1>3, <2>2, PeerParts DEF Reach
      <3>2. UNCHANGED toPeer
        BY <3>1 DEF Dial
      <3>3. QED
        BY <1>1, <2>1, <3>1, <3>2, PeerSteps
    <2>3. CASE Head(answers[c]) \notin up
      <3>1. /\ GoTo(c, "ended")
            /\ UNCHANGED toServer /\ UNCHANGED closed /\ UNCHANGED toPeer
            /\ UNCHANGED <<backlog, connfd, file, threads>>
        BY <1>3, <2>3 DEF Reach, netVars
      <3>2. QED
        BY <1>1, <2>1, <3>1, PeerSteps
    <2>4. QED
      BY <2>2, <2>3
  <1>4. CASE Hear(c)
    <2>1. /\ UNCHANGED <<up, text, rbuffer, mixed, short>>
          /\ toPeer' = [toPeer EXCEPT ![c] = <<>>]
          /\ \/ Say(c, Head(todo[c])) /\ UNCHANGED pc
             \/ HangUp(c) /\ GoTo(c, "ended")
      BY <1>4 DEF Hear
    <2>2. CASE Say(c, Head(todo[c])) /\ UNCHANGED pc
      <3>1. UNCHANGED closed /\ UNCHANGED <<backlog, connfd, file, threads>>
        BY <2>2 DEF Say
      <3>2. QED
        BY <1>1, <2>1, <2>2, <3>1, PeerSteps
    <2>3. CASE HangUp(c) /\ GoTo(c, "ended")
      <3>1. UNCHANGED toServer /\ UNCHANGED <<backlog, connfd, file, threads>>
        BY <2>3 DEF HangUp
      <3>2. QED
        BY <1>1, <2>1, <2>3, <3>1, PeerSteps
    <2>4. QED
      BY <2>1, <2>2, <2>3
  <1>5. CASE Leave(c) \/ Killed(c)
    <2>1. /\ UNCHANGED <<up, text, rbuffer, mixed, short>> /\ UNCHANGED toPeer
          /\ HangUp(c) /\ GoTo(c, "ended")
      BY <1>5 DEF Leave, Killed
    <2>2. UNCHANGED toServer /\ UNCHANGED <<backlog, connfd, file, threads>>
      BY <2>1 DEF HangUp
    <2>3. QED
      BY <1>1, <2>1, <2>2, PeerSteps
  <1>6. QED
    BY <1>2, <1>3, <1>4, <1>5

LEMMA WatchedFetching ==
    ASSUME NInv, FInv, NEW t \in Watched, serverFunc(t) \/ Ping(t) \/ Pong(t)
    PROVE  FInv'
  <1>1. NetTypes /\ t \in Client \cup Watched /\ t \in Listener
    BY Peers DEF NInv
  <1>2. \A data, result :
          expectToRead(t, data, result) => UNCHANGED toPeer \/ \E s : toPeer' = [toPeer EXCEPT ![t] = s]
    BY DEF expectToRead
  <1>3. CASE serverFunc(t)
    <2>1. UNCHANGED <<up, text, rbuffer, mixed, short>>
      BY <1>3 DEF serverFunc
    <2>2. CASE t \in up
      <3>1. Dial(t, t, "master") /\ GoTo(t, "greet")
        BY <1>3, <2>2 DEF serverFunc
      <3>2. UNCHANGED toPeer
        BY <3>1 DEF Dial
      <3>3. QED
        BY <1>1, <2>1, <3>1, <3>2, PeerSteps
    <2>3. CASE t \notin up
      <3>1. /\ GoTo(t, "lost")
            /\ UNCHANGED toServer /\ UNCHANGED closed /\ UNCHANGED toPeer
            /\ UNCHANGED <<backlog, connfd, file, threads>>
        BY <1>3, <2>3 DEF serverFunc, netVars
      <3>2. QED
        BY <1>1, <2>1, <3>1, PeerSteps
    <2>4. QED
      BY <2>2, <2>3
  <1>4. CASE Ping(t)
    <2>1. /\ UNCHANGED <<up, text, rbuffer, mixed, short>>
          /\ GoTo(t, "pong") /\ Say(t, "ping")
          /\ UNCHANGED toPeer \/ \E s : toPeer' = [toPeer EXCEPT ![t] = s]
      BY <1>2, <1>4 DEF Ping
    <2>2. UNCHANGED closed /\ UNCHANGED <<backlog, connfd, file, threads>>
      BY <2>1 DEF Say
    <2>3. QED
      BY <1>1, <2>1, <2>2, PeerSteps
  <1>5. CASE Pong(t)
    <2>1. /\ UNCHANGED <<up, text, rbuffer, mixed, short>>
          /\ UNCHANGED toPeer \/ \E s : toPeer' = [toPeer EXCEPT ![t] = s]
          /\ \/ GoTo(t, "rest") /\ UNCHANGED closed
             \/ GoTo(t, "lost") /\ HangUp(t)
          /\ UNCHANGED toServer /\ UNCHANGED <<backlog, connfd, file, threads>>
      BY <1>2, <1>5 DEF Pong, HangUp
    <2>2. QED
      BY <1>1, <2>1, PeerSteps
  <1>6. QED
    BY <1>3, <1>4, <1>5

-----------------------------------------------------------------------------
(* The steps of a process that fetches the table *)

\* What the others see of a step of process f.
LEMMA FetcherSteps ==
    ASSUME NInv, FInv, NEW f \in Fetcher,
           NEW to, GoTo(f, to),
           UNCHANGED toServer \/ \E s : toServer' = [toServer EXCEPT ![f] = s],
           UNCHANGED toPeer \/ \E s \in Seq(Byte) : toPeer' = [toPeer EXCEPT ![f] = s],
           UNCHANGED text \/ \E s : text' = [text EXCEPT ![f] = s],
           UNCHANGED rbuffer \/ \E s \in Seq(Byte) : /\ Len(s) = BufSize + 1
                                                     /\ rbuffer' = [rbuffer EXCEPT ![f] = s],
           UNCHANGED <<file, threads, up, mixed>>,
           short \subseteq short', closed' \subseteq closed \cup {f},
           \A q \in ToSet(backlog[AdminPort]) : q \in ToSet(backlog'[AdminPort]),
           Fetch(f)'
    PROVE  FInv'
  <1>1. f \in Peer /\ NetTypes /\ FetchTypes
    BY FetcherPeer DEF NInv, FInv
  <1>2. Alone(f)
    <2>1. UNCHANGED pc \/ \E a : pc' = [pc EXCEPT ![f] = a]
      BY DEF GoTo
    <2>2. UNCHANGED toPeer \/ \E s : toPeer' = [toPeer EXCEPT ![f] = s]
      OBVIOUS
    <2>3. QED
      BY <1>1, <2>1, <2>2, AloneIs
  <1>3. ASSUME NEW g \in Fetcher, g # f
        PROVE  /\ Fetch(g)' /\ toPeer'[g] = toPeer[g]
               /\ text'[g] = text[g] /\ rbuffer'[g] = rbuffer[g]
    <2>1. text'[g] = text[g] /\ rbuffer'[g] = rbuffer[g]
      BY <1>1, <1>3 DEF FetchTypes
    <2>2. /\ Fetch(g) /\ (g \in closed' => g \in closed) /\ (g \in short => g \in short')
      BY <1>3 DEF FInv
    <2>3. QED
      BY <1>1, <1>2, <1>3, <2>1, <2>2, OthersFetch
  <1>4. FetchTypes'
    <2>1. DOMAIN text' = Fetcher /\ DOMAIN rbuffer' = Fetcher
      BY <1>1 DEF FetchTypes
    <2>2. toPeer'[f] \in Seq(Byte)
      BY <1>1 DEF FetchTypes, NetTypes
    <2>3. rbuffer'[f] \in Seq(Byte) /\ Len(rbuffer'[f]) = BufSize + 1
      BY <1>1 DEF FetchTypes
    <2>4. QED
      BY <1>1, <1>3, <2>1, <2>2, <2>3 DEF FetchTypes
  <1>5. QED
    BY <1>3, <1>4 DEF FInv

LEMMA FetchTableFetching ==
    ASSUME NInv, FInv, NEW f \in Fetcher, FetchTable(f)
    PROVE  FInv'
  <1>1. /\ pc[f] = "start" /\ UNCHANGED <<up, text, rbuffer, mixed, short>>
        /\ IF AdminPort \in up THEN Dial(f, AdminPort, "admin") /\ GoTo(f, "read")
                               ELSE GoTo(f, "ended") /\ UNCHANGED netVars
    BY DEF FetchTable
  <1>2. /\ f \in Peer /\ AdminPort \in Listener /\ NetTypes /\ Fetch(f) /\ DOMAIN pc = Peer
        /\ DOMAIN toServer = Peer
    BY FetcherPeer DEF NInv, FInv, NetTypes
  <1>3. f \notin closed /\ text[f] = <<>> /\ toPeer[f] = <<>> /\ (Sound(f) => Stale(f))
    BY <1>1, <1>2 DEF Fetch
  <1>4. CASE AdminPort \in up
    <2>1. /\ Dial(f, AdminPort, "admin") /\ GoTo(f, "read")
          /\ toServer' = [toServer EXCEPT ![f] = <<"admin">>]
          /\ UNCHANGED <<file, threads, toPeer, closed>>
      BY <1>1, <1>4 DEF Dial
    <2>2. /\ \A q \in ToSet(backlog[AdminPort]) : q \in ToSet(backlog'[AdminPort])
          /\ f \in ToSet(backlog'[AdminPort])
      BY <1>2, <2>1, DialGrows
    <2>3. Linked(f)'
      <3>1. toServer'[f] = <<"admin">> /\ toPeer'[f] = <<>> /\ text'[f] = <<>>
        BY <1>1, <1>2, <1>3, <2>1
      <3>2. QED
        BY <2>2, <3>1 DEF Linked, Asked
    <2>4. Stale(f) => Stale(f)'
      BY <1>1 DEF Stale
    <2>5. Sound(f)' => Sound(f)
      BY <1>1 DEF Sound
    <2>6. pc'[f] = "read"
      BY <1>2, <2>1 DEF GoTo
    <2>7. Fetch(f)'
      BY <1>3, <2>1, <2>3, <2>4, <2>5, <2>6 DEF Fetch
    <2>8. QED
      BY <1>1, <2>1, <2>2, <2>7, FetcherSteps
  <1>5. CASE AdminPort \notin up
    <2>1. GoTo(f, "ended") /\ UNCHANGED <<backlog, file, threads, toServer, toPeer, closed>>
      BY <1>1, <1>5 DEF netVars
    <2>2. pc'[f] = "ended" /\ ~Sound(f)'
      BY <1>1, <1>2, <1>5, <2>1 DEF GoTo, Sound
    <2>3. Fetch(f)'
      BY <2>2 DEF Fetch
    <2>4. QED
      BY <1>1, <2>1, <2>3, FetcherSteps
  <1>6. QED
    BY <1>4, <1>5

LEMMA EndOfTableFetching ==
    ASSUME NInv, FInv, NEW f \in Fetcher, EndOfTable(f)
    PROVE  FInv'
  <1>1. /\ pc[f] = "read" /\ Shut(f) /\ GoTo(f, "parse")
        /\ UNCHANGED <<up, text, rbuffer, mixed, short>>
        /\ UNCHANGED <<backlog, file, threads, toServer, toPeer, closed>>
    BY DEF EndOfTable, netVars
  <1>2. /\ f \in Peer /\ f # None /\ AdminPort \in Listener /\ NetTypes /\ Hosted /\ Fetch(f)
        /\ DOMAIN pc = Peer
    BY FetcherPeer DEF NInv, FInv, NetTypes
  <1>3. ~Sound(f)
    <2> SUFFICES ASSUME Sound(f) PROVE FALSE
      OBVIOUS
    <2>1. Linked(f) /\ AdminPort \in up
      BY <1>1, <1>2 DEF Fetch, Sound
    <2>2. CASE f \in ToSet(backlog[AdminPort])
      <3>1. host[f] = AdminPort
        BY <1>2, <2>2 DEF Hosted, ToSet
      <3>2. QED
        BY <1>1, <2>1, <2>2, <3>1 DEF Shut, Running
    <2>3. ASSUME NEW i \in DOMAIN threads[AdminPort],
                 file[AdminPort][threads[AdminPort][i].fd] = f
          PROVE  FALSE
      <3>1. threads[AdminPort][i].fd \in Fd
        BY <1>2, ThreadTyped
      <3>2. host[f] = AdminPort
        BY <1>2, <2>3, <3>1 DEF Hosted
      <3>3. QED
        BY <1>1, <2>1, <2>3, <3>1, <3>2 DEF Shut, Running
    <2>4. QED
      BY <2>1, <2>2, <2>3 DEF Linked
  <1>4. pc'[f] = "parse" /\ ~Sound(f)' /\ f \notin closed'
    BY <1>1, <1>2, <1>3 DEF GoTo, Sound, Fetch
  <1>5. Fetch(f)'
    BY <1>4 DEF Fetch
  <1>6. QED
    BY <1>1, <1>5, FetcherSteps

LEMMA ParseTableFetching ==
    ASSUME NInv, FInv, NEW f \in Fetcher, ParseTable(f)
    PROVE  FInv'
  <1>1. /\ pc[f] = "parse" /\ UNCHANGED <<up, text, rbuffer, mixed, short>>
        /\ \/ text[f] = Table /\ GoTo(f, "fetched")
              /\ toServer' = [toServer EXCEPT ![f] = Append(@, "quit")]
           \/ text[f] # Table /\ GoTo(f, "ended") /\ UNCHANGED toServer
        /\ UNCHANGED <<backlog, file, threads, toPeer>> /\ closed' = closed \cup {f}
    BY DEF ParseTable, Parses
  <1>2. f \in Peer /\ Fetch(f) /\ DOMAIN pc = Peer
    BY FetcherPeer DEF NInv, FInv, NetTypes
  <1>3. Sound(f)' => Sound(f)
    BY <1>1 DEF Sound
  <1>4. Sound(f) => text[f] = Table
    BY <1>1, <1>2 DEF Fetch
  <1>5. pc'[f] \in {"fetched", "ended"} /\ (pc'[f] = "ended" => text[f] # Table)
    BY <1>1, <1>2 DEF GoTo
  <1>6. Fetch(f)'
    BY <1>3, <1>4, <1>5 DEF Fetch
  <1>7. QED
    BY <1>1, <1>6, FetcherSteps

LEMMA ClearedIs ==
    ASSUME FetchTypes, NEW f \in Fetcher
    PROVE  /\ Cleared(f) \in Seq(Byte) /\ Len(Cleared(f)) = BufSize + 1
           /\ \A j \in 1..BufSize : Cleared(f)[j] = NUL
           /\ Cleared(f)[BufSize + 1] = rbuffer[f][BufSize + 1]
  <1> DEFINE last == rbuffer[f][BufSize + 1]
             z == [i \in 1..BufSize |-> NUL]
  <1>1. BufSize \in Nat /\ NUL \in Byte /\ last \in Byte
    <2>1. BufSize + 1 \in 1..Len(rbuffer[f]) /\ rbuffer[f] \in Seq(Byte) /\ BufSize \in Nat
      BY ConnectionsAssumption DEF FetchTypes
    <2>2. QED
      BY <2>1, ArchiveIs
  <1> HIDE DEF last
  <1>2. z \in Seq(Byte) /\ Len(z) = BufSize /\ \A j \in 1..BufSize : z[j] = NUL
    BY <1>1
  <1>3. <<last>> \in Seq(Byte) /\ Len(<<last>>) = 1 /\ <<last>>[1] = last
    BY <1>1
  <1> HIDE DEF z
  <1> DEFINE y == <<last>>
  <1>4. y \in Seq(Byte) /\ Len(y) = 1 /\ y[1] = last
    BY <1>3
  <1> HIDE DEF y
  <1>5. /\ z \o y \in Seq(Byte) /\ Len(z \o y) = Len(z) + Len(y)
        /\ \A j \in 1..(Len(z) + Len(y)) : (z \o y)[j] = IF j <= Len(z) THEN z[j] ELSE y[j - Len(z)]
    BY <1>2, <1>4, ConcatProperties
  <1> DEFINE c == z \o y
  <1>6. Cleared(f) = c
    BY DEF Cleared, z, y, last
  <1> HIDE DEF c
  <1>7. /\ c \in Seq(Byte) /\ Len(c) = BufSize + 1
        /\ \A j \in 1..(BufSize + 1) : c[j] = IF j <= BufSize THEN z[j] ELSE y[j - BufSize]
    BY <1>2, <1>4, <1>5 DEF c
  <1>8. \A j \in 1..BufSize : c[j] = NUL
    <2> SUFFICES ASSUME NEW j \in 1..BufSize PROVE c[j] = NUL
      OBVIOUS
    <2>1. j \in 1..(BufSize + 1) /\ j <= BufSize
      BY <1>1
    <2>2. QED
      BY <1>2, <1>7, <2>1
  <1>9. c[BufSize + 1] = last
    <2> DEFINE e == BufSize + 1
    <2>1. e \in 1..(BufSize + 1) /\ ~(e <= BufSize) /\ e - BufSize = 1
      BY <1>1
    <2> HIDE DEF e
    <2>2. c[e] = last
      BY <1>4, <1>7, <2>1
    <2>3. QED
      BY <2>2 DEF e
  <1>10. QED
    BY <1>6, <1>7, <1>8, <1>9 DEF last

LEMMA ReadTableFetching ==
    ASSUME NInv, FInv, NEW f \in Fetcher, ReadTable(f)
    PROVE  FInv'
  <1>1. /\ pc[f] = "read"
        /\ UNCHANGED <<up, mixed>> /\ UNCHANGED <<backlog, file, threads, toServer, closed>>
    BY DEF ReadTable
  <1>2. PICK n \in DOMAIN toPeer[f] :
          /\ n <= BufSize
          /\ LET all == text[f] \o Buffer(f, n)
                 end == IF copy[f] = "storage" /\ MarkerAt(Buffer(f, n)) = 0
                        THEN 0 ELSE MarkerAt(all)
             IN /\ text' = [text EXCEPT ![f] = IF end = 0 THEN all ELSE TextBefore(all, end)]
                /\ GoTo(f, IF end = 0 THEN "read" ELSE "parse")
                /\ short' = IF end = 0 /\ n < BufSize /\ (copy[f] = "frontend" \/ text[f] = <<>>)
                            THEN short \cup {f} ELSE short
          /\ rbuffer' = [rbuffer EXCEPT ![f] =
                            IF copy[f] = "storage" THEN Cleared(f) ELSE Filled(f, n)]
          /\ toPeer' = [toPeer EXCEPT ![f] = SubSeq(@, n + 1, Len(@))]
    BY DEF ReadTable
  <1> DEFINE b == Buffer(f, n)
             all == text[f] \o b
             end == IF copy[f] = "storage" /\ MarkerAt(b) = 0 THEN 0 ELSE MarkerAt(all)
             rest == SubSeq(toPeer[f], n + 1, Len(toPeer[f]))
             r == IF copy[f] = "storage" THEN Cleared(f) ELSE Filled(f, n)
             k == Len(text[f])
             N == Len(Table)
  <1>3. /\ text' = [text EXCEPT ![f] = IF end = 0 THEN all ELSE TextBefore(all, end)]
        /\ GoTo(f, IF end = 0 THEN "read" ELSE "parse")
        /\ short' = IF end = 0 /\ n < BufSize /\ (copy[f] = "frontend" \/ text[f] = <<>>)
                    THEN short \cup {f} ELSE short
        /\ rbuffer' = [rbuffer EXCEPT ![f] = r]
        /\ toPeer' = [toPeer EXCEPT ![f] = rest]
    BY <1>2
  <1>4. /\ f \in Peer /\ FetchTypes /\ Fetch(f) /\ NetTypes /\ BufSize \in Nat
        /\ copy[f] \in {"frontend", "storage"}
        /\ DOMAIN text = Fetcher /\ DOMAIN rbuffer = Fetcher /\ DOMAIN pc = Peer
        /\ DOMAIN toPeer = Peer
    BY FetcherPeer, ConnectionsAssumption DEF NInv, FInv, FetchTypes, NetTypes
  <1>5. /\ rest \in Seq(Byte) /\ n \in 1..Len(toPeer[f]) /\ n <= BufSize
        /\ Filled(f, n) \in Seq(Byte) /\ Len(Filled(f, n)) = BufSize + 1
        /\ \A j \in 1..(BufSize + 1) :
             Filled(f, n)[j] = IF j <= n THEN toPeer[f][j] ELSE rbuffer[f][j]
    BY <1>2, <1>4, FilledIs
  <1>6. r \in Seq(Byte) /\ Len(r) = BufSize + 1 /\ r[BufSize + 1] = rbuffer[f][BufSize + 1]
    <2>1. /\ Cleared(f) \in Seq(Byte) /\ Len(Cleared(f)) = BufSize + 1
          /\ Cleared(f)[BufSize + 1] = rbuffer[f][BufSize + 1]
      BY <1>4, ClearedIs
    <2>2. Filled(f, n)[BufSize + 1] = rbuffer[f][BufSize + 1]
      <3>1. BufSize + 1 \in 1..(BufSize + 1) /\ ~(BufSize + 1 <= n)
        BY <1>4, <1>5
      <3>2. QED
        BY <1>5, <3>1
    <2>3. QED
      BY <1>5, <2>1, <2>2
  <1> HIDE DEF b, all, end, rest, r, k, N
  <1>7. /\ pc'[f] = (IF end = 0 THEN "read" ELSE "parse")
        /\ text'[f] = (IF end = 0 THEN all ELSE TextBefore(all, end))
        /\ rbuffer'[f] = r /\ toPeer'[f] = rest /\ toServer'[f] = toServer[f]
    BY <1>1, <1>3, <1>4 DEF GoTo
  <1>8. short \subseteq short' /\ f \notin closed'
    BY <1>1, <1>3, <1>4 DEF Fetch
  <1>9. Sound(f)' => Sound(f)
    BY <1>1, <1>6, <1>7, <1>8 DEF Sound
  <1>10. ASSUME Sound(f)'
         PROVE  /\ end = 0 => Stale(f)' /\ Linked(f)'
                /\ end # 0 => text'[f] = Table
    <2>1. Sound(f) /\ Stale(f) /\ Linked(f)
      BY <1>1, <1>4, <1>9, <1>10 DEF Fetch
    <2>2. toPeer[f] # <<>>
      BY <1>5
    <2>3. ~Asked(f)
      BY <2>2 DEF Asked
    <2>4. PICK i \in DOMAIN threads[AdminPort] :
            /\ file[AdminPort][threads[AdminPort][i].fd] = f /\ threads[AdminPort][i].kept = <<>>
            /\ threads[AdminPort][i].pc = "admin" /\ Arriving(f)
      BY <2>1, <2>3 DEF Linked
    <2>5. /\ MarkerAt(all) = IF k + n = N + 2 THEN N + 1 ELSE 0
          /\ k + n = N + 2 => TextBefore(all, N + 1) = Table
          /\ n = BufSize \/ (copy[f] = "storage" /\ text[f] # <<>>) =>
               all \in Seq(Byte) /\ all \o rest = Archive
          /\ \A j \in 1..n : toPeer[f][j] = Marker[2] => k + n = N + 2
      BY <1>4, <1>5, <2>1, <2>4, ReadIs DEF all, b, k, N, rest
    <2>6. N + 1 # 0
      BY ArchiveIs DEF N
    <2>7. end # 0 => end = N + 1 /\ k + n = N + 2
      BY <2>5, <2>6 DEF end
    <2>8. end # 0 => text'[f] = Table
      BY <1>7, <2>5, <2>7
    <2>9. ASSUME end = 0
          PROVE  Stale(f)' /\ Linked(f)'
      <3>1. n = BufSize \/ (copy[f] = "storage" /\ text[f] # <<>>)
        <4>1. f \notin short'
          BY <1>10 DEF Sound
        <4>2. ~(n < BufSize /\ (copy[f] = "frontend" \/ text[f] = <<>>))
          BY <1>3, <2>9, <4>1
        <4>3. QED
          BY <1>4, <1>5, <4>2
      <3>2. Arriving(f)'
        <4>1. toServer[f] = <<>>
          BY <2>4 DEF Arriving
        <4>2. QED
          BY <1>7, <2>5, <2>9, <3>1, <4>1 DEF Arriving
      <3>3. Linked(f)'
        BY <1>1, <2>4, <3>2 DEF Linked
      <3>4. ASSUME NEW j \in 1..BufSize
            PROVE  r[j] # Marker[2] /\ (copy[f] = "storage" => r[j] = NUL)
        <4>1. CASE copy[f] = "storage"
          <5>1. r[j] = NUL
            BY <1>4, <4>1, ClearedIs DEF r
          <5>2. Marker[2] # NUL
            BY ArchiveIs
          <5>3. QED
            BY <5>1, <5>2
        <4>2. CASE copy[f] # "storage"
          <5>1. k + n # N + 2
            BY <2>5, <2>6, <2>9, <4>2 DEF end
          <5>2. j \in 1..(BufSize + 1) /\ (j <= n => j \in 1..n)
            BY <1>4, <1>5
          <5>3. r[j] = IF j <= n THEN toPeer[f][j] ELSE rbuffer[f][j]
            BY <1>5, <4>2, <5>2 DEF r
          <5>4. rbuffer[f][j] # Marker[2]
            BY <2>1 DEF Stale
          <5>5. QED
            BY <2>5, <4>2, <5>1, <5>2, <5>3, <5>4
        <4>3. QED
          BY <4>1, <4>2
      <3>5. Stale(f)'
        BY <1>7, <3>4 DEF Stale
      <3>6. QED
        BY <3>3, <3>5
    <2>10. QED
      BY <2>8, <2>9
  <1>11. Fetch(f)'
    BY <1>7, <1>8, <1>10 DEF Fetch
  <1>12. \E to : GoTo(f, to)
    BY <1>3
  <1>13. QED
    <2>1. PICK to : GoTo(f, to)
      BY <1>12
    <2>2. closed' \subseteq closed \cup {f}
      BY <1>1
    <2>3. \A q \in ToSet(backlog[AdminPort]) : q \in ToSet(backlog'[AdminPort])
      BY <1>1
    <2>4. QED
      BY <1>1, <1>3, <1>5, <1>6, <1>8, <1>11, <2>1, <2>2, <2>3, FetcherSteps

-----------------------------------------------------------------------------
(* Crashes, and the whole *)

LEMMA CrashFetching ==
    ASSUME NInv, FInv, NEW l \in Listener, Crash(l)
    PROVE  FInv'
  <1>1. /\ up' = up \ {l}
        /\ backlog' = [backlog EXCEPT ![l] = <<>>]
        /\ file' = [file EXCEPT ![l] = [fd \in Fd |-> None]]
        /\ threads' = [threads EXCEPT ![l] = <<>>]
        /\ UNCHANGED <<toServer, toPeer, text, rbuffer, mixed, short>>
        /\ \/ /\ closed' = closed \cup Watched
              /\ pc' = [p \in Peer |-> IF p \in Watched THEN "ended" ELSE pc[p]]
           \/ UNCHANGED <<closed, pc>>
    BY DEF Crash
  <1>2. FetchTypes'
    BY <1>1 DEF FInv, FetchTypes
  <1>3. ASSUME NEW f \in Fetcher
        PROVE  Fetch(f)'
    <2>1. f \in Peer /\ f \notin Watched /\ AdminPort \in Listener /\ Fetch(f)
      BY FetcherPeer DEF FInv
    <2>2. pc'[f] = pc[f] /\ (f \in closed' => f \in closed)
      BY <1>1, <2>1
    <2>3. Sound(f)' => Sound(f) /\ l # AdminPort
      BY <1>1 DEF Sound
    <2>4. ASSUME l # AdminPort, Linked(f)
          PROVE  Linked(f)'
      <3>1. /\ backlog'[AdminPort] = backlog[AdminPort] /\ file'[AdminPort] = file[AdminPort]
            /\ threads'[AdminPort] = threads[AdminPort]
        <4>1. DOMAIN backlog = Listener /\ DOMAIN file = Listener /\ DOMAIN threads = Listener
          BY DEF NInv, NetTypes, TypeOK, ConnectionsTypeOK
        <4>2. QED
          BY <1>1, <2>1, <2>4, <4>1
      <3>2. QED
        BY <1>1, <2>4, <3>1, LinkedStays
    <2>5. QED
      BY <1>1, <2>1, <2>2, <2>3, <2>4, FetchStays
  <1>4. QED
    BY <1>2, <1>3 DEF FInv

\* The network stays as it is.
LEMMA QuietFetching ==
    ASSUME FInv, UNCHANGED <<up, netVars, peerVars, mixed, short>>
    PROVE  FInv'
  <1>1. /\ UNCHANGED <<up, mixed, short>>
        /\ UNCHANGED <<backlog, connfd, file, threads, toServer, toPeer, closed>>
        /\ UNCHANGED <<pc, text, rbuffer>>
    BY DEF netVars, peerVars
  <1>2. FetchTypes'
    BY <1>1 DEF FInv, FetchTypes
  <1>3. ASSUME NEW f \in Fetcher
        PROVE  Fetch(f)'
    <2>1. Fetch(f) /\ (Sound(f)' => Sound(f))
      BY <1>1 DEF FInv, Sound
    <2>2. Linked(f) => Linked(f)'
      BY <1>1, LinkedStays
    <2>3. QED
      BY <1>1, <2>1, <2>2, FetchStays
  <1>4. QED
    BY <1>2, <1>3 DEF FInv

LEMMA InitFetching ==
    ASSUME Init
    PROVE  FInv
  <1>1. PICK party \in Parties :
          /\ pc = [p \in Peer |-> IF p \in party THEN "start" ELSE "ended"]
          /\ \E junk, beyond \in {NUL, "?"} :
               rbuffer = [f \in Fetcher |-> [i \in 1..BufSize |->
                             IF f \in party THEN junk ELSE NUL] \o
                             <<IF f \in party THEN beyond ELSE NUL>>]
    BY DEF Init, ConnectionsInit
  <1>2. PICK junk \in {NUL, "?"}, beyond \in {NUL, "?"} :
          rbuffer = [f \in Fetcher |-> [i \in 1..BufSize |->
                        IF f \in party THEN junk ELSE NUL] \o
                        <<IF f \in party THEN beyond ELSE NUL>>]
    BY <1>1
  <1>3. /\ toPeer = [p \in Peer |-> <<>>] /\ closed = {}
        /\ text = [f \in Fetcher |-> <<>>] /\ BufSize \in Nat
    BY ConnectionsAssumption DEF Init, ConnectionsInit
  <1>4. ASSUME NEW f \in Fetcher
        PROVE  /\ rbuffer[f] \in Seq(Byte) /\ Len(rbuffer[f]) = BufSize + 1
               /\ \A j \in 1..BufSize : rbuffer[f][j] # Marker[2]
    <2> DEFINE a == IF f \in party THEN junk ELSE NUL
               c == IF f \in party THEN beyond ELSE NUL
               u == [i \in 1..BufSize |-> a]
               v == <<c>>
    <2>1. rbuffer[f] = u \o v
      BY <1>2
    <2>2. a \in Byte /\ c \in Byte /\ a # Marker[2]
      BY ArchiveIs DEF Byte
    <2> HIDE DEF a, c
    <2>3. u \in Seq(Byte) /\ Len(u) = BufSize /\ \A j \in 1..BufSize : u[j] = a
      BY <1>3, <2>2
    <2>4. v \in Seq(Byte) /\ Len(v) = 1
      BY <2>2
    <2> HIDE DEF u, v
    <2>5. /\ u \o v \in Seq(Byte) /\ Len(u \o v) = Len(u) + Len(v)
          /\ \A j \in 1..(Len(u) + Len(v)) : (u \o v)[j] = IF j <= Len(u) THEN u[j] ELSE v[j - Len(u)]
      BY <2>3, <2>4, ConcatProperties
    <2>6. \A j \in 1..BufSize : rbuffer[f][j] # Marker[2]
      BY <1>3, <2>1, <2>2, <2>3, <2>4, <2>5
    <2>7. QED
      BY <1>3, <2>1, <2>3, <2>4, <2>5, <2>6
  <1>5. FetchTypes
    <2>1. \A f \in Fetcher : f \in Peer /\ <<>> \in Seq(Byte)
      BY FetcherPeer
    <2>2. QED
      BY <1>2, <1>3, <1>4, <2>1 DEF FetchTypes
  <1>6. ASSUME NEW f \in Fetcher
        PROVE  Fetch(f)
    <2>1. f \in Peer /\ f \notin closed /\ text[f] = <<>> /\ toPeer[f] = <<>>
          /\ pc[f] \in {"start", "ended"}
      BY <1>1, <1>3, FetcherPeer
    <2>2. Stale(f)
      BY <1>4, <2>1 DEF Stale
    <2>3. QED
      BY <2>1, <2>2 DEF Fetch
  <1>7. QED
    BY <1>5, <1>6 DEF FInv

\* No process is given a table that the archive refuses but for one of the
\* reasons, for any table, any size of the buffer, any two copies of the code and
\* any reads (fetchFromMaster).
THEOREM TornTablesExplained == Spec => []TornExplained
  <1>1. Init => FInv
    BY InitFetching
  <1>2. NInv /\ FInv /\ [Next]_vars => FInv'
    <2> SUFFICES ASSUME NInv, FInv, [Next]_vars PROVE FInv'
      OBVIOUS
    <2>1. CASE Answer
      BY <2>1, QuietFetching DEF Answer
    <2>2. ASSUME NEW c \in Console, AtConsole(c) PROVE FInv'
      BY <2>2, QuietFetching DEF AtConsole
    <2>3. ASSUME NEW l \in Listener, Process(l) PROVE FInv'
      BY <2>3, ProcessFetching
    <2>4. ASSUME NEW c \in Client, Query(c) \/ Reach(c) \/ Hear(c) \/ Leave(c) \/ Killed(c)
          PROVE  FInv'
      BY <2>4, ClientFetching
    <2>5. ASSUME NEW t \in Watched, serverFunc(t) \/ Ping(t) \/ Pong(t) PROVE FInv'
      BY <2>5, WatchedFetching
    <2>6. ASSUME NEW f \in Fetcher,
                 FetchTable(f) \/ ReadTable(f) \/ EndOfTable(f) \/ ParseTable(f)
          PROVE  FInv'
      BY <2>6, FetchTableFetching, ReadTableFetching, EndOfTableFetching, ParseTableFetching
    <2>7. ASSUME NEW l \in Listener, Crash(l) PROVE FInv'
      BY <2>7, CrashFetching
    <2>8. CASE UNCHANGED vars
      BY <2>8, QuietFetching DEF vars
    <2>9. QED
      BY <2>1, <2>2, <2>3, <2>4, <2>5, <2>6, <2>7, <2>8 DEF Next
  <1>3. FInv => TornExplained
    BY DEF FInv, Fetch, Sound, TornExplained
  <1>4. QED
    BY <1>1, <1>2, <1>3, NetworkInvariant, PTL DEF Spec

=============================================================================
