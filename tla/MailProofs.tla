----------------------------- MODULE MailProofs -----------------------------
(***************************************************************************)
(* Proofs about MailServer: what becomes of mails and boxes, for any number*)
(* of threads, users, headers and mails, any key ranges, and any writes    *)
(* that the store loses.                                                   *)
(***************************************************************************)
EXTENDS MailServer, FiniteSetTheorems, SequenceTheorems, NaturalsInduction, TLAPS

\* What lists are made of, and all texts.
Line == Header \cup {CR, Dot}
Token == User \cup Header \cup {CR, LF, Dot, "~"}

\* A list is a text of such lines that is not empty; one that begins with "." is
\* only that.
IsList(c) == c \in Seq(Line) /\ c # <<>> /\ (c[1] = Dot => c = <<Dot>>)

\* A list as get writes it, and the list that a thread has read.
Sent(c) == binary_to_string(c) \o <<CR, LF>>
Read(w) == string_to_binary(Popped(old[w]))

Place == {"none", "arg", "dangling", "probe", "make_inbox", "make_sent", "ready", "list",
          "sent_list", "mail", "file", "cput", "newval", "text", "hung", "closed"}

Locals ==
    /\ cmd \in [Worker -> Command]
    /\ user \in [Worker -> User \cup {Absent}]
    /\ folder \in [Worker -> Folder] /\ found \in [Worker -> SUBSET Folder]
    /\ pc \in [Worker -> Place]
    /\ then \in [Worker -> {"ready", "list", "sent_list", "mail", "cput"}]
    /\ exited \in BOOLEAN

MailTypes ==
    /\ Locals
    /\ tab \in [Key -> Seq(Token) \cup {Absent}]
    /\ \A b \in User \X Folder : tab[b] # Absent => IsList(tab[b])
    /\ old \in [Worker -> Seq(Token)]
    /\ lost \subseteq Key /\ contended \subseteq User \X Folder

Changes == {"probe", "make_inbox", "make_sent"}

\* The thread has read the list of a box in order to replace it.
Holding(w) == pc[w] \in {"cput", "newval"} \/ (pc[w] \in Changes /\ then[w] = "cput")

\* What is found, and when.
Progress(w) ==
    /\ ~Holding(w) /\ pc[w] \notin {"file", "text"} => folder[w] = "SENT" /\ found[w] = {}
    /\ folder[w] = "SENT" => found[w] \subseteq {"SENT"}
    /\ pc[w] = "file" => folder[w] \notin found[w]

Contended ==
    \A w, x \in Worker : w # x => Changing(w) \cap Changing(x) \subseteq contended

\* Boxes are made where there are none, the inbox before the sent box.
Makes(w) ==
    LET u == Username(w)
    IN /\ pc[w] = "make_inbox" => <<u, "INBOX">> \in Spoilt \/ tab[<<u, "INBOX">>] = Absent
       /\ pc[w] \in {"make_inbox", "make_sent"} =>
            <<u, "SENT">> \in Spoilt \/ tab[<<u, "SENT">>] = Absent
       /\ pc[w] = "make_sent" => tab[<<u, "INBOX">>] # Absent \/ <<u, "INBOX">> \in lost

InboxFirst ==
    \A u \in User : tab[<<u, "SENT">>] # Absent => tab[<<u, "INBOX">>] # Absent \/ <<u, "INBOX">> \in lost

Readable(u, h) ==
    \/ tab[<<u, h>>] # Absent \/ <<u, h>> \in lost \/ exited
    \/ \E w \in Worker : pc[w] = "text" /\ Owner(w) = u /\ cmd[w].header = h

\* The list that was read is the list of the box as long as nobody else writes.
Holds(w) == Holding(w) =>
    /\ tab[Box(w)] # Absent
    /\ IsList(Read(w)) /\ old[w] = Sent(Read(w))
    /\ Box(w) \in Spoilt \/ tab[Box(w)] = Read(w)
    /\ \A h \in HeadersIn(Read(w)) : Readable(Owner(w), h)

\* The owner of box f in the command of thread w.
OwnerOf(w, f) == IF f = "SENT" THEN cmd[w].user ELSE cmd[w].to

\* A box lists a header, if anything is promised of it.
Lists(b, h) == b \in Spoilt \/ (tab[b] # Absent /\ h \in HeadersIn(tab[b]))

\* A box that was found and is behind the thread lists the mail.
Filed(w) ==
    \A f \in found[w] :
        f # folder[w] \/ pc[w] = "text" => Lists(<<OwnerOf(w, f), f>>, cmd[w].header)

\* Mails that were reported as sent.
Acked == \A m \in acked : m \in User \X Folder \X Header /\ Lists(<<m[1], m[2]>>, m[3])

Thread(w) == Progress(w) /\ Makes(w) /\ Holds(w) /\ Filed(w)

MInv == /\ MailTypes /\ Contended /\ InboxFirst /\ Acked /\ ListedReadable /\ BoxesPaired
        /\ \A w \in Worker : Thread(w)

-----------------------------------------------------------------------------
(* Sequences of sequences.  FlattenSeq is a function by recursion, so its  *)
(* existence and its value are shown by induction on the sequence; a set G *)
(* stands for what is shown of every sequence.                             *)

LEMMA Least ==
    ASSUME NEW D, D \subseteq Nat, D # {}
    PROVE  \E n \in D : \A m \in D : n <= m
  <1>1. PICK n \in D : \A m \in D : ~(<<m, n>> \in OpToRel(<, Nat))
    BY NatLessThanWellFounded, WFMin
  <1>2. ASSUME NEW m \in D
        PROVE  n <= m
    <2>1. ~(<<m, n>> \in OpToRel(<, Nat))
      BY <1>1
    <2>2. m \in Nat /\ n \in Nat
      OBVIOUS
    <2>3. ~(m < n)
      BY <2>1, <2>2 DEF OpToRel
    <2>4. QED
      BY <2>2, <2>3
  <1>3. QED
    BY <1>2

LEMMA SeqInduct ==
    ASSUME NEW S, NEW G, <<>> \in G,
           \A s \in Seq(S), e \in S : s \in G => Append(s, e) \in G
    PROVE  Seq(S) \subseteq G
  <1> SUFFICES ASSUME NEW q \in Seq(S), q \notin G PROVE FALSE
    OBVIOUS
  <1> DEFINE L == {n \in Nat : \E s \in Seq(S) : s \notin G /\ Len(s) = n}
  <1>1. PICK n \in L : \A m \in L : n <= m
    <2>1. Len(q) \in L
      BY LenProperties
    <2> HIDE DEF L
    <2>2. L \subseteq Nat
      BY DEF L
    <2>3. QED
      BY <2>1, <2>2, Least
  <1>2. PICK s \in Seq(S) : s \notin G /\ n = Len(s)
    BY <1>1
  <1>3. PICK t \in Seq(S), e \in S : s = Append(t, e)
    BY <1>2, SequenceEmptyOrAppend
  <1>4. Len(t) \in Nat /\ n = Len(t) + 1
    BY <1>2, <1>3, AppendProperties
  <1>5. Len(t) \notin L
    <2>1. ~(n <= Len(t)) /\ n \in Nat
      BY <1>1, <1>4
    <2>2. QED
      BY <1>1, <2>1
  <1>6. t \in G
    BY <1>5
  <1>7. QED
    BY <1>2, <1>3, <1>6

\* f is the function that FlattenSeq is defined with.
IsFlatten(q, f) == f = [i \in 1..Len(q) |-> IF i = 1 THEN q[i] ELSE f[i - 1] \o q[i]]

LEMMA FlattenAt ==
    ASSUME NEW q, NEW f, IsFlatten(q, f), NEW i \in 1..Len(q)
    PROVE  f[i] = IF i = 1 THEN q[i] ELSE f[i - 1] \o q[i]
  BY DEF IsFlatten

LEMMA FlattenUnique ==
    ASSUME NEW T, NEW q \in Seq(Seq(T)), NEW f, NEW g, IsFlatten(q, f), IsFlatten(q, g)
    PROVE  f = g
  <1> DEFINE D == {i \in 1..Len(q) : f[i] # g[i]}
  <1>1. Len(q) \in Nat /\ D \subseteq Nat
    OBVIOUS
  <1>2. D = {}
    <2> SUFFICES ASSUME D # {} PROVE FALSE
      OBVIOUS
    <2>1. PICK n \in D : \A m \in D : n <= m
      BY <1>1, Least
    <2>2. n # 1
      BY <2>1 DEF IsFlatten
    <2>3. n \in 1..Len(q) /\ n - 1 \in 1..Len(q) /\ n - 1 \notin D
      BY <1>1, <2>1, <2>2
    <2>4. f[n - 1] = g[n - 1]
      BY <2>3
    <2>5. f[n] = f[n - 1] \o q[n] /\ g[n] = g[n - 1] \o q[n]
      BY <2>2, <2>3 DEF IsFlatten
    <2>6. QED
      BY <2>1, <2>4, <2>5
  <1>3. DOMAIN f = 1..Len(q) /\ DOMAIN g = 1..Len(q)
    BY DEF IsFlatten
  <1>4. f = [i \in 1..Len(q) |-> f[i]] /\ g = [i \in 1..Len(q) |-> g[i]]
    BY DEF IsFlatten
  <1>5. QED
    BY <1>2, <1>3, <1>4

LEMMA FlattenExtends ==
    ASSUME NEW T, NEW q \in Seq(Seq(T)), NEW x \in Seq(T), NEW f, IsFlatten(q, f)
    PROVE  LET n == Len(q)
               g == [i \in 1..(n + 1) |-> IF i <= n THEN f[i]
                                          ELSE IF n = 0 THEN x ELSE f[n] \o x]
           IN IsFlatten(Append(q, x), g)
  <1> DEFINE n == Len(q)
             g == [i \in 1..(n + 1) |-> IF i <= n THEN f[i] ELSE IF n = 0 THEN x ELSE f[n] \o x]
             r == Append(q, x)
  <1>1. n \in Nat /\ Len(r) = n + 1 /\ r[n + 1] = x /\ \A i \in 1..n : r[i] = q[i]
    BY AppendProperties
  <1>2. ASSUME NEW i \in 1..(n + 1)
        PROVE  g[i] = IF i = 1 THEN r[i] ELSE g[i - 1] \o r[i]
    <2>1. CASE i <= n
      <3>1. f[i] = IF i = 1 THEN q[i] ELSE f[i - 1] \o q[i]
        <4>1. i \in 1..Len(q)
          BY <1>1, <2>1
        <4> HIDE DEF g, r, n
        <4>2. QED
          BY <4>1, FlattenAt
      <3>2. i # 1 => g[i - 1] = f[i - 1]
        BY <1>1, <2>1
      <3>3. QED
        BY <1>1, <2>1, <3>1, <3>2
    <2>2. CASE i = n + 1
      BY <1>1, <2>2
    <2>3. QED
      BY <1>1, <2>1, <2>2
  <1>3. g = [i \in 1..(n + 1) |-> IF i = 1 THEN r[i] ELSE g[i - 1] \o r[i]]
    BY <1>2
  <1>4. QED
    BY <1>1, <1>3 DEF IsFlatten

LEMMA FlattenExists ==
    ASSUME NEW T, NEW q \in Seq(Seq(T))
    PROVE  \E f : IsFlatten(q, f)
  <1> DEFINE G == {r \in Seq(Seq(T)) : \E f : IsFlatten(r, f)}
  <1>1. <<>> \in G
    <2>1. IsFlatten(<<>>, [i \in 1..0 |-> 0])
      BY DEF IsFlatten
    <2>2. QED
      BY <2>1
  <1>2. ASSUME NEW r \in Seq(Seq(T)), NEW x \in Seq(T), r \in G
        PROVE  Append(r, x) \in G
    <2>1. PICK f : IsFlatten(r, f)
      BY <1>2
    <2>2. \E g : IsFlatten(Append(r, x), g)
      BY <2>1, FlattenExtends
    <2>3. Append(r, x) \in Seq(Seq(T))
      BY AppendProperties
    <2>4. QED
      BY <2>2, <2>3
  <1> HIDE DEF G
  <1>3. Seq(Seq(T)) \subseteq G
    BY <1>1, <1>2, SeqInduct
  <1>4. QED
    BY <1>3 DEF G

LEMMA FlattenValue ==
    ASSUME NEW T, NEW q \in Seq(Seq(T)), NEW f, IsFlatten(q, f), q # <<>>
    PROVE  FlattenSeq(q) = f[Len(q)]
  <1> DEFINE flatten == CHOOSE g : g = [i \in 1..Len(q) |-> IF i = 1 THEN q[i] ELSE g[i - 1] \o q[i]]
  <1>1. IsFlatten(q, flatten)
    BY DEF IsFlatten
  <1>2. flatten = f
    BY <1>1, FlattenUnique
  <1>3. Len(q) # 0
    BY EmptySeq
  <1>4. FlattenSeq(q) = flatten[Len(q)]
    BY <1>3 DEF FlattenSeq
  <1>5. QED
    BY <1>2, <1>4

LEMMA FlattenEmpty == FlattenSeq(<<>>) = <<>>
  BY DEF FlattenSeq

LEMMA FlattenAppend ==
    ASSUME NEW T, NEW q \in Seq(Seq(T)), NEW x \in Seq(T)
    PROVE  FlattenSeq(Append(q, x)) = FlattenSeq(q) \o x
  <1> DEFINE n == Len(q)
  <1>1. n \in Nat /\ Append(q, x) \in Seq(Seq(T)) /\ Append(q, x) # <<>> /\ Len(Append(q, x)) = n + 1
    BY AppendProperties
  <1>2. PICK f : IsFlatten(q, f)
    BY FlattenExists
  <1> DEFINE g == [i \in 1..(n + 1) |-> IF i <= n THEN f[i] ELSE IF n = 0 THEN x ELSE f[n] \o x]
  <1>3. IsFlatten(Append(q, x), g)
    BY <1>2, FlattenExtends
  <1>4. FlattenSeq(Append(q, x)) = g[n + 1]
    BY <1>1, <1>3, FlattenValue
  <1>5. CASE q = <<>>
    <2>1. n = 0 /\ g[n + 1] = x
      BY <1>5
    <2>2. QED
      BY <1>4, <1>5, <2>1, FlattenEmpty, ConcatEmptySeq
  <1>6. CASE q # <<>>
    <2>1. n # 0 /\ g[n + 1] = f[n] \o x
      <3>1. n # 0
        BY <1>6, EmptySeq
      <3>2. QED
        BY <1>1, <3>1
    <2>2. FlattenSeq(q) = f[n]
      BY <1>2, <1>6, FlattenValue
    <2>3. QED
      BY <1>4, <2>1, <2>2
  <1>7. QED
    BY <1>5, <1>6

\* What string_to_binary and binary_to_string have in common.
FlatMap(k, s) == FlattenSeq([i \in DOMAIN s |-> k[s[i]]])

LEMMA FlatMapAppend ==
    ASSUME NEW T, NEW U, NEW k \in [T -> Seq(U)], NEW s \in Seq(T), NEW e \in T
    PROVE  FlatMap(k, Append(s, e)) = FlatMap(k, s) \o k[e]
  <1> DEFINE n == Len(s)
             r == Append(s, e)
             q == [i \in DOMAIN s |-> k[s[i]]]
             p == [i \in DOMAIN r |-> k[r[i]]]
  <1>1. n \in Nat /\ DOMAIN s = 1..n
    BY LenProperties
  <1>2. q = [i \in 1..n |-> k[s[i]]]
    BY <1>1
  <1>3. \A i \in 1..n : k[s[i]] \in Seq(U)
    BY <1>1, ElementOfSeq
  <1>4. q \in [1..n -> Seq(U)]
    BY <1>2, <1>3
  <1>5. q \in Seq(Seq(U)) /\ Len(q) = n
    BY <1>1, <1>4
  <1>6. r \in Seq(T) /\ Len(r) = n + 1 /\ r[n + 1] = e /\ \A i \in 1..n : r[i] = s[i]
    BY AppendProperties
  <1>7. DOMAIN r = 1..(n + 1)
    BY <1>6, LenProperties
  <1>8. p = [i \in 1..(n + 1) |-> k[r[i]]]
    BY <1>7
  <1>9. Append(q, k[e]) \in Seq(Seq(U)) /\ Len(Append(q, k[e])) = n + 1
        /\ Append(q, k[e])[n + 1] = k[e] /\ \A i \in 1..n : Append(q, k[e])[i] = q[i]
    BY <1>5, AppendProperties
  <1>10. \A i \in 1..(n + 1) : k[r[i]] \in Seq(U)
    BY <1>6, <1>1, ElementOfSeq
  <1>11. p \in Seq(Seq(U)) /\ Len(p) = n + 1
    <2>1. p \in [1..(n + 1) -> Seq(U)]
      BY <1>8, <1>10
    <2>2. QED
      BY <1>1, <2>1
  <1>12. ASSUME NEW i \in 1..(n + 1)
         PROVE  p[i] = Append(q, k[e])[i]
    <2>1. p[i] = k[r[i]]
      BY <1>8
    <2>2. CASE i = n + 1
      BY <1>6, <1>9, <2>1, <2>2
    <2>3. CASE i # n + 1
      <3>1. i \in 1..n
        BY <1>1, <2>3
      <3>2. q[i] = k[s[i]]
        BY <1>2, <3>1
      <3>3. r[i] = s[i] /\ Append(q, k[e])[i] = q[i]
        BY <1>6, <1>9, <3>1
      <3>4. QED
        BY <2>1, <3>2, <3>3
    <2>4. QED
      BY <2>2, <2>3
  <1> HIDE DEF p, q, r, n
  <1>13. p = Append(q, k[e])
    BY <1>9, <1>11, <1>12, SeqEqual
  <1>14. k[e] \in Seq(U)
    OBVIOUS
  <1>15. FlattenSeq(Append(q, k[e])) = FlattenSeq(q) \o k[e]
    BY <1>5, <1>14, FlattenAppend
  <1>16. FlatMap(k, Append(s, e)) = FlattenSeq(p) /\ FlatMap(k, s) = FlattenSeq(q)
    BY DEF p, q, r, FlatMap
  <1>17. QED
    BY <1>13, <1>15, <1>16

LEMMA FlatMapEmpty ==
    ASSUME NEW k
    PROVE  FlatMap(k, <<>>) = <<>>
  <1>1. [i \in DOMAIN <<>> |-> k[<<>>[i]]] = <<>>
    OBVIOUS
  <1>2. QED
    BY <1>1, FlattenEmpty DEF FlatMap

LEMMA FlatMapType ==
    ASSUME NEW T, NEW U, NEW k \in [T -> Seq(U)], NEW s \in Seq(T)
    PROVE  FlatMap(k, s) \in Seq(U)
  <1> DEFINE G == {r \in Seq(T) : FlatMap(k, r) \in Seq(U)}
  <1>1. <<>> \in G
    <2>1. FlatMap(k, <<>>) = <<>>
      BY FlatMapEmpty
    <2>2. <<>> \in Seq(T) /\ <<>> \in Seq(U)
      BY EmptySeq, Zenon
    <2>3. QED
      BY <2>1, <2>2, Zenon
  <1>2. ASSUME NEW r \in Seq(T), NEW e \in T, r \in G
        PROVE  Append(r, e) \in G
    <2>1. FlatMap(k, r) \in Seq(U) /\ k[e] \in Seq(U)
      BY <1>2
    <2>2. FlatMap(k, r) \o k[e] \in Seq(U)
      BY <2>1, ConcatProperties
    <2>3. FlatMap(k, Append(r, e)) = FlatMap(k, r) \o k[e]
      BY FlatMapAppend
    <2>4. Append(r, e) \in Seq(T)
      BY AppendProperties
    <2>5. QED
      BY <2>2, <2>3, <2>4
  <1> HIDE DEF G
  <1>3. Seq(T) \subseteq G
    BY <1>1, <1>2, SeqInduct
  <1>4. QED
    BY <1>3 DEF G

LEMMA FlatMapOne ==
    ASSUME NEW T, NEW U, NEW k \in [T -> Seq(U)], NEW e \in T
    PROVE  FlatMap(k, <<e>>) = k[e]
  <1>1. <<e>> = Append(<<>>, e) /\ <<>> \in Seq(T)
    OBVIOUS
  <1>2. FlatMap(k, <<e>>) = FlatMap(k, <<>>) \o k[e]
    BY <1>1, FlatMapAppend
  <1>3. FlatMap(k, <<>>) = <<>> /\ k[e] \in Seq(U)
    BY FlatMapEmpty
  <1>4. QED
    BY <1>2, <1>3, ConcatEmptySeq

LEMMA FlatMapConcat ==
    ASSUME NEW T, NEW U, NEW k \in [T -> Seq(U)], NEW a \in Seq(T), NEW b \in Seq(T)
    PROVE  FlatMap(k, a \o b) = FlatMap(k, a) \o FlatMap(k, b)
  <1> DEFINE G == {c \in Seq(T) : FlatMap(k, a \o c) = FlatMap(k, a) \o FlatMap(k, c)}
  <1>1. <<>> \in G
    <2>1. a \o <<>> = a /\ FlatMap(k, <<>>) = <<>>
      BY FlatMapEmpty, ConcatEmptySeq
    <2>2. FlatMap(k, a) \o <<>> = FlatMap(k, a)
      BY FlatMapType, ConcatEmptySeq
    <2>3. <<>> \in Seq(T)
      BY EmptySeq, Zenon
    <2>4. QED
      BY <2>1, <2>2, <2>3, Zenon
  <1>2. ASSUME NEW c \in Seq(T), NEW e \in T, c \in G
        PROVE  Append(c, e) \in G
    <2>1. FlatMap(k, a \o c) = FlatMap(k, a) \o FlatMap(k, c)
      BY <1>2
    <2>2. a \o Append(c, e) = Append(a \o c, e) /\ a \o c \in Seq(T) /\ Append(c, e) \in Seq(T)
      <3>1. Append(c, e) = c \o <<e>> /\ <<e>> \in Seq(T) /\ a \o c \in Seq(T)
        BY AppendIsConcat, ConcatProperties
      <3>2. Append(a \o c, e) = (a \o c) \o <<e>>
        BY <3>1, AppendIsConcat, Zenon
      <3>3. (a \o c) \o <<e>> = a \o (c \o <<e>>)
        <4> DEFINE d == <<e>>
        <4>1. a \in Seq(T) /\ c \in Seq(T) /\ d \in Seq(T)
          BY <3>1
        <4> HIDE DEF d
        <4>2. (a \o c) \o d = a \o (c \o d)
          BY <4>1, ConcatAssociative, SMTT(60)
        <4>3. QED
          BY <4>2 DEF d
      <3>4. QED
        BY <3>1, <3>2, <3>3, AppendProperties
    <2>3. FlatMap(k, Append(a \o c, e)) = FlatMap(k, a \o c) \o k[e]
      BY <2>2, FlatMapAppend
    <2>4. FlatMap(k, Append(c, e)) = FlatMap(k, c) \o k[e]
      BY FlatMapAppend
    <2>5. FlatMap(k, a) \in Seq(U) /\ FlatMap(k, c) \in Seq(U) /\ k[e] \in Seq(U)
      BY FlatMapType
    <2>6. (FlatMap(k, a) \o FlatMap(k, c)) \o k[e] = FlatMap(k, a) \o (FlatMap(k, c) \o k[e])
      BY <2>5, ConcatAssociative, SMTT(30)
    <2>7. QED
      BY <2>1, <2>2, <2>3, <2>4, <2>6
  <1> HIDE DEF G
  <1>3. Seq(T) \subseteq G
    BY <1>1, <1>2, SeqInduct
  <1>4. QED
    BY <1>3 DEF G

-----------------------------------------------------------------------------
(* Lists as they are stored and as they are sent.                          *)

Parse == [e \in Token |-> IF e = LF THEN <<>> ELSE <<e>>]
Write == [e \in Token |-> IF e = CR THEN <<CR, LF>> ELSE <<e>>]

LEMMA Conversions ==
    /\ Parse \in [Token -> Seq(Token)] /\ Write \in [Token -> Seq(Token)]
    /\ \A s \in Seq(Token) : /\ string_to_binary(s) = FlatMap(Parse, s)
                             /\ binary_to_string(s) = FlatMap(Write, s)
  <1>1. Parse \in [Token -> Seq(Token)] /\ Write \in [Token -> Seq(Token)]
    <2>1. CR \in Token /\ LF \in Token
      BY DEF Token
    <2>2. \A e \in Token : <<e>> \in Seq(Token)
      OBVIOUS
    <2>3. <<>> \in Seq(Token) /\ <<CR, LF>> \in Seq(Token)
      BY <2>1
    <2>4. \A e \in Token : /\ (IF e = LF THEN <<>> ELSE <<e>>) \in Seq(Token)
                           /\ (IF e = CR THEN <<CR, LF>> ELSE <<e>>) \in Seq(Token)
      BY <2>2, <2>3
    <2>5. QED
      BY <2>4 DEF Parse, Write
  <1>2. ASSUME NEW s \in Seq(Token)
        PROVE  /\ string_to_binary(s) = FlatMap(Parse, s)
               /\ binary_to_string(s) = FlatMap(Write, s)
    <2>1. \A i \in DOMAIN s : s[i] \in Token
      BY LenProperties, ElementOfSeq
    <2>2. [i \in DOMAIN s |-> IF s[i] = LF THEN <<>> ELSE <<s[i]>>] = [i \in DOMAIN s |-> Parse[s[i]]]
      BY <2>1 DEF Parse
    <2>3. [i \in DOMAIN s |-> IF s[i] = CR THEN <<CR, LF>> ELSE <<s[i]>>] = [i \in DOMAIN s |-> Write[s[i]]]
      BY <2>1 DEF Write
    <2>4. QED
      BY <2>2, <2>3 DEF string_to_binary, binary_to_string, FlatMap
  <1>3. QED
    BY <1>1, <1>2

\* What is stored is a text.
LEMMA ParseType ==
    ASSUME NEW s \in Seq(Token)
    PROVE  string_to_binary(s) \in Seq(Token) /\ string_to_binary(s) # Absent
  <1>1. string_to_binary(s) \in Seq(Token)
    BY Conversions, FlatMapType, SMTT(30)
  <1>2. QED
    BY <1>1, MailAssumption DEF Token

LEMMA WriteType ==
    ASSUME NEW s \in Seq(Token)
    PROVE  binary_to_string(s) \in Seq(Token)
  <1>1. \A k \in [Token -> Seq(Token)] : FlatMap(k, s) \in Seq(Token)
    BY FlatMapType
  <1>2. QED
    BY <1>1, Conversions

LEMMA ParseConcat ==
    ASSUME NEW s \in Seq(Token), NEW t \in Seq(Token)
    PROVE  string_to_binary(s \o t) = string_to_binary(s) \o string_to_binary(t)
  <1>1. s \o t \in Seq(Token)
    BY ConcatProperties
  <1>2. FlatMap(Parse, s \o t) = FlatMap(Parse, s) \o FlatMap(Parse, t)
    <2>1. \A k \in [Token -> Seq(Token)] : FlatMap(k, s \o t) = FlatMap(k, s) \o FlatMap(k, t)
      BY FlatMapConcat, SMTT(30)
    <2>2. QED
      BY <2>1, Conversions
  <1>3. QED
    BY <1>1, <1>2, Conversions

LEMMA ParseOne ==
    ASSUME NEW e \in Token, e # LF
    PROVE  string_to_binary(<<e>>) = <<e>>
  <1>1. FlatMap(Parse, <<e>>) = Parse[e]
    BY Conversions, FlatMapOne
  <1>2. <<e>> \in Seq(Token)
    OBVIOUS
  <1>3. QED
    BY <1>1, <1>2, Conversions DEF Parse

LEMMA ParseLineEnd ==
    string_to_binary(<<CR, LF>>) = <<CR>>
  <1>1. CR \in Token /\ LF \in Token /\ CR # LF /\ <<CR>> \in Seq(Token) /\ <<LF>> \in Seq(Token)
    BY DEF Token, CR, LF
  <1>2. <<CR, LF>> = <<CR>> \o <<LF>>
    <2>1. Len(<<CR>>) = 1 /\ <<CR>>[1] = CR /\ Len(<<LF>>) = 1 /\ <<LF>>[1] = LF
      OBVIOUS
    <2>2. <<CR>> \o <<LF>> \in Seq(Token) /\ Len(<<CR>> \o <<LF>>) = 2
          /\ (<<CR>> \o <<LF>>)[1] = CR /\ (<<CR>> \o <<LF>>)[2] = LF
      BY <1>1, <2>1, ConcatProperties
    <2>3. <<CR, LF>> \in Seq(Token) /\ Len(<<CR, LF>>) = 2
          /\ <<CR, LF>>[1] = CR /\ <<CR, LF>>[2] = LF
      BY <1>1
    <2>4. \A i \in 1..2 : <<CR, LF>>[i] = (<<CR>> \o <<LF>>)[i]
      BY <2>2, <2>3
    <2>5. QED
      BY <2>2, <2>3, <2>4, SeqEqual
  <1>3. string_to_binary(<<LF>>) = <<>>
    <2>1. FlatMap(Parse, <<LF>>) = Parse[LF]
      BY <1>1, Conversions, FlatMapOne
    <2>2. QED
      BY <1>1, <2>1, Conversions DEF Parse
  <1>4. string_to_binary(<<CR>>) = <<CR>>
    BY <1>1, ParseOne
  <1>5. string_to_binary(<<CR>> \o <<LF>>) = <<CR>> \o <<>>
    BY <1>1, <1>3, <1>4, ParseConcat
  <1>6. QED
    BY <1>1, <1>2, <1>5, ConcatEmptySeq

\* A text without line feeds comes back as it was stored.
LEMMA RoundTrip ==
    ASSUME NEW c \in Seq(Token \ {LF})
    PROVE  binary_to_string(c) \in Seq(Token) /\ string_to_binary(binary_to_string(c)) = c
  <1> DEFINE L == Token \ {LF}
             G == {s \in Seq(L) : string_to_binary(binary_to_string(s)) = s}
  <1>1. \A s \in Seq(L) : s \in Seq(Token) /\ binary_to_string(s) \in Seq(Token)
    <2>1. \A s \in Seq(L) : s \in Seq(Token)
      OBVIOUS
    <2>2. ASSUME NEW s \in Seq(L)
          PROVE  binary_to_string(s) \in Seq(Token)
      <3>1. s \in Seq(Token) /\ Write \in [Token -> Seq(Token)] /\ binary_to_string(s) = FlatMap(Write, s)
        BY <2>1, Conversions
      <3>2. QED
        BY <3>1, WriteType
    <2>3. QED
      BY <2>1, <2>2
  <1>2. <<>> \in G
    <2>1. <<>> \in Seq(L) /\ <<>> \in Seq(Token)
      BY EmptySeq
    <2>2. binary_to_string(<<>>) = <<>> /\ string_to_binary(<<>>) = <<>>
      BY <2>1, Conversions, FlatMapEmpty
    <2>3. QED
      BY <2>1, <2>2
  <1>3. ASSUME NEW s \in Seq(L), NEW e \in L, s \in G
        PROVE  Append(s, e) \in G
    <2>1. s \in Seq(Token) /\ e \in Token /\ e # LF /\ Append(s, e) \in Seq(L) /\ Append(s, e) \in Seq(Token)
      BY AppendProperties
    <2>2. FlatMap(Write, Append(s, e)) = FlatMap(Write, s) \o Write[e]
      BY <2>1, Conversions, FlatMapAppend, ZenonT(40)
    <2>3. binary_to_string(Append(s, e)) = binary_to_string(s) \o Write[e]
      BY <2>1, <2>2, Conversions
    <2>4. Write[e] \in Seq(Token) /\ binary_to_string(s) \in Seq(Token)
      BY <1>1, <2>1, Conversions
    <2>5. string_to_binary(binary_to_string(Append(s, e)))
            = string_to_binary(binary_to_string(s)) \o string_to_binary(Write[e])
      BY <2>3, <2>4, ParseConcat
    <2>6. string_to_binary(Write[e]) = <<e>>
      BY <2>1, ParseOne, ParseLineEnd DEF Write
    <2>7. Append(s, e) = s \o <<e>>
      BY <2>1, AppendIsConcat
    <2>8. string_to_binary(binary_to_string(s)) = s
      BY <1>3
    <2>9. QED
      BY <2>1, <2>5, <2>6, <2>7, <2>8
  <1> HIDE DEF G
  <1>4. Seq(L) \subseteq G
    BY <1>2, <1>3, SeqInduct
  <1>5. QED
    BY <1>1, <1>4 DEF G

LEMMA HeadConcat ==
    ASSUME NEW T, NEW s \in Seq(T), NEW t \in Seq(T), s # <<>>
    PROVE  s \o t # <<>> /\ Head(s \o t) = s[1] /\ (s \o t)[1] = s[1]
  <1>1. Len(s) \in Nat \ {0}
    BY EmptySeq
  <1>2. s \o t \in Seq(T) /\ Len(s \o t) = Len(s) + Len(t) /\ (s \o t)[1] = s[1] /\ Len(t) \in Nat
    BY <1>1, ConcatProperties, LenProperties
  <1>3. QED
    BY <1>1, <1>2

\* The first line of a text is first in what get sends.
LEMMA WriteHead ==
    ASSUME NEW c \in Seq(Token \ {LF}), c # <<>>
    PROVE  binary_to_string(c) # <<>> /\ binary_to_string(c)[1] = c[1]
  <1> DEFINE L == Token \ {LF}
             G == {s \in Seq(L) : s # <<>> => binary_to_string(s) # <<>> /\ binary_to_string(s)[1] = s[1]}
  <1>1. <<>> \in G
    BY EmptySeq
  <1>2. ASSUME NEW s \in Seq(L), NEW e \in L, s \in G
        PROVE  Append(s, e) \in G
    <2>1. s \in Seq(Token) /\ e \in Token /\ e # LF /\ Append(s, e) \in Seq(L) /\ Append(s, e) \in Seq(Token)
      BY AppendProperties
    <2>2. FlatMap(Write, Append(s, e)) = FlatMap(Write, s) \o Write[e]
      BY <2>1, Conversions, FlatMapAppend, ZenonT(40)
    <2>3. binary_to_string(Append(s, e)) = binary_to_string(s) \o Write[e]
      BY <2>1, <2>2, Conversions
    <2>4. Write[e] \in Seq(Token) /\ binary_to_string(s) \in Seq(Token)
      <3>1. Write[e] \in Seq(Token)
        BY <2>1, Conversions
      <3>2. QED
        BY <2>1, <3>1, WriteType
    <2>5. Write[e] # <<>> /\ Write[e][1] = e
      BY <2>1 DEF Write
    <2>6. CASE s = <<>>
      <3>1. binary_to_string(s) = <<>>
        BY <2>1, <2>6, Conversions, FlatMapEmpty
      <3>2. binary_to_string(Append(s, e)) = Write[e]
        BY <2>3, <2>4, <3>1, ConcatEmptySeq
      <3>3. Append(s, e)[1] = e
        BY <2>6
      <3>4. QED
        BY <2>1, <2>5, <3>2, <3>3
    <2>7. CASE s # <<>>
      <3>1. binary_to_string(s) # <<>> /\ binary_to_string(s)[1] = s[1]
        BY <1>2, <2>7
      <3>2. binary_to_string(Append(s, e)) # <<>> /\ binary_to_string(Append(s, e))[1] = s[1]
        BY <2>3, <2>4, <3>1, HeadConcat
      <3>3. Append(s, e)[1] = s[1]
        <4>1. Len(s) \in Nat \ {0}
          BY <2>7, EmptySeq
        <4>2. QED
          BY <4>1, AppendProperties
      <3>4. QED
        BY <2>1, <3>2, <3>3
    <2>8. QED
      BY <2>6, <2>7
  <1> HIDE DEF G
  <1>3. Seq(L) \subseteq G
    BY <1>1, <1>2, SeqInduct
  <1>4. QED
    BY <1>3 DEF G

-----------------------------------------------------------------------------
(* What the thread makes of a list.                                        *)

LEMMA LineTokens ==
    /\ Line \subseteq Token /\ LF \notin Line /\ Dot \notin Header /\ CR \notin Header
    /\ Header \cap Folder = {}
  BY MailAssumption DEF Line, Token, CR, LF, Dot

\* A list that was read is, put back, the one that is stored.
LEMMA SentList ==
    ASSUME NEW c, IsList(c)
    PROVE  /\ c \in Seq(Token) /\ Sent(c) \in Seq(Token) /\ Sent(c) # Err
           /\ Head(Sent(c)) = c[1]
           /\ Popped(Sent(c)) = binary_to_string(c)
           /\ string_to_binary(Popped(Sent(c))) = c
  <1> DEFINE B == binary_to_string(c)
             e == <<CR, LF>>
  <1>1. c \in Seq(Token \ {LF}) /\ c # <<>> /\ c \in Seq(Token)
    <2>1. Line \subseteq Token \ {LF}
      BY LineTokens
    <2>2. QED
      BY <2>1 DEF IsList
  <1>2. B \in Seq(Token) /\ string_to_binary(B) = c
    BY <1>1, RoundTrip
  <1>3. B # <<>> /\ B[1] = c[1]
    BY <1>1, WriteHead
  <1>4. e \in Seq(Token) /\ Len(e) = 2
    BY DEF Token
  <1> HIDE DEF B, e
  <1>5. B \o e \in Seq(Token) /\ Len(B \o e) = Len(B) + 2
    <2>1. B \in Seq(Token) /\ e \in Seq(Token)
      BY <1>2, <1>4
    <2>2. B \o e \in Seq(Token) /\ Len(B \o e) = Len(B) + Len(e)
      BY <2>1, ConcatProperties, Zenon
    <2>3. QED
      BY <1>4, <2>2
  <1>6. Head(B \o e) = B[1]
    BY <1>2, <1>3, <1>4, HeadConcat
  <1>7. Len(B) \in Nat \ {0}
    BY <1>2, <1>3, EmptySeq
  <1>8. SubSeq(B \o e, 1, Len(B \o e) - 2) = B
    <2>1. Len(B \o e) - 2 = Len(B) /\ 1 \in 1..Len(B) /\ Len(B) \in 1..Len(B)
      BY <1>5, <1>7
    <2>2. SubSeq(B \o e, 1, Len(B)) = SubSeq(B, 1, Len(B))
      BY <1>2, <1>4, <2>1, SubSeqOfConcat1
    <2>3. SubSeq(B, 1, Len(B)) = B
      BY <1>2, SubSeqFull
    <2>4. QED
      BY <2>1, <2>2, <2>3
  <1>9. Sent(c) = B \o e
    BY DEF Sent, B, e
  <1>10. Popped(Sent(c)) = B
    BY <1>8, <1>9 DEF Popped
  <1>11. Sent(c) # Err
    <2>1. Len(Err) = 1
      BY DEF Err
    <2>2. QED
      BY <1>5, <1>7, <1>9, <2>1
  <1>12. QED
    BY <1>1, <1>2, <1>3, <1>5, <1>6, <1>9, <1>10, <1>11 DEF B

LEMMA DotList ==
    ASSUME NEW h \in Header \cup {Dot}
    PROVE  /\ string_to_binary(<<h>>) = <<h>> /\ IsList(<<h>>)
           /\ HeadersIn(<<h>>) = {h} \cap Header
  <1>1. h \in Token /\ h # LF /\ h \in Line
    BY LineTokens DEF Line
  <1>2. string_to_binary(<<h>>) = <<h>>
    BY <1>1, ParseOne
  <1>3. IsList(<<h>>)
    BY <1>1 DEF IsList
  <1>4. ToSet(<<h>>) = {h}
    BY DEF ToSet
  <1>5. QED
    BY <1>2, <1>3, <1>4 DEF HeadersIn

\* The new list has the new header, and the old ones unless the first is dotted.
LEMMA NewListStored ==
    ASSUME NEW c, IsList(c), NEW h \in Header
    PROVE  LET l == NewList(Sent(c), h)
               n == string_to_binary(l)
           IN /\ n \in Seq(Token) /\ n # Absent /\ IsList(n)
              /\ h \in HeadersIn(n) /\ HeadersIn(n) \subseteq HeadersIn(c) \cup {h}
              /\ c[1] \notin Dotted => HeadersIn(c) \subseteq HeadersIn(n)
  <1> DEFINE l == NewList(Sent(c), h)
             n == string_to_binary(l)
             e == <<h, CR, LF>>
             d == <<h, CR>>
             B == binary_to_string(c)
  <1>1. Head(Sent(c)) = c[1] /\ Popped(Sent(c)) = B /\ string_to_binary(B) = c /\ c \in Seq(Token)
    BY SentList
  <1>2. c \in Seq(Line) /\ c # <<>> /\ (c[1] = Dot => c = <<Dot>>)
    BY DEF IsList
  <1>3. CASE c[1] \in Dotted \cup {Dot}
    <2>1. l = <<h>>
      BY <1>1, <1>3 DEF NewList, StartsWithDot
    <2>2. n = <<h>> /\ IsList(n) /\ HeadersIn(n) = {h}
      BY <2>1, DotList
    <2>3. <<h>> \in Seq(Token)
      BY DEF Token
    <2>4. n \in Seq(Token) /\ n # Absent
      BY <2>1, <2>3, ParseType
    <2>5. c[1] \notin Dotted => HeadersIn(c) = {}
      <3>1. c[1] \notin Dotted => c = <<Dot>>
        BY <1>2, <1>3
      <3>2. HeadersIn(<<Dot>>) = {}
        BY DotList, LineTokens
      <3>3. QED
        BY <3>1, <3>2
    <2>6. QED
      BY <2>2, <2>4, <2>5
  <1>4. CASE c[1] \notin Dotted \cup {Dot}
    <2>1. l = e \o B
      BY <1>1, <1>4 DEF NewList, StartsWithDot
    <2>2. B \in Seq(Token) /\ e \in Seq(Token) /\ d \in Seq(Line) /\ d \in Seq(Token)
      BY <1>1, WriteType, LineTokens DEF Line, Token
    <2>3. l \in Seq(Token)
      BY <2>1, <2>2, ConcatProperties
    <2>4. string_to_binary(e) = d
      <3>1. h \in Token /\ h # LF /\ <<h>> \in Seq(Token) /\ <<CR, LF>> \in Seq(Token)
            /\ <<CR>> \in Seq(Token)
        BY LineTokens DEF Line, Token
      <3>2. e = <<h>> \o <<CR, LF>>
        <4>1. Len(<<h>>) = 1 /\ Len(<<CR, LF>>) = 2 /\ Len(e) = 3
          OBVIOUS
        <4>2. <<h>> \o <<CR, LF>> \in Seq(Token) /\ Len(<<h>> \o <<CR, LF>>) = 3
              /\ \A i \in 1..3 : (<<h>> \o <<CR, LF>>)[i] = IF i <= 1 THEN <<h>>[i] ELSE <<CR, LF>>[i - 1]
          BY <3>1, <4>1, ConcatProperties
        <4>3. \A i \in 1..3 : (<<h>> \o <<CR, LF>>)[i] = e[i]
          BY <4>2
        <4>4. QED
          BY <2>2, <4>1, <4>2, <4>3, SeqEqual
      <3>3. string_to_binary(e) = string_to_binary(<<h>>) \o string_to_binary(<<CR, LF>>)
        BY <3>1, <3>2, ParseConcat
      <3>4. string_to_binary(e) = <<h>> \o <<CR>>
        BY <3>1, <3>3, ParseOne, ParseLineEnd
      <3>5. <<h>> \o <<CR>> = d
        <4>1. Len(<<h>>) = 1 /\ Len(<<CR>>) = 1 /\ Len(d) = 2
          OBVIOUS
        <4>2. <<h>> \o <<CR>> \in Seq(Token) /\ Len(<<h>> \o <<CR>>) = 2
              /\ \A i \in 1..2 : (<<h>> \o <<CR>>)[i] = IF i <= 1 THEN <<h>>[i] ELSE <<CR>>[i - 1]
          BY <3>1, <4>1, ConcatProperties
        <4>3. \A i \in 1..2 : (<<h>> \o <<CR>>)[i] = d[i]
          BY <4>2
        <4>4. QED
          BY <2>2, <4>1, <4>2, <4>3, SeqEqual
      <3>6. QED
        BY <3>4, <3>5
    <2> HIDE DEF e, B, l
    <2>5. n = d \o c
      BY <1>1, <2>1, <2>2, <2>4, ParseConcat
    <2>6. n \in Seq(Token) /\ n # Absent
      BY <2>3, ParseType
    <2>7. Len(d) = 2 /\ d[1] = h /\ d[2] = CR /\ Len(c) \in Nat
      BY <1>2, LenProperties
    <2> HIDE DEF d, n
    <2>8. n \in Seq(Line) /\ Len(n) = 2 + Len(c)
          /\ \A i \in 1..(2 + Len(c)) : n[i] = IF i <= 2 THEN d[i] ELSE c[i - 2]
      <3>1. d \in Seq(Line) /\ c \in Seq(Line)
        BY <1>2, <2>2
      <3>2. d \o c \in Seq(Line) /\ Len(d \o c) = Len(d) + Len(c)
            /\ \A i \in 1..(Len(d) + Len(c)) : (d \o c)[i] = IF i <= Len(d) THEN d[i] ELSE c[i - Len(d)]
        BY <3>1, ConcatProperties, Zenon
      <3>3. QED
        BY <2>5, <2>7, <3>2
    <2>9. n # <<>> /\ n[1] = h
      BY <2>7, <2>8
    <2>10. IsList(n)
      BY <2>8, <2>9, LineTokens DEF IsList
    <2>11. DOMAIN n = 1..(2 + Len(c)) /\ DOMAIN c = 1..Len(c)
      BY <1>2, <2>8, LenProperties
    <2>12. ToSet(n) = {h, CR} \cup ToSet(c)
      <3>1. ToSet(n) \subseteq {h, CR} \cup ToSet(c)
        <4> SUFFICES ASSUME NEW i \in 1..(2 + Len(c))
                     PROVE  n[i] \in {h, CR} \cup {c[j] : j \in 1..Len(c)}
          BY <2>11 DEF ToSet
        <4>1. CASE i <= 2
          BY <2>7, <2>8, <4>1
        <4>2. CASE i > 2
          <5>1. i - 2 \in 1..Len(c) /\ n[i] = c[i - 2]
            BY <2>7, <2>8, <4>2
          <5>2. QED
            BY <5>1
        <4>3. QED
          BY <2>7, <4>1, <4>2
      <3>2. h \in ToSet(n) /\ CR \in ToSet(n)
        <4>1. 1 \in DOMAIN n /\ 2 \in DOMAIN n /\ n[1] = h /\ n[2] = CR
          BY <2>7, <2>8, <2>11
        <4>2. QED
          BY <4>1 DEF ToSet
      <3>3. ToSet(c) \subseteq ToSet(n)
        <4> SUFFICES ASSUME NEW j \in 1..Len(c)
                     PROVE  c[j] \in ToSet(n)
          BY <2>11 DEF ToSet
        <4>1. j + 2 \in DOMAIN n /\ n[j + 2] = c[j]
          BY <2>7, <2>8, <2>11
        <4>2. QED
          BY <4>1 DEF ToSet
      <3>4. QED
        BY <3>1, <3>2, <3>3
    <2>13. QED
      BY <2>6, <2>10, <2>12, LineTokens DEF HeadersIn, n, l
  <1>5. QED
    BY <1>3, <1>4

-----------------------------------------------------------------------------
(* Types                                                                   *)

LEMMA CommandType ==
    /\ NoCommand \in Command /\ Request \subseteq Command
    /\ \A m \in Mail : [name |-> "send_email", user |-> get_username(m[1]),
                        to |-> get_username(m[2]), header |-> m[3]] \in Command
    /\ \A c \in Command : c.user \in User /\ c.to \in User /\ c.header \in Header
  <1>1. PICK u \in User, h \in Header : TRUE
    BY MailAssumption
  <1>2. [name |-> "none", user |-> u, to |-> u, header |-> h] \in Command
    BY DEF Command
  <1>3. NoCommand \in Command
    BY <1>2 DEF NoCommand
  <1>4. \A c \in Command : c.user \in User /\ c.to \in User /\ c.header \in Header
    BY DEF Command
  <1>5. \A m \in Mail : m[1][1] \in User /\ m[2][1] \in User /\ m[3] \in Header
    BY MailAssumption
  <1>6. ASSUME NEW c \in Request
        PROVE  c \in Command
    <2>1. CASE c \in [name : {"user", "get_inbox", "get_sent"}, user : User,
                      to : {NoCommand.to}, header : {NoCommand.header}]
      BY <1>3, <1>4, <2>1 DEF Command
    <2>2. CASE c \in [name : {"get_email"}, user : User, to : {NoCommand.to}, header : Header]
      BY <1>3, <1>4, <2>2 DEF Command
    <2>3. CASE c = [NoCommand EXCEPT !.name = "quit"]
      BY <1>3, <2>3 DEF Command
    <2>4. QED
      BY <2>1, <2>2, <2>3 DEF Request
  <1>7. QED
    BY <1>3, <1>4, <1>5, <1>6 DEF Command, get_username

LEMMA Owners ==
    ASSUME Locals, NEW w \in Worker
    PROVE  /\ Owner(w) \in User /\ Username(w) \in User /\ cmd[w].header \in Header
           /\ cmd[w].user \in User /\ cmd[w].to \in User /\ folder[w] \in Folder
           /\ Box(w) \in User \X Folder /\ Box(w) \in Key
           /\ Changing(w) \subseteq User \X Folder
           /\ User \X Folder \subseteq Key /\ User \X Header \subseteq Key
  <1>1. cmd[w] \in Command /\ folder[w] \in Folder
    BY DEF Locals
  <1>2. cmd[w].user \in User /\ cmd[w].to \in User /\ cmd[w].header \in Header
    BY <1>1, CommandType
  <1>3. Owner(w) \in User /\ Username(w) \in User
    BY <1>2 DEF Owner, Username
  <1>4. Box(w) \in User \X Folder
    BY <1>1, <1>3 DEF Box
  <1>5. \A f \in Folder : <<Username(w), f>> \in User \X Folder
    BY <1>3
  <1>6. Changing(w) \subseteq User \X Folder
    BY <1>4, <1>5 DEF Changing
  <1>7. User \X Folder \subseteq Key /\ User \X Header \subseteq Key
    BY DEF Key
  <1>8. QED
    BY <1>1, <1>2, <1>3, <1>4, <1>6, <1>7

\* The variables of the threads in every action.
LEMMA EventLocals ==
    ASSUME Locals, NEW w \in Worker, Event(w)
    PROVE  Locals'
  <1> USE DEF Locals, GoTo, Place
  <1>1. NoCommand \in Command
    BY CommandType
  <1>2. ASSUME NEW u, NEW t \in {"ready", "list", "sent_list", "mail", "cput"}, ForUser(w, u, t)
        PROVE  /\ pc' \in [Worker -> Place]
               /\ then' \in [Worker -> {"ready", "list", "sent_list", "mail", "cput"}]
    BY <1>2 DEF ForUser
  <1>3. ASSUME NEW t \in Place, Forget(w, t)
        PROVE  /\ cmd' \in [Worker -> Command]
               /\ folder' \in [Worker -> Folder] /\ found' \in [Worker -> SUBSET Folder]
               /\ pc' \in [Worker -> Place]
               /\ then' \in [Worker -> {"ready", "list", "sent_list", "mail", "cput"}]
    BY <1>1, <1>3 DEF Forget, Folder
  <1>4. Exit => Locals'
    BY <1>1 DEF Exit, Folder
  <1>5. CASE Accept(w)
    BY <1>5 DEF Accept
  <1>6. ASSUME NEW u \in User, Intro(w, u)
        PROVE  Locals'
    <2>1. [cmd[w] EXCEPT !.name = "user", !.user = u] \in Command
      BY DEF Command
    <2>2. cmd' = [cmd EXCEPT ![w] = [cmd[w] EXCEPT !.name = "user", !.user = u]]
      BY <1>6 DEF Intro
    <2>3. cmd' \in [Worker -> Command]
      BY <2>1, <2>2
    <2>4. QED
      BY <1>6, <2>3 DEF Intro, At
  <1>7. CASE BadDescriptor(w)
    BY <1>4, <1>7 DEF BadDescriptor
  <1>8. CASE ConnectFails(w)
    BY <1>4, <1>8 DEF ConnectFails
  <1>9. CASE Hang(w)
    <2>1. Forget(w, "hung")
      BY <1>9 DEF Hang
    <2>2. QED
      BY <1>3, <1>9, <2>1 DEF Hang
  <1>10. ASSUME NEW c \in Request,
                GetInbox(w, c) \/ GetSent(w, c) \/ GetEmail(w, c) \/ ChangeUser(w, c) \/ Quit(w, c)
         PROVE  Locals'
    <2>1. c \in Command
      BY CommandType
    <2>2. ASSUME Take(w, c)
          PROVE  cmd' \in [Worker -> Command] /\ user' = user
      BY <2>1, <2>2 DEF Take
    <2>3. ASSUME NEW t \in {"ready", "list", "sent_list", "mail"}, Take(w, c),
                 ForUser(w, c.user, t), exited' = exited, UNCHANGED <<folder, found>>
          PROVE  Locals'
      BY <1>2, <2>2, <2>3
    <2>4. CASE GetInbox(w, c)
      BY <2>3, <2>4 DEF GetInbox, Reads
    <2>5. CASE GetSent(w, c)
      BY <2>3, <2>5 DEF GetSent, Reads
    <2>6. CASE GetEmail(w, c)
      BY <2>3, <2>6 DEF GetEmail, Reads
    <2>7. CASE ChangeUser(w, c)
      <3>1. CASE user[w] = c.user
        <4>1. Forget(w, "ready") /\ user' = user /\ exited' = exited
          BY <2>7, <3>1 DEF ChangeUser, Ready, Reads
        <4>2. QED
          BY <1>3, <4>1
      <3>2. CASE user[w] # c.user
        BY <2>3, <2>7, <3>2 DEF ChangeUser, Reads
      <3>3. QED
        BY <3>1, <3>2
    <2>8. CASE Quit(w, c)
      <3>1. Forget(w, "closed") /\ exited' = exited /\ user' = [user EXCEPT ![w] = Absent]
        BY <2>8 DEF Quit, Reads
      <3>2. QED
        BY <1>3, <3>1
    <2>9. QED
      BY <1>10, <2>4, <2>5, <2>6, <2>7, <2>8
  <1>11. ASSUME NEW m \in Mail, SendEmail(w, m)
         PROVE  Locals'
    <2> DEFINE c == [name |-> "send_email", user |-> get_username(m[1]),
                     to |-> get_username(m[2]), header |-> m[3]]
    <2>1. c \in Command
      BY CommandType
    <2> HIDE DEF c
    <2>2. Reads(w, c, "send_email") /\ Take(w, c)
      BY <1>11 DEF SendEmail, c
    <2>3. cmd' \in [Worker -> Command] /\ user' = user /\ exited' = exited
      BY <2>1, <2>2 DEF Take, Reads
    <2>4. QED
      BY <1>11, <2>3 DEF SendEmail, Folder
  <1>12. QED
    BY <1>5, <1>6, <1>7, <1>8, <1>9, <1>10, <1>11 DEF Event

LEMMA WorkLocals ==
    ASSUME Locals, NEW w \in Worker, Work(w)
    PROVE  Locals'
  <1> USE DEF Locals, GoTo, Place
  <1>1. NoCommand \in Command /\ Username(w) \in User
    BY CommandType, Owners
  <1>2. ASSUME NEW u, ForUser(w, u, "cput")
        PROVE  /\ pc' \in [Worker -> Place]
               /\ then' \in [Worker -> {"ready", "list", "sent_list", "mail", "cput"}]
    BY <1>2 DEF ForUser
  <1>3. ASSUME Ready(w)
        PROVE  /\ cmd' \in [Worker -> Command]
               /\ folder' \in [Worker -> Folder] /\ found' \in [Worker -> SUBSET Folder]
               /\ pc' \in [Worker -> Place]
               /\ then' \in [Worker -> {"ready", "list", "sent_list", "mail", "cput"}]
    BY <1>1, <1>3 DEF Ready, Forget, Folder
  <1>4. ASSUME Return(w), exited' = exited
        PROVE  Locals'
    <2>1. user' \in [Worker -> User \cup {Absent}]
      BY <1>1, <1>4 DEF Return
    <2>2. CASE then[w] = "ready"
      <3>1. Ready(w)
        BY <1>4, <2>2 DEF Return
      <3>2. QED
        BY <1>3, <1>4, <2>1, <3>1
    <2>3. CASE then[w] # "ready"
      BY <1>4, <2>1, <2>3 DEF Return
    <2>4. QED
      BY <2>2, <2>3
  <1>5. ASSUME NextBox(w), UNCHANGED <<user, exited>>
        PROVE  Locals'
    <2>1. CASE folder[w] = "SENT"
      BY <1>5, <2>1 DEF NextBox, Folder
    <2>2. CASE folder[w] # "SENT"
      <3>1. Ready(w)
        BY <1>5, <2>2 DEF NextBox, EmailSent
      <3>2. QED
        BY <1>3, <1>5, <3>1
    <2>3. QED
      BY <2>1, <2>2
  <1>6. CASE Probe(w)
    <2>1. exited' = exited
      BY <1>6 DEF Probe, At
    <2>2. CASE tab[<<Username(w), "INBOX">>] = Absent
      BY <1>6, <2>1, <2>2 DEF Probe
    <2>3. CASE tab[<<Username(w), "INBOX">>] # Absent
      BY <1>4, <1>6, <2>1, <2>3 DEF Probe
    <2>4. QED
      BY <2>2, <2>3
  <1>7. CASE MakeInbox(w)
    BY <1>7 DEF MakeInbox, At
  <1>8. CASE MakeSent(w)
    BY <1>4, <1>8 DEF MakeSent, At
  <1>9. CASE AnswerList(w) \/ AnswerSent(w) \/ AnswerEmail(w)
    <2>1. Ready(w) /\ exited' = exited /\ user' = user
      BY <1>9 DEF AnswerList, AnswerSent, AnswerEmail, At
    <2>2. QED
      BY <1>3, <2>1
  <1>10. CASE FileMail(w)
    <2>1. UNCHANGED <<user, exited>>
      BY <1>10 DEF FileMail, At
    <2>2. CASE get(w, Owner(w), folder[w]) = Err
      BY <1>5, <1>10, <2>1, <2>2 DEF FileMail
    <2>3. CASE get(w, Owner(w), folder[w]) # Err
      <3>1. /\ found' = [found EXCEPT ![w] = @ \cup {folder[w]}]
            /\ ForUser(w, Owner(w), "cput") /\ UNCHANGED <<cmd, folder>>
        BY <1>10, <2>3 DEF FileMail
      <3>2. QED
        BY <1>2, <2>1, <3>1
    <2>4. QED
      BY <2>2, <2>3
  <1>11. CASE Cput(w)
    BY <1>11 DEF Cput, At
  <1>12. CASE NewVal(w)
    BY <1>12 DEF NewVal, At
  <1>13. CASE Text(w)
    BY <1>5, <1>13 DEF Text, At
  <1>14. QED
    BY <1>6, <1>7, <1>8, <1>9, <1>10, <1>11, <1>12, <1>13 DEF Work

-----------------------------------------------------------------------------
(* What a step leaves alone                                                *)

Same(x) ==
    /\ cmd'[x] = cmd[x] /\ folder'[x] = folder[x] /\ old'[x] = old[x]
    /\ then'[x] = then[x] /\ found'[x] = found[x]
    /\ pc'[x] = pc[x] \/ (pc[x] = "arg" /\ pc'[x] = "dangling")

\* Nothing of the store goes back, and a box of which something is promised
\* keeps its headers.
Steady ==
    /\ lost \subseteq lost' /\ contended \subseteq contended' /\ (exited => exited')
    /\ \A k \in Key : tab[k] # Absent => tab'[k] # Absent
    /\ \A b \in User \X Folder :
         b \notin Spoilt' /\ tab[b] # Absent => HeadersIn(tab[b]) \subseteq HeadersIn(tab'[b])

\* No box that another thread is changing is written.
Apart(w) == \A x \in Worker \ {w} : \A b \in Changing(x) : b \in Spoilt' \/ tab'[b] = tab[b]

ReadableKept == \A u \in User, h \in Header : Readable(u, h) => Readable(u, h)'

\* The process goes on, and every other thread is where it was.
LEMMA Frame ==
    ASSUME MailTypes, NEW w \in Worker, Event(w) \/ Work(w), ~Exit, NEW x \in Worker, x # w
    PROVE  Same(x)
  <1> USE DEF MailTypes, Locals, GoTo, Same
  <1>1. ASSUME NEW t, Forget(w, t)
        PROVE  /\ cmd'[x] = cmd[x] /\ folder'[x] = folder[x] /\ then'[x] = then[x]
               /\ found'[x] = found[x] /\ pc'[x] = pc[x]
    BY <1>1 DEF Forget
  <1>2. ASSUME NEW u, NEW t, ForUser(w, u, t)
        PROVE  pc'[x] = pc[x] /\ then'[x] = then[x]
    BY <1>2 DEF ForUser
  <1>3. ASSUME Return(w), old' = old
        PROVE  Same(x)
    <2>1. CASE then[w] = "ready"
      <3>1. Forget(w, "ready")
        BY <1>3, <2>1 DEF Return, Ready
      <3>2. QED
        BY <1>1, <1>3, <3>1
    <2>2. CASE then[w] # "ready"
      BY <1>3, <2>2 DEF Return
    <2>3. QED
      BY <2>1, <2>2
  <1>4. ASSUME NextBox(w)
        PROVE  Same(x)
    <2>1. CASE folder[w] = "SENT"
      BY <1>4, <2>1 DEF NextBox
    <2>2. CASE folder[w] # "SENT"
      <3>1. Forget(w, "ready") /\ old' = [old EXCEPT ![w] = <<>>]
        BY <1>4, <2>2 DEF NextBox, EmailSent, Ready
      <3>2. QED
        BY <1>1, <3>1
    <2>3. QED
      BY <2>1, <2>2
  <1>5. CASE Event(w)
    <2>1. CASE Accept(w)
      BY <2>1 DEF Accept
    <2>2. ASSUME NEW u \in User, Intro(w, u)
          PROVE  Same(x)
      BY <2>2 DEF Intro
    <2>3. ~BadDescriptor(w) /\ ~ConnectFails(w)
      BY DEF BadDescriptor, ConnectFails
    <2>4. CASE Hang(w)
      <3>1. Forget(w, "hung") /\ old' = [old EXCEPT ![w] = <<>>]
        BY <2>4 DEF Hang
      <3>2. QED
        BY <1>1, <3>1
    <2>5. ASSUME NEW c \in Request,
                 GetInbox(w, c) \/ GetSent(w, c) \/ GetEmail(w, c) \/ ChangeUser(w, c) \/ Quit(w, c)
          PROVE  Same(x)
      <3>1. old' = old
        BY <2>5 DEF GetInbox, GetSent, GetEmail, ChangeUser, Quit, Reads
      <3>2. ASSUME NEW t, Take(w, c), ForUser(w, c.user, t), UNCHANGED <<folder, found>>
            PROVE  Same(x)
        BY <1>2, <3>1, <3>2 DEF Take
      <3>3. CASE GetInbox(w, c)
        BY <3>2, <3>3 DEF GetInbox
      <3>4. CASE GetSent(w, c)
        BY <3>2, <3>4 DEF GetSent
      <3>5. CASE GetEmail(w, c)
        BY <3>2, <3>5 DEF GetEmail
      <3>6. CASE ChangeUser(w, c)
        <4>1. CASE user[w] = c.user
          BY <1>1, <3>1, <3>6, <4>1 DEF ChangeUser, Ready
        <4>2. CASE user[w] # c.user
          BY <3>2, <3>6, <4>2 DEF ChangeUser
        <4>3. QED
          BY <4>1, <4>2
      <3>7. CASE Quit(w, c)
        BY <1>1, <3>1, <3>7 DEF Quit
      <3>8. QED
        BY <2>5, <3>3, <3>4, <3>5, <3>6, <3>7
    <2>6. ASSUME NEW m \in Mail, SendEmail(w, m)
          PROVE  Same(x)
      BY <2>6 DEF SendEmail, Reads, Take
    <2>7. QED
      BY <1>5, <2>1, <2>2, <2>3, <2>4, <2>5, <2>6 DEF Event
  <1>6. CASE Work(w)
    <2>1. CASE Probe(w)
      <3>1. CASE tab[<<Username(w), "INBOX">>] = Absent
        BY <2>1, <3>1 DEF Probe
      <3>2. CASE tab[<<Username(w), "INBOX">>] # Absent
        BY <1>3, <2>1, <3>2 DEF Probe
      <3>3. QED
        BY <3>1, <3>2
    <2>2. CASE MakeInbox(w)
      BY <2>2 DEF MakeInbox
    <2>3. CASE MakeSent(w)
      BY <1>3, <2>3 DEF MakeSent
    <2>4. CASE AnswerList(w) \/ AnswerSent(w) \/ AnswerEmail(w)
      BY <1>1, <2>4 DEF AnswerList, AnswerSent, AnswerEmail, Ready
    <2>5. CASE FileMail(w)
      <3>1. CASE get(w, Owner(w), folder[w]) = Err
        BY <1>4, <2>5, <3>1 DEF FileMail
      <3>2. CASE get(w, Owner(w), folder[w]) # Err
        <4>1. /\ old' = [old EXCEPT ![w] = get(w, Owner(w), folder[w])]
              /\ found' = [found EXCEPT ![w] = @ \cup {folder[w]}]
              /\ ForUser(w, Owner(w), "cput") /\ UNCHANGED <<cmd, folder>>
          BY <2>5, <3>2 DEF FileMail
        <4>2. QED
          BY <1>2, <4>1
      <3>3. QED
        BY <3>1, <3>2
    <2>6. CASE Cput(w)
      BY <2>6 DEF Cput
    <2>7. CASE NewVal(w)
      BY <2>7 DEF NewVal
    <2>8. CASE Text(w)
      BY <1>4, <2>8 DEF Text
    <2>9. QED
      BY <1>6, <2>1, <2>2, <2>3, <2>4, <2>5, <2>6, <2>7, <2>8 DEF Work
  <1>7. QED
    BY <1>5, <1>6

LEMMA SpoiltGrows ==
    ASSUME Steady
    PROVE  Spoilt \subseteq Spoilt'
  BY DEF Steady, Spoilt

LEMMA ListsKept ==
    ASSUME Steady, NEW b \in User \X Folder, NEW h, Lists(b, h)
    PROVE  Lists(b, h)'
  <1>1. b \in Key
    BY DEF Key
  <1>2. b \in Spoilt => b \in Spoilt'
    BY SpoiltGrows
  <1>3. CASE b \in Spoilt'
    BY <1>3 DEF Lists
  <1>4. CASE b \notin Spoilt'
    <2>1. tab[b] # Absent /\ h \in HeadersIn(tab[b])
      BY <1>2, <1>4 DEF Lists
    <2>2. tab'[b] # Absent /\ h \in HeadersIn(tab'[b])
      BY <1>1, <1>4, <2>1 DEF Steady
    <2>3. QED
      BY <2>2 DEF Lists, HeadersIn
  <1>5. QED
    BY <1>3, <1>4

LEMMA OthersReadable ==
    ASSUME MailTypes, Steady, NEW w \in Worker, \A x \in Worker \ {w} : Same(x),
           pc[w] = "text" => \/ tab'[<<Owner(w), cmd[w].header>>] # Absent
                             \/ <<Owner(w), cmd[w].header>> \in lost' \/ exited'
    PROVE  ReadableKept
  <1> SUFFICES ASSUME NEW u \in User, NEW h \in Header, Readable(u, h)
               PROVE  Readable(u, h)'
    BY DEF ReadableKept
  <1>1. <<u, h>> \in Key
    BY DEF Key
  <1>2. CASE tab[<<u, h>>] # Absent \/ <<u, h>> \in lost \/ exited
    BY <1>1, <1>2 DEF Readable, Steady
  <1>3. ASSUME NEW x \in Worker, pc[x] = "text", Owner(x) = u, cmd[x].header = h
        PROVE  Readable(u, h)'
    <2>1. CASE x = w
      BY <1>3, <2>1 DEF Readable
    <2>2. CASE x # w
      <3>1. Same(x)
        BY <2>2
      <3>2. pc'[x] = "text" /\ cmd'[x] = cmd[x] /\ folder'[x] = folder[x]
        BY <1>3, <3>1 DEF Same
      <3>3. QED
        BY <1>3, <3>2 DEF Readable, Owner
    <2>3. QED
      BY <2>1, <2>2
  <1>4. QED
    BY <1>2, <1>3 DEF Readable

LEMMA OtherThread ==
    ASSUME MailTypes, Steady, ReadableKept, NEW x \in Worker, Same(x), Thread(x),
           \A b \in Changing(x) : b \in Spoilt' \/ tab'[b] = tab[b]
    PROVE  Thread(x)'
  <1>1. /\ cmd'[x] = cmd[x] /\ folder'[x] = folder[x] /\ old'[x] = old[x]
        /\ then'[x] = then[x] /\ found'[x] = found[x]
        /\ pc'[x] = pc[x] \/ (pc[x] = "arg" /\ pc'[x] = "dangling")
    BY DEF Same
  <1>2. /\ Owner(x)' = Owner(x) /\ Username(x)' = Username(x) /\ Box(x)' = Box(x)
        /\ Read(x)' = Read(x) /\ Holding(x)' = Holding(x)
        /\ \A f : OwnerOf(x, f)' = OwnerOf(x, f)
    BY <1>1 DEF Owner, Username, Box, Read, Holding, OwnerOf, Changes
  <1>3. /\ Owner(x) \in User /\ Username(x) \in User /\ Box(x) \in User \X Folder
        /\ cmd[x].user \in User /\ cmd[x].to \in User
        /\ User \X Folder \subseteq Key
    BY Owners DEF MailTypes
  <1>4. /\ \A k \in Key : tab[k] # Absent => tab'[k] # Absent
        /\ \A b \in Changing(x) : b \in Spoilt' \/ tab'[b] = tab[b]
        /\ Spoilt \subseteq Spoilt' /\ lost \subseteq lost'
    BY SpoiltGrows DEF Steady
  <1>5. Progress(x)'
    BY <1>1, <1>2 DEF Thread, Progress
  <1>6. Makes(x)'
    <2> DEFINE u == Username(x)
    <2>1. pc[x] \in {"make_inbox", "make_sent"} => \A f \in Folder : <<u, f>> \in Changing(x)
      BY DEF Changing
    <2>2. <<u, "INBOX">> \in Key /\ <<u, "SENT">> \in Key
      BY <1>3 DEF Key, Folder
    <2>3. pc'[x] = "make_inbox" =>
            <<u, "INBOX">> \in Spoilt' \/ tab'[<<u, "INBOX">>] = Absent
      BY <1>1, <1>4, <2>1 DEF Thread, Makes, Folder
    <2>4. pc'[x] \in {"make_inbox", "make_sent"} =>
            <<u, "SENT">> \in Spoilt' \/ tab'[<<u, "SENT">>] = Absent
      BY <1>1, <1>4, <2>1 DEF Thread, Makes, Folder
    <2>5. pc'[x] = "make_sent" => tab'[<<u, "INBOX">>] # Absent \/ <<u, "INBOX">> \in lost'
      BY <1>1, <1>4, <2>2 DEF Thread, Makes
    <2>6. QED
      BY <1>2, <2>3, <2>4, <2>5 DEF Makes
  <1>7. Holds(x)'
    <2> SUFFICES ASSUME Holding(x)
                 PROVE  /\ tab'[Box(x)] # Absent
                        /\ IsList(Read(x)) /\ old'[x] = Sent(Read(x))
                        /\ Box(x) \in Spoilt' \/ tab'[Box(x)] = Read(x)
                        /\ \A h \in HeadersIn(Read(x)) : Readable(Owner(x), h)'
      BY <1>2 DEF Holds
    <2>1. /\ tab[Box(x)] # Absent
          /\ IsList(Read(x)) /\ old[x] = Sent(Read(x))
          /\ Box(x) \in Spoilt \/ tab[Box(x)] = Read(x)
          /\ \A h \in HeadersIn(Read(x)) : Readable(Owner(x), h)
      BY DEF Thread, Holds
    <2>2. Box(x) \in Changing(x)
      BY DEF Holding, Changing, Changes
    <2>3. HeadersIn(Read(x)) \subseteq Header
      BY DEF HeadersIn
    <2>4. PICK o \in User : o = Owner(x)
      BY <1>3
    <2>5. \A h \in HeadersIn(Read(x)) : Readable(o, h)'
      BY <2>1, <2>3, <2>4 DEF ReadableKept
    <2>6. o = Owner(x)'
      BY <1>2, <2>4
    <2>7. \A h \in HeadersIn(Read(x)) : Readable(Owner(x), h)'
      BY <2>5, <2>6
    <2>8. tab'[Box(x)] # Absent /\ (Box(x) \in Spoilt' \/ tab'[Box(x)] = Read(x))
      BY <1>3, <1>4, <2>1, <2>2
    <2>9. QED
      BY <1>1, <2>1, <2>7, <2>8
  <1>8. Filed(x)'
    <2> SUFFICES ASSUME NEW f \in found[x], f # folder[x] \/ pc[x] = "text"
                 PROVE  Lists(<<OwnerOf(x, f), f>>, cmd[x].header)'
      BY <1>1, <1>2 DEF Filed
    <2>1. Lists(<<OwnerOf(x, f), f>>, cmd[x].header)
      BY DEF Thread, Filed
    <2>2. f \in Folder /\ OwnerOf(x, f) \in User
      BY <1>3 DEF MailTypes, Locals, OwnerOf
    <2>3. PICK b \in User \X Folder, h \in {cmd[x].header} :
            b = <<OwnerOf(x, f), f>> /\ h = cmd[x].header
      BY <2>2
    <2>4. Lists(b, h)'
      BY <2>1, <2>3, ListsKept
    <2>5. b = <<OwnerOf(x, f)', f>> /\ h = cmd'[x].header
      BY <1>1, <1>2, <2>3
    <2>6. QED
      BY <2>4, <2>5
  <1>9. QED
    BY <1>5, <1>6, <1>7, <1>8 DEF Thread

LEMMA Watched ==
    ASSUME Locals', Watch, contended \subseteq User \X Folder
    PROVE  Contended' /\ contended \subseteq contended' /\ contended' \subseteq User \X Folder
  <1>1. ASSUME NEW w \in Worker
        PROVE  Changing(w)' \subseteq User \X Folder
    <2>1. cmd'[w] \in Command /\ folder'[w] \in Folder
      BY DEF Locals
    <2>2. cmd'[w].user \in User /\ cmd'[w].to \in User
      BY <2>1, CommandType
    <2>3. Owner(w)' \in User /\ Username(w)' \in User
      BY <2>2 DEF Owner, Username
    <2>4. Box(w)' \in User \X Folder
      BY <2>1, <2>3 DEF Box
    <2>5. \A f \in Folder : <<Username(w), f>>' \in User \X Folder
      BY <2>3
    <2>6. QED
      BY <2>4, <2>5 DEF Changing
  <1>2. contended' = contended \cup
          {b \in User \X Folder : \E w, x \in Worker : w # x /\ b \in Changing(w)' /\ b \in Changing(x)'}
    BY DEF Watch
  <1> HIDE DEF Changing
  <1>3. ASSUME NEW w \in Worker, NEW x \in Worker, w # x
        PROVE  (Changing(w) \cap Changing(x))' \subseteq contended'
    BY <1>1, <1>2, <1>3
  <1>4. QED
    BY <1>2, <1>3 DEF Contended

LEMMA SameStore ==
    ASSUME tab' = tab, lost' = lost, contended \subseteq contended', exited => exited'
    PROVE  Steady /\ \A w \in Worker : Apart(w)
  BY DEF Steady, Apart

\* A thread that has neither read nor found anything.
LEMMA IdleThread ==
    ASSUME NEW w \in Worker, ~Holding(w)', folder'[w] = "SENT", found'[w] = {},
           pc'[w] \notin {"text", "make_inbox", "make_sent"}
    PROVE  Thread(w)'
  BY DEF Thread, Progress, Makes, Holds, Filed

LEMMA ExitStep ==
    ASSUME MInv, Exit, Watch
    PROVE  MInv' /\ Steady
  <1>1. NoCommand \in Command
    BY CommandType
  <1>2. Locals'
    BY <1>1 DEF MInv, MailTypes, Locals, Exit, Place, Folder
  <1>3. Contended' /\ contended \subseteq contended' /\ contended' \subseteq User \X Folder
    BY <1>2, Watched DEF MInv, MailTypes
  <1>4. tab' = tab /\ lost' = lost /\ exited' /\ acked' = acked
    BY DEF Exit, storeVars
  <1>5. Steady
    BY <1>3, <1>4, SameStore
  <1>6. MailTypes'
    <2>1. old' \in [Worker -> Seq(Token)]
      BY DEF Exit
    <2>2. QED
      BY <1>2, <1>3, <1>4, <2>1 DEF MInv, MailTypes
  <1>7. InboxFirst' /\ ListedReadable' /\ BoxesPaired'
    BY <1>4 DEF MInv, InboxFirst, ListedReadable, BoxesPaired
  <1>8. Acked'
    <2> SUFFICES ASSUME NEW m \in acked
                 PROVE  m \in User \X Folder \X Header /\ Lists(<<m[1], m[2]>>, m[3])'
      BY <1>4 DEF Acked
    <2>1. m \in User \X Folder \X Header /\ Lists(<<m[1], m[2]>>, m[3])
      BY DEF MInv, Acked
    <2>2. <<m[1], m[2]>> \in User \X Folder
      BY <2>1
    <2>3. QED
      BY <1>5, <2>1, <2>2, ListsKept
  <1>9. ASSUME NEW w \in Worker
        PROVE  Thread(w)'
    <2>1. pc'[w] = "closed" /\ folder'[w] = "SENT" /\ found'[w] = {}
      BY <1>9 DEF Exit
    <2>2. QED
      BY <1>9, <2>1, IdleThread DEF Holding, Changes
  <1>10. QED
    BY <1>3, <1>5, <1>6, <1>7, <1>8, <1>9 DEF MInv

\* Steps that write nothing.
LEMMA QuietStep ==
    ASSUME MInv, NEW w \in Worker, Event(w) \/ Work(w), ~Exit, tab' = tab, lost' = lost,
           exited' = exited,
           pc[w] \notin {"text", "make_sent"}, old' \in [Worker -> Seq(Token)],
           ReadableKept => Thread(w)',
           \A m \in acked' : m \in acked
             \/ (m \in User \X Folder \X Header /\ Lists(<<m[1], m[2]>>, m[3]))
    PROVE  MInv' /\ Steady
  <1>1. Locals'
    BY EventLocals, WorkLocals DEF MInv, MailTypes
  <1>2. Watch
    BY DEF Event, Work
  <1>3. Contended' /\ contended \subseteq contended' /\ contended' \subseteq User \X Folder
    BY <1>1, <1>2, Watched DEF MInv, MailTypes
  <1>4. Steady /\ Apart(w)
    BY <1>3, SameStore
  <1>5. \A x \in Worker \ {w} : Same(x)
    BY Frame DEF MInv
  <1>6. ReadableKept
    BY <1>4, <1>5, OthersReadable DEF MInv
  <1>7. MailTypes'
    BY <1>1, <1>3 DEF MInv, MailTypes
  <1>8. InboxFirst'
    BY DEF MInv, InboxFirst
  <1>9. ListedReadable'
    <2> SUFFICES ASSUME NEW u \in User, NEW f \in Folder, tab[<<u, f>>] # Absent,
                        NEW h \in HeadersIn(tab[<<u, f>>])
                 PROVE  Readable(u, h)'
      BY DEF ListedReadable, Readable
    <2>1. Readable(u, h)
      BY DEF MInv, ListedReadable, Readable
    <2>2. h \in Header
      BY DEF HeadersIn
    <2>3. QED
      BY <1>6, <2>1, <2>2 DEF ReadableKept
  <1>10. BoxesPaired'
    <2> SUFFICES ASSUME NEW u \in User, tab[<<u, "INBOX">>] # Absent,
                        tab[<<u, "SENT">>] = Absent, <<u, "SENT">> \notin lost, ~exited
                 PROVE  \E x \in Worker : pc'[x] = "make_sent" /\ Username(x)' = u
      BY DEF BoxesPaired
    <2>1. PICK x \in Worker : pc[x] = "make_sent" /\ Username(x) = u
      BY DEF MInv, BoxesPaired
    <2>2. x # w
      BY <2>1
    <2>3. Same(x)
      BY <1>5, <2>2
    <2>4. QED
      BY <2>1, <2>3 DEF Same, Username, Owner
  <1>11. Acked'
    <2> SUFFICES ASSUME NEW m \in acked'
                 PROVE  m \in User \X Folder \X Header /\ Lists(<<m[1], m[2]>>, m[3])'
      BY DEF Acked
    <2>1. m \in User \X Folder \X Header /\ Lists(<<m[1], m[2]>>, m[3])
      BY DEF MInv, Acked
    <2>2. <<m[1], m[2]>> \in User \X Folder
      BY <2>1
    <2>3. QED
      BY <1>4, <2>1, <2>2, ListsKept
  <1>12. ASSUME NEW x \in Worker
         PROVE  Thread(x)'
    <2>1. CASE x = w
      BY <1>6, <2>1
    <2>2. CASE x # w
      <3>1. Same(x) /\ Thread(x)
        BY <1>5, <1>12, <2>2 DEF MInv
      <3>2. QED
        BY <1>4, <1>6, <2>2, <3>1, OtherThread DEF MInv, Apart
    <2>3. QED
      BY <2>1, <2>2
  <1>13. QED
    BY <1>3, <1>4, <1>7, <1>8, <1>9, <1>10, <1>11, <1>12 DEF MInv

-----------------------------------------------------------------------------
(* The invariant is kept by what comes from outside.                       *)

LEMMA EventStep ==
    ASSUME MInv, NEW w \in Worker, Event(w)
    PROVE  MInv' /\ Steady
  <1> USE DEF GoTo
  <1>1. CASE Exit
    BY <1>1, ExitStep DEF Event
  <1>2. CASE ~Exit
    <2>1. /\ pc \in [Worker -> Place] /\ folder \in [Worker -> Folder]
          /\ found \in [Worker -> SUBSET Folder] /\ then \in [Worker -> {"ready", "list", "sent_list", "mail", "cput"}]
          /\ old \in [Worker -> Seq(Token)]
      BY DEF MInv, MailTypes, Locals
    <2>2. Progress(w)
      BY DEF MInv, Thread
    <2> DEFINE Kept == /\ tab' = tab /\ lost' = lost /\ exited' = exited /\ acked' = acked
                       /\ pc[w] \notin {"text", "make_sent"} /\ old' \in [Worker -> Seq(Token)]
    <2>3. ASSUME Kept, Thread(w)'
          PROVE  MInv' /\ Steady
      BY <1>2, <2>3, QuietStep
    <2>4. ASSUME Kept, NEW t \in {"ready", "closed", "hung"}, Forget(w, t)
          PROVE  MInv' /\ Steady
      <3>1. pc'[w] = t /\ folder'[w] = "SENT" /\ found'[w] = {}
        BY <2>1, <2>4 DEF Forget
      <3>2. Thread(w)'
        BY <3>1, IdleThread DEF Holding, Changes
      <3>3. QED
        BY <2>3, <2>4, <3>2
    <2>5. ASSUME pc[w] \in {"none", "arg", "dangling", "ready"}
          PROVE  folder[w] = "SENT" /\ found[w] = {}
      BY <2>2, <2>5 DEF Progress, Holding, Changes
    <2>6. CASE Accept(w)
      <3>1. Kept /\ pc[w] = "none"
        BY <2>1, <2>6 DEF Accept, storeVars
      <3>2. pc'[w] = "arg" /\ folder'[w] = "SENT" /\ found'[w] = {}
        BY <2>5, <2>6, <3>1 DEF Accept
      <3>3. Thread(w)'
        BY <3>2, IdleThread DEF Holding, Changes
      <3>4. QED
        BY <2>3, <3>1, <3>3
    <2>7. ASSUME NEW u \in User, Intro(w, u)
          PROVE  MInv' /\ Steady
      <3>1. Kept /\ pc[w] \in {"arg", "dangling"}
        BY <2>1, <2>7 DEF Intro, At, storeVars
      <3>2. pc'[w] = "probe" /\ then'[w] = "ready" /\ folder'[w] = "SENT" /\ found'[w] = {}
        BY <2>1, <2>5, <2>7, <3>1 DEF Intro
      <3>3. Thread(w)'
        BY <3>2, IdleThread DEF Holding, Changes
      <3>4. QED
        BY <2>3, <3>1, <3>3
    <2>8. ~BadDescriptor(w) /\ ~ConnectFails(w)
      BY <1>2 DEF BadDescriptor, ConnectFails
    <2>9. CASE Hang(w)
      <3>1. Kept /\ Forget(w, "hung")
        BY <2>1, <2>9 DEF Hang, storeVars
      <3>2. QED
        BY <2>4, <3>1
    <2>10. ASSUME NEW c \in Request,
                  GetInbox(w, c) \/ GetSent(w, c) \/ GetEmail(w, c) \/ ChangeUser(w, c) \/ Quit(w, c)
           PROVE  MInv' /\ Steady
      <3>1. Kept /\ pc[w] = "ready"
        BY <2>1, <2>10 DEF GetInbox, GetSent, GetEmail, ChangeUser, Quit, Reads, storeVars
      <3>2. ASSUME NEW t \in {"ready", "list", "sent_list", "mail"}, ForUser(w, c.user, t),
                   UNCHANGED <<folder, found>>
            PROVE  MInv' /\ Steady
        <4>1. pc'[w] = t \/ (pc'[w] = "probe" /\ then'[w] = t)
          BY <2>1, <3>2 DEF ForUser
        <4>2. folder'[w] = "SENT" /\ found'[w] = {}
          BY <2>5, <3>1, <3>2
        <4>3. Thread(w)'
          BY <4>1, <4>2, IdleThread DEF Holding, Changes
        <4>4. QED
          BY <2>3, <3>1, <4>3
      <3>3. CASE GetInbox(w, c)
        BY <3>2, <3>3 DEF GetInbox
      <3>4. CASE GetSent(w, c)
        BY <3>2, <3>4 DEF GetSent
      <3>5. CASE GetEmail(w, c)
        BY <3>2, <3>5 DEF GetEmail
      <3>6. CASE ChangeUser(w, c)
        <4>1. CASE user[w] = c.user
          BY <2>4, <3>1, <3>6, <4>1 DEF ChangeUser, Ready
        <4>2. CASE user[w] # c.user
          BY <3>2, <3>6, <4>2 DEF ChangeUser
        <4>3. QED
          BY <4>1, <4>2
      <3>7. CASE Quit(w, c)
        BY <2>4, <3>1, <3>7 DEF Quit
      <3>8. QED
        BY <2>10, <3>3, <3>4, <3>5, <3>6, <3>7
    <2>11. ASSUME NEW m \in Mail, SendEmail(w, m)
           PROVE  MInv' /\ Steady
      <3>1. Kept /\ pc[w] = "ready"
        BY <2>1, <2>11 DEF SendEmail, Reads, storeVars
      <3>2. pc'[w] = "file" /\ folder'[w] = "SENT" /\ found'[w] = {}
        BY <2>1, <2>11 DEF SendEmail
      <3>3. Thread(w)'
        BY <3>2 DEF Thread, Progress, Makes, Holds, Filed, Holding, Changes
      <3>4. QED
        BY <2>3, <3>1, <3>3
    <2>12. QED
      BY <2>6, <2>7, <2>8, <2>9, <2>10, <2>11 DEF Event
  <1>3. QED
    BY <1>1, <1>2

-----------------------------------------------------------------------------
(* And by what a thread does without writing.                              *)

\* Where change_user goes back to.
LEMMA Returned ==
    ASSUME Locals, NEW w \in Worker, Return(w), Thread(w), pc[w] \in Changes
    PROVE  \/ pc'[w] \in {"ready", "list", "sent_list", "mail"} /\ folder'[w] = "SENT" /\ found'[w] = {}
           \/ /\ then[w] = "cput" /\ pc'[w] = "cput"
              /\ cmd'[w] = cmd[w] /\ folder'[w] = folder[w] /\ found'[w] = found[w]
  <1> USE DEF Locals, GoTo
  <1>1. CASE then[w] = "ready"
    <2>1. Forget(w, "ready")
      BY <1>1 DEF Return, Ready
    <2>2. QED
      BY <2>1 DEF Forget
  <1>2. CASE then[w] = "cput"
    BY <1>2 DEF Return
  <1>3. CASE then[w] \notin {"ready", "cput"}
    <2>1. pc'[w] = then[w] /\ folder'[w] = folder[w] /\ found'[w] = found[w]
      BY <1>3 DEF Return
    <2>2. folder[w] = "SENT" /\ found[w] = {}
      BY <1>3 DEF Thread, Progress, Holding, Changes
    <2>3. QED
      BY <1>3, <2>1, <2>2
  <1>4. QED
    BY <1>1, <1>2, <1>3

\* The thread goes on with the list it has read.
LEMMA StillHolding ==
    ASSUME Locals, ReadableKept, NEW w \in Worker, Thread(w), Holding(w), Holding(w)',
           Makes(w)',
           cmd'[w] = cmd[w], folder'[w] = folder[w], found'[w] = found[w], old'[w] = old[w],
           tab'[Box(w)] # Absent, Box(w) \in Spoilt' \/ tab'[Box(w)] = Read(w),
           \A f \in found[w] : f # folder[w] =>
              Lists(<<OwnerOf(w, f), f>>, cmd[w].header)'
    PROVE  Thread(w)'
  <1>1. Owner(w)' = Owner(w) /\ Box(w)' = Box(w) /\ Read(w)' = Read(w)
    BY DEF Owner, Box, Read
  <1>2. Progress(w)'
    BY DEF Thread, Progress, Holding, Changes
  <1>3. Makes(w)'
    OBVIOUS
  <1>4. Holds(w)'
    <2>1. IsList(Read(w)) /\ old[w] = Sent(Read(w)) /\ \A h \in HeadersIn(Read(w)) : Readable(Owner(w), h)
      BY DEF Thread, Holds
    <2>2. PICK o \in User : o = Owner(w)
      BY Owners
    <2>3. \A h \in HeadersIn(Read(w)) : Readable(o, h)'
      BY <2>1, <2>2 DEF ReadableKept, HeadersIn
    <2>4. o = Owner(w)'
      BY <1>1, <2>2
    <2>5. \A h \in HeadersIn(Read(w))' : Readable(Owner(w), h)'
      BY <1>1, <2>3, <2>4
    <2>6. QED
      BY <1>1, <2>1, <2>5 DEF Holds
  <1>5. Filed(w)'
    BY DEF Filed, Holding, Changes
  <1>6. QED
    BY <1>2, <1>3, <1>4, <1>5 DEF Thread

\* What is said of the box behind the thread stays true.
LEMMA FiledKept ==
    ASSUME Locals, Steady, NEW w \in Worker, Filed(w), cmd'[w] = cmd[w],
           NEW f \in found[w], f # folder[w] \/ pc[w] = "text"
    PROVE  Lists(<<OwnerOf(w, f), f>>, cmd[w].header)'
  <1>1. Lists(<<OwnerOf(w, f), f>>, cmd[w].header)
    BY DEF Filed
  <1>2. f \in Folder /\ OwnerOf(w, f) \in User
    BY Owners DEF Locals, OwnerOf
  <1>3. PICK b \in User \X Folder, h \in {cmd[w].header} :
          b = <<OwnerOf(w, f), f>> /\ h = cmd[w].header
    BY <1>2
  <1>4. Lists(b, h)'
    BY <1>1, <1>3, ListsKept
  <1>5. b = <<OwnerOf(w, f), f>>' /\ h = cmd'[w].header
    BY <1>3 DEF OwnerOf
  <1>6. QED
    BY <1>4, <1>5

LEMMA ProbeStep ==
    ASSUME MInv, NEW w \in Worker, Work(w), Probe(w), ~Exit
    PROVE  MInv' /\ Steady
  <1> USE DEF GoTo
  <1>1. /\ tab' = tab /\ lost' = lost /\ exited' = exited /\ acked' = acked /\ old' = old
        /\ pc[w] = "probe" /\ contended \subseteq contended'
    BY DEF Probe, At, storeVars, Work, Watch
  <1>2. Locals /\ old \in [Worker -> Seq(Token)] /\ Thread(w)
    BY DEF MInv, MailTypes
  <1>3. Steady
    BY <1>1, SameStore
  <1>4. ASSUME ReadableKept, Holding(w), Holding(w)', Makes(w)',
               cmd'[w] = cmd[w], folder'[w] = folder[w], found'[w] = found[w]
        PROVE  Thread(w)'
    <2>1. tab'[Box(w)] # Absent /\ (Box(w) \in Spoilt' \/ tab'[Box(w)] = Read(w))
      BY <1>1, <1>2, <1>3, <1>4, SpoiltGrows DEF Thread, Holds
    <2>2. \A f \in found[w] : f # folder[w] => Lists(<<OwnerOf(w, f), f>>, cmd[w].header)'
      BY <1>2, <1>3, <1>4, FiledKept DEF Thread
    <2>3. QED
      BY <1>1, <1>2, <1>4, <2>1, <2>2, StillHolding
  <1>5. CASE tab[<<Username(w), "INBOX">>] = Absent
    <2>1. /\ cmd'[w] = cmd[w] /\ folder'[w] = folder[w] /\ found'[w] = found[w]
          /\ then'[w] = then[w] /\ pc'[w] = "make_inbox"
      BY <1>2, <1>5 DEF Probe, Locals
    <2>2. Makes(w)'
      <3>1. Username(w)' = Username(w) /\ Username(w) \in User
        BY <1>2, <2>1, Owners DEF Username, Owner
      <3>2. <<Username(w), "SENT">> \in Spoilt' \/ tab[<<Username(w), "SENT">>] = Absent
        <4>1. tab[<<Username(w), "SENT">>] = Absent \/ <<Username(w), "INBOX">> \in lost
          BY <1>5, <3>1 DEF MInv, InboxFirst
        <4>2. <<Username(w), "INBOX">> \in lost => <<Username(w), "SENT">> \in Spoilt
          BY <3>1 DEF Spoilt, Folder
        <4>3. QED
          BY <1>3, <4>1, <4>2, SpoiltGrows
      <3>3. QED
        BY <1>1, <1>5, <2>1, <3>1, <3>2 DEF Makes
    <2>3. ASSUME ReadableKept
          PROVE  Thread(w)'
      <3>1. CASE Holding(w)
        <4>1. Holding(w)'
          BY <1>1, <2>1, <3>1 DEF Holding, Changes
        <4>2. QED
          BY <1>4, <2>1, <2>2, <2>3, <3>1, <4>1
      <3>2. CASE ~Holding(w)
        <4>1. ~Holding(w)'
          BY <1>1, <2>1, <3>2 DEF Holding, Changes
        <4>2. folder'[w] = "SENT" /\ found'[w] = {}
          BY <1>1, <1>2, <2>1, <3>2 DEF Thread, Progress
        <4>3. QED
          BY <2>1, <2>2, <4>1, <4>2 DEF Thread, Progress, Holds, Filed
      <3>3. QED
        BY <3>1, <3>2
    <2>4. QED
      BY <1>1, <1>2, <2>3, QuietStep
  <1>6. CASE tab[<<Username(w), "INBOX">>] # Absent
    <2>1. Return(w)
      BY <1>6 DEF Probe
    <2>2. \/ pc'[w] \in {"ready", "list", "sent_list", "mail"} /\ folder'[w] = "SENT" /\ found'[w] = {}
          \/ /\ then[w] = "cput" /\ pc'[w] = "cput"
             /\ cmd'[w] = cmd[w] /\ folder'[w] = folder[w] /\ found'[w] = found[w]
      BY <1>1, <1>2, <2>1, Returned DEF Changes
    <2>3. ASSUME ReadableKept
          PROVE  Thread(w)'
      <3>1. CASE pc'[w] \in {"ready", "list", "sent_list", "mail"} /\ folder'[w] = "SENT" /\ found'[w] = {}
        BY <3>1, IdleThread DEF Holding, Changes
      <3>2. CASE /\ then[w] = "cput" /\ pc'[w] = "cput"
                 /\ cmd'[w] = cmd[w] /\ folder'[w] = folder[w] /\ found'[w] = found[w]
        <4>1. Holding(w) /\ Holding(w)' /\ Makes(w)'
          BY <1>1, <3>2 DEF Holding, Changes, Makes
        <4>2. QED
          BY <1>4, <2>3, <3>2, <4>1
      <3>3. QED
        BY <2>2, <3>1, <3>2
    <2>4. QED
      BY <1>1, <1>2, <2>3, QuietStep
  <1>7. QED
    BY <1>5, <1>6

LEMMA AnswerStep ==
    ASSUME MInv, NEW w \in Worker, Work(w), AnswerList(w) \/ AnswerSent(w) \/ AnswerEmail(w), ~Exit
    PROVE  MInv' /\ Steady
  <1>1. /\ tab' = tab /\ lost' = lost /\ exited' = exited /\ acked' = acked /\ old' = old
        /\ pc[w] \in {"list", "sent_list", "mail"} /\ Forget(w, "ready")
    BY DEF AnswerList, AnswerSent, AnswerEmail, At, storeVars, Ready
  <1>2. pc'[w] = "ready" /\ folder'[w] = "SENT" /\ found'[w] = {}
    BY <1>1 DEF Forget, GoTo, MInv, MailTypes, Locals
  <1>3. Thread(w)'
    BY <1>2, IdleThread DEF Holding, Changes
  <1>4. old' \in [Worker -> Seq(Token)]
    BY <1>1 DEF MInv, MailTypes
  <1>5. QED
    BY <1>1, <1>3, <1>4, QuietStep

\* The mails that are reported are in the boxes that were found.
LEMMA Reported ==
    ASSUME Locals, NEW w \in Worker, EmailSent(w), NEW m \in acked', m \notin acked
    PROVE  /\ m \in User \X Folder \X Header
           /\ \E f \in found[w] : m = <<OwnerOf(w, f), f, cmd[w].header>>
  <1>1. PICK f \in found[w] : m = <<OwnerOf(w, f), f, cmd[w].header>>
    BY DEF EmailSent, OwnerOf
  <1>2. f \in Folder /\ OwnerOf(w, f) \in User /\ cmd[w].header \in Header
    BY Owners DEF Locals, OwnerOf
  <1>3. QED
    BY <1>1, <1>2

LEMMA FileStep ==
    ASSUME MInv, NEW w \in Worker, Work(w), FileMail(w), ~Exit
    PROVE  MInv' /\ Steady
  <1> USE DEF GoTo
  <1>1. /\ tab' = tab /\ lost' = lost /\ exited' = exited
        /\ pc[w] = "file" /\ contended \subseteq contended'
    BY DEF FileMail, At, storeVars, Work, Watch
  <1>2. Locals /\ old \in [Worker -> Seq(Token)] /\ Thread(w) /\ MailTypes
    BY DEF MInv, MailTypes
  <1>3. Steady
    BY <1>1, SameStore
  <1>4. folder[w] \in Folder /\ folder[w] \notin found[w] /\ found[w] \subseteq Folder
        /\ (folder[w] = "SENT" => found[w] = {})
    BY <1>1, <1>2 DEF Thread, Progress, Locals
  <1>5. CASE get(w, Owner(w), folder[w]) = Err
    <2>1. NextBox(w)
      BY <1>5 DEF FileMail
    <2>2. old' \in [Worker -> Seq(Token)]
      BY <1>2, <2>1 DEF NextBox
    <2>3. CASE folder[w] = "SENT"
      <3>1. /\ folder'[w] = "INBOX" /\ pc'[w] = "file" /\ found'[w] = {} /\ acked' = acked
        BY <1>2, <1>4, <2>1, <2>3 DEF NextBox, Locals
      <3>2. Thread(w)'
        BY <3>1 DEF Thread, Progress, Makes, Holds, Filed, Holding, Changes
      <3>3. QED
        BY <1>1, <2>2, <3>1, <3>2, QuietStep
    <2>4. CASE folder[w] # "SENT"
      <3>1. EmailSent(w) /\ Forget(w, "ready")
        BY <2>1, <2>4 DEF NextBox, EmailSent, Ready
      <3>2. pc'[w] = "ready" /\ folder'[w] = "SENT" /\ found'[w] = {}
        BY <1>2, <3>1 DEF Forget, Locals
      <3>3. Thread(w)'
        BY <3>2, IdleThread DEF Holding, Changes
      <3>4. ASSUME NEW m \in acked', m \notin acked
            PROVE  m \in User \X Folder \X Header /\ Lists(<<m[1], m[2]>>, m[3])
        <4>1. m \in User \X Folder \X Header /\ \E f \in found[w] : m = <<OwnerOf(w, f), f, cmd[w].header>>
          BY <1>2, <3>1, <3>4, Reported
        <4>2. PICK f \in found[w] : m = <<OwnerOf(w, f), f, cmd[w].header>>
          BY <4>1
        <4>3. Lists(<<OwnerOf(w, f), f>>, cmd[w].header)
          BY <1>2, <1>4 DEF Thread, Filed
        <4>4. QED
          BY <4>1, <4>2, <4>3
      <3>5. QED
        BY <1>1, <2>2, <3>3, <3>4, QuietStep
    <2>5. QED
      BY <2>3, <2>4
  <1>6. CASE get(w, Owner(w), folder[w]) # Err
    <2> DEFINE c == tab[Box(w)]
    <2>1. get(w, Owner(w), folder[w]) = Sent(c) /\ c # Absent
      BY <1>6 DEF get, Sent, Box
    <2>2. Box(w) \in User \X Folder /\ IsList(c) /\ Owner(w) \in User
      BY <1>2, <2>1, Owners DEF MailTypes
    <2>3. /\ old' = [old EXCEPT ![w] = Sent(c)] /\ acked' = acked
          /\ found' = [found EXCEPT ![w] = @ \cup {folder[w]}]
          /\ ForUser(w, Owner(w), "cput") /\ UNCHANGED <<cmd, folder>>
      BY <1>6, <2>1 DEF FileMail
    <2>4. Sent(c) \in Seq(Token) /\ string_to_binary(Popped(Sent(c))) = c
      BY <2>2, SentList
    <2>5. old' \in [Worker -> Seq(Token)] /\ old'[w] = Sent(c)
      BY <1>2, <2>3, <2>4
    <2>6. /\ cmd'[w] = cmd[w] /\ folder'[w] = folder[w] /\ found'[w] = found[w] \cup {folder[w]}
          /\ pc'[w] = "cput" \/ (pc'[w] = "probe" /\ then'[w] = "cput")
      BY <1>2, <2>3 DEF Locals, ForUser
    <2>7. Read(w)' = c /\ Box(w)' = Box(w) /\ Owner(w)' = Owner(w)
      BY <2>4, <2>5, <2>6 DEF Read, Box, Owner
    <2>8. ASSUME ReadableKept
          PROVE  Thread(w)'
      <3>1. Progress(w)' /\ Makes(w)'
        BY <1>4, <2>6 DEF Progress, Makes, Holding, Changes, Folder
      <3>2. Holds(w)'
        <4>1. PICK o \in User, f \in Folder : Box(w) = <<o, f>> /\ o = Owner(w)
          BY <1>4, <2>2 DEF Box
        <4>2. \A h \in HeadersIn(c) : Readable(o, h)
          BY <2>1, <4>1 DEF MInv, ListedReadable, Readable
        <4>3. \A h \in HeadersIn(c) : Readable(o, h)'
          BY <2>8, <4>1, <4>2 DEF ReadableKept, HeadersIn
        <4>4. \A h \in HeadersIn(Read(w))' : Readable(Owner(w), h)'
          BY <2>7, <4>1, <4>3
        <4>5. QED
          BY <1>1, <2>1, <2>2, <2>5, <2>7, <4>4 DEF Holds
      <3>3. Filed(w)'
        <4> SUFFICES ASSUME NEW f \in found[w], f # folder[w]
                     PROVE  Lists(<<OwnerOf(w, f), f>>, cmd[w].header)'
          BY <2>6 DEF Filed
        <4>1. QED
          BY <1>2, <1>3, <2>6, FiledKept DEF Thread
      <3>4. QED
        BY <3>1, <3>2, <3>3 DEF Thread
    <2>9. QED
      BY <1>1, <2>3, <2>5, <2>8, QuietStep
  <1>7. QED
    BY <1>5, <1>6

LEMMA CputStep ==
    ASSUME MInv, NEW w \in Worker, Work(w), Cput(w), ~Exit
    PROVE  MInv' /\ Steady
  <1> USE DEF GoTo
  <1>1. /\ tab' = tab /\ lost' = lost /\ exited' = exited /\ acked' = acked /\ old' = old
        /\ pc[w] = "cput" /\ contended \subseteq contended'
    BY DEF Cput, At, storeVars, Work, Watch
  <1>2. Locals /\ old \in [Worker -> Seq(Token)] /\ Thread(w)
    BY DEF MInv, MailTypes
  <1>3. Steady
    BY <1>1, SameStore
  <1>4. /\ cmd'[w] = cmd[w] /\ folder'[w] = folder[w] /\ found'[w] = found[w]
        /\ pc'[w] = IF tab[Box(w)] = Read(w) THEN "newval" ELSE "text"
    BY <1>2 DEF Cput, Locals, Read
  <1>5. Holding(w) /\ Holds(w)
    BY <1>1, <1>2 DEF Holding, Thread
  <1>6. tab[Box(w)] # Absent /\ (Box(w) \in Spoilt \/ tab[Box(w)] = Read(w))
    BY <1>5 DEF Holds
  <1>7. ASSUME ReadableKept
        PROVE  Thread(w)'
    <2>1. \A f \in found[w] : f # folder[w] => Lists(<<OwnerOf(w, f), f>>, cmd[w].header)'
      BY <1>2, <1>3, <1>4, FiledKept DEF Thread
    <2>2. CASE tab[Box(w)] = Read(w)
      <3>1. Holding(w)' /\ Makes(w)'
        BY <1>4, <2>2 DEF Holding, Makes
      <3>2. QED
        BY <1>1, <1>2, <1>4, <1>5, <1>6, <1>7, <2>1, <2>2, <3>1, StillHolding
    <2>3. CASE tab[Box(w)] # Read(w)
      <3>1. pc'[w] = "text"
        BY <1>4, <2>3
      <3>2. Progress(w)' /\ Makes(w)' /\ Holds(w)'
        BY <1>2, <1>4, <3>1 DEF Thread, Progress, Makes, Holds, Holding, Changes
      <3>3. Filed(w)'
        <4> SUFFICES ASSUME NEW f \in found[w], f = folder[w]
                     PROVE  Lists(<<OwnerOf(w, f), f>>, cmd[w].header)'
          BY <1>4, <2>1, <3>1 DEF Filed
        <4>1. folder[w] \in Folder
          BY <1>2 DEF Locals
        <4>2. Box(w) = <<OwnerOf(w, f), f>>'
          BY <1>4, <4>1 DEF Box, Owner, OwnerOf
        <4>3. Box(w) \in Spoilt'
          BY <1>3, <1>6, <2>3, SpoiltGrows
        <4>4. QED
          BY <4>2, <4>3 DEF Lists
      <3>4. QED
        BY <3>2, <3>3 DEF Thread
    <2>4. QED
      BY <2>2, <2>3
  <1>8. QED
    BY <1>1, <1>2, <1>7, QuietStep

-----------------------------------------------------------------------------
(* And by the writes.                                                      *)

LEMMA SpoiltMono ==
    ASSUME lost \subseteq lost', contended \subseteq contended'
    PROVE  Spoilt \subseteq Spoilt'
  BY DEF Spoilt

\* A thread writes a cell; when this is a box, it is one it is changing.
LEMMA WriteFrame ==
    ASSUME MInv, NEW w \in Worker, Work(w), ~Exit, exited' = exited,
           NEW k \in Key, NEW v \in Seq(Token), v # Absent,
           tab' = tab \/ tab' = [tab EXCEPT ![k] = v],
           lost \subseteq lost', lost' \subseteq lost \cup {k},
           k \in User \X Folder =>
             /\ k \in Changing(w) /\ IsList(v)
             /\ k \notin Spoilt' /\ tab[k] # Absent /\ tab' # tab
                  => HeadersIn(tab[k]) \subseteq HeadersIn(v)
    PROVE  /\ Locals' /\ contended' \subseteq User \X Folder
           /\ tab' \in [Key -> Seq(Token) \cup {Absent}]
           /\ \A b \in User \X Folder : tab'[b] # Absent => IsList(tab'[b])
           /\ \A b \in Key : b # k => tab'[b] = tab[b]
           /\ Contended' /\ Steady /\ Apart(w) /\ lost' \subseteq Key
           /\ \A x \in Worker \ {w} : Same(x)
  <1>1. Locals' /\ Locals
    BY WorkLocals DEF MInv, MailTypes
  <1>2. Contended' /\ contended \subseteq contended' /\ contended' \subseteq User \X Folder
    BY <1>1, Watched DEF MInv, MailTypes, Work
  <1>3. \A x \in Worker \ {w} : Same(x)
    BY Frame DEF MInv
  <1>4. tab \in [Key -> Seq(Token) \cup {Absent}] /\ lost \subseteq Key
        /\ \A b \in User \X Folder : tab[b] # Absent => IsList(tab[b])
    BY DEF MInv, MailTypes
  <1>5. User \X Folder \subseteq Key
    BY DEF Key
  <1>6. /\ \A b \in Key : b # k => tab'[b] = tab[b]
        /\ tab'[k] = tab[k] \/ (tab'[k] = v /\ tab' # tab)
        /\ tab' \in [Key -> Seq(Token) \cup {Absent}]
    <2>1. CASE tab' = tab
      BY <1>4, <2>1
    <2>2. CASE tab' # tab
      BY <1>4, <2>2
    <2>3. QED
      BY <2>1, <2>2
  <1>7. \A b \in User \X Folder : tab'[b] # Absent => IsList(tab'[b])
    BY <1>4, <1>5, <1>6
  <1>8. Steady
    <2>1. \A b \in Key : tab[b] # Absent => tab'[b] # Absent
      BY <1>6
    <2>2. ASSUME NEW b \in User \X Folder, b \notin Spoilt', tab[b] # Absent
          PROVE  HeadersIn(tab[b]) \subseteq HeadersIn(tab'[b])
      <3>1. CASE tab'[b] = tab[b]
        BY <3>1
      <3>2. CASE tab'[b] # tab[b]
        <4>1. b = k /\ tab'[b] = v /\ tab' # tab
          BY <1>5, <1>6, <3>2
        <4>2. HeadersIn(tab[b]) \subseteq HeadersIn(v)
          BY <2>2, <4>1
        <4>3. QED
          BY <4>1, <4>2
      <3>3. QED
        BY <3>1, <3>2
    <2>3. QED
      BY <1>2, <2>1, <2>2 DEF Steady
  <1>9. Apart(w)
    <2> SUFFICES ASSUME NEW x \in Worker, x # w, NEW b \in Changing(x), tab'[b] # tab[b]
                 PROVE  b \in Spoilt'
      BY DEF Apart
    <2>1. b \in User \X Folder
      BY <1>1, Owners
    <2>2. b = k
      BY <1>5, <1>6, <2>1
    <2>3. b \in Changing(w)
      BY <2>1, <2>2
    <2>4. b \in contended
      BY <2>3 DEF MInv, Contended
    <2>5. QED
      BY <1>2, <2>4 DEF Spoilt
  <1>10. lost' \subseteq Key
    BY <1>4
  <1>11. QED
    BY <1>1, <1>2, <1>3, <1>6, <1>7, <1>8, <1>9, <1>10

LEMMA InboxKept ==
    ASSUME InboxFirst, Steady,
           \A u \in User : tab'[<<u, "SENT">>] # Absent /\ tab[<<u, "SENT">>] = Absent
              => tab[<<u, "INBOX">>] # Absent \/ <<u, "INBOX">> \in lost
    PROVE  InboxFirst'
  <1> SUFFICES ASSUME NEW u \in User, tab'[<<u, "SENT">>] # Absent
               PROVE  tab'[<<u, "INBOX">>] # Absent \/ <<u, "INBOX">> \in lost'
    BY DEF InboxFirst
  <1>1. tab[<<u, "INBOX">>] # Absent \/ <<u, "INBOX">> \in lost
    BY DEF InboxFirst
  <1>2. <<u, "INBOX">> \in Key
    BY DEF Key, Folder
  <1>3. QED
    BY <1>1, <1>2 DEF Steady

LEMMA PairedKept ==
    ASSUME BoxesPaired, Steady, exited' = exited, NEW w \in Worker, \A x \in Worker \ {w} : Same(x),
           \A u \in User : tab'[<<u, "INBOX">>] # Absent /\ tab[<<u, "INBOX">>] = Absent
              => pc'[w] = "make_sent" /\ Username(w)' = u,
           pc[w] = "make_sent" => \/ tab'[<<Username(w), "SENT">>] # Absent
                                  \/ <<Username(w), "SENT">> \in lost'
    PROVE  BoxesPaired'
  <1> SUFFICES ASSUME NEW u \in User, tab'[<<u, "INBOX">>] # Absent,
                      tab'[<<u, "SENT">>] = Absent, <<u, "SENT">> \notin lost', ~exited'
               PROVE  \E x \in Worker : pc'[x] = "make_sent" /\ Username(x)' = u
    BY DEF BoxesPaired
  <1>1. CASE tab[<<u, "INBOX">>] = Absent
    BY <1>1
  <1>2. CASE tab[<<u, "INBOX">>] # Absent
    <2>1. <<u, "SENT">> \in Key
      BY DEF Key, Folder
    <2>2. tab[<<u, "SENT">>] = Absent /\ <<u, "SENT">> \notin lost
      BY <2>1 DEF Steady
    <2>3. PICK x \in Worker : pc[x] = "make_sent" /\ Username(x) = u
      BY <1>2, <2>2 DEF BoxesPaired
    <2>4. x # w
      BY <2>3
    <2>5. Same(x)
      BY <2>4
    <2>6. QED
      BY <2>3, <2>5 DEF Same, Username, Owner
  <1>3. QED
    BY <1>1, <1>2

LEMMA ListedKept ==
    ASSUME ListedReadable, ReadableKept,
           \A u \in User, f \in Folder : tab'[<<u, f>>] # tab[<<u, f>>] =>
              \A h \in HeadersIn(tab'[<<u, f>>]) : Readable(u, h)'
    PROVE  ListedReadable'
  <1> SUFFICES ASSUME NEW u \in User, NEW f \in Folder, tab'[<<u, f>>] # Absent,
                      NEW h \in HeadersIn(tab'[<<u, f>>])
               PROVE  Readable(u, h)'
    BY DEF ListedReadable, Readable, HeadersIn
  <1>1. CASE tab'[<<u, f>>] = tab[<<u, f>>]
    <2>1. Readable(u, h) /\ h \in Header
      BY <1>1 DEF ListedReadable, Readable, HeadersIn
    <2>2. QED
      BY <2>1 DEF ReadableKept
  <1>2. QED
    BY <1>1

LEMMA WriteStep ==
    ASSUME MInv, NEW w \in Worker, MailTypes', Contended', Steady, Apart(w), ReadableKept,
           \A x \in Worker \ {w} : Same(x), Thread(w)', InboxFirst', ListedReadable', BoxesPaired',
           \A m \in acked' : m \in acked
             \/ (m \in User \X Folder \X Header /\ Lists(<<m[1], m[2]>>, m[3]))
    PROVE  MInv' /\ Steady
  <1>1. Acked'
    <2> SUFFICES ASSUME NEW m \in acked'
                 PROVE  m \in User \X Folder \X Header /\ Lists(<<m[1], m[2]>>, m[3])'
      BY DEF Acked
    <2>1. m \in User \X Folder \X Header /\ Lists(<<m[1], m[2]>>, m[3])
      BY DEF MInv, Acked
    <2>2. <<m[1], m[2]>> \in User \X Folder
      BY <2>1
    <2>3. QED
      BY <2>1, <2>2, ListsKept
  <1>2. ASSUME NEW x \in Worker
        PROVE  Thread(x)'
    <2>1. CASE x = w
      BY <2>1
    <2>2. CASE x # w
      <3>1. Same(x) /\ Thread(x)
        BY <1>2, <2>2 DEF MInv
      <3>2. QED
        BY <2>2, <3>1, OtherThread DEF MInv, Apart
    <2>3. QED
      BY <2>1, <2>2
  <1>3. QED
    BY <1>1, <1>2 DEF MInv

\* put, as the thread uses it.
LEMMA PutEffect ==
    ASSUME NEW k, NEW l, put(k, l)
    PROVE  /\ \/ tab' = [tab EXCEPT ![k] = string_to_binary(l)]
              \/ tab' = tab /\ k \in lost'
           /\ lost \subseteq lost' /\ lost' \subseteq lost \cup {k}
  BY DEF put

LEMMA MakeInboxStep ==
    ASSUME MInv, NEW w \in Worker, Work(w), MakeInbox(w), ~Exit
    PROVE  MInv' /\ Steady
  <1> USE DEF GoTo
  <1> DEFINE u == Username(w)
             k == <<u, "INBOX">>
  <1>1. /\ exited' = exited /\ acked' = acked /\ old' = old /\ put(k, <<Dot>>)
        /\ pc[w] = "make_inbox" /\ contended \subseteq contended'
    BY DEF MakeInbox, At, Work, Watch
  <1>2. Locals /\ Thread(w) /\ MailTypes /\ tab \in [Key -> Seq(Token) \cup {Absent}]
    BY DEF MInv, MailTypes
  <1>3. string_to_binary(<<Dot>>) = <<Dot>> /\ IsList(<<Dot>>) /\ HeadersIn(<<Dot>>) = {}
        /\ <<Dot>> \in Seq(Token) /\ <<Dot>> # Absent
    <2>1. <<Dot>> \in Seq(Token)
      BY DEF Token
    <2>2. string_to_binary(<<Dot>>) = <<Dot>>
      BY DotList
    <2>3. QED
      BY <2>1, <2>2, DotList, LineTokens, ParseType
  <1>4. /\ tab' = [tab EXCEPT ![k] = <<Dot>>] \/ (tab' = tab /\ k \in lost')
        /\ lost \subseteq lost' /\ lost' \subseteq lost \cup {k}
    BY <1>1, <1>3, PutEffect
  <1>5. u \in User /\ k \in User \X Folder /\ k \in Key /\ k \in Changing(w)
        /\ <<u, "SENT">> \in Key
    BY <1>1, <1>2, Owners DEF Key, Folder, Changing
  <1>6. k \in Spoilt' \/ tab[k] = Absent
    BY <1>1, <1>2, <1>4, SpoiltMono DEF Thread, Makes
  <1>7. /\ Locals' /\ contended' \subseteq User \X Folder
        /\ tab' \in [Key -> Seq(Token) \cup {Absent}]
        /\ \A b \in User \X Folder : tab'[b] # Absent => IsList(tab'[b])
        /\ \A b \in Key : b # k => tab'[b] = tab[b]
        /\ Contended' /\ Steady /\ Apart(w) /\ lost' \subseteq Key
        /\ \A x \in Worker \ {w} : Same(x)
    <2> HIDE DEF k
    <2>1. tab' = tab \/ tab' = [tab EXCEPT ![k] = <<Dot>>]
      BY <1>4
    <2>2. k \in User \X Folder =>
             /\ k \in Changing(w) /\ IsList(<<Dot>>)
             /\ k \notin Spoilt' /\ tab[k] # Absent /\ tab' # tab
                  => HeadersIn(tab[k]) \subseteq HeadersIn(<<Dot>>)
      BY <1>3, <1>5, <1>6
    <2>3. QED
      BY <1>1, <1>3, <1>4, <1>5, <2>1, <2>2, WriteFrame
  <1>8. MailTypes'
    BY <1>1, <1>7 DEF MInv, MailTypes
  <1>9. ReadableKept
    BY <1>1, <1>2, <1>7, OthersReadable
  <1>10. /\ cmd'[w] = cmd[w] /\ folder'[w] = folder[w] /\ found'[w] = found[w]
         /\ then'[w] = then[w] /\ pc'[w] = "make_sent" /\ old'[w] = old[w]
    BY <1>1, <1>2 DEF MakeInbox, Locals
  <1>11. Username(w)' = u
    BY <1>10 DEF Username, Owner
  <1>12. Makes(w)'
    <2>1. <<u, "SENT">> \in Spoilt' \/ tab'[<<u, "SENT">>] = Absent
      <3>1. <<u, "SENT">> \in Spoilt \/ tab[<<u, "SENT">>] = Absent
        BY <1>1, <1>2 DEF Thread, Makes
      <3>2. tab'[<<u, "SENT">>] = tab[<<u, "SENT">>]
        BY <1>5, <1>7
      <3>3. QED
        BY <1>1, <1>4, <3>1, <3>2, SpoiltMono
    <2>2. tab'[k] # Absent \/ k \in lost'
      BY <1>2, <1>3, <1>4, <1>5
    <2>3. QED
      BY <1>10, <1>11, <2>1, <2>2 DEF Makes
  <1>13. Thread(w)'
    <2>1. CASE Holding(w)
      <3>1. Holding(w)'
        BY <1>1, <1>10, <2>1 DEF Holding, Changes
      <3>2. tab[Box(w)] # Absent /\ (Box(w) \in Spoilt \/ tab[Box(w)] = Read(w)) /\ Box(w) \in Key
        BY <1>2, <2>1, Owners DEF Thread, Holds
      <3>3. tab'[Box(w)] # Absent
        BY <1>7, <3>2 DEF Steady
      <3>4. Box(w) \in Spoilt' \/ tab'[Box(w)] = Read(w)
        BY <1>1, <1>4, <1>6, <1>7, <3>2, SpoiltMono
      <3>5. \A f \in found[w] : f # folder[w] => Lists(<<OwnerOf(w, f), f>>, cmd[w].header)'
        BY <1>2, <1>7, <1>10, FiledKept DEF Thread
      <3>6. QED
        BY <1>2, <1>9, <1>10, <1>12, <2>1, <3>1, <3>3, <3>4, <3>5, StillHolding
    <2>2. CASE ~Holding(w)
      <3>1. ~Holding(w)'
        BY <1>1, <1>10, <2>2 DEF Holding, Changes
      <3>2. folder'[w] = "SENT" /\ found'[w] = {}
        BY <1>1, <1>2, <1>10, <2>2 DEF Thread, Progress
      <3>3. QED
        BY <1>10, <1>12, <3>1, <3>2 DEF Thread, Progress, Holds, Filed
    <2>3. QED
      BY <2>1, <2>2
  <1>14. InboxFirst'
    <2>1. ASSUME NEW v \in User
          PROVE  tab'[<<v, "SENT">>] = tab[<<v, "SENT">>]
      <3>1. <<v, "SENT">> \in Key /\ <<v, "SENT">> # k
        BY DEF Key, Folder
      <3>2. QED
        BY <1>7, <3>1
    <2>2. QED
      BY <1>7, <2>1, InboxKept DEF MInv
  <1>15. BoxesPaired'
    <2>1. ASSUME NEW v \in User, tab'[<<v, "INBOX">>] # Absent, tab[<<v, "INBOX">>] = Absent
          PROVE  pc'[w] = "make_sent" /\ Username(w)' = v
      <3>1. <<v, "INBOX">> \in Key
        BY DEF Key, Folder
      <3>2. <<v, "INBOX">> = k
        BY <1>7, <2>1, <3>1
      <3>3. QED
        BY <1>10, <1>11, <3>2
    <2>2. QED
      BY <1>1, <1>7, <2>1, PairedKept DEF MInv
  <1>16. ListedReadable'
    <2>1. ASSUME NEW v \in User, NEW f \in Folder, tab'[<<v, f>>] # tab[<<v, f>>]
          PROVE  HeadersIn(tab'[<<v, f>>]) = {}
      <3>1. <<v, f>> \in Key
        BY DEF Key
      <3>2. <<v, f>> = k
        BY <1>7, <2>1, <3>1
      <3>3. tab'[k] = <<Dot>>
        BY <1>2, <1>4, <1>5, <2>1
      <3>4. QED
        BY <1>3, <3>2, <3>3
    <2>2. QED
      BY <1>9, <2>1, ListedKept DEF MInv
  <1>17. QED
    BY <1>1, <1>7, <1>8, <1>9, <1>13, <1>14, <1>15, <1>16, WriteStep

LEMMA MakeSentStep ==
    ASSUME MInv, NEW w \in Worker, Work(w), MakeSent(w), ~Exit
    PROVE  MInv' /\ Steady
  <1> USE DEF GoTo
  <1> DEFINE u == Username(w)
             k == <<u, "SENT">>
  <1>1. /\ exited' = exited /\ acked' = acked /\ old' = old /\ put(k, <<Dot>>) /\ Return(w)
        /\ pc[w] = "make_sent" /\ contended \subseteq contended'
    BY DEF MakeSent, At, Work, Watch
  <1>2. Locals /\ Thread(w) /\ MailTypes /\ tab \in [Key -> Seq(Token) \cup {Absent}]
    BY DEF MInv, MailTypes
  <1>3. string_to_binary(<<Dot>>) = <<Dot>> /\ IsList(<<Dot>>) /\ HeadersIn(<<Dot>>) = {}
        /\ <<Dot>> \in Seq(Token) /\ <<Dot>> # Absent
    <2>1. <<Dot>> \in Seq(Token)
      BY DEF Token
    <2>2. string_to_binary(<<Dot>>) = <<Dot>>
      BY DotList
    <2>3. QED
      BY <2>1, <2>2, DotList, LineTokens, ParseType
  <1>4. /\ tab' = [tab EXCEPT ![k] = <<Dot>>] \/ (tab' = tab /\ k \in lost')
        /\ lost \subseteq lost' /\ lost' \subseteq lost \cup {k}
    BY <1>1, <1>3, PutEffect
  <1>5. u \in User /\ k \in User \X Folder /\ k \in Key /\ k \in Changing(w)
    BY <1>1, <1>2, Owners DEF Key, Folder, Changing
  <1>6. k \in Spoilt' \/ tab[k] = Absent
    BY <1>1, <1>2, <1>4, SpoiltMono DEF Thread, Makes
  <1>7. /\ Locals' /\ contended' \subseteq User \X Folder
        /\ tab' \in [Key -> Seq(Token) \cup {Absent}]
        /\ \A b \in User \X Folder : tab'[b] # Absent => IsList(tab'[b])
        /\ \A b \in Key : b # k => tab'[b] = tab[b]
        /\ Contended' /\ Steady /\ Apart(w) /\ lost' \subseteq Key
        /\ \A x \in Worker \ {w} : Same(x)
    <2> HIDE DEF k
    <2>1. tab' = tab \/ tab' = [tab EXCEPT ![k] = <<Dot>>]
      BY <1>4
    <2>2. k \in User \X Folder =>
             /\ k \in Changing(w) /\ IsList(<<Dot>>)
             /\ k \notin Spoilt' /\ tab[k] # Absent /\ tab' # tab
                  => HeadersIn(tab[k]) \subseteq HeadersIn(<<Dot>>)
      BY <1>3, <1>5, <1>6
    <2>3. QED
      BY <1>1, <1>3, <1>4, <1>5, <2>1, <2>2, WriteFrame
  <1>8. MailTypes'
    BY <1>1, <1>7 DEF MInv, MailTypes
  <1>9. ReadableKept
    BY <1>1, <1>2, <1>7, OthersReadable
  <1>10. \/ pc'[w] \in {"ready", "list", "sent_list", "mail"} /\ folder'[w] = "SENT" /\ found'[w] = {}
         \/ /\ then[w] = "cput" /\ pc'[w] = "cput"
            /\ cmd'[w] = cmd[w] /\ folder'[w] = folder[w] /\ found'[w] = found[w]
    BY <1>1, <1>2, Returned DEF Changes
  <1>11. Thread(w)'
    <2>1. CASE pc'[w] \in {"ready", "list", "sent_list", "mail"} /\ folder'[w] = "SENT" /\ found'[w] = {}
      BY <2>1, IdleThread DEF Holding, Changes
    <2>2. CASE /\ then[w] = "cput" /\ pc'[w] = "cput"
               /\ cmd'[w] = cmd[w] /\ folder'[w] = folder[w] /\ found'[w] = found[w]
      <3>1. Holding(w) /\ Holding(w)' /\ Makes(w)'
        BY <1>1, <2>2 DEF Holding, Changes, Makes
      <3>2. tab[Box(w)] # Absent /\ (Box(w) \in Spoilt \/ tab[Box(w)] = Read(w)) /\ Box(w) \in Key
        BY <1>2, <3>1, Owners DEF Thread, Holds
      <3>3. tab'[Box(w)] # Absent
        BY <1>7, <3>2 DEF Steady
      <3>4. Box(w) \in Spoilt' \/ tab'[Box(w)] = Read(w)
        BY <1>1, <1>4, <1>6, <1>7, <3>2, SpoiltMono
      <3>5. \A f \in found[w] : f # folder[w] => Lists(<<OwnerOf(w, f), f>>, cmd[w].header)'
        BY <1>2, <1>7, <2>2, FiledKept DEF Thread
      <3>6. old'[w] = old[w]
        BY <1>1
      <3>7. QED
        BY <1>2, <1>9, <2>2, <3>1, <3>3, <3>4, <3>5, <3>6, StillHolding
    <2>3. QED
      BY <1>10, <2>1, <2>2
  <1>12. InboxFirst'
    <2>1. ASSUME NEW v \in User, tab'[<<v, "SENT">>] # Absent, tab[<<v, "SENT">>] = Absent
          PROVE  tab[<<v, "INBOX">>] # Absent \/ <<v, "INBOX">> \in lost
      <3>1. <<v, "SENT">> \in Key
        BY DEF Key, Folder
      <3>2. <<v, "SENT">> = k
        BY <1>7, <2>1, <3>1
      <3>3. v = u
        BY <3>2
      <3>4. QED
        BY <1>1, <1>2, <3>3 DEF Thread, Makes
    <2>2. QED
      BY <1>7, <2>1, InboxKept DEF MInv
  <1>13. BoxesPaired'
    <2>1. ASSUME NEW v \in User
          PROVE  tab'[<<v, "INBOX">>] = tab[<<v, "INBOX">>]
      <3>1. <<v, "INBOX">> \in Key /\ <<v, "INBOX">> # k
        BY DEF Key, Folder
      <3>2. QED
        BY <1>7, <3>1
    <2>2. tab'[k] # Absent \/ k \in lost'
      BY <1>2, <1>3, <1>4, <1>5
    <2>3. QED
      BY <1>1, <1>7, <2>1, <2>2, PairedKept DEF MInv
  <1>14. ListedReadable'
    <2>1. ASSUME NEW v \in User, NEW f \in Folder, tab'[<<v, f>>] # tab[<<v, f>>]
          PROVE  HeadersIn(tab'[<<v, f>>]) = {}
      <3>1. <<v, f>> \in Key
        BY DEF Key
      <3>2. <<v, f>> = k
        BY <1>7, <2>1, <3>1
      <3>3. tab'[k] = <<Dot>>
        BY <1>2, <1>4, <1>5, <2>1
      <3>4. QED
        BY <1>3, <3>2, <3>3
    <2>2. QED
      BY <1>9, <2>1, ListedKept DEF MInv
  <1>15. QED
    BY <1>1, <1>7, <1>8, <1>9, <1>11, <1>12, <1>13, <1>14, WriteStep

LEMMA NewValStep ==
    ASSUME MInv, NEW w \in Worker, Work(w), NewVal(w), ~Exit
    PROVE  MInv' /\ Steady
  <1> USE DEF GoTo
  <1> DEFINE k == Box(w)
             c == Read(w)
             h == cmd[w].header
             v == string_to_binary(NewList(old[w], h))
  <1>1. /\ exited' = exited /\ acked' = acked /\ old' = old /\ pc[w] = "newval"
        /\ contended \subseteq contended'
    BY DEF NewVal, At, Work, Watch
  <1>2. Locals /\ Thread(w) /\ MailTypes /\ tab \in [Key -> Seq(Token) \cup {Absent}]
    BY DEF MInv, MailTypes
  <1>3. k \in User \X Folder /\ k \in Key /\ k \in Changing(w) /\ h \in Header /\ Owner(w) \in User
        /\ folder[w] \in Folder
    BY <1>1, <1>2, Owners DEF Changing
  <1>4. tab[k] # Absent /\ IsList(c) /\ old[w] = Sent(c) /\ (k \in Spoilt \/ tab[k] = c)
        /\ \A g \in HeadersIn(c) : Readable(Owner(w), g)
    BY <1>1, <1>2 DEF Thread, Holds, Holding
  <1>5. /\ v \in Seq(Token) /\ v # Absent /\ IsList(v)
        /\ h \in HeadersIn(v) /\ HeadersIn(v) \subseteq HeadersIn(c) \cup {h}
        /\ c[1] \notin Dotted => HeadersIn(c) \subseteq HeadersIn(v)
    BY <1>3, <1>4, NewListStored
  <1>6. Head(old[w]) = c[1]
    BY <1>4, SentList
  <1>7. /\ tab' = [tab EXCEPT ![k] = v] \/ (tab' = tab /\ k \in lost')
        /\ lost \subseteq lost' /\ lost' \subseteq lost \cup {k}
        /\ tab' # tab => (c[1] \in Dotted => k \in lost')
    BY <1>6 DEF NewVal
  <1>8. k \in lost' => k \in Spoilt'
    BY <1>3 DEF Spoilt
  <1>9. k \notin Spoilt' /\ tab' # tab => HeadersIn(tab[k]) \subseteq HeadersIn(v)
    BY <1>1, <1>4, <1>5, <1>7, <1>8, SpoiltMono
  <1> HIDE DEF v
  <1>10. /\ Locals' /\ contended' \subseteq User \X Folder
         /\ tab' \in [Key -> Seq(Token) \cup {Absent}]
         /\ \A b \in User \X Folder : tab'[b] # Absent => IsList(tab'[b])
         /\ \A b \in Key : b # k => tab'[b] = tab[b]
         /\ Contended' /\ Steady /\ Apart(w) /\ lost' \subseteq Key
         /\ \A x \in Worker \ {w} : Same(x)
    <2>1. tab' = tab \/ tab' = [tab EXCEPT ![k] = v]
      BY <1>7
    <2>2. k \in User \X Folder =>
             /\ k \in Changing(w) /\ IsList(v)
             /\ k \notin Spoilt' /\ tab[k] # Absent /\ tab' # tab
                  => HeadersIn(tab[k]) \subseteq HeadersIn(v)
      BY <1>3, <1>5, <1>9
    <2>3. QED
      BY <1>1, <1>3, <1>5, <1>7, <2>1, <2>2, WriteFrame
  <1>11. MailTypes'
    BY <1>1, <1>10 DEF MInv, MailTypes
  <1>12. ReadableKept
    BY <1>1, <1>2, <1>10, OthersReadable
  <1>13. /\ cmd'[w] = cmd[w] /\ folder'[w] = folder[w] /\ found'[w] = found[w] /\ pc'[w] = "text"
    BY <1>2 DEF NewVal, Locals
  <1>14. Thread(w)'
    <2>1. Progress(w)' /\ Makes(w)' /\ Holds(w)'
      BY <1>2, <1>13 DEF Thread, Progress, Makes, Holds, Holding, Changes
    <2>2. Filed(w)'
      <3> SUFFICES ASSUME NEW f \in found[w]
                   PROVE  Lists(<<OwnerOf(w, f), f>>, cmd[w].header)'
        BY <1>13 DEF Filed
      <3>1. CASE f # folder[w]
        BY <1>2, <1>10, <1>13, <3>1, FiledKept DEF Thread
      <3>2. CASE f = folder[w]
        <4>1. k = <<OwnerOf(w, f), f>>'
          BY <1>3, <1>13, <3>2 DEF Box, Owner, OwnerOf, Folder
        <4>2. k \in Spoilt' \/ tab'[k] = v
          BY <1>2, <1>3, <1>7, <1>8
        <4>3. h = cmd'[w].header
          BY <1>13
        <4>4. k \in Spoilt' \/ (tab'[k] # Absent /\ h \in HeadersIn(tab'[k]))
          BY <1>5, <4>2
        <4>5. QED
          BY <4>1, <4>3, <4>4 DEF Lists, HeadersIn
      <3>3. QED
        BY <3>1, <3>2
    <2>3. QED
      BY <2>1, <2>2 DEF Thread
  <1>15. InboxFirst'
    <2>1. ASSUME NEW u \in User, tab'[<<u, "SENT">>] # Absent, tab[<<u, "SENT">>] = Absent
          PROVE  FALSE
      <3>1. <<u, "SENT">> \in Key /\ <<u, "SENT">> # k
        BY <1>4, <2>1 DEF Key, Folder
      <3>2. QED
        BY <1>10, <2>1, <3>1
    <2>2. QED
      BY <1>10, <2>1, InboxKept DEF MInv
  <1>16. BoxesPaired'
    <2>1. ASSUME NEW u \in User, tab'[<<u, "INBOX">>] # Absent, tab[<<u, "INBOX">>] = Absent
          PROVE  FALSE
      <3>1. <<u, "INBOX">> \in Key /\ <<u, "INBOX">> # k
        BY <1>4, <2>1 DEF Key, Folder
      <3>2. QED
        BY <1>10, <2>1, <3>1
    <2>2. QED
      BY <1>1, <1>10, <2>1, PairedKept DEF MInv
  <1>17. ListedReadable'
    <2>1. ASSUME NEW u \in User, NEW f \in Folder, tab'[<<u, f>>] # tab[<<u, f>>],
                 NEW g \in HeadersIn(tab'[<<u, f>>])
          PROVE  Readable(u, g)'
      <3>1. <<u, f>> \in Key
        BY DEF Key
      <3>2. <<u, f>> = k /\ tab'[k] = v
        BY <1>2, <1>3, <1>7, <1>10, <2>1, <3>1
      <3>3. u = Owner(w)
        BY <3>2 DEF Box
      <3>4. g \in HeadersIn(c) \cup {h}
        BY <1>5, <2>1, <3>2
      <3>5. CASE g \in HeadersIn(c)
        <4>1. g \in Header
          BY <3>5 DEF HeadersIn
        <4>2. QED
          BY <1>4, <1>12, <3>3, <3>5, <4>1 DEF ReadableKept
      <3>6. CASE g = h
        <4>1. pc'[w] = "text" /\ Owner(w)' = u /\ cmd'[w].header = g
          BY <1>13, <3>3, <3>6 DEF Owner
        <4>2. QED
          BY <4>1 DEF Readable
      <3>7. QED
        BY <3>4, <3>5, <3>6
    <2>2. QED
      BY <1>12, <2>1, ListedKept DEF MInv
  <1>18. QED
    BY <1>1, <1>10, <1>11, <1>12, <1>14, <1>15, <1>16, <1>17, WriteStep

LEMMA TextStep ==
    ASSUME MInv, NEW w \in Worker, Work(w), Text(w), ~Exit
    PROVE  MInv' /\ Steady
  <1> USE DEF GoTo
  <1> DEFINE l == <<cmd[w].user, "~", cmd[w].to>>
             k == <<Owner(w), cmd[w].header>>
             v == string_to_binary(l)
  <1>1. /\ exited' = exited /\ put(k, l) /\ NextBox(w) /\ pc[w] = "text"
    BY DEF Text, At
  <1>2. Locals /\ Thread(w) /\ MailTypes /\ tab \in [Key -> Seq(Token) \cup {Absent}]
    BY DEF MInv, MailTypes
  <1>3. Owner(w) \in User /\ cmd[w].header \in Header /\ cmd[w].user \in User /\ cmd[w].to \in User
    BY <1>2, Owners
  <1>4. k \in Key /\ k \notin User \X Folder
    BY <1>3, LineTokens DEF Key
  <1>5. v \in Seq(Token) /\ v # Absent
    <2>1. l \in Seq(Token)
      BY <1>3 DEF Token
    <2>2. QED
      BY <2>1, ParseType
  <1>6. /\ tab' = [tab EXCEPT ![k] = v] \/ (tab' = tab /\ k \in lost')
        /\ lost \subseteq lost' /\ lost' \subseteq lost \cup {k}
    BY <1>1, PutEffect
  <1> HIDE DEF v, k
  <1>7. /\ Locals' /\ contended' \subseteq User \X Folder
        /\ tab' \in [Key -> Seq(Token) \cup {Absent}]
        /\ \A b \in User \X Folder : tab'[b] # Absent => IsList(tab'[b])
        /\ \A b \in Key : b # k => tab'[b] = tab[b]
        /\ Contended' /\ Steady /\ Apart(w) /\ lost' \subseteq Key
        /\ \A x \in Worker \ {w} : Same(x)
    <2>1. tab' = tab \/ tab' = [tab EXCEPT ![k] = v]
      BY <1>6
    <2>2. QED
      BY <1>1, <1>4, <1>5, <1>6, <2>1, WriteFrame
  <1>8. MailTypes'
    <2>1. old' \in [Worker -> Seq(Token)]
      BY <1>1, <1>2 DEF NextBox, MailTypes
    <2>2. QED
      BY <1>7, <2>1 DEF MailTypes
  <1>9. ReadableKept
    <2>1. tab'[k] # Absent \/ k \in lost'
      BY <1>2, <1>4, <1>5, <1>6
    <2>2. QED
      BY <1>2, <1>7, <2>1, OthersReadable DEF k
  <1>10. \A u \in User, f \in Folder : tab'[<<u, f>>] = tab[<<u, f>>]
    <2> SUFFICES ASSUME NEW u \in User, NEW f \in Folder
                 PROVE  tab'[<<u, f>>] = tab[<<u, f>>]
      OBVIOUS
    <2>1. <<u, f>> \in Key /\ <<u, f>> # k
      BY <1>4 DEF Key
    <2>2. QED
      BY <1>7, <2>1
  <1>11. InboxFirst'
    <2>1. \A u \in User : tab'[<<u, "SENT">>] = tab[<<u, "SENT">>]
      BY <1>10 DEF Folder
    <2>2. QED
      BY <1>7, <2>1, InboxKept DEF MInv
  <1>12. BoxesPaired'
    <2>1. \A u \in User : tab'[<<u, "INBOX">>] = tab[<<u, "INBOX">>]
      BY <1>10 DEF Folder
    <2>2. QED
      BY <1>1, <1>7, <2>1, PairedKept DEF MInv
  <1>13. ListedReadable'
    BY <1>9, <1>10, ListedKept DEF MInv
  <1>14. folder[w] \in Folder /\ found[w] \subseteq Folder
         /\ (folder[w] = "SENT" => found[w] \subseteq {"SENT"})
    BY <1>2 DEF Thread, Progress, Locals
  <1>15. CASE folder[w] = "SENT"
    <2>1. /\ folder'[w] = "INBOX" /\ pc'[w] = "file" /\ found'[w] = found[w] /\ acked' = acked
          /\ cmd'[w] = cmd[w]
      BY <1>1, <1>2, <1>15 DEF NextBox, Locals
    <2>2. Progress(w)' /\ Makes(w)' /\ Holds(w)'
      BY <1>14, <1>15, <2>1 DEF Progress, Makes, Holds, Holding, Changes
    <2>3. Filed(w)'
      <3> SUFFICES ASSUME NEW f \in found[w]
                   PROVE  Lists(<<OwnerOf(w, f), f>>, cmd[w].header)'
        BY <2>1 DEF Filed
      <3>1. QED
        BY <1>1, <1>2, <1>7, <2>1, FiledKept DEF Thread
    <2>4. QED
      BY <1>7, <1>8, <1>9, <1>11, <1>12, <1>13, <2>1, <2>2, <2>3, WriteStep DEF Thread
  <1>16. CASE folder[w] # "SENT"
    <2>1. EmailSent(w) /\ Forget(w, "ready")
      BY <1>1, <1>16 DEF NextBox, EmailSent, Ready
    <2>2. pc'[w] = "ready" /\ folder'[w] = "SENT" /\ found'[w] = {}
      BY <1>2, <2>1 DEF Forget, Locals
    <2>3. Thread(w)'
      BY <2>2, IdleThread DEF Holding, Changes
    <2>4. ASSUME NEW m \in acked', m \notin acked
          PROVE  m \in User \X Folder \X Header /\ Lists(<<m[1], m[2]>>, m[3])
      <3>1. m \in User \X Folder \X Header /\ \E f \in found[w] : m = <<OwnerOf(w, f), f, cmd[w].header>>
        BY <1>2, <2>1, <2>4, Reported
      <3>2. PICK f \in found[w] : m = <<OwnerOf(w, f), f, cmd[w].header>>
        BY <3>1
      <3>3. Lists(<<OwnerOf(w, f), f>>, cmd[w].header)
        BY <1>1, <1>2 DEF Thread, Filed
      <3>4. QED
        BY <3>1, <3>2, <3>3
    <2>5. QED
      BY <1>7, <1>8, <1>9, <1>11, <1>12, <1>13, <2>3, <2>4, WriteStep
  <1>17. QED
    BY <1>15, <1>16

-----------------------------------------------------------------------------
(* The theorems                                                            *)

LEMMA MailInit ==
    ASSUME Init
    PROVE  MInv
  <1>1. NoCommand \in Command
    BY CommandType
  <1>2. <<>> \in Seq(Token)
    BY EmptySeq
  <1>3. MailTypes
    <2>1. Locals
      BY <1>1 DEF Init, Locals, Place, Folder
    <2>2. \A b \in User \X Folder : tab[b] = Absent
      BY DEF Init, Key
    <2>3. tab \in [Key -> Seq(Token) \cup {Absent}] /\ old \in [Worker -> Seq(Token)]
          /\ lost = {} /\ contended = {}
      BY <1>2 DEF Init
    <2>4. QED
      BY <2>1, <2>2, <2>3 DEF MailTypes
  <1>4. Contended
    BY DEF Init, Contended, Changing
  <1>5. \A u \in User, f \in Folder : tab[<<u, f>>] = Absent
    BY DEF Init, Key
  <1>6. InboxFirst /\ BoxesPaired /\ ListedReadable
    BY <1>5 DEF InboxFirst, BoxesPaired, ListedReadable, Folder
  <1>7. Acked
    BY DEF Init, Acked
  <1>8. \A w \in Worker : Thread(w)
    BY DEF Init, Thread, Progress, Makes, Holds, Filed, Holding, Changes
  <1>9. QED
    BY <1>3, <1>4, <1>6, <1>7, <1>8 DEF MInv

LEMMA MailNext ==
    ASSUME MInv, [Next]_vars
    PROVE  MInv' /\ Steady
  <1>1. CASE event_handler
    BY <1>1, ExitStep DEF event_handler
  <1>2. ASSUME NEW w \in Worker, Event(w)
        PROVE  MInv' /\ Steady
    BY <1>2, EventStep
  <1>3. ASSUME NEW w \in Worker, Work(w)
        PROVE  MInv' /\ Steady
    <2>1. CASE Exit
      BY <1>3, <2>1, ExitStep DEF Work
    <2>2. CASE ~Exit
      BY <1>3, <2>2, ProbeStep, MakeInboxStep, MakeSentStep, AnswerStep, FileStep, CputStep,
         NewValStep, TextStep DEF Work
    <2>3. QED
      BY <2>1, <2>2
  <1>4. CASE UNCHANGED vars
    <2>1. Steady
      BY <1>4 DEF Steady, vars
    <2>2. MailTypes' /\ Contended' /\ InboxFirst' /\ Acked' /\ ListedReadable' /\ BoxesPaired'
      BY <1>4 DEF MInv, vars, MailTypes, Locals, Contended, Changing, Box, Owner, Username,
         InboxFirst, Acked, Lists, Spoilt, ListedReadable, BoxesPaired, HeadersIn
    <2>3. ASSUME NEW w \in Worker
          PROVE  Thread(w)'
      <3>1. Same(w) /\ ReadableKept
        BY <1>4 DEF vars, Same, ReadableKept, Readable, Owner
      <3>2. \A b \in Changing(w) : b \in Spoilt' \/ tab'[b] = tab[b]
        BY <1>4 DEF vars
      <3>3. QED
        BY <2>1, <2>3, <3>1, <3>2, OtherThread DEF MInv
    <2>4. QED
      BY <2>1, <2>2, <2>3 DEF MInv
  <1>5. QED
    BY <1>1, <1>2, <1>3, <1>4 DEF Next

\* Every state that is reached satisfies the invariant.
THEOREM MailInvariant == Spec => []MInv
  <1>1. Init => MInv
    BY MailInit
  <1>2. MInv /\ [Next]_vars => MInv'
    BY MailNext
  <1>3. QED
    BY <1>1, <1>2, PTL DEF Spec

\* A mail that was reported as sent stays in every box that SEND_EMAIL found,
\* unless two threads were changing the box at once or the store lost a write
\* to it or to the inbox of its owner (worker, SEND_EMAIL; change_user).
THEOREM MailDelivered == Spec => []Delivered
  <1>1. MInv => Delivered
    BY DEF MInv, Acked, Lists, Delivered
  <1>2. QED
    BY <1>1, MailInvariant, PTL

\* The owner of a box can open every mail that it lists, except while the text
\* is on its way (worker, SEND_EMAIL: the list is written before the text).
THEOREM ListedMailsReadable == Spec => []ListedReadable
  <1>1. MInv => ListedReadable
    BY DEF MInv
  <1>2. QED
    BY <1>1, MailInvariant, PTL

\* Who has an inbox has a sent box, or is about to get it (change_user).
THEOREM BoxesInPairs == Spec => []BoxesPaired
  <1>1. MInv => BoxesPaired
    BY DEF MInv
  <1>2. QED
    BY <1>1, MailInvariant, PTL

\* No step takes a mail out of a box that nobody else is changing.
THEOREM BoxesOnlyGrow == Spec => BoxesGrow
  <1>1. MInv /\ [Next]_vars =>
          [\A b \in User \X Folder :
             b \notin Spoilt' /\ tab[b] # Absent
                => HeadersIn(tab[b]) \subseteq HeadersIn(tab'[b])]_vars
    BY MailNext DEF Steady
  <1>2. QED
    BY <1>1, MailInvariant, PTL DEF Spec, BoxesGrow

=============================================================================
