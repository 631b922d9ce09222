---------------------------- MODULE DriveProofs ----------------------------
(***************************************************************************)
(* Proofs about Drive: what listings keep, and that they keep trees, for   *)
(* any users, files, folders and commands, any depth of folders, and a     *)
(* server that is killed, interrupted and started at any time.             *)
(***************************************************************************)
EXTENDS Drive, FiniteSetTheorems, SequenceTheorems, NaturalsInduction, TLAPS

\* The section of folder p is open at the end of the lines, and no section is.
Open(lines, p) == Inside(lines, Len(lines) + 1, p)
AtStart(lines) == lines = <<>> \/ lines[Len(lines)] = End

\* Sections begin where none is open.
Neat(lines) ==
    /\ lines # <<>> => lines[1].is = "section"
    /\ \A i \in 2..Len(lines) : lines[i].is = "section" <=> lines[i - 1] = End

\* A section of r comes behind the last one of q.
Behind(lines, q, r) ==
    \E i \in DOMAIN lines : /\ lines[i] = Section(r)
                            /\ \A j \in (i + 1)..Len(lines) : lines[j] # Section(q)

\* Folder r is in folder q, or in one that is.
Below(q, r) == Len(q) < Len(r) /\ \A i \in 1..Len(q) : r[i] = q[i]

\* What the handlers rely on.  New sections are put in front of older ones of
\* their folder, and behind those of the folder they are in; so the last section
\* is the oldest, and has all names.
Entered(lines) ==
    \A p \in Folders(lines) : \A d \in Folder \cap NamesIn(lines, p) : Append(p, d) \in Folders(lines)
Nested(lines) ==
    \A q, r \in Folders(lines) : Below(q, r) => Behind(lines, q, r)
Complete(lines) ==
    \A p \in Path : Shown(lines, p) = NamesIn(lines, p)

Sound(lines) ==
    /\ lines \in Seq(Line) /\ WellFormed(lines)
    /\ Entered(lines) /\ Nested(lines) /\ Complete(lines)

\* The users the server knows have listings, and one of them is the current one.
Known ==
    /\ \A i \in DOMAIN listOfUsers : disk[listOfUsers[i]] # Absent
    /\ IF listOfUsers = <<>> THEN count = 0 /\ current = Absent
                             ELSE \E i \in DOMAIN listOfUsers : listOfUsers[i] = current

\* What command is carried out where, and what it has done so far.
Serving ==
    /\ pc = "contents" => command.op = "Contents"
    /\ pc = "put" => command.op = "Upload"
    /\ pc = "get" => command.op = "Download"
    /\ pc \in {"edit", "write"} =>
         command.op \in {"Upload", "AddFolder", "MoveFile", "DeleteFolder", "DeleteFile"}
    /\ pc \in {"edit", "write"} /\ command.op = "Upload" => Key \in cells
    /\ pc = "write" => disk[current] = <<>>

DInv == /\ TypeOK /\ Known /\ Serving /\ ListedStored
        /\ \A u \in User : disk[u] # Absent => Sound(disk[u])
        /\ Sound(filecontents)

-----------------------------------------------------------------------------
(* Sequences of sequences, as for the mail server: FlattenSeq is recursive, *)
(* and a set stands for what is shown of every sequence by induction.      *)

LEMMA Least ==
    ASSUME NEW D, D \subseteq Nat, D # {}
    PROVE  \E n \in D : \A m \in D : n <= m
  <1>1. PICK n \in D : \A m \in D : ~(<<m, n>> \in OpToRel(<, Nat))
    BY NatLessThanWellFounded, WFMin
  <1>2. ASSUME NEW m \in D
        PROVE  n <= m
    <2>1. ~(<<m, n>> \in OpToRel(<, Nat))
      BY <1>1
    <2>2. m \in Nat /\ n \in Nat
      OBVIOUS
    <2>3. ~(m < n)
      BY <2>1, <2>2 DEF OpToRel
    <2>4. QED
      BY <2>2, <2>3
  <1>3. QED
    BY <1>2

LEMMA SeqInduct ==
    ASSUME NEW S, NEW G, <<>> \in G,
           \A s \in Seq(S), e \in S : s \in G => Append(s, e) \in G
    PROVE  Seq(S) \subseteq G
  <1> SUFFICES ASSUME NEW q \in Seq(S), q \notin G PROVE FALSE
    OBVIOUS
  <1> DEFINE L == {n \in Nat : \E s \in Seq(S) : s \notin G /\ Len(s) = n}
  <1>1. PICK n \in L : \A m \in L : n <= m
    <2>1. Len(q) \in L
      BY LenProperties
    <2> HIDE DEF L
    <2>2. L \subseteq Nat
      BY DEF L
    <2>3. QED
      BY <2>1, <2>2, Least
  <1>2. PICK s \in Seq(S) : s \notin G /\ n = Len(s)
    BY <1>1
  <1>3. PICK t \in Seq(S), e \in S : s = Append(t, e)
    BY <1>2, SequenceEmptyOrAppend
  <1>4. Len(t) \in Nat /\ n = Len(t) + 1
    BY <1>2, <1>3, AppendProperties
  <1>5. Len(t) \notin L
    <2>1. ~(n <= Len(t)) /\ n \in Nat
      BY <1>1, <1>4
    <2>2. QED
      BY <1>1, <2>1
  <1>6. t \in G
    BY <1>5
  <1>7. QED
    BY <1>2, <1>3, <1>6

\* f is the function that FlattenSeq is defined with.
IsFlatten(q, f) == f = [i \in 1..Len(q) |-> IF i = 1 THEN q[i] ELSE f[i - 1] \o q[i]]

LEMMA FlattenAt ==
    ASSUME NEW q, NEW f, IsFlatten(q, f), NEW i \in 1..Len(q)
    PROVE  f[i] = IF i = 1 THEN q[i] ELSE f[i - 1] \o q[i]
  BY DEF IsFlatten

LEMMA FlattenUnique ==
    ASSUME NEW T, NEW q \in Seq(Seq(T)), NEW f, NEW g, IsFlatten(q, f), IsFlatten(q, g)
    PROVE  f = g
  <1> DEFINE D == {i \in 1..Len(q) : f[i] # g[i]}
  <1>1. Len(q) \in Nat /\ D \subseteq Nat
    OBVIOUS
  <1>2. D = {}
    <2> SUFFICES ASSUME D # {} PROVE FALSE
      OBVIOUS
    <2>1. PICK n \in D : \A m \in D : n <= m
      BY <1>1, Least
    <2>2. n # 1
      BY <2>1 DEF IsFlatten
    <2>3. n \in 1..Len(q) /\ n - 1 \in 1..Len(q) /\ n - 1 \notin D
      BY <1>1, <2>1, <2>2
    <2>4. f[n - 1] = g[n - 1]
      BY <2>3
    <2>5. f[n] = f[n - 1] \o q[n] /\ g[n] = g[n - 1] \o q[n]
      BY <2>2, <2>3 DEF IsFlatten
    <2>6. QED
      BY <2>1, <2>4, <2>5
  <1>3. DOMAIN f = 1..Len(q) /\ DOMAIN g = 1..Len(q)
    BY DEF IsFlatten
  <1>4. f = [i \in 1..Len(q) |-> f[i]] /\ g = [i \in 1..Len(q) |-> g[i]]
    BY DEF IsFlatten
  <1>5. QED
    BY <1>2, <1>3, <1>4

LEMMA FlattenExtends ==
    ASSUME NEW T, NEW q \in Seq(Seq(T)), NEW x \in Seq(T), NEW f, IsFlatten(q, f)
    PROVE  LET n == Len(q)
               g == [i \in 1..(n + 1) |-> IF i <= n THEN f[i]
                                          ELSE IF n = 0 THEN x ELSE f[n] \o x]
           IN IsFlatten(Append(q, x), g)
  <1> DEFINE n == Len(q)
             g == [i \in 1..(n + 1) |-> IF i <= n THEN f[i] ELSE IF n = 0 THEN x ELSE f[n] \o x]
             r == Append(q, x)
  <1>1. n \in Nat /\ Len(r) = n + 1 /\ r[n + 1] = x /\ \A i \in 1..n : r[i] = q[i]
    BY AppendProperties
  <1>2. ASSUME NEW i \in 1..(n + 1)
        PROVE  g[i] = IF i = 1 THEN r[i] ELSE g[i - 1] \o r[i]
    <2>1. CASE i <= n
      <3>1. f[i] = IF i = 1 THEN q[i] ELSE f[i - 1] \o q[i]
        <4>1. i \in 1..Len(q)
          BY <1>1, <2>1
        <4> HIDE DEF g, r, n
        <4>2. QED
          BY <4>1, FlattenAt
      <3>2. i # 1 => g[i - 1] = f[i - 1]
        BY <1>1, <2>1
      <3>3. QED
        BY <1>1, <2>1, <3>1, <3>2
    <2>2. CASE i = n + 1
      BY <1>1, <2>2
    <2>3. QED
      BY <1>1, <2>1, <2>2
  <1>3. g = [i \in 1..(n + 1) |-> IF i = 1 THEN r[i] ELSE g[i - 1] \o r[i]]
    BY <1>2
  <1>4. QED
    BY <1>1, <1>3 DEF IsFlatten

LEMMA FlattenExists ==
    ASSUME NEW T, NEW q \in Seq(Seq(T))
    PROVE  \E f : IsFlatten(q, f)
  <1> DEFINE G == {r \in Seq(Seq(T)) : \E f : IsFlatten(r, f)}
  <1>1. <<>> \in G
    <2>1. IsFlatten(<<>>, [i \in 1..0 |-> 0])
      BY DEF IsFlatten
    <2>2. QED
      BY <2>1
  <1>2. ASSUME NEW r \in Seq(Seq(T)), NEW x \in Seq(T), r \in G
        PROVE  Append(r, x) \in G
    <2>1. PICK f : IsFlatten(r, f)
      BY <1>2
    <2>2. \E g : IsFlatten(Append(r, x), g)
      BY <2>1, FlattenExtends
    <2>3. Append(r, x) \in Seq(Seq(T))
      BY AppendProperties
    <2>4. QED
      BY <2>2, <2>3
  <1> HIDE DEF G
  <1>3. Seq(Seq(T)) \subseteq G
    BY <1>1, <1>2, SeqInduct
  <1>4. QED
    BY <1>3 DEF G

LEMMA FlattenValue ==
    ASSUME NEW T, NEW q \in Seq(Seq(T)), NEW f, IsFlatten(q, f), q # <<>>
    PROVE  FlattenSeq(q) = f[Len(q)]
  <1> DEFINE flatten == CHOOSE g : g = [i \in 1..Len(q) |-> IF i = 1 THEN q[i] ELSE g[i - 1] \o q[i]]
  <1>1. IsFlatten(q, flatten)
    BY DEF IsFlatten
  <1>2. flatten = f
    BY <1>1, FlattenUnique
  <1>3. Len(q) # 0
    BY EmptySeq
  <1>4. FlattenSeq(q) = flatten[Len(q)]
    BY <1>3 DEF FlattenSeq
  <1>5. QED
    BY <1>2, <1>4

LEMMA FlattenEmpty == FlattenSeq(<<>>) = <<>>
  BY DEF FlattenSeq

LEMMA FlattenAppend ==
    ASSUME NEW T, NEW q \in Seq(Seq(T)), NEW x \in Seq(T)
    PROVE  FlattenSeq(Append(q, x)) = FlattenSeq(q) \o x
  <1> DEFINE n == Len(q)
  <1>1. n \in Nat /\ Append(q, x) \in Seq(Seq(T)) /\ Append(q, x) # <<>> /\ Len(Append(q, x)) = n + 1
    BY AppendProperties
  <1>2. PICK f : IsFlatten(q, f)
    BY FlattenExists
  <1> DEFINE g == [i \in 1..(n + 1) |-> IF i <= n THEN f[i] ELSE IF n = 0 THEN x ELSE f[n] \o x]
  <1>3. IsFlatten(Append(q, x), g)
    BY <1>2, FlattenExtends
  <1>4. FlattenSeq(Append(q, x)) = g[n + 1]
    BY <1>1, <1>3, FlattenValue
  <1>5. CASE q = <<>>
    <2>1. n = 0 /\ g[n + 1] = x
      BY <1>5
    <2>2. QED
      BY <1>4, <1>5, <2>1, FlattenEmpty, ConcatEmptySeq
  <1>6. CASE q # <<>>
    <2>1. n # 0 /\ g[n + 1] = f[n] \o x
      <3>1. n # 0
        BY <1>6, EmptySeq
      <3>2. QED
        BY <1>1, <3>1
    <2>2. FlattenSeq(q) = f[n]
      BY <1>2, <1>6, FlattenValue
    <2>3. QED
      BY <1>4, <2>1, <2>2
  <1>7. QED
    BY <1>5, <1>6


\* An edit turns every line into some lines, looking at those before it only.
LEMMA Piecewise ==
    ASSUME NEW T, NEW f \in Seq(Seq(T)), NEW g \in Seq(Seq(T)), NEW y \in Seq(T),
           Len(g) = Len(f) + 1, g[Len(f) + 1] = y, \A i \in 1..Len(f) : g[i] = f[i]
    PROVE  FlattenSeq(g) = FlattenSeq(f) \o y
  <1> DEFINE h == Append(f, y)
  <1>1. /\ h \in Seq(Seq(T)) /\ Len(h) = Len(f) + 1 /\ Len(f) \in Nat
        /\ h[Len(f) + 1] = y /\ \A i \in 1..Len(f) : h[i] = f[i]
    BY AppendProperties
  <1>2. ASSUME NEW i \in 1..Len(g)
        PROVE  g[i] = h[i]
    <2>1. i = Len(f) + 1 \/ i \in 1..Len(f)
      BY <1>1
    <2>2. QED
      BY <1>1, <2>1
  <1> HIDE DEF h
  <1>3. g = h
    BY <1>1, <1>2, SeqEqual
  <1>4. FlattenSeq(h) = FlattenSeq(f) \o y
    BY FlattenAppend DEF h
  <1>5. QED
    BY <1>3, <1>4

LEMMA ConcatOne ==
    ASSUME NEW T, NEW s \in Seq(T), NEW x \in T
    PROVE  s \o <<x>> = Append(s, x)
  BY AppendIsConcat

LEMMA ConcatMore ==
    ASSUME NEW T, NEW s \in Seq(T), NEW r \in Seq(T), NEW x \in T
    PROVE  s \o Append(r, x) = Append(s \o r, x)
  <1> DEFINE d == <<x>>
  <1>1. d \in Seq(T) /\ Append(r, x) = r \o d /\ s \o r \in Seq(T)
    BY AppendIsConcat, ConcatProperties
  <1>2. Append(s \o r, x) = (s \o r) \o d
    BY <1>1, AppendIsConcat
  <1> HIDE DEF d
  <1>3. (s \o r) \o d = s \o (r \o d)
    BY <1>1, ConcatAssociative, SMTT(30)
  <1>4. QED
    BY <1>1, <1>2, <1>3

LEMMA ConcatTwo ==
    ASSUME NEW T, NEW s \in Seq(T), NEW x \in T, NEW y \in T
    PROVE  s \o <<x, y>> = Append(Append(s, x), y)
  <1>1. <<x>> \in Seq(T) /\ <<x, y>> = Append(<<x>>, y)
    OBVIOUS
  <1>2. s \o Append(<<x>>, y) = Append(s \o <<x>>, y)
    BY <1>1, ConcatMore
  <1>3. s \o <<x>> = Append(s, x)
    BY ConcatOne
  <1>4. QED
    BY <1>1, <1>2, <1>3

LEMMA ConcatThree ==
    ASSUME NEW T, NEW s \in Seq(T), NEW x \in T, NEW y \in T, NEW z \in T
    PROVE  s \o <<x, y, z>> = Append(Append(Append(s, x), y), z)
  <1>1. <<x, y>> \in Seq(T) /\ <<x, y, z>> = Append(<<x, y>>, z)
    OBVIOUS
  <1>2. s \o Append(<<x, y>>, z) = Append(s \o <<x, y>>, z)
    BY <1>1, ConcatMore
  <1>3. s \o <<x, y>> = Append(Append(s, x), y)
    BY ConcatTwo
  <1>4. QED
    BY <1>1, <1>2, <1>3

-----------------------------------------------------------------------------
(* Lines, and what another line adds to a listing.                         *)

LEMMA LineCases ==
    ASSUME NEW x \in Line
    PROVE  \/ \E p \in Path : x = Section(p)
           \/ \E n \in Name : x = Entry(n)
           \/ x = End
  BY DEF Line, Section, Entry, End

LEMMA LinesDiffer ==
    /\ \A p : Section(p).is = "section" /\ Section(p).path = p /\ Section(p) # End
    /\ \A n : Entry(n).is = "entry" /\ Entry(n).name = n /\ Entry(n) # End
    /\ \A p, n : Section(p) # Entry(n)
    /\ \A p, q : Section(p) = Section(q) => p = q
    /\ \A m, n : Entry(m) = Entry(n) => m = n
    /\ End.is = "end"
  <1>1. \A p : Section(p).is = "section" /\ Section(p).path = p
    BY DEF Section
  <1>2. \A n : Entry(n).is = "entry" /\ Entry(n).name = n
    BY DEF Entry
  <1>3. End.is = "end"
    BY DEF End
  <1>4. QED
    BY <1>1, <1>2, <1>3

LEMMA LineTypes ==
    /\ \A p \in Path : Section(p) \in Line
    /\ \A n \in Name : Entry(n) \in Line
    /\ End \in Line
  BY DEF Line, Section, Entry, End

LEMMA SectionLine ==
    ASSUME NEW x \in Line
    PROVE  x.is = "section" <=> \E p \in Path : x = Section(p)
  BY LineCases, LinesDiffer

LEMMA Extend ==
    ASSUME NEW s \in Seq(Line), NEW x \in Line
    PROVE  /\ Len(s) \in Nat /\ Append(s, x) \in Seq(Line) /\ Len(Append(s, x)) = Len(s) + 1
           /\ DOMAIN s = 1..Len(s) /\ DOMAIN Append(s, x) = 1..(Len(s) + 1)
           /\ Append(s, x)[Len(s) + 1] = x /\ \A i \in 1..Len(s) : Append(s, x)[i] = s[i]
           /\ Append(s, x) # <<>>
           /\ \A i \in 1..Len(s) : s[i] \in Line
  BY AppendProperties

LEMMA InsideKept ==
    ASSUME NEW s \in Seq(Line), NEW x \in Line, NEW p, NEW i \in 1..(Len(s) + 1)
    PROVE  Inside(Append(s, x), i, p) <=> Inside(s, i, p)
  <1> DEFINE t == Append(s, x)
  <1>1. Len(s) \in Nat /\ \A j \in 1..Len(s) : t[j] = s[j]
    BY Extend
  <1> HIDE DEF t
  <1>2. ASSUME NEW j \in 1..(i - 1)
        PROVE  t[j] = s[j] /\ {t[m] : m \in (j + 1)..(i - 1)} = {s[m] : m \in (j + 1)..(i - 1)}
    <2>1. \A m \in (j + 1)..(i - 1) : t[m] = s[m]
      BY <1>1
    <2>2. QED
      BY <1>1, <2>1
  <1>3. Inside(t, i, p) <=> Inside(s, i, p)
    BY <1>2 DEF Inside
  <1>4. QED
    BY <1>3 DEF t

LEMMA OpenAppend ==
    ASSUME NEW s \in Seq(Line), NEW x \in Line, NEW p
    PROVE  Open(Append(s, x), p) <=> x = Section(p) \/ (Open(s, p) /\ x # End)
  <1> DEFINE t == Append(s, x)
             n == Len(s)
  <1>1. n \in Nat /\ Len(t) = n + 1 /\ t[n + 1] = x /\ \A j \in 1..n : t[j] = s[j]
    BY Extend
  <1> HIDE DEF t, n
  <1>2. Open(t, p) <=> \E j \in 1..(n + 1) : t[j] = Section(p) /\ \A m \in (j + 1)..(n + 1) : t[m] # End
    BY <1>1 DEF Open, Inside
  <1>3. Open(s, p) <=> \E j \in 1..n : s[j] = Section(p) /\ \A m \in (j + 1)..n : s[m] # End
    BY <1>1 DEF Open, Inside, n
  <1>4. ASSUME Open(t, p), x # Section(p)
        PROVE  Open(s, p) /\ x # End
    <2>1. PICK j \in 1..(n + 1) : t[j] = Section(p) /\ \A m \in (j + 1)..(n + 1) : t[m] # End
      BY <1>2, <1>4
    <2>2. j \in 1..n
      BY <1>1, <1>4, <2>1
    <2>3. s[j] = Section(p) /\ x # End
      BY <1>1, <2>1, <2>2
    <2>4. \A m \in (j + 1)..n : s[m] # End
      BY <1>1, <2>1, <2>2
    <2>5. QED
      BY <1>3, <2>2, <2>3, <2>4
  <1>5. ASSUME x = Section(p)
        PROVE  Open(t, p)
    BY <1>1, <1>2, <1>5
  <1>6. ASSUME Open(s, p), x # End
        PROVE  Open(t, p)
    <2>1. PICK j \in 1..n : s[j] = Section(p) /\ \A m \in (j + 1)..n : s[m] # End
      BY <1>3, <1>6
    <2>2. j \in 1..(n + 1) /\ t[j] = Section(p)
      BY <1>1, <2>1
    <2>3. \A m \in (j + 1)..(n + 1) : t[m] # End
      BY <1>1, <1>6, <2>1
    <2>4. QED
      BY <1>2, <2>2, <2>3
  <1>7. QED
    BY <1>4, <1>5, <1>6 DEF t

LEMMA NamesAppend ==
    ASSUME NEW s \in Seq(Line), NEW x \in Line, NEW p, NEW n \in Name
    PROVE  n \in NamesIn(Append(s, x), p) <=> n \in NamesIn(s, p) \/ (x = Entry(n) /\ Open(s, p))
  <1> DEFINE t == Append(s, x)
             k == Len(s)
  <1>1. /\ k \in Nat /\ t[k + 1] = x /\ \A j \in 1..k : t[j] = s[j]
        /\ DOMAIN s = 1..k /\ DOMAIN t = 1..(k + 1)
    BY Extend
  <1>2. \A i \in 1..(k + 1) : Inside(t, i, p) <=> Inside(s, i, p)
    BY InsideKept
  <1>3. Open(s, p) <=> Inside(s, k + 1, p)
    BY DEF Open
  <1> HIDE DEF t, k
  <1>4. n \in NamesIn(t, p) <=> \E i \in 1..(k + 1) : t[i] = Entry(n) /\ Inside(t, i, p)
    BY <1>1 DEF NamesIn
  <1>5. n \in NamesIn(s, p) <=> \E i \in 1..k : s[i] = Entry(n) /\ Inside(s, i, p)
    BY <1>1 DEF NamesIn
  <1>6. n \in NamesIn(s, p) => n \in NamesIn(t, p)
    BY <1>1, <1>2, <1>4, <1>5
  <1>7. x = Entry(n) /\ Open(s, p) => n \in NamesIn(t, p)
    BY <1>1, <1>2, <1>3, <1>4
  <1>8. ASSUME n \in NamesIn(t, p)
        PROVE  n \in NamesIn(s, p) \/ (x = Entry(n) /\ Open(s, p))
    <2>1. PICK i \in 1..(k + 1) : t[i] = Entry(n) /\ Inside(t, i, p)
      BY <1>4, <1>8
    <2>2. CASE i = k + 1
      BY <1>1, <1>2, <1>3, <2>1, <2>2
    <2>3. CASE i \in 1..k
      BY <1>1, <1>2, <1>5, <2>1, <2>3
    <2>4. QED
      BY <1>1, <2>2, <2>3
  <1>9. QED
    BY <1>6, <1>7, <1>8 DEF t

LEMMA FoldersAre ==
    ASSUME NEW s \in Seq(Line)
    PROVE  /\ Folders(s) \subseteq Path
           /\ \A p \in Path : p \in Folders(s) <=> \E i \in DOMAIN s : s[i] = Section(p)
  <1>1. ASSUME NEW i \in DOMAIN s, s[i].is = "section"
        PROVE  s[i].path \in Path /\ s[i] = Section(s[i].path)
    <2>1. s[i] \in Line
      BY ElementOfSeq
    <2>2. PICK p \in Path : s[i] = Section(p)
      BY <1>1, <2>1, SectionLine
    <2>3. QED
      BY <2>2, LinesDiffer
  <1>2. Folders(s) \subseteq Path
    BY <1>1 DEF Folders
  <1>3. ASSUME NEW p \in Path, p \in Folders(s)
        PROVE  \E i \in DOMAIN s : s[i] = Section(p)
    BY <1>1, <1>3 DEF Folders
  <1>4. ASSUME NEW p \in Path, NEW i \in DOMAIN s, s[i] = Section(p)
        PROVE  p \in Folders(s)
    <2>1. s[i].is = "section" /\ s[i].path = p
      BY <1>4, LinesDiffer
    <2>2. QED
      BY <2>1 DEF Folders
  <1>5. QED
    BY <1>2, <1>3, <1>4

LEMMA FoldersAppend ==
    ASSUME NEW s \in Seq(Line), NEW x \in Line, NEW p \in Path
    PROVE  p \in Folders(Append(s, x)) <=> p \in Folders(s) \/ x = Section(p)
  <1> DEFINE t == Append(s, x)
             k == Len(s)
  <1>1. /\ k \in Nat /\ t[k + 1] = x /\ \A j \in 1..k : t[j] = s[j] /\ t \in Seq(Line)
        /\ DOMAIN s = 1..k /\ DOMAIN t = 1..(k + 1)
    BY Extend
  <1>2. t \in Seq(Line)
    BY Extend
  <1>3. /\ p \in Folders(t) <=> \E i \in DOMAIN t : t[i] = Section(p)
        /\ p \in Folders(s) <=> \E i \in DOMAIN s : s[i] = Section(p)
    BY <1>2, FoldersAre
  <1> HIDE DEF t, k
  <1>4. p \in Folders(t) => p \in Folders(s) \/ x = Section(p)
    <2>1. SUFFICES ASSUME NEW i \in DOMAIN t, t[i] = Section(p), x # Section(p)
                   PROVE  p \in Folders(s)
      BY <1>3
    <2>2. i \in 1..k
      BY <1>1, <2>1
    <2>3. QED
      BY <1>1, <1>3, <2>1, <2>2
  <1>5. p \in Folders(s) => p \in Folders(t)
    BY <1>1, <1>3
  <1>6. x = Section(p) => p \in Folders(t)
    BY <1>1, <1>3
  <1>7. QED
    BY <1>4, <1>5, <1>6 DEF t

LEMMA StartAppend ==
    ASSUME NEW s \in Seq(Line), NEW x \in Line
    PROVE  AtStart(Append(s, x)) <=> x = End
  BY Extend DEF AtStart

LEMMA NeatAppend ==
    ASSUME NEW s \in Seq(Line), NEW x \in Line
    PROVE  Neat(Append(s, x)) <=> Neat(s) /\ (x.is = "section" <=> AtStart(s))
  <1> DEFINE t == Append(s, x)
             k == Len(s)
  <1>1. k \in Nat /\ t[k + 1] = x /\ t # <<>> /\ Len(t) = k + 1 /\ \A j \in 1..k : t[j] = s[j]
    BY Extend
  <1>2. s = <<>> <=> k = 0
    BY EmptySeq
  <1> HIDE DEF t
  <1>3. CASE k = 0
    <2>1. Neat(s) /\ AtStart(s)
      BY <1>2, <1>3 DEF Neat, AtStart
    <2>2. Neat(t) <=> x.is = "section"
      BY <1>1, <1>3 DEF Neat
    <2>3. QED
      BY <2>1, <2>2 DEF t
  <1>4. CASE k # 0
    <2>1. AtStart(s) <=> s[k] = End
      BY <1>2, <1>4 DEF AtStart
    <2>2. t[1] = s[1] /\ t[k] = s[k] /\ s # <<>>
      BY <1>1, <1>2, <1>4
    <2>3. ASSUME Neat(t)
          PROVE  Neat(s) /\ (x.is = "section" <=> AtStart(s))
      <3>1. t[k + 1].is = "section" <=> t[k] = End
        <4>1. k + 1 \in 2..Len(t) /\ (k + 1) - 1 = k
          BY <1>1, <1>4
        <4>2. QED
          BY <2>3, <4>1 DEF Neat
      <3>2. \A i \in 2..k : s[i].is = "section" <=> s[i - 1] = End
        <4>1. \A i \in 2..k : t[i].is = "section" <=> t[i - 1] = End
          BY <1>1, <2>3 DEF Neat
        <4>2. \A i \in 2..k : t[i] = s[i] /\ t[i - 1] = s[i - 1]
          BY <1>1
        <4>3. QED
          BY <4>1, <4>2
      <3>3. s[1].is = "section"
        BY <1>1, <2>2, <2>3 DEF Neat
      <3>4. QED
        BY <1>1, <2>1, <2>2, <3>1, <3>2, <3>3 DEF Neat
    <2>4. ASSUME Neat(s), x.is = "section" <=> AtStart(s)
          PROVE  Neat(t)
      <3>1. ASSUME NEW i \in 2..(k + 1)
            PROVE  t[i].is = "section" <=> t[i - 1] = End
        <4>1. CASE i = k + 1
          BY <1>1, <2>1, <2>2, <2>4, <4>1
        <4>2. CASE i \in 2..k
          <5>1. t[i] = s[i] /\ t[i - 1] = s[i - 1]
            BY <1>1, <4>2
          <5>2. QED
            BY <2>4, <4>2, <5>1 DEF Neat
        <4>3. QED
          BY <1>1, <4>1, <4>2
      <3>2. QED
        BY <1>1, <2>2, <2>4, <3>1 DEF Neat
    <2>5. QED
      BY <2>3, <2>4 DEF t
  <1>5. QED
    BY <1>3, <1>4

LEMMA BehindAppend ==
    ASSUME NEW s \in Seq(Line), NEW x \in Line, NEW q, NEW r, q # r
    PROVE  Behind(Append(s, x), q, r) <=> x = Section(r) \/ (Behind(s, q, r) /\ x # Section(q))
  <1> DEFINE t == Append(s, x)
             k == Len(s)
  <1>1. /\ k \in Nat /\ t[k + 1] = x /\ \A j \in 1..k : t[j] = s[j]
        /\ DOMAIN s = 1..k /\ DOMAIN t = 1..(k + 1) /\ Len(t) = k + 1
    BY Extend
  <1> HIDE DEF t
  <1>2. Behind(t, q, r) <=> \E i \in 1..(k + 1) : t[i] = Section(r) /\ \A j \in (i + 1)..(k + 1) : t[j] # Section(q)
    BY <1>1 DEF Behind
  <1>3. Behind(s, q, r) <=> \E i \in 1..k : s[i] = Section(r) /\ \A j \in (i + 1)..k : s[j] # Section(q)
    BY <1>1 DEF Behind
  <1> HIDE DEF k
  <1>4. ASSUME x = Section(r)
        PROVE  Behind(t, q, r)
    BY <1>1, <1>2, <1>4
  <1>5. ASSUME Behind(s, q, r), x # Section(q)
        PROVE  Behind(t, q, r)
    <2>1. PICK i \in 1..k : s[i] = Section(r) /\ \A j \in (i + 1)..k : s[j] # Section(q)
      BY <1>3, <1>5
    <2>2. i \in 1..(k + 1) /\ t[i] = Section(r)
      BY <1>1, <2>1
    <2>3. \A j \in (i + 1)..(k + 1) : t[j] # Section(q)
      BY <1>1, <1>5, <2>1
    <2>4. QED
      BY <1>2, <2>2, <2>3
  <1>6. ASSUME Behind(t, q, r), x # Section(r)
        PROVE  Behind(s, q, r) /\ x # Section(q)
    <2>1. PICK i \in 1..(k + 1) : t[i] = Section(r) /\ \A j \in (i + 1)..(k + 1) : t[j] # Section(q)
      BY <1>2, <1>6
    <2>2. i \in 1..k
      BY <1>1, <1>6, <2>1
    <2>3. x # Section(q) /\ s[i] = Section(r) /\ \A j \in (i + 1)..k : s[j] # Section(q)
      BY <1>1, <2>1, <2>2
    <2>4. QED
      BY <1>3, <2>2, <2>3
  <1>7. QED
    BY <1>4, <1>5, <1>6 DEF t

LEMMA Greatest ==
    ASSUME NEW k \in Nat, NEW D, D \subseteq 1..k, D # {}
    PROVE  \E n \in D : \A m \in D : m <= n
  <1> DEFINE R == {m \in Nat : k - m \in D}
  <1>1. R \subseteq Nat /\ R # {}
    <2>1. PICK d \in D : TRUE
      OBVIOUS
    <2>2. k - d \in Nat /\ k - (k - d) = d
      OBVIOUS
    <2>3. k - d \in R
      BY <2>2
    <2>4. QED
      BY <2>3
  <1>2. PICK n \in R : \A m \in R : n <= m
    <2> HIDE DEF R
    <2>1. QED
      BY <1>1, Least
  <1>3. ASSUME NEW m \in D
        PROVE  m <= k - n
    <2>1. k - m \in Nat /\ k - (k - m) = m
      OBVIOUS
    <2>2. k - m \in R
      BY <2>1
    <2>3. n <= k - m /\ n \in Nat
      BY <1>2, <2>2
    <2>4. QED
      BY <2>3
  <1>4. QED
    BY <1>2, <1>3

\* What Contents shows is what follows the last section head.
LEMMA ShownIs ==
    ASSUME NEW s \in Seq(Line), NEW p, NEW n \in Name
    PROVE  n \in Shown(s, p) <=>
             \E i \in DOMAIN s : /\ s[i] = Entry(n) /\ Inside(s, i, p)
                                 /\ \A j \in (i + 1)..Len(s) : s[j] # Section(p)
  <1> DEFINE heads == {i \in DOMAIN s : s[i] = Section(p)}
             last == CHOOSE i \in heads : \A j \in heads : j <= i
  <1>1. Len(s) \in Nat /\ DOMAIN s = 1..Len(s)
    BY LenProperties
  <1>2. heads # {} => last \in heads /\ \A j \in heads : j <= last
    <2>1. heads \subseteq 1..Len(s)
      BY <1>1
    <2>2. heads # {} => \E i \in heads : \A j \in heads : j <= i
      <3> HIDE DEF heads
      <3>1. QED
        BY <1>1, <2>1, Greatest
    <2>3. QED
      BY <2>2
  <1>3. n \in Shown(s, p) <=>
          heads # {} /\ \E i \in DOMAIN s : i > last /\ s[i] = Entry(n) /\ Inside(s, i, p)
    BY DEF Shown
  <1> HIDE DEF last
  <1>4. ASSUME n \in Shown(s, p)
        PROVE  \E i \in DOMAIN s : /\ s[i] = Entry(n) /\ Inside(s, i, p)
                                   /\ \A j \in (i + 1)..Len(s) : s[j] # Section(p)
    <2>1. PICK i \in DOMAIN s : i > last /\ s[i] = Entry(n) /\ Inside(s, i, p)
      BY <1>3, <1>4
    <2>2. ASSUME NEW j \in (i + 1)..Len(s), s[j] = Section(p)
          PROVE  FALSE
      <3>1. j \in DOMAIN s /\ last \in 1..Len(s)
        BY <1>1, <1>2, <1>3, <1>4
      <3>2. j <= last
        BY <1>2, <2>2, <3>1
      <3>3. QED
        BY <1>1, <2>1, <3>1, <3>2
    <2>3. QED
      BY <2>1, <2>2
  <1>5. ASSUME NEW i \in DOMAIN s, s[i] = Entry(n), Inside(s, i, p),
               \A j \in (i + 1)..Len(s) : s[j] # Section(p)
        PROVE  n \in Shown(s, p)
    <2>1. PICK h \in 1..(i - 1) : s[h] = Section(p)
      BY <1>5 DEF Inside
    <2>2. h \in heads
      BY <1>1, <2>1
    <2>3. last \in heads /\ last \in 1..Len(s) /\ s[last] = Section(p)
      BY <1>1, <1>2, <2>2
    <2>4. last # i
      BY <1>5, <2>3, LinesDiffer
    <2>5. ~(last \in (i + 1)..Len(s))
      BY <1>5, <2>3
    <2>6. i > last
      BY <1>1, <2>3, <2>4, <2>5
    <2>7. QED
      BY <1>3, <1>5, <2>2, <2>6
  <1>6. QED
    BY <1>4, <1>5

LEMMA ShownAppend ==
    ASSUME NEW s \in Seq(Line), NEW x \in Line, NEW p, NEW n \in Name
    PROVE  n \in Shown(Append(s, x), p) <=>
             x # Section(p) /\ (n \in Shown(s, p) \/ (x = Entry(n) /\ Open(s, p)))
  <1> DEFINE t == Append(s, x)
             k == Len(s)
  <1>1. /\ k \in Nat /\ t[k + 1] = x /\ \A j \in 1..k : t[j] = s[j]
        /\ DOMAIN s = 1..k /\ DOMAIN t = 1..(k + 1) /\ Len(t) = k + 1
    BY Extend
  <1>2. \A i \in 1..(k + 1) : Inside(t, i, p) <=> Inside(s, i, p)
    BY InsideKept
  <1>3. Open(s, p) <=> Inside(s, k + 1, p)
    BY DEF Open
  <1>4. t \in Seq(Line)
    BY Extend
  <1> HIDE DEF t
  <1>5. n \in Shown(t, p) <=> \E i \in 1..(k + 1) : /\ t[i] = Entry(n) /\ Inside(t, i, p)
                                                    /\ \A j \in (i + 1)..(k + 1) : t[j] # Section(p)
    BY <1>1, <1>4, ShownIs, SMTT(30)
  <1>6. n \in Shown(s, p) <=> \E i \in 1..k : /\ s[i] = Entry(n) /\ Inside(s, i, p)
                                              /\ \A j \in (i + 1)..k : s[j] # Section(p)
    BY <1>1, ShownIs
  <1> HIDE DEF k
  <1>7. ASSUME n \in Shown(t, p)
        PROVE  x # Section(p) /\ (n \in Shown(s, p) \/ (x = Entry(n) /\ Open(s, p)))
    <2>1. PICK i \in 1..(k + 1) : /\ t[i] = Entry(n) /\ Inside(t, i, p)
                                  /\ \A j \in (i + 1)..(k + 1) : t[j] # Section(p)
      BY <1>5, <1>7
    <2>2. CASE i = k + 1
      BY <1>1, <1>2, <1>3, <2>1, <2>2, LinesDiffer
    <2>3. CASE i \in 1..k
      <3>1. x # Section(p)
        BY <1>1, <2>1, <2>3
      <3>2. s[i] = Entry(n) /\ Inside(s, i, p) /\ \A j \in (i + 1)..k : s[j] # Section(p)
        BY <1>1, <1>2, <2>1, <2>3
      <3>3. QED
        BY <1>6, <2>3, <3>1, <3>2
    <2>4. QED
      BY <1>1, <2>2, <2>3
  <1>8. ASSUME n \in Shown(s, p), x # Section(p)
        PROVE  n \in Shown(t, p)
    <2>1. PICK i \in 1..k : /\ s[i] = Entry(n) /\ Inside(s, i, p)
                            /\ \A j \in (i + 1)..k : s[j] # Section(p)
      BY <1>6, <1>8
    <2>2. i \in 1..(k + 1) /\ t[i] = Entry(n) /\ Inside(t, i, p)
      BY <1>1, <1>2, <2>1
    <2>3. \A j \in (i + 1)..(k + 1) : t[j] # Section(p)
      BY <1>1, <1>8, <2>1
    <2>4. QED
      BY <1>5, <2>2, <2>3
  <1>9. ASSUME x = Entry(n), Open(s, p)
        PROVE  n \in Shown(t, p)
    BY <1>1, <1>2, <1>3, <1>5, <1>9
  <1>10. QED
    BY <1>7, <1>8, <1>9 DEF t

LEMMA EmptyListing ==
    /\ Neat(<<>>) /\ AtStart(<<>>) /\ Folders(<<>>) = {}
    /\ \A p : ~Open(<<>>, p) /\ NamesIn(<<>>, p) = {} /\ Shown(<<>>, p) = {}
    /\ \A q, r : ~Behind(<<>>, q, r)
    /\ <<>> \in Seq(Line)
  <1>1. Neat(<<>>) /\ AtStart(<<>>) /\ Folders(<<>>) = {}
    BY DEF Neat, AtStart, Folders
  <1>2. \A p : ~Open(<<>>, p) /\ NamesIn(<<>>, p) = {} /\ Shown(<<>>, p) = {}
    BY DEF Open, Inside, NamesIn, Shown
  <1>3. \A q, r : ~Behind(<<>>, q, r)
    BY DEF Behind
  <1>4. QED
    BY <1>1, <1>2, <1>3

\* A section of p has ended; a section of q has begun before the last line; it
\* begins with the last line.
Closed(lines, p) == \E i \in DOMAIN lines : lines[i] = End /\ Inside(lines, i, p)
Headed(lines, q) == \E i \in 1..(Len(lines) - 1) : lines[i] = Section(q)
Heads(lines, q) == lines # <<>> /\ lines[Len(lines)] = Section(q)

LEMMA ClosedAppend ==
    ASSUME NEW s \in Seq(Line), NEW x \in Line, NEW p
    PROVE  Closed(Append(s, x), p) <=> Closed(s, p) \/ (x = End /\ Open(s, p))
  <1> DEFINE t == Append(s, x)
             k == Len(s)
  <1>1. /\ k \in Nat /\ t[k + 1] = x /\ \A j \in 1..k : t[j] = s[j]
        /\ DOMAIN s = 1..k /\ DOMAIN t = 1..(k + 1)
    BY Extend
  <1>2. \A i \in 1..(k + 1) : Inside(t, i, p) <=> Inside(s, i, p)
    BY InsideKept
  <1>3. Open(s, p) <=> Inside(s, k + 1, p)
    BY DEF Open
  <1> HIDE DEF t, k
  <1>4. Closed(t, p) <=> \E i \in 1..(k + 1) : t[i] = End /\ Inside(t, i, p)
    BY <1>1 DEF Closed
  <1>5. Closed(s, p) <=> \E i \in 1..k : s[i] = End /\ Inside(s, i, p)
    BY <1>1 DEF Closed
  <1>6. Closed(s, p) => Closed(t, p)
    BY <1>1, <1>2, <1>4, <1>5
  <1>7. x = End /\ Open(s, p) => Closed(t, p)
    BY <1>1, <1>2, <1>3, <1>4
  <1>8. ASSUME Closed(t, p)
        PROVE  Closed(s, p) \/ (x = End /\ Open(s, p))
    <2>1. PICK i \in 1..(k + 1) : t[i] = End /\ Inside(t, i, p)
      BY <1>4, <1>8
    <2>2. CASE i = k + 1
      BY <1>1, <1>2, <1>3, <2>1, <2>2
    <2>3. CASE i \in 1..k
      BY <1>1, <1>2, <1>5, <2>1, <2>3
    <2>4. QED
      BY <1>1, <2>2, <2>3
  <1>9. QED
    BY <1>6, <1>7, <1>8 DEF t

LEMMA HeadedAppend ==
    ASSUME NEW s \in Seq(Line), NEW x \in Line, NEW q \in Path
    PROVE  /\ Headed(Append(s, x), q) <=> q \in Folders(s)
           /\ Heads(Append(s, x), q) <=> x = Section(q)
  <1> DEFINE t == Append(s, x)
             k == Len(s)
  <1>1. /\ k \in Nat /\ t[k + 1] = x /\ \A j \in 1..k : t[j] = s[j] /\ Len(t) = k + 1
        /\ DOMAIN s = 1..k /\ t # <<>>
    BY Extend
  <1>2. Len(t) = k + 1 /\ t # <<>> /\ DOMAIN s = 1..k
    BY Extend
  <1> HIDE DEF t, k
  <1>3. Heads(t, q) <=> x = Section(q)
    BY <1>1, <1>2 DEF Heads
  <1>4. Headed(t, q) <=> \E i \in 1..k : s[i] = Section(q)
    <2>1. Len(t) - 1 = k
      BY <1>1, <1>2
    <2>2. QED
      BY <1>1, <2>1 DEF Headed
  <1>5. q \in Folders(s) <=> \E i \in 1..k : s[i] = Section(q)
    BY <1>2, FoldersAre
  <1>6. QED
    BY <1>3, <1>4, <1>5 DEF t

LEMMA HeadsOpen ==
    ASSUME NEW s \in Seq(Line), NEW q, Heads(s, q)
    PROVE  Open(s, q) /\ ~AtStart(s)
  <1>1. Len(s) \in Nat /\ Len(s) # 0 /\ s[Len(s)] = Section(q)
    BY EmptySeq DEF Heads
  <1>2. ~AtStart(s)
    BY <1>1, LinesDiffer DEF AtStart, Heads
  <1>3. Open(s, q)
    BY <1>1 DEF Open, Inside
  <1>4. QED
    BY <1>2, <1>3

\* What is in a section is in a folder; what is shown is there.
LEMMA Contained ==
    ASSUME NEW s \in Seq(Line), NEW p \in Path
    PROVE  /\ Open(s, p) => p \in Folders(s)
           /\ NamesIn(s, p) \subseteq Name /\ Shown(s, p) \subseteq NamesIn(s, p)
           /\ p \notin Folders(s) => NamesIn(s, p) = {}
           /\ \A q : Behind(s, q, p) => p \in Folders(s)
           /\ \A q \in Path : p \in Folders(s) /\ q \notin Folders(s) => Behind(s, q, p)
  <1>1. p \in Folders(s) <=> \E i \in DOMAIN s : s[i] = Section(p)
    BY FoldersAre
  <1>2. Len(s) \in Nat /\ DOMAIN s = 1..Len(s)
    BY LenProperties
  <1>3. ASSUME NEW i \in 1..(Len(s) + 1), Inside(s, i, p)
        PROVE  p \in Folders(s)
    <2>1. PICK j \in 1..(i - 1) : s[j] = Section(p)
      BY <1>3 DEF Inside
    <2>2. j \in DOMAIN s
      BY <1>2, <2>1
    <2>3. QED
      BY <1>1, <2>1, <2>2
  <1>4. Open(s, p) => p \in Folders(s)
    BY <1>2, <1>3 DEF Open
  <1>5. NamesIn(s, p) \subseteq Name /\ Shown(s, p) \subseteq NamesIn(s, p)
    <2>1. Shown(s, p) \subseteq Name /\ NamesIn(s, p) \subseteq Name
      BY DEF Shown, NamesIn
    <2>2. ASSUME NEW n \in Name, n \in Shown(s, p)
          PROVE  n \in NamesIn(s, p)
      BY <2>2, ShownIs DEF NamesIn
    <2>3. QED
      BY <2>1, <2>2
  <1>6. p \notin Folders(s) => NamesIn(s, p) = {}
    BY <1>2, <1>3 DEF NamesIn
  <1>7. \A q : Behind(s, q, p) => p \in Folders(s)
    BY <1>1 DEF Behind
  <1>8. ASSUME NEW q \in Path, p \in Folders(s), q \notin Folders(s)
        PROVE  Behind(s, q, p)
    <2>1. PICK i \in DOMAIN s : s[i] = Section(p)
      BY <1>1, <1>8
    <2>2. \A j \in DOMAIN s : s[j] # Section(q)
      BY <1>8, FoldersAre
    <2>3. \A j \in (i + 1)..Len(s) : j \in DOMAIN s
      BY <1>2, <2>1
    <2>4. QED
      BY <2>1, <2>2, <2>3 DEF Behind
  <1>9. QED
    BY <1>4, <1>5, <1>6, <1>7, <1>8

\* One section at most is open, and it is the last.
Ordered(lines) ==
    /\ \A p \in Path : Open(lines, p) => ~AtStart(lines)
    /\ \A p, q \in Path : Open(lines, p) /\ Open(lines, q) => p = q
    /\ \A p, r \in Path : Open(lines, p) /\ r # p => ~Behind(lines, p, r)
    /\ \A p \in Path : p \in Folders(lines) => Open(lines, p) \/ Closed(lines, p)

LEMMA NeatOrdered ==
    ASSUME NEW s \in Seq(Line), Neat(s)
    PROVE  Ordered(s)
  <1> DEFINE G == {r \in Seq(Line) : Neat(r) => Ordered(r)}
  <1>1. <<>> \in G
    BY EmptyListing DEF Ordered
  <1>2. ASSUME NEW r \in Seq(Line), NEW x \in Line, r \in G
        PROVE  Append(r, x) \in G
    <2> DEFINE t == Append(r, x)
    <2>1. t \in Seq(Line)
      BY Extend
    <2>2. ASSUME Neat(t)
          PROVE  Ordered(t)
      <3>1. Neat(r) /\ (x.is = "section" <=> AtStart(r)) /\ Ordered(r)
        BY <1>2, <2>2, NeatAppend
      <3>2. \A p \in Path : x = Section(p) => AtStart(r)
        BY <3>1, LinesDiffer
      <3>3. \A p \in Path : Open(t, p) <=> x = Section(p) \/ (Open(r, p) /\ x # End)
        BY OpenAppend
      <3>4. AtStart(t) <=> x = End
        BY StartAppend
      <3>5. \A p, q \in Path : p # q => (Behind(t, p, q) <=> x = Section(q) \/ (Behind(r, p, q) /\ x # Section(p)))
        BY BehindAppend
      <3>6. \A p \in Path : p \in Folders(t) <=> p \in Folders(r) \/ x = Section(p)
        BY FoldersAppend
      <3>7. \A p \in Path : Closed(t, p) <=> Closed(r, p) \/ (x = End /\ Open(r, p))
        BY ClosedAppend
      <3> HIDE DEF t
      <3>8. \A p \in Path : Open(t, p) => ~AtStart(t)
        BY <3>3, <3>4, LinesDiffer
      <3>9. \A p, q \in Path : Open(t, p) /\ Open(t, q) => p = q
        BY <3>1, <3>2, <3>3, LinesDiffer DEF Ordered
      <3>10. \A p, q \in Path : Open(t, p) /\ q # p => ~Behind(t, p, q)
        BY <3>1, <3>2, <3>3, <3>5, LinesDiffer DEF Ordered
      <3>11. \A p \in Path : p \in Folders(t) => Open(t, p) \/ Closed(t, p)
        BY <3>1, <3>3, <3>6, <3>7 DEF Ordered
      <3>12. QED
        BY <3>8, <3>9, <3>10, <3>11 DEF Ordered
    <2>3. QED
      BY <2>1, <2>2
  <1> HIDE DEF G
  <1>3. Seq(Line) \subseteq G
    BY <1>1, <1>2, SeqInduct
  <1>4. QED
    BY <1>3 DEF G

LEMMA WellFormedIs ==
    ASSUME NEW s \in Seq(Line)
    PROVE  WellFormed(s) <=> Neat(s) /\ AtStart(s)
  <1>1. s # <<>> => Len(s) \in Nat /\ Len(s) >= 1
    BY EmptySeq
  <1>2. QED
    BY <1>1 DEF WellFormed, Neat, AtStart

-----------------------------------------------------------------------------
(* What every edit makes of another line.                                  *)

LEMMA FlattenType ==
    ASSUME NEW T, NEW q \in Seq(Seq(T))
    PROVE  FlattenSeq(q) \in Seq(T)
  <1> DEFINE G == {r \in Seq(Seq(T)) : FlattenSeq(r) \in Seq(T)}
  <1>1. <<>> \in G
    <2>1. <<>> \in Seq(T) /\ <<>> \in Seq(Seq(T))
      BY EmptySeq, Zenon
    <2>2. QED
      BY <2>1, FlattenEmpty, Zenon
  <1>2. ASSUME NEW r \in Seq(Seq(T)), NEW x \in Seq(T), r \in G
        PROVE  Append(r, x) \in G
    <2>1. FlattenSeq(r) \o x \in Seq(T)
      BY <1>2, ConcatProperties
    <2>2. FlattenSeq(Append(r, x)) = FlattenSeq(r) \o x
      BY FlattenAppend
    <2>3. Append(r, x) \in Seq(Seq(T))
      BY AppendProperties
    <2>4. QED
      BY <2>1, <2>2, <2>3
  <1> HIDE DEF G
  <1>3. Seq(Seq(T)) \subseteq G
    BY <1>1, <1>2, SeqInduct
  <1>4. QED
    BY <1>3 DEF G

LEMMA FunctionSeq ==
    ASSUME NEW T, NEW k \in Nat, NEW f \in [1..k -> T]
    PROVE  f \in Seq(T) /\ Len(f) = k
  OBVIOUS

\* f and g are the pieces that an edit makes of some lines, and of another one.
LEMMA EditStep ==
    ASSUME NEW k \in Nat, NEW y \in Seq(Line),
           NEW f \in [1..k -> Seq(Line)], NEW g \in [1..(k + 1) -> Seq(Line)],
           \A i \in 1..k : g[i] = f[i], g[k + 1] = y
    PROVE  FlattenSeq(g) = FlattenSeq(f) \o y /\ FlattenSeq(f) \in Seq(Line)
  <1>1. f \in Seq(Seq(Line)) /\ Len(f) = k
    BY FunctionSeq, Zenon
  <1>2. g \in Seq(Seq(Line)) /\ Len(g) = k + 1
    <2>1. k + 1 \in Nat
      OBVIOUS
    <2>2. QED
      BY <2>1, FunctionSeq, Zenon
  <1>3. Len(g) = Len(f) + 1 /\ g[Len(f) + 1] = y /\ \A i \in 1..Len(f) : g[i] = f[i]
    BY <1>1, <1>2
  <1>4. QED
    BY <1>1, <1>2, <1>3, Piecewise, FlattenType, ZenonT(40)

LEMMA WithEntryStep ==
    ASSUME NEW s \in Seq(Line), NEW x \in Line, NEW p \in Path, NEW n \in Name
    PROVE  /\ WithEntry(s, p, n) \in Seq(Line)
           /\ WithEntry(Append(s, x), p, n) =
                IF x = Section(p) THEN Append(Append(WithEntry(s, p, n), x), Entry(n))
                                  ELSE Append(WithEntry(s, p, n), x)
  <1> DEFINE t == Append(s, x)
             k == Len(s)
             f == [i \in DOMAIN s |-> IF s[i] = Section(p) THEN <<s[i], Entry(n)>> ELSE <<s[i]>>]
             g == [i \in DOMAIN t |-> IF t[i] = Section(p) THEN <<t[i], Entry(n)>> ELSE <<t[i]>>]
             y == IF x = Section(p) THEN <<x, Entry(n)>> ELSE <<x>>
             e == WithEntry(s, p, n)
  <1>1. /\ k \in Nat /\ t[k + 1] = x
        /\ \A j \in 1..k : t[j] = s[j]
        /\ \A j \in 1..k : s[j] \in Line
        /\ DOMAIN s = 1..k /\ DOMAIN t = 1..(k + 1)
    BY Extend
  <1>2. Entry(n) \in Line
    BY LineTypes
  <1>3. \A z \in Line : <<z>> \in Seq(Line) /\ <<z, Entry(n)>> \in Seq(Line)
    BY <1>2
  <1>4. f = [i \in DOMAIN s |-> f[i]] /\ g = [i \in DOMAIN t |-> g[i]]
    OBVIOUS
  <1>5. e = FlattenSeq(f) /\ WithEntry(t, p, n) = FlattenSeq(g)
    BY DEF WithEntry
  <1> HIDE DEF t, k
  <1>6. ASSUME NEW i \in 1..k
        PROVE  f[i] \in Seq(Line) /\ g[i] = f[i]
    <2>1. s[i] \in Line /\ t[i] = s[i] /\ i \in DOMAIN s /\ i \in DOMAIN t
      BY <1>1
    <2>2. <<s[i]>> \in Seq(Line) /\ <<s[i], Entry(n)>> \in Seq(Line)
      BY <1>3, <2>1
    <2>3. QED
      BY <2>1, <2>2
  <1>7. g[k + 1] = y /\ y \in Seq(Line)
    BY <1>1, <1>3
  <1> HIDE DEF f, g, y, e
  <1>8. FlattenSeq(g) = FlattenSeq(f) \o y /\ FlattenSeq(f) \in Seq(Line)
    <2>1. f \in [1..k -> Seq(Line)]
      BY <1>1, <1>4, <1>6
    <2>2. g \in [1..(k + 1) -> Seq(Line)]
      <3>1. \A i \in 1..(k + 1) : i \in 1..k \/ i = k + 1
        BY <1>1
      <3>2. \A i \in 1..(k + 1) : g[i] \in Seq(Line)
        BY <1>6, <1>7, <3>1
      <3>3. QED
        BY <1>1, <1>4, <3>2
    <2>3. k \in Nat /\ y \in Seq(Line) /\ g[k + 1] = y /\ \A i \in 1..k : g[i] = f[i]
      BY <1>1, <1>6, <1>7
    <2>4. QED
      BY <2>1, <2>2, <2>3, EditStep, ZenonT(40)
  <1>9. e \in Seq(Line) /\ WithEntry(t, p, n) = e \o y
    BY <1>5, <1>8
  <1>10. e \o <<x>> = Append(e, x) /\ e \o <<x, Entry(n)>> = Append(Append(e, x), Entry(n))
    BY <1>2, <1>9, ConcatOne, ConcatTwo
  <1>11. QED
    BY <1>9, <1>10 DEF y, t, e

LEMMA WithoutEntryStep ==
    ASSUME NEW s \in Seq(Line), NEW x \in Line, NEW p \in Path, NEW n \in Name
    PROVE  /\ WithoutEntry(s, p, n) \in Seq(Line)
           /\ WithoutEntry(Append(s, x), p, n) =
                IF x = Entry(n) /\ Open(s, p) THEN WithoutEntry(s, p, n)
                                              ELSE Append(WithoutEntry(s, p, n), x)
  <1> DEFINE t == Append(s, x)
             k == Len(s)
             f == [i \in DOMAIN s |-> IF s[i] = Entry(n) /\ Inside(s, i, p) THEN <<>> ELSE <<s[i]>>]
             g == [i \in DOMAIN t |-> IF t[i] = Entry(n) /\ Inside(t, i, p) THEN <<>> ELSE <<t[i]>>]
             y == IF x = Entry(n) /\ Open(s, p) THEN <<>> ELSE <<x>>
             e == WithoutEntry(s, p, n)
  <1>1. /\ k \in Nat /\ t[k + 1] = x
        /\ \A j \in 1..k : t[j] = s[j]
        /\ \A j \in 1..k : s[j] \in Line
        /\ DOMAIN s = 1..k /\ DOMAIN t = 1..(k + 1)
    BY Extend
  <1>2. /\ \A i \in 1..(k + 1) : Inside(t, i, p) <=> Inside(s, i, p)
        /\ Open(s, p) <=> Inside(s, k + 1, p)
    BY InsideKept DEF Open
  <1>3. <<>> \in Seq(Line) /\ \A z \in Line : <<z>> \in Seq(Line)
    BY EmptyListing
  <1>4. f = [i \in DOMAIN s |-> f[i]] /\ g = [i \in DOMAIN t |-> g[i]]
    OBVIOUS
  <1>5. e = FlattenSeq(f) /\ WithoutEntry(t, p, n) = FlattenSeq(g)
    BY DEF WithoutEntry
  <1> HIDE DEF t, k
  <1>6. \A i \in 1..k : f[i] \in Seq(Line) /\ g[i] = f[i]
    BY <1>1, <1>2, <1>3
  <1>7. g[k + 1] = y /\ y \in Seq(Line)
    BY <1>1, <1>2, <1>3
  <1> HIDE DEF f, g, y, e
  <1>8. FlattenSeq(g) = FlattenSeq(f) \o y /\ FlattenSeq(f) \in Seq(Line)
    <2>1. f \in [1..k -> Seq(Line)]
      BY <1>1, <1>4, <1>6
    <2>2. g \in [1..(k + 1) -> Seq(Line)]
      <3>1. \A i \in 1..(k + 1) : i \in 1..k \/ i = k + 1
        BY <1>1
      <3>2. \A i \in 1..(k + 1) : g[i] \in Seq(Line)
        BY <1>6, <1>7, <3>1
      <3>3. QED
        BY <1>1, <1>4, <3>2
    <2>3. k \in Nat /\ y \in Seq(Line) /\ g[k + 1] = y /\ \A i \in 1..k : g[i] = f[i]
      BY <1>1, <1>6, <1>7
    <2>4. QED
      BY <2>1, <2>2, <2>3, EditStep, ZenonT(40)
  <1>9. e \in Seq(Line) /\ WithoutEntry(t, p, n) = e \o y
    BY <1>5, <1>8
  <1>10. e \o <<>> = e /\ e \o <<x>> = Append(e, x)
    BY <1>9, ConcatOne, ConcatEmptySeq
  <1>11. QED
    BY <1>9, <1>10 DEF y, t, e

LEMMA WithoutFolderStep ==
    ASSUME NEW s \in Seq(Line), NEW x \in Line, NEW p \in Path, NEW d \in Folder, Append(p, d) \in Path
    PROVE  /\ WithoutFolder(s, p, d) \in Seq(Line)
           /\ WithoutFolder(Append(s, x), p, d) =
                IF \/ x = Entry(d) /\ Open(s, p)
                   \/ x = Section(Append(p, d))
                   \/ Open(s, Append(p, d))
                THEN WithoutFolder(s, p, d) ELSE Append(WithoutFolder(s, p, d), x)
  <1> DEFINE t == Append(s, x)
             k == Len(s)
             pd == Append(p, d)
             f == [i \in DOMAIN s |->
                     IF (s[i] = Entry(d) /\ Inside(s, i, p)) \/ s[i] = Section(pd) \/ Inside(s, i, pd)
                     THEN <<>> ELSE <<s[i]>>]
             g == [i \in DOMAIN t |->
                     IF (t[i] = Entry(d) /\ Inside(t, i, p)) \/ t[i] = Section(pd) \/ Inside(t, i, pd)
                     THEN <<>> ELSE <<t[i]>>]
             y == IF (x = Entry(d) /\ Open(s, p)) \/ x = Section(pd) \/ Open(s, pd) THEN <<>> ELSE <<x>>
             e == WithoutFolder(s, p, d)
  <1>1. /\ k \in Nat /\ t[k + 1] = x
        /\ \A j \in 1..k : t[j] = s[j]
        /\ \A j \in 1..k : s[j] \in Line
        /\ DOMAIN s = 1..k /\ DOMAIN t = 1..(k + 1)
    BY Extend
  <1>2. \A r : /\ \A i \in 1..(k + 1) : Inside(t, i, r) <=> Inside(s, i, r)
               /\ Open(s, r) <=> Inside(s, k + 1, r)
    BY InsideKept DEF Open
  <1>3. <<>> \in Seq(Line) /\ \A z \in Line : <<z>> \in Seq(Line)
    BY EmptyListing
  <1>4. f = [i \in DOMAIN s |-> f[i]] /\ g = [i \in DOMAIN t |-> g[i]]
    OBVIOUS
  <1>5. e = FlattenSeq(f) /\ WithoutFolder(t, p, d) = FlattenSeq(g)
    BY DEF WithoutFolder
  <1> HIDE DEF t, k, pd
  <1>6. ASSUME NEW i \in 1..k
        PROVE  f[i] \in Seq(Line) /\ g[i] = f[i]
    <2>1. s[i] \in Line /\ t[i] = s[i] /\ i \in DOMAIN s /\ i \in DOMAIN t
      BY <1>1
    <2>2. <<s[i]>> \in Seq(Line) /\ i \in 1..(k + 1)
      BY <1>1, <1>3, <2>1
    <2>3. (Inside(t, i, p) <=> Inside(s, i, p)) /\ (Inside(t, i, pd) <=> Inside(s, i, pd))
      BY <1>2, <2>2
    <2>4. QED
      BY <1>3, <2>1, <2>2, <2>3
  <1>7. g[k + 1] = y /\ y \in Seq(Line)
    BY <1>1, <1>2, <1>3
  <1> HIDE DEF f, g, y, e
  <1>8. FlattenSeq(g) = FlattenSeq(f) \o y /\ FlattenSeq(f) \in Seq(Line)
    <2>1. f \in [1..k -> Seq(Line)]
      BY <1>1, <1>4, <1>6
    <2>2. g \in [1..(k + 1) -> Seq(Line)]
      <3>1. \A i \in 1..(k + 1) : i \in 1..k \/ i = k + 1
        BY <1>1
      <3>2. \A i \in 1..(k + 1) : g[i] \in Seq(Line)
        BY <1>6, <1>7, <3>1
      <3>3. QED
        BY <1>1, <1>4, <3>2
    <2>3. k \in Nat /\ y \in Seq(Line) /\ g[k + 1] = y /\ \A i \in 1..k : g[i] = f[i]
      BY <1>1, <1>6, <1>7
    <2>4. QED
      BY <2>1, <2>2, <2>3, EditStep, ZenonT(40)
  <1>9. e \in Seq(Line) /\ WithoutFolder(t, p, d) = e \o y
    BY <1>5, <1>8
  <1>10. e \o <<>> = e /\ e \o <<x>> = Append(e, x)
    BY <1>9, ConcatOne, ConcatEmptySeq
  <1>11. QED
    BY <1>9, <1>10 DEF y, t, e, pd

LEMMA WithFolderStep ==
    ASSUME NEW s \in Seq(Line), NEW x \in Line, NEW p \in Path, NEW d \in Folder, Append(p, d) \in Path
    PROVE  /\ WithFolder(s, p, d) \in Seq(Line)
           /\ WithFolder(Append(s, x), p, d) =
                IF x = Section(p) THEN Append(Append(WithFolder(s, p, d), x), Entry(d))
                ELSE IF x = End /\ Open(s, p)
                     THEN Append(Append(Append(WithFolder(s, p, d), End), Section(Append(p, d))), End)
                     ELSE Append(WithFolder(s, p, d), x)
  <1> DEFINE t == Append(s, x)
             k == Len(s)
             new == Section(Append(p, d))
             f == [i \in DOMAIN s |->
                     IF s[i] = Section(p) THEN <<s[i], Entry(d)>>
                     ELSE IF s[i] = End /\ Inside(s, i, p) THEN <<End, new, End>> ELSE <<s[i]>>]
             g == [i \in DOMAIN t |->
                     IF t[i] = Section(p) THEN <<t[i], Entry(d)>>
                     ELSE IF t[i] = End /\ Inside(t, i, p) THEN <<End, new, End>> ELSE <<t[i]>>]
             y == IF x = Section(p) THEN <<x, Entry(d)>>
                  ELSE IF x = End /\ Open(s, p) THEN <<End, new, End>> ELSE <<x>>
             e == WithFolder(s, p, d)
  <1>1. /\ k \in Nat /\ t[k + 1] = x
        /\ \A j \in 1..k : t[j] = s[j]
        /\ \A j \in 1..k : s[j] \in Line
        /\ DOMAIN s = 1..k /\ DOMAIN t = 1..(k + 1)
    BY Extend
  <1>2. /\ \A i \in 1..(k + 1) : Inside(t, i, p) <=> Inside(s, i, p)
        /\ Open(s, p) <=> Inside(s, k + 1, p)
    BY InsideKept DEF Open
  <1>3. Entry(d) \in Line /\ new \in Line /\ End \in Line
    BY LineTypes DEF Name
  <1>4. f = [i \in DOMAIN s |-> f[i]] /\ g = [i \in DOMAIN t |-> g[i]]
    OBVIOUS
  <1>5. e = FlattenSeq(f) /\ WithFolder(t, p, d) = FlattenSeq(g)
    BY DEF WithFolder
  <1> HIDE DEF t, k, new
  <1>6. <<End, new, End>> \in Seq(Line) /\ \A z \in Line : <<z>> \in Seq(Line) /\ <<z, Entry(d)>> \in Seq(Line)
    BY <1>3
  <1>7. \A i \in 1..k : f[i] \in Seq(Line) /\ g[i] = f[i]
    BY <1>1, <1>2, <1>6
  <1>8. g[k + 1] = y /\ y \in Seq(Line)
    BY <1>1, <1>2, <1>6
  <1> HIDE DEF f, g, y, e
  <1>9. FlattenSeq(g) = FlattenSeq(f) \o y /\ FlattenSeq(f) \in Seq(Line)
    <2>1. f \in [1..k -> Seq(Line)]
      BY <1>1, <1>4, <1>7
    <2>2. g \in [1..(k + 1) -> Seq(Line)]
      <3>1. \A i \in 1..(k + 1) : i \in 1..k \/ i = k + 1
        BY <1>1
      <3>2. \A i \in 1..(k + 1) : g[i] \in Seq(Line)
        BY <1>7, <1>8, <3>1
      <3>3. QED
        BY <1>1, <1>4, <3>2
    <2>3. k \in Nat /\ y \in Seq(Line) /\ g[k + 1] = y /\ \A i \in 1..k : g[i] = f[i]
      BY <1>1, <1>7, <1>8
    <2>4. QED
      BY <2>1, <2>2, <2>3, EditStep, ZenonT(40)
  <1>10. e \in Seq(Line) /\ WithFolder(t, p, d) = e \o y
    BY <1>5, <1>9
  <1>11. /\ e \o <<x>> = Append(e, x) /\ e \o <<x, Entry(d)>> = Append(Append(e, x), Entry(d))
         /\ e \o <<End, new, End>> = Append(Append(Append(e, End), new), End)
    BY <1>3, <1>10, ConcatOne, ConcatTwo, ConcatThree
  <1>12. QED
    BY <1>10, <1>11 DEF y, t, e, new

LEMMA MovedStep ==
    ASSUME NEW s \in Seq(Line), NEW x \in Line, NEW p \in Path, NEW q \in Path, NEW n \in Name
    PROVE  /\ Moved(s, p, q, n) \in Seq(Line)
           /\ Moved(Append(s, x), p, q, n) =
                IF x = Entry(n) /\ Open(s, p) THEN Moved(s, p, q, n)
                ELSE IF Heads(s, q) /\ q # p THEN Append(Append(Moved(s, p, q, n), Entry(n)), x)
                                             ELSE Append(Moved(s, p, q, n), x)
  <1> DEFINE t == Append(s, x)
             k == Len(s)
             f == [i \in DOMAIN s |->
                     IF s[i] = Entry(n) /\ Inside(s, i, p) THEN <<>>
                     ELSE IF i > 1 /\ s[i - 1] = Section(q) /\ q # p THEN <<Entry(n), s[i]>> ELSE <<s[i]>>]
             g == [i \in DOMAIN t |->
                     IF t[i] = Entry(n) /\ Inside(t, i, p) THEN <<>>
                     ELSE IF i > 1 /\ t[i - 1] = Section(q) /\ q # p THEN <<Entry(n), t[i]>> ELSE <<t[i]>>]
             y == IF x = Entry(n) /\ Open(s, p) THEN <<>>
                  ELSE IF Heads(s, q) /\ q # p THEN <<Entry(n), x>> ELSE <<x>>
             e == Moved(s, p, q, n)
  <1>1. /\ k \in Nat /\ t[k + 1] = x
        /\ \A j \in 1..k : t[j] = s[j]
        /\ \A j \in 1..k : s[j] \in Line
        /\ DOMAIN s = 1..k /\ DOMAIN t = 1..(k + 1)
    BY Extend
  <1>2. /\ \A i \in 1..(k + 1) : Inside(t, i, p) <=> Inside(s, i, p)
        /\ Open(s, p) <=> Inside(s, k + 1, p)
    BY InsideKept DEF Open
  <1>3. Entry(n) \in Line
    BY LineTypes
  <1>4. <<>> \in Seq(Line) /\ \A z \in Line : <<z>> \in Seq(Line) /\ <<Entry(n), z>> \in Seq(Line)
    BY <1>3, EmptyListing
  <1>5. f = [i \in DOMAIN s |-> f[i]] /\ g = [i \in DOMAIN t |-> g[i]]
    OBVIOUS
  <1>6. e = FlattenSeq(f) /\ Moved(t, p, q, n) = FlattenSeq(g)
    BY DEF Moved
  <1>7. Heads(s, q) <=> k + 1 > 1 /\ s[k] = Section(q)
    BY <1>1, EmptySeq DEF Heads
  <1> HIDE DEF t, k
  <1>8. \A i \in 1..k : f[i] \in Seq(Line) /\ g[i] = f[i]
    <2>1. \A i \in 1..k : i > 1 => t[i - 1] = s[i - 1]
      BY <1>1
    <2>2. QED
      BY <1>1, <1>2, <1>4, <2>1
  <1>9. g[k + 1] = y /\ y \in Seq(Line)
    <2>1. (k + 1 > 1 => t[(k + 1) - 1] = s[k]) /\ k + 1 \in DOMAIN t
      BY <1>1
    <2>2. Inside(t, k + 1, p) <=> Open(s, p)
      BY <1>1, <1>2
    <2>3. k + 1 > 1 /\ t[(k + 1) - 1] = Section(q) <=> Heads(s, q)
      BY <1>7, <2>1
    <2>4. <<x>> \in Seq(Line) /\ <<Entry(n), x>> \in Seq(Line)
      BY <1>4
    <2>5. g[k + 1] = y
      BY <1>1, <2>1, <2>2, <2>3
    <2>6. y \in Seq(Line)
      BY <1>4, <2>4
    <2>7. QED
      BY <2>5, <2>6
  <1> HIDE DEF f, g, y, e
  <1>10. FlattenSeq(g) = FlattenSeq(f) \o y /\ FlattenSeq(f) \in Seq(Line)
    <2>1. f \in [1..k -> Seq(Line)]
      BY <1>1, <1>5, <1>8
    <2>2. g \in [1..(k + 1) -> Seq(Line)]
      <3>1. \A i \in 1..(k + 1) : i \in 1..k \/ i = k + 1
        BY <1>1
      <3>2. \A i \in 1..(k + 1) : g[i] \in Seq(Line)
        BY <1>8, <1>9, <3>1
      <3>3. QED
        BY <1>1, <1>5, <3>2
    <2>3. k \in Nat /\ y \in Seq(Line) /\ g[k + 1] = y /\ \A i \in 1..k : g[i] = f[i]
      BY <1>1, <1>8, <1>9
    <2>4. QED
      BY <2>1, <2>2, <2>3, EditStep, ZenonT(40)
  <1>11. e \in Seq(Line) /\ Moved(t, p, q, n) = e \o y
    BY <1>6, <1>10
  <1>12. /\ e \o <<>> = e /\ e \o <<x>> = Append(e, x)
         /\ e \o <<Entry(n), x>> = Append(Append(e, Entry(n)), x)
    BY <1>3, <1>11, ConcatOne, ConcatTwo, ConcatEmptySeq
  <1>13. QED
    BY <1>11, <1>12 DEF y, t, e

\* Nothing is made of nothing.
LEMMA NoPieces ==
    ASSUME NEW f, f = [i \in DOMAIN <<>> |-> f[i]]
    PROVE  FlattenSeq(f) = <<>>
  <1>1. f = <<>>
    OBVIOUS
  <1>2. QED
    BY <1>1, FlattenEmpty

LEMMA EmptyEdits ==
    ASSUME NEW p, NEW q, NEW n
    PROVE  /\ WithEntry(<<>>, p, n) = <<>> /\ WithoutEntry(<<>>, p, n) = <<>>
           /\ WithFolder(<<>>, p, n) = <<>> /\ WithoutFolder(<<>>, p, n) = <<>>
           /\ Moved(<<>>, p, q, n) = <<>>
  <1>1. WithEntry(<<>>, p, n) = <<>>
    BY NoPieces DEF WithEntry
  <1>2. WithoutEntry(<<>>, p, n) = <<>>
    BY NoPieces DEF WithoutEntry
  <1>3. WithFolder(<<>>, p, n) = <<>>
    BY NoPieces DEF WithFolder
  <1>4. WithoutFolder(<<>>, p, n) = <<>>
    BY NoPieces DEF WithoutFolder
  <1>5. Moved(<<>>, p, q, n) = <<>>
    BY NoPieces DEF Moved
  <1>6. QED
    BY <1>1, <1>2, <1>3, <1>4, <1>5

-----------------------------------------------------------------------------
(* What every edit makes of a listing, by induction on its lines.          *)

\* t is s with line x behind it.
Adds(s, x, t) ==
    /\ t \in Seq(Line)
    /\ Neat(t) <=> Neat(s) /\ (x.is = "section" <=> AtStart(s))
    /\ AtStart(t) <=> x = End
    /\ \A p \in Path : Open(t, p) <=> x = Section(p) \/ (Open(s, p) /\ x # End)
    /\ \A p \in Path : p \in Folders(t) <=> p \in Folders(s) \/ x = Section(p)
    /\ \A p \in Path, n \in Name : n \in NamesIn(t, p) <=> n \in NamesIn(s, p) \/ (x = Entry(n) /\ Open(s, p))
    /\ \A p \in Path, n \in Name :
         n \in Shown(t, p) <=> x # Section(p) /\ (n \in Shown(s, p) \/ (x = Entry(n) /\ Open(s, p)))
    /\ \A q, r \in Path : q # r => (Behind(t, q, r) <=> x = Section(r) \/ (Behind(s, q, r) /\ x # Section(q)))
    /\ \A p \in Path : Closed(t, p) <=> Closed(s, p) \/ (x = End /\ Open(s, p))
    /\ \A q \in Path : Headed(t, q) <=> q \in Folders(s)
    /\ \A q \in Path : Heads(t, q) <=> x = Section(q)

LEMMA Another ==
    ASSUME NEW s \in Seq(Line), NEW x \in Line
    PROVE  Adds(s, x, Append(s, x))
  <1> DEFINE t == Append(s, x)
  <1>1. t \in Seq(Line)
    BY Extend
  <1>2. Neat(t) <=> Neat(s) /\ (x.is = "section" <=> AtStart(s))
    BY NeatAppend
  <1>3. AtStart(t) <=> x = End
    BY StartAppend
  <1>4. \A p \in Path : Open(t, p) <=> x = Section(p) \/ (Open(s, p) /\ x # End)
    BY OpenAppend
  <1>5. \A p \in Path : p \in Folders(t) <=> p \in Folders(s) \/ x = Section(p)
    BY FoldersAppend
  <1>6. \A p \in Path, n \in Name : n \in NamesIn(t, p) <=> n \in NamesIn(s, p) \/ (x = Entry(n) /\ Open(s, p))
    BY NamesAppend
  <1>7. \A p \in Path, n \in Name :
          n \in Shown(t, p) <=> x # Section(p) /\ (n \in Shown(s, p) \/ (x = Entry(n) /\ Open(s, p)))
    BY ShownAppend
  <1>8. \A q, r \in Path : q # r => (Behind(t, q, r) <=> x = Section(r) \/ (Behind(s, q, r) /\ x # Section(q)))
    BY BehindAppend
  <1>9. \A p \in Path : Closed(t, p) <=> Closed(s, p) \/ (x = End /\ Open(s, p))
    BY ClosedAppend
  <1>10. \A q \in Path : (Headed(t, q) <=> q \in Folders(s)) /\ (Heads(t, q) <=> x = Section(q))
    BY HeadedAppend
  <1> HIDE DEF t
  <1>11. Adds(s, x, t)
    BY <1>1, <1>2, <1>3, <1>4, <1>5, <1>6, <1>7, <1>8, <1>9, <1>10 DEF Adds
  <1>12. QED
    BY <1>11 DEF t

\* t has the sections of s in the same order.
SameSections(s, t) ==
    /\ Neat(t) /\ (AtStart(t) <=> AtStart(s))
    /\ \A q \in Path : Open(t, q) <=> Open(s, q)
    /\ \A q \in Path : q \in Folders(t) <=> q \in Folders(s)
    /\ \A q, r \in Path : q # r => (Behind(t, q, r) <=> Behind(s, q, r))

LEMMA SameEmpty == SameSections(<<>>, <<>>)
  BY EmptyListing DEF SameSections

\* They stay so when both get the same line, ...
LEMMA SameLine ==
    ASSUME NEW s, NEW x, NEW t, NEW e, NEW u,
           Adds(s, x, t), Adds(e, x, u), SameSections(s, e), Neat(t)
    PROVE  SameSections(t, u)
  <1>1. x.is = "section" <=> AtStart(s)
    BY DEF Adds
  <1>2. Neat(u) /\ (AtStart(u) <=> AtStart(t))
    BY <1>1 DEF Adds, SameSections
  <1>3. \A q \in Path : Open(u, q) <=> Open(t, q)
    BY DEF Adds, SameSections
  <1>4. \A q \in Path : q \in Folders(u) <=> q \in Folders(t)
    BY DEF Adds, SameSections
  <1>5. \A q, r \in Path : q # r => (Behind(u, q, r) <=> Behind(t, q, r))
    BY DEF Adds, SameSections
  <1>6. QED
    BY <1>2, <1>3, <1>4, <1>5 DEF SameSections

\* ... and when one gets an entry in an open section, or both are as they were.
LEMMA SameEntry ==
    ASSUME NEW s, NEW n, NEW e, NEW u, Adds(e, Entry(n), u), SameSections(s, e), ~AtStart(s)
    PROVE  SameSections(s, u)
  <1>1. Entry(n).is # "section" /\ Entry(n) # End /\ \A q : Entry(n) # Section(q)
    BY LinesDiffer
  <1>2. Neat(u) /\ ~AtStart(u)
    BY <1>1 DEF Adds, SameSections
  <1>3. \A q \in Path : (Open(u, q) <=> Open(s, q)) /\ (q \in Folders(u) <=> q \in Folders(s))
    BY <1>1 DEF Adds, SameSections
  <1>4. \A q, r \in Path : q # r => (Behind(u, q, r) <=> Behind(s, q, r))
    BY <1>1 DEF Adds, SameSections
  <1>5. QED
    BY <1>2, <1>3, <1>4 DEF SameSections

LEMMA SameButEntry ==
    ASSUME NEW s, NEW n, NEW t, NEW e, Adds(s, Entry(n), t), SameSections(s, e), Neat(t)
    PROVE  SameSections(t, e)
  <1>1. Entry(n).is # "section" /\ Entry(n) # End /\ \A q : Entry(n) # Section(q)
    BY LinesDiffer
  <1>2. Neat(e) /\ ~AtStart(s) /\ ~AtStart(t) /\ ~AtStart(e)
    BY <1>1 DEF Adds, SameSections
  <1>3. \A q \in Path : (Open(e, q) <=> Open(t, q)) /\ (q \in Folders(e) <=> q \in Folders(t))
    BY <1>1 DEF Adds, SameSections
  <1>4. \A q, r \in Path : q # r => (Behind(e, q, r) <=> Behind(t, q, r))
    BY <1>1 DEF Adds, SameSections
  <1>5. QED
    BY <1>2, <1>3, <1>4 DEF SameSections

WithEntryDoes(s, t, p, n) ==
    /\ SameSections(s, t)
    /\ \A q \in Path, m \in Name :
         m \in NamesIn(t, q) <=> m \in NamesIn(s, q) \/ (q = p /\ m = n /\ p \in Folders(s))
    /\ \A q \in Path, m \in Name :
         m \in Shown(t, q) <=> m \in Shown(s, q) \/ (q = p /\ m = n /\ p \in Folders(s))

LEMMA WithEntryAll ==
    ASSUME NEW s \in Seq(Line), Neat(s), NEW p \in Path, NEW n \in Name
    PROVE  WithEntry(s, p, n) \in Seq(Line) /\ WithEntryDoes(s, WithEntry(s, p, n), p, n)
  <1> DEFINE G == {r \in Seq(Line) :
                     /\ WithEntry(r, p, n) \in Seq(Line)
                     /\ Neat(r) => WithEntryDoes(r, WithEntry(r, p, n), p, n)}
  <1>1. <<>> \in G
    BY EmptyListing, EmptyEdits, SameEmpty DEF WithEntryDoes
  <1>2. ASSUME NEW r \in Seq(Line), NEW x \in Line, r \in G
        PROVE  Append(r, x) \in G
    <2> DEFINE t == Append(r, x)
               e == WithEntry(r, p, n)
               v == Append(e, x)
               u == WithEntry(t, p, n)
    <2>1. e \in Seq(Line) /\ (Neat(r) => WithEntryDoes(r, e, p, n)) /\ t \in Seq(Line) /\ Entry(n) \in Line
      BY <1>2, Extend, LineTypes
    <2>2. u = IF x = Section(p) THEN Append(v, Entry(n)) ELSE v
      BY WithEntryStep
    <2>3. Adds(r, x, t) /\ Adds(e, x, v)
      BY <2>1, Another
    <2>4. v \in Seq(Line)
      BY <2>3 DEF Adds
    <2>5. x = Section(p) => Adds(v, Entry(n), u)
      BY <2>1, <2>2, <2>4, Another
    <2>6. u \in Seq(Line)
      BY <2>2, <2>4, <2>5 DEF Adds
    <2>7. ASSUME Neat(t)
          PROVE  WithEntryDoes(t, u, p, n)
      <3> HIDE DEF t, e, u, v
      <3>1. WithEntryDoes(r, e, p, n)
        BY <2>1, <2>3, <2>7 DEF Adds
      <3>2. SameSections(t, v)
        BY <2>3, <2>7, <3>1, SameLine DEF WithEntryDoes
      <3>3. CASE x # Section(p)
        <4>1. u = v
          BY <2>2, <3>3
        <4>2. \A q \in Path, m \in Name :
                m \in NamesIn(v, q) <=> m \in NamesIn(t, q) \/ (q = p /\ m = n /\ p \in Folders(t))
          BY <2>3, <3>1, <3>3 DEF Adds, WithEntryDoes, SameSections
        <4>3. \A q \in Path, m \in Name :
                m \in Shown(v, q) <=> m \in Shown(t, q) \/ (q = p /\ m = n /\ p \in Folders(t))
          <5>1. p \in Folders(t) <=> p \in Folders(r)
            BY <2>3, <3>3 DEF Adds
          <5>2. \A q \in Path : Open(e, q) <=> Open(r, q)
            BY <3>1 DEF WithEntryDoes, SameSections
          <5> SUFFICES ASSUME NEW q \in Path, NEW m \in Name
                       PROVE  m \in Shown(v, q) <=> m \in Shown(t, q) \/ (q = p /\ m = n /\ p \in Folders(t))
            OBVIOUS
          <5>3. m \in Shown(e, q) <=> m \in Shown(r, q) \/ (q = p /\ m = n /\ p \in Folders(r))
            BY <3>1 DEF WithEntryDoes
          <5>4. m \in Shown(v, q) <=> x # Section(q) /\ (m \in Shown(e, q) \/ (x = Entry(m) /\ Open(e, q)))
            BY <2>3 DEF Adds
          <5>5. m \in Shown(t, q) <=> x # Section(q) /\ (m \in Shown(r, q) \/ (x = Entry(m) /\ Open(r, q)))
            BY <2>3 DEF Adds
          <5>6. QED
            BY <3>3, <5>1, <5>2, <5>3, <5>4, <5>5
        <4>4. QED
          BY <3>2, <4>1, <4>2, <4>3 DEF WithEntryDoes
      <3>4. CASE x = Section(p)
        <4>1. Adds(v, Entry(n), u) /\ ~AtStart(t) /\ Open(v, p) /\ p \in Folders(t)
          BY <2>3, <2>5, <3>4, LinesDiffer DEF Adds
        <4>2. SameSections(t, u)
          BY <3>2, <4>1, SameEntry
        <4>3. \A q \in Path : q # p => ~Open(v, q)
          <5>1. AtStart(r) /\ Ordered(r)
            BY <1>2, <2>3, <2>7, <3>4, NeatOrdered, LinesDiffer DEF Adds
          <5>2. \A q \in Path : ~Open(e, q)
            BY <3>1, <5>1 DEF Ordered, WithEntryDoes, SameSections
          <5>3. QED
            BY <2>3, <3>4, <5>2, LinesDiffer DEF Adds
        <4> SUFFICES ASSUME NEW q \in Path, NEW m \in Name
                     PROVE  /\ m \in NamesIn(u, q) <=> m \in NamesIn(t, q) \/ (q = p /\ m = n)
                            /\ m \in Shown(u, q) <=> m \in Shown(t, q) \/ (q = p /\ m = n)
          BY <4>1, <4>2 DEF WithEntryDoes
        <4>4. /\ Entry(n) = Entry(m) <=> n = m
              /\ \A z : x # Entry(z)
              /\ \A z : Entry(n) # Section(z)
              /\ x = Section(q) <=> q = p
          BY <3>4, LinesDiffer
        <4>5. /\ m \in NamesIn(u, q) <=> m \in NamesIn(v, q) \/ (m = n /\ Open(v, q))
              /\ m \in Shown(u, q) <=> m \in Shown(v, q) \/ (m = n /\ Open(v, q))
          BY <4>1, <4>4 DEF Adds
        <4>6. /\ m \in NamesIn(v, q) <=> m \in NamesIn(e, q)
              /\ m \in NamesIn(t, q) <=> m \in NamesIn(r, q)
              /\ m \in Shown(v, q) <=> q # p /\ m \in Shown(e, q)
              /\ m \in Shown(t, q) <=> q # p /\ m \in Shown(r, q)
          BY <2>3, <4>4 DEF Adds
        <4>7. /\ m \in NamesIn(e, q) <=> m \in NamesIn(r, q) \/ (q = p /\ m = n /\ p \in Folders(r))
              /\ q # p => (m \in Shown(e, q) <=> m \in Shown(r, q))
          BY <3>1 DEF WithEntryDoes
        <4>8. QED
          BY <4>1, <4>3, <4>5, <4>6, <4>7
      <3>5. QED
        BY <3>3, <3>4
    <2>8. QED
      BY <2>1, <2>6, <2>7
  <1> HIDE DEF G
  <1>3. Seq(Line) \subseteq G
    BY <1>1, <1>2, SeqInduct
  <1>4. QED
    BY <1>3 DEF G

WithoutEntryDoes(s, t, p, n) ==
    /\ SameSections(s, t)
    /\ \A q \in Path, m \in Name : m \in NamesIn(t, q) <=> m \in NamesIn(s, q) /\ ~(q = p /\ m = n)
    /\ \A q \in Path, m \in Name : m \in Shown(t, q) <=> m \in Shown(s, q) /\ ~(q = p /\ m = n)

LEMMA WithoutEntryAll ==
    ASSUME NEW s \in Seq(Line), Neat(s), NEW p \in Path, NEW n \in Name
    PROVE  WithoutEntry(s, p, n) \in Seq(Line) /\ WithoutEntryDoes(s, WithoutEntry(s, p, n), p, n)
  <1> DEFINE G == {r \in Seq(Line) :
                     /\ WithoutEntry(r, p, n) \in Seq(Line)
                     /\ Neat(r) => WithoutEntryDoes(r, WithoutEntry(r, p, n), p, n)}
  <1>1. <<>> \in G
    BY EmptyListing, EmptyEdits, SameEmpty DEF WithoutEntryDoes
  <1>2. ASSUME NEW r \in Seq(Line), NEW x \in Line, r \in G
        PROVE  Append(r, x) \in G
    <2> DEFINE t == Append(r, x)
               e == WithoutEntry(r, p, n)
               v == Append(e, x)
               u == WithoutEntry(t, p, n)
    <2>1. e \in Seq(Line) /\ (Neat(r) => WithoutEntryDoes(r, e, p, n)) /\ t \in Seq(Line)
      BY <1>2, Extend
    <2>2. u = IF x = Entry(n) /\ Open(r, p) THEN e ELSE v
      BY WithoutEntryStep
    <2>3. Adds(r, x, t) /\ Adds(e, x, v)
      BY <2>1, Another
    <2>4. u \in Seq(Line)
      BY <2>1, <2>2, <2>3 DEF Adds
    <2>5. ASSUME Neat(t)
          PROVE  WithoutEntryDoes(t, u, p, n)
      <3> HIDE DEF t, e, u, v
      <3>1. WithoutEntryDoes(r, e, p, n)
        BY <2>1, <2>3, <2>5 DEF Adds
      <3>2. \A q \in Path : Open(r, q) /\ Open(r, p) => q = p
        BY <1>2, <2>3, <2>5, NeatOrdered DEF Adds, Ordered
      <3>3. \A q \in Path, m \in Name :
              /\ m \in NamesIn(e, q) <=> m \in NamesIn(r, q) /\ ~(q = p /\ m = n)
              /\ m \in Shown(e, q) <=> m \in Shown(r, q) /\ ~(q = p /\ m = n)
              /\ Open(e, q) <=> Open(r, q)
        BY <3>1 DEF WithoutEntryDoes, SameSections
      <3>4. \A q \in Path, m \in Name :
              /\ m \in NamesIn(t, q) <=> m \in NamesIn(r, q) \/ (x = Entry(m) /\ Open(r, q))
              /\ m \in Shown(t, q) <=> x # Section(q) /\ (m \in Shown(r, q) \/ (x = Entry(m) /\ Open(r, q)))
        BY <2>3 DEF Adds
      <3>5. CASE x = Entry(n) /\ Open(r, p)
        <4>1. u = e
          BY <2>2, <3>5
        <4>2. SameSections(t, e)
          BY <2>3, <2>5, <3>1, <3>5, SameButEntry DEF WithoutEntryDoes
        <4>3. ASSUME NEW q \in Path, NEW m \in Name
              PROVE  /\ m \in NamesIn(e, q) <=> m \in NamesIn(t, q) /\ ~(q = p /\ m = n)
                     /\ m \in Shown(e, q) <=> m \in Shown(t, q) /\ ~(q = p /\ m = n)
          <5>1. (x = Entry(m) <=> m = n) /\ x # Section(q)
            BY <3>5, LinesDiffer
          <5>2. QED
            BY <3>2, <3>3, <3>4, <3>5, <5>1
        <4>4. QED
          BY <4>1, <4>2, <4>3 DEF WithoutEntryDoes
      <3>6. CASE ~(x = Entry(n) /\ Open(r, p))
        <4>1. u = v
          BY <2>2, <3>6
        <4>2. SameSections(t, v)
          BY <2>3, <2>5, <3>1, SameLine DEF WithoutEntryDoes
        <4>3. ASSUME NEW q \in Path, NEW m \in Name
              PROVE  /\ m \in NamesIn(v, q) <=> m \in NamesIn(t, q) /\ ~(q = p /\ m = n)
                     /\ m \in Shown(v, q) <=> m \in Shown(t, q) /\ ~(q = p /\ m = n)
          <5>1. /\ m \in NamesIn(v, q) <=> m \in NamesIn(e, q) \/ (x = Entry(m) /\ Open(e, q))
                /\ m \in Shown(v, q) <=> x # Section(q) /\ (m \in Shown(e, q) \/ (x = Entry(m) /\ Open(e, q)))
            BY <2>3 DEF Adds
          <5>2. q = p /\ m = n => ~(x = Entry(m) /\ Open(r, q))
            BY <3>6
          <5>3. QED
            BY <3>3, <3>4, <5>1, <5>2
        <4>4. QED
          BY <4>1, <4>2, <4>3 DEF WithoutEntryDoes
      <3>7. QED
        BY <3>5, <3>6
    <2>6. QED
      BY <2>1, <2>4, <2>5
  <1> HIDE DEF G
  <1>3. Seq(Line) \subseteq G
    BY <1>1, <1>2, SeqInduct
  <1>4. QED
    BY <1>3 DEF G

\* A section of a folder has begun before the last line, or with it.
LEMMA HeadedFolders ==
    ASSUME NEW l \in Seq(Line), NEW q \in Path, ~Heads(l, q)
    PROVE  Headed(l, q) <=> q \in Folders(l)
  <1>1. Len(l) \in Nat /\ DOMAIN l = 1..Len(l) /\ (l = <<>> <=> Len(l) = 0)
    BY LenProperties, EmptySeq
  <1>2. q \in Folders(l) <=> \E i \in 1..Len(l) : l[i] = Section(q)
    BY <1>1, FoldersAre
  <1>3. Headed(l, q) => q \in Folders(l)
    BY <1>1, <1>2 DEF Headed
  <1>4. ASSUME q \in Folders(l), ~Heads(l, q)
        PROVE  Headed(l, q)
    <2>1. PICK i \in 1..Len(l) : l[i] = Section(q)
      BY <1>2, <1>4
    <2>2. ASSUME i = Len(l) PROVE FALSE
      <3>1. Len(l) # 0
        BY <1>1, <2>1, <2>2
      <3>2. l # <<>> /\ l[Len(l)] = Section(q)
        BY <1>1, <2>1, <2>2, <3>1
      <3>3. QED
        BY <1>4, <3>2 DEF Heads
    <2>3. i \in 1..(Len(l) - 1)
      <3>1. Len(l) \in Nat /\ i \in 1..Len(l) /\ i # Len(l)
        BY <1>1, <2>1, <2>2
      <3>2. QED
        BY ONLY <3>1
    <2>4. QED
      BY <2>1, <2>3 DEF Headed
  <1>5. QED
    BY <1>3, <1>4

\* A file is written behind the head of the sections of q when the next line
\* comes, so that there is a moment when the last one has not got it.
MovedDoes(s, t, p, q, n) ==
    /\ SameSections(s, t)
    /\ \A r \in Path, m \in Name :
         m \in NamesIn(t, r) <=> \/ m \in NamesIn(s, r) /\ ~(r = p /\ m = n)
                                 \/ r = q /\ m = n /\ q # p /\ Headed(s, q)
    /\ \A r \in Path, m \in Name :
         m \in Shown(t, r) <=> \/ m \in Shown(s, r) /\ ~(r = p /\ m = n)
                               \/ r = q /\ m = n /\ q # p /\ q \in Folders(s) /\ ~Heads(s, q)

LEMMA MovedAll ==
    ASSUME NEW s \in Seq(Line), Neat(s), NEW p \in Path, NEW q \in Path, NEW n \in Name
    PROVE  Moved(s, p, q, n) \in Seq(Line) /\ MovedDoes(s, Moved(s, p, q, n), p, q, n)
  <1> DEFINE G == {l \in Seq(Line) :
                     /\ Moved(l, p, q, n) \in Seq(Line)
                     /\ Neat(l) => MovedDoes(l, Moved(l, p, q, n), p, q, n)}
  <1>1. <<>> \in G
    <2>1. ~Headed(<<>>, q) /\ q \notin Folders(<<>>)
      BY EmptyListing DEF Headed
    <2>2. MovedDoes(<<>>, <<>>, p, q, n)
      BY <2>1, EmptyListing, SameEmpty DEF MovedDoes
    <2>3. QED
      BY <2>2, EmptyListing, EmptyEdits
  <1>2. ASSUME NEW l \in Seq(Line), NEW x \in Line, l \in G
        PROVE  Append(l, x) \in G
    <2> DEFINE t == Append(l, x)
               e == Moved(l, p, q, n)
               w == Append(e, Entry(n))
               u == Moved(t, p, q, n)
    <2>1. e \in Seq(Line) /\ (Neat(l) => MovedDoes(l, e, p, q, n)) /\ t \in Seq(Line) /\ Entry(n) \in Line
      BY <1>2, Extend, LineTypes
    <2>2. u = IF x = Entry(n) /\ Open(l, p) THEN e
              ELSE IF Heads(l, q) /\ q # p THEN Append(w, x) ELSE Append(e, x)
      <3>1. Moved(Append(l, x), p, q, n) =
              IF x = Entry(n) /\ Open(l, p) THEN Moved(l, p, q, n)
              ELSE IF Heads(l, q) /\ q # p THEN Append(Append(Moved(l, p, q, n), Entry(n)), x)
                                           ELSE Append(Moved(l, p, q, n), x)
        BY MovedStep, SMTT(60)
      <3>2. QED
        BY <3>1
    <2>3. Adds(l, x, t) /\ Adds(e, Entry(n), w)
      BY <2>1, Another
    <2>4. w \in Seq(Line)
      BY <2>3 DEF Adds
    <2>5. Adds(w, x, Append(w, x)) /\ Adds(e, x, Append(e, x))
      BY <2>1, <2>4, Another
    <2>6. u \in Seq(Line)
      BY <2>1, <2>2, <2>5 DEF Adds
    <2>7. ASSUME Neat(t)
          PROVE  MovedDoes(t, u, p, q, n)
      <3> HIDE DEF t, e, u, w
      <3>1. MovedDoes(l, e, p, q, n) /\ Neat(l) /\ (x.is = "section" <=> AtStart(l))
        BY <2>1, <2>3, <2>7 DEF Adds
      <3>2. Ordered(l)
        BY <1>2, <3>1, NeatOrdered
      <3>3. Heads(l, q) => Open(l, q) /\ ~AtStart(l) /\ q \in Folders(l)
        BY <1>2, HeadsOpen, Contained
      <3>4. Headed(t, q) <=> q \in Folders(l)
        BY <2>3 DEF Adds
      <3>5. Headed(l, q) /\ ~Heads(l, q) <=> q \in Folders(l) /\ ~Heads(l, q)
        BY <1>2, HeadedFolders
      <3>6. \A r \in Path, m \in Name :
              /\ m \in NamesIn(e, r) <=> \/ m \in NamesIn(l, r) /\ ~(r = p /\ m = n)
                                         \/ r = q /\ m = n /\ q # p /\ Headed(l, q)
              /\ m \in Shown(e, r) <=> \/ m \in Shown(l, r) /\ ~(r = p /\ m = n)
                                       \/ r = q /\ m = n /\ q # p /\ q \in Folders(l) /\ ~Heads(l, q)
              /\ Open(e, r) <=> Open(l, r)
        BY <3>1 DEF MovedDoes, SameSections
      <3>7. \A r \in Path, m \in Name :
              /\ m \in NamesIn(t, r) <=> m \in NamesIn(l, r) \/ (x = Entry(m) /\ Open(l, r))
              /\ m \in Shown(t, r) <=> x # Section(r) /\ (m \in Shown(l, r) \/ (x = Entry(m) /\ Open(l, r)))
        BY <2>3 DEF Adds
      <3>8. q \in Folders(t) <=> q \in Folders(l) \/ x = Section(q)
        BY <2>3 DEF Adds
      <3>9. Heads(t, q) <=> x = Section(q)
        BY <2>3 DEF Adds
      <3>10. \A r, z \in Path : Open(l, r) /\ Open(l, z) => r = z
        BY <3>2 DEF Ordered
      <3>11. CASE x = Entry(n) /\ Open(l, p)
        <4>1. u = e
          BY <2>2, <3>11
        <4>2. SameSections(t, e)
          BY <2>3, <2>7, <3>1, <3>11, SameButEntry DEF MovedDoes
        <4>3. q # p => ~Heads(l, q)
          BY <3>3, <3>10, <3>11
        <4>4. ASSUME NEW r \in Path, NEW m \in Name
              PROVE  /\ m \in NamesIn(e, r) <=> \/ m \in NamesIn(t, r) /\ ~(r = p /\ m = n)
                                                \/ r = q /\ m = n /\ q # p /\ Headed(t, q)
                     /\ m \in Shown(e, r) <=> \/ m \in Shown(t, r) /\ ~(r = p /\ m = n)
                                              \/ r = q /\ m = n /\ q # p /\ q \in Folders(t) /\ ~Heads(t, q)
          <5>1. (x = Entry(m) <=> m = n) /\ x # Section(r) /\ x # Section(q)
            BY <3>11, LinesDiffer
          <5>2. Open(l, r) <=> r = p
            BY <3>10, <3>11
          <5>3. q # p => (Headed(l, q) <=> q \in Folders(l))
            BY <3>5, <4>3
          <5>4. m \in NamesIn(e, r) <=> \/ m \in NamesIn(t, r) /\ ~(r = p /\ m = n)
                                        \/ r = q /\ m = n /\ q # p /\ Headed(t, q)
            BY <3>4, <3>6, <3>7, <5>1, <5>2, <5>3
          <5>5. m \in Shown(e, r) <=> \/ m \in Shown(t, r) /\ ~(r = p /\ m = n)
                                      \/ r = q /\ m = n /\ q # p /\ q \in Folders(t) /\ ~Heads(t, q)
            BY <3>6, <3>7, <3>8, <3>9, <4>3, <5>1, <5>2
          <5>6. QED
            BY <5>4, <5>5
        <4>5. QED
          BY <4>1, <4>2, <4>4 DEF MovedDoes
      <3>12. CASE ~(x = Entry(n) /\ Open(l, p)) /\ Heads(l, q) /\ q # p
        <4>1. u = Append(w, x)
          BY <2>2, <3>12
        <4>2. SameSections(l, w)
          BY <2>3, <3>1, <3>3, <3>12, SameEntry DEF MovedDoes
        <4>3. SameSections(t, u)
          BY <2>3, <2>5, <2>7, <4>1, <4>2, SameLine
        <4>4. ASSUME NEW r \in Path, NEW m \in Name
              PROVE  /\ m \in NamesIn(u, r) <=> \/ m \in NamesIn(t, r) /\ ~(r = p /\ m = n)
                                                \/ r = q /\ m = n /\ q # p /\ Headed(t, q)
                     /\ m \in Shown(u, r) <=> \/ m \in Shown(t, r) /\ ~(r = p /\ m = n)
                                              \/ r = q /\ m = n /\ q # p /\ q \in Folders(t) /\ ~Heads(t, q)
          <5>1. \A z \in Path : x # Section(z)
            BY <3>1, <3>3, <3>12, LinesDiffer
          <5>2. Open(l, r) <=> r = q
            BY <3>3, <3>10, <3>12
          <5>3. (Entry(n) = Entry(m) <=> m = n) /\ Entry(n) # Section(r)
            BY LinesDiffer
          <5>4. /\ m \in NamesIn(w, r) <=> m \in NamesIn(e, r) \/ (m = n /\ r = q)
                /\ m \in Shown(w, r) <=> m \in Shown(e, r) \/ (m = n /\ r = q)
            BY <2>3, <3>6, <5>2, <5>3 DEF Adds
          <5>5. Open(w, r) <=> r = q
            BY <4>2, <5>2 DEF SameSections
          <5>6. /\ m \in NamesIn(u, r) <=> m \in NamesIn(w, r) \/ (x = Entry(m) /\ r = q)
                /\ m \in Shown(u, r) <=> m \in Shown(w, r) \/ (x = Entry(m) /\ r = q)
            BY <2>5, <4>1, <5>1, <5>5 DEF Adds
          <5>7. q \in Folders(l)
            BY <3>3, <3>12
          <5>8. m \in NamesIn(u, r) <=> \/ m \in NamesIn(t, r) /\ ~(r = p /\ m = n)
                                        \/ r = q /\ m = n /\ q # p /\ Headed(t, q)
            BY <3>4, <3>6, <3>7, <3>12, <5>2, <5>4, <5>6, <5>7
          <5>9. m \in Shown(u, r) <=> \/ m \in Shown(t, r) /\ ~(r = p /\ m = n)
                                      \/ r = q /\ m = n /\ q # p /\ q \in Folders(t) /\ ~Heads(t, q)
            BY <3>6, <3>7, <3>8, <3>9, <3>12, <5>1, <5>2, <5>4, <5>6, <5>7
          <5>10. QED
            BY <5>8, <5>9
        <4>5. QED
          BY <4>3, <4>4 DEF MovedDoes
      <3>13. CASE ~(x = Entry(n) /\ Open(l, p)) /\ ~(Heads(l, q) /\ q # p)
        <4>1. u = Append(e, x)
          BY <2>2, <3>13
        <4>2. SameSections(t, u)
          BY <2>3, <2>5, <2>7, <3>1, <4>1, SameLine DEF MovedDoes
        <4>3. ASSUME NEW r \in Path, NEW m \in Name
              PROVE  /\ m \in NamesIn(u, r) <=> \/ m \in NamesIn(t, r) /\ ~(r = p /\ m = n)
                                                \/ r = q /\ m = n /\ q # p /\ Headed(t, q)
                     /\ m \in Shown(u, r) <=> \/ m \in Shown(t, r) /\ ~(r = p /\ m = n)
                                              \/ r = q /\ m = n /\ q # p /\ q \in Folders(t) /\ ~Heads(t, q)
          <5>1. /\ m \in NamesIn(u, r) <=> m \in NamesIn(e, r) \/ (x = Entry(m) /\ Open(l, r))
                /\ m \in Shown(u, r) <=> x # Section(r) /\ (m \in Shown(e, r) \/ (x = Entry(m) /\ Open(l, r)))
            BY <2>5, <3>6, <4>1 DEF Adds
          <5>2. q # p => (Headed(l, q) <=> q \in Folders(l))
            BY <3>5, <3>13
          <5>3. r = p /\ m = n => ~(x = Entry(m) /\ Open(l, r))
            BY <3>13
          <5>4. m \in NamesIn(u, r) <=> \/ m \in NamesIn(t, r) /\ ~(r = p /\ m = n)
                                        \/ r = q /\ m = n /\ q # p /\ Headed(t, q)
            BY <3>4, <3>6, <3>7, <5>1, <5>2, <5>3
          <5>5. m \in Shown(u, r) <=> \/ m \in Shown(t, r) /\ ~(r = p /\ m = n)
                                      \/ r = q /\ m = n /\ q # p /\ q \in Folders(t) /\ ~Heads(t, q)
            BY <3>6, <3>7, <3>8, <3>9, <3>13, <5>1, <5>3
          <5>6. QED
            BY <5>4, <5>5
        <4>4. QED
          BY <4>2, <4>3 DEF MovedDoes
      <3>14. QED
        BY <3>11, <3>12, <3>13
    <2>8. QED
      BY <2>1, <2>6, <2>7
  <1> HIDE DEF G
  <1>3. Seq(Line) \subseteq G
    BY <1>1, <1>2, SeqInduct
  <1>4. QED
    BY <1>3 DEF G

\* A folder in another one has a longer path.
LEMMA PathFacts ==
    ASSUME NEW p \in Path
    PROVE  /\ p \in Seq(Folder) /\ Len(p) \in 0..MaxDepth
           /\ \A d \in Folder : Append(p, d) # p /\ Append(p, d) # <<>> /\ Len(Append(p, d)) = Len(p) + 1
           /\ \A d \in Folder : Len(p) < MaxDepth => Append(p, d) \in Path
  <1>1. PICK k \in 0..MaxDepth : p \in [1..k -> Folder]
    BY DEF Path, BoundedSeq, SeqOf
  <1>2. k \in Nat
    BY DriveAssumption
  <1>3. p \in Seq(Folder) /\ Len(p) = k
    BY <1>1, <1>2, FunctionSeq, Zenon
  <1>4. ASSUME NEW d \in Folder
        PROVE  Append(p, d) # p /\ Append(p, d) # <<>> /\ Len(Append(p, d)) = Len(p) + 1
    <2>1. Append(p, d) # <<>> /\ Len(Append(p, d)) = Len(p) + 1
      BY <1>3, AppendProperties
    <2>2. Append(p, d) # p
      BY <1>2, <1>3, <2>1
    <2>3. QED
      BY <2>1, <2>2
  <1>5. ASSUME NEW d \in Folder, Len(p) < MaxDepth
        PROVE  Append(p, d) \in Path
    <2> DEFINE r == Append(p, d)
    <2>1. k + 1 \in 0..MaxDepth /\ r \in Seq(Folder) /\ Len(r) = k + 1
      BY <1>2, <1>3, <1>5, DriveAssumption, AppendProperties
    <2> HIDE DEF r
    <2>2. r \in [1..(k + 1) -> Folder]
      BY <2>1, LenProperties
    <2>3. r \in Path
      BY <2>1, <2>2 DEF Path, BoundedSeq, SeqOf
    <2>4. QED
      BY <2>3 DEF r
  <1>6. QED
    BY <1>1, <1>3, <1>4, <1>5

WithoutFolderDoes(s, t, p, d, pd) ==
    /\ Neat(t) /\ (AtStart(t) <=> AtStart(s) \/ Open(s, pd))
    /\ \A q \in Path : Open(t, q) <=> Open(s, q) /\ q # pd
    /\ \A q \in Path : q \in Folders(t) <=> q \in Folders(s) /\ q # pd
    /\ \A q, r \in Path : q # r /\ pd \notin {q, r} => (Behind(t, q, r) <=> Behind(s, q, r))
    /\ \A q \in Path, m \in Name :
         q # pd => (m \in NamesIn(t, q) <=> m \in NamesIn(s, q) /\ ~(q = p /\ m = d))
    /\ \A q \in Path, m \in Name :
         q # pd => (m \in Shown(t, q) <=> m \in Shown(s, q) /\ ~(q = p /\ m = d))

\* The line is left out, ...
LEMMA WithoutFolderSkips ==
    ASSUME NEW s, NEW e, NEW x \in Line, NEW t, NEW p \in Path, NEW d \in Name, NEW pd \in Path, p # pd,
           WithoutFolderDoes(s, e, p, d, pd), Adds(s, x, t), Neat(t), Ordered(s),
           (x = Entry(d) /\ Open(s, p)) \/ x = Section(pd) \/ Open(s, pd)
    PROVE  WithoutFolderDoes(t, e, p, d, pd)
  <1>1. x.is = "section" <=> AtStart(s)
    BY DEF Adds
  <1>2. \A q \in Path : x = Section(q) => q = pd
    BY <1>1, LinesDiffer DEF Ordered
  <1>3. \A q, r \in Path : Open(s, q) /\ Open(s, r) => q = r
    BY DEF Ordered
  <1>4. x = Section(pd) => \A q \in Path : ~Open(s, q)
    BY <1>1, LinesDiffer DEF Ordered
  <1>5. Entry(d) # End /\ Section(pd) # End /\ \A q : Entry(d) # Section(q)
    BY LinesDiffer
  <1>6. Neat(e) /\ (AtStart(e) <=> AtStart(t) \/ Open(t, pd))
    <2>1. AtStart(e) <=> AtStart(s) \/ Open(s, pd)
      BY DEF WithoutFolderDoes
    <2>2. (AtStart(t) <=> x = End) /\ (Open(t, pd) <=> x = Section(pd) \/ (Open(s, pd) /\ x # End))
      BY DEF Adds
    <2>3. CASE x = Section(pd)
      BY <1>1, <2>1, <2>2, <2>3, LinesDiffer DEF WithoutFolderDoes
    <2>4. CASE Open(s, pd)
      BY <2>1, <2>2, <2>4 DEF WithoutFolderDoes
    <2>5. CASE x = Entry(d) /\ Open(s, p) /\ ~Open(s, pd)
      <3>1. ~AtStart(s)
        BY <1>1, <2>5, LinesDiffer
      <3>2. QED
        BY <1>5, <2>1, <2>2, <2>5, <3>1 DEF WithoutFolderDoes
    <2>6. QED
      BY <2>3, <2>4, <2>5
  <1>7. ASSUME NEW q \in Path
        PROVE  Open(e, q) <=> Open(t, q) /\ q # pd
    <2>1. Open(e, q) <=> Open(s, q) /\ q # pd
      BY DEF WithoutFolderDoes
    <2>2. Open(t, q) <=> x = Section(q) \/ (Open(s, q) /\ x # End)
      BY DEF Adds
    <2>3. QED
      BY <1>2, <1>3, <1>4, <1>5, <2>1, <2>2
  <1>8. ASSUME NEW q \in Path
        PROVE  q \in Folders(e) <=> q \in Folders(t) /\ q # pd
    BY <1>2 DEF WithoutFolderDoes, Adds
  <1>9. ASSUME NEW q \in Path, NEW r \in Path, q # r, pd \notin {q, r}
        PROVE  Behind(e, q, r) <=> Behind(t, q, r)
    BY <1>2, <1>9 DEF WithoutFolderDoes, Adds
  <1>10. ASSUME NEW q \in Path, NEW m \in Name, q # pd
         PROVE  /\ m \in NamesIn(e, q) <=> m \in NamesIn(t, q) /\ ~(q = p /\ m = d)
                /\ m \in Shown(e, q) <=> m \in Shown(t, q) /\ ~(q = p /\ m = d)
    <2>1. /\ m \in NamesIn(e, q) <=> m \in NamesIn(s, q) /\ ~(q = p /\ m = d)
          /\ m \in Shown(e, q) <=> m \in Shown(s, q) /\ ~(q = p /\ m = d)
      BY <1>10 DEF WithoutFolderDoes
    <2>2. /\ m \in NamesIn(t, q) <=> m \in NamesIn(s, q) \/ (x = Entry(m) /\ Open(s, q))
          /\ m \in Shown(t, q) <=> x # Section(q) /\ (m \in Shown(s, q) \/ (x = Entry(m) /\ Open(s, q)))
      BY DEF Adds
    <2>3. x # Section(q)
      BY <1>2, <1>10
    <2>4. x = Entry(m) /\ Open(s, q) => q = p /\ m = d
      BY <1>3, <1>4, <1>10, LinesDiffer
    <2>5. QED
      BY <2>1, <2>2, <2>3, <2>4
  <1>11. QED
    BY <1>6, <1>7, <1>8, <1>9, <1>10 DEF WithoutFolderDoes

\* ... or is kept.
LEMMA WithoutFolderKeeps ==
    ASSUME NEW s, NEW e, NEW x \in Line, NEW t, NEW u, NEW p \in Path, NEW d \in Name, NEW pd \in Path,
           WithoutFolderDoes(s, e, p, d, pd), Adds(s, x, t), Adds(e, x, u), Neat(t),
           ~(x = Entry(d) /\ Open(s, p)), x # Section(pd), ~Open(s, pd)
    PROVE  WithoutFolderDoes(t, u, p, d, pd)
  <1>1. x.is = "section" <=> AtStart(s)
    BY DEF Adds
  <1>2. Neat(u) /\ (AtStart(u) <=> AtStart(t) \/ Open(t, pd))
    BY <1>1 DEF WithoutFolderDoes, Adds
  <1>3. ASSUME NEW q \in Path
        PROVE  (Open(u, q) <=> Open(t, q) /\ q # pd) /\ (q \in Folders(u) <=> q \in Folders(t) /\ q # pd)
    BY DEF WithoutFolderDoes, Adds
  <1>4. ASSUME NEW q \in Path, NEW r \in Path, q # r, pd \notin {q, r}
        PROVE  Behind(u, q, r) <=> Behind(t, q, r)
    BY <1>4 DEF WithoutFolderDoes, Adds
  <1>5. ASSUME NEW q \in Path, NEW m \in Name, q # pd
        PROVE  /\ m \in NamesIn(u, q) <=> m \in NamesIn(t, q) /\ ~(q = p /\ m = d)
               /\ m \in Shown(u, q) <=> m \in Shown(t, q) /\ ~(q = p /\ m = d)
    <2>1. /\ m \in NamesIn(e, q) <=> m \in NamesIn(s, q) /\ ~(q = p /\ m = d)
          /\ m \in Shown(e, q) <=> m \in Shown(s, q) /\ ~(q = p /\ m = d)
          /\ Open(e, q) <=> Open(s, q)
      BY <1>5 DEF WithoutFolderDoes
    <2>2. /\ m \in NamesIn(t, q) <=> m \in NamesIn(s, q) \/ (x = Entry(m) /\ Open(s, q))
          /\ m \in Shown(t, q) <=> x # Section(q) /\ (m \in Shown(s, q) \/ (x = Entry(m) /\ Open(s, q)))
      BY DEF Adds
    <2>3. /\ m \in NamesIn(u, q) <=> m \in NamesIn(e, q) \/ (x = Entry(m) /\ Open(e, q))
          /\ m \in Shown(u, q) <=> x # Section(q) /\ (m \in Shown(e, q) \/ (x = Entry(m) /\ Open(e, q)))
      BY DEF Adds
    <2>4. q = p /\ m = d => ~(x = Entry(m) /\ Open(s, q))
      OBVIOUS
    <2>5. QED
      BY <2>1, <2>2, <2>3, <2>4
  <1>6. QED
    BY <1>2, <1>3, <1>4, <1>5 DEF WithoutFolderDoes

LEMMA WithoutFolderAll ==
    ASSUME NEW s \in Seq(Line), Neat(s), NEW p \in Path, NEW d \in Folder, Append(p, d) \in Path
    PROVE  /\ WithoutFolder(s, p, d) \in Seq(Line)
           /\ WithoutFolderDoes(s, WithoutFolder(s, p, d), p, d, Append(p, d))
  <1> DEFINE pd == Append(p, d)
             G == {r \in Seq(Line) :
                     /\ WithoutFolder(r, p, d) \in Seq(Line)
                     /\ Neat(r) => WithoutFolderDoes(r, WithoutFolder(r, p, d), p, d, pd)}
  <1>1. <<>> \in G
    <2>1. WithoutFolderDoes(<<>>, <<>>, p, d, pd)
      BY EmptyListing DEF WithoutFolderDoes
    <2>2. QED
      BY <2>1, EmptyListing, EmptyEdits
  <1>2. ASSUME NEW r \in Seq(Line), NEW x \in Line, r \in G
        PROVE  Append(r, x) \in G
    <2> DEFINE t == Append(r, x)
               e == WithoutFolder(r, p, d)
               v == Append(e, x)
               u == WithoutFolder(t, p, d)
    <2>1. e \in Seq(Line) /\ (Neat(r) => WithoutFolderDoes(r, e, p, d, pd)) /\ t \in Seq(Line)
      BY <1>2, Extend
    <2>2. u = IF (x = Entry(d) /\ Open(r, p)) \/ x = Section(pd) \/ Open(r, pd) THEN e ELSE v
      BY WithoutFolderStep
    <2>3. Adds(r, x, t) /\ Adds(e, x, v)
      BY <2>1, Another
    <2>4. u \in Seq(Line)
      BY <2>1, <2>2, <2>3 DEF Adds
    <2>5. p # pd /\ d \in Name
      BY PathFacts DEF Name
    <2>6. ASSUME Neat(t)
          PROVE  WithoutFolderDoes(t, u, p, d, pd)
      <3> HIDE DEF t, e, u, v, pd
      <3>1. WithoutFolderDoes(r, e, p, d, pd) /\ Ordered(r)
        BY <1>2, <2>1, <2>3, <2>6, NeatOrdered DEF Adds
      <3>2. pd \in Path
        BY DEF pd
      <3>3. CASE (x = Entry(d) /\ Open(r, p)) \/ x = Section(pd) \/ Open(r, pd)
        <4>1. u = e
          BY <2>2, <3>3
        <4>2. WithoutFolderDoes(t, e, p, d, pd)
          BY <2>3, <2>5, <2>6, <3>1, <3>2, <3>3, WithoutFolderSkips
        <4>3. QED
          BY <4>1, <4>2
      <3>4. CASE ~((x = Entry(d) /\ Open(r, p)) \/ x = Section(pd) \/ Open(r, pd))
        <4>1. u = v
          BY <2>2, <3>4
        <4>2. WithoutFolderDoes(t, v, p, d, pd)
          BY <2>3, <2>5, <2>6, <3>1, <3>2, <3>4, WithoutFolderKeeps
        <4>3. QED
          BY <4>1, <4>2
      <3>5. QED
        BY <3>3, <3>4
    <2>7. QED
      BY <2>1, <2>4, <2>6
  <1> HIDE DEF G
  <1>3. Seq(Line) \subseteq G
    BY <1>1, <1>2, SeqInduct
  <1>4. QED
    BY <1>3 DEF G

\* Adding a folder: to the listing s of lines so far corresponds t, where the
\* sections of p that have ended are followed by new ones of pd.
WithFolderDoes(s, t, p, d, pd) ==
    /\ Neat(t) /\ (AtStart(t) <=> AtStart(s))
    /\ \A q \in Path : Open(t, q) <=> Open(s, q)
    /\ \A q \in Path : q \in Folders(t) <=> q \in Folders(s) \/ (q = pd /\ Closed(s, p))
    /\ \A q \in Path, m \in Name :
         m \in NamesIn(t, q) <=> m \in NamesIn(s, q) \/ (q = p /\ m = d /\ p \in Folders(s))
    /\ \A q \in Path, m \in Name :
         q # pd => (m \in Shown(t, q) <=> m \in Shown(s, q) \/ (q = p /\ m = d /\ p \in Folders(s)))
    /\ \A m \in Name :
         Behind(s, p, pd) \/ p \notin Folders(s) => (m \in Shown(t, pd) <=> m \in Shown(s, pd))
    /\ \A q, r \in Path : q # r /\ pd \notin {q, r} => (Behind(t, q, r) <=> Behind(s, q, r))
    /\ \A q \in Path : q # pd /\ Behind(s, q, pd) => Behind(t, q, pd)
    /\ p \in Folders(s) /\ ~Open(s, p) => Behind(t, p, pd)
    /\ \A q \in Path : q \notin {p, pd} /\ Behind(s, q, p) /\ ~Open(s, p) => Behind(t, q, pd)
    /\ \A r \in Path : r \notin {p, pd} /\ Behind(s, p, r) /\ Behind(s, pd, r) => Behind(t, pd, r)

\* A line that is copied, ...
LEMMA WithFolderKeeps ==
    ASSUME NEW s, NEW e, NEW x \in Line, NEW t, NEW u, NEW p \in Path, NEW d \in Name, NEW pd \in Path, p # pd,
           WithFolderDoes(s, e, p, d, pd), Adds(s, x, t), Adds(e, x, u), Neat(t),
           x # Section(p), ~(x = End /\ Open(s, p))
    PROVE  WithFolderDoes(t, u, p, d, pd)
  <1>1. x.is = "section" <=> AtStart(s)
    BY DEF Adds
  <1>2. Neat(u) /\ (AtStart(u) <=> AtStart(t))
    BY <1>1 DEF WithFolderDoes, Adds
  <1>3. /\ p \in Folders(t) <=> p \in Folders(s)
        /\ Open(t, p) <=> Open(s, p)
        /\ Closed(t, p) <=> Closed(s, p)
    BY DEF Adds
  <1>4. ASSUME NEW q \in Path
        PROVE  /\ Open(u, q) <=> Open(t, q)
               /\ q \in Folders(u) <=> q \in Folders(t) \/ (q = pd /\ Closed(t, p))
    <2>1. /\ Open(e, q) <=> Open(s, q)
          /\ q \in Folders(e) <=> q \in Folders(s) \/ (q = pd /\ Closed(s, p))
      BY DEF WithFolderDoes
    <2>2. /\ Open(t, q) <=> x = Section(q) \/ (Open(s, q) /\ x # End)
          /\ Open(u, q) <=> x = Section(q) \/ (Open(e, q) /\ x # End)
          /\ q \in Folders(t) <=> q \in Folders(s) \/ x = Section(q)
          /\ q \in Folders(u) <=> q \in Folders(e) \/ x = Section(q)
      BY DEF Adds
    <2>3. QED
      BY <1>3, <2>1, <2>2
  <1>5. ASSUME NEW q \in Path, NEW m \in Name
        PROVE  /\ m \in NamesIn(u, q) <=> m \in NamesIn(t, q) \/ (q = p /\ m = d /\ p \in Folders(t))
               /\ q # pd => (m \in Shown(u, q) <=> m \in Shown(t, q) \/ (q = p /\ m = d /\ p \in Folders(t)))
    <2>1. /\ m \in NamesIn(e, q) <=> m \in NamesIn(s, q) \/ (q = p /\ m = d /\ p \in Folders(s))
          /\ q # pd => (m \in Shown(e, q) <=> m \in Shown(s, q) \/ (q = p /\ m = d /\ p \in Folders(s)))
          /\ Open(e, q) <=> Open(s, q)
      BY DEF WithFolderDoes
    <2>2. /\ m \in NamesIn(t, q) <=> m \in NamesIn(s, q) \/ (x = Entry(m) /\ Open(s, q))
          /\ m \in Shown(t, q) <=> x # Section(q) /\ (m \in Shown(s, q) \/ (x = Entry(m) /\ Open(s, q)))
      BY DEF Adds
    <2>3. /\ m \in NamesIn(u, q) <=> m \in NamesIn(e, q) \/ (x = Entry(m) /\ Open(e, q))
          /\ m \in Shown(u, q) <=> x # Section(q) /\ (m \in Shown(e, q) \/ (x = Entry(m) /\ Open(e, q)))
      BY DEF Adds
    <2>4. QED
      BY <1>3, <2>1, <2>2, <2>3
  <1>6. ASSUME NEW m \in Name, Behind(t, p, pd) \/ p \notin Folders(t)
        PROVE  m \in Shown(u, pd) <=> m \in Shown(t, pd)
    <2>1. Behind(t, p, pd) <=> x = Section(pd) \/ Behind(s, p, pd)
      BY DEF Adds
    <2>2. /\ m \in Shown(t, pd) <=> x # Section(pd) /\ (m \in Shown(s, pd) \/ (x = Entry(m) /\ Open(s, pd)))
          /\ m \in Shown(u, pd) <=> x # Section(pd) /\ (m \in Shown(e, pd) \/ (x = Entry(m) /\ Open(e, pd)))
      BY DEF Adds
    <2>3. x # Section(pd) => (m \in Shown(e, pd) <=> m \in Shown(s, pd))
      BY <1>3, <1>6, <2>1 DEF WithFolderDoes
    <2>4. Open(e, pd) <=> Open(s, pd)
      BY DEF WithFolderDoes
    <2>5. QED
      BY <2>2, <2>3, <2>4
  <1>7. ASSUME NEW q \in Path, NEW r \in Path, q # r
        PROVE  /\ Behind(t, q, r) <=> x = Section(r) \/ (Behind(s, q, r) /\ x # Section(q))
               /\ Behind(u, q, r) <=> x = Section(r) \/ (Behind(e, q, r) /\ x # Section(q))
    BY <1>7 DEF Adds
  <1>8. \A q, r \in Path : q # r /\ pd \notin {q, r} => (Behind(u, q, r) <=> Behind(t, q, r))
    BY <1>7 DEF WithFolderDoes
  <1>9. \A q \in Path : q # pd /\ Behind(t, q, pd) => Behind(u, q, pd)
    BY <1>7 DEF WithFolderDoes
  <1>10. p \in Folders(t) /\ ~Open(t, p) => Behind(u, p, pd)
    BY <1>3, <1>7 DEF WithFolderDoes
  <1>11. ASSUME NEW q \in Path, q \notin {p, pd}, Behind(t, q, p), ~Open(t, p)
         PROVE  Behind(u, q, pd)
    <2>1. Behind(s, q, p) /\ x # Section(q) /\ ~Open(s, p)
      BY <1>3, <1>7, <1>11
    <2>2. Behind(e, q, pd)
      BY <1>11, <2>1 DEF WithFolderDoes
    <2>3. QED
      BY <1>7, <1>11, <2>1, <2>2
  <1>12. ASSUME NEW r \in Path, r \notin {p, pd}, Behind(t, p, r), Behind(t, pd, r)
         PROVE  Behind(u, pd, r)
    <2>1. x = Section(r) \/ (Behind(s, p, r) /\ Behind(s, pd, r) /\ x # Section(pd))
      BY <1>7, <1>12
    <2>2. x = Section(r) \/ (Behind(e, pd, r) /\ x # Section(pd))
      BY <1>12, <2>1 DEF WithFolderDoes
    <2>3. QED
      BY <1>7, <1>12, <2>2
  <1>13. QED
    BY <1>2, <1>4, <1>5, <1>6, <1>8, <1>9, <1>10, <1>11, <1>12 DEF WithFolderDoes

\* ... the head of a section of p, that gets the entry d, ...
LEMMA WithFolderHead ==
    ASSUME NEW s, NEW e, NEW x, NEW t, NEW v, NEW u, NEW p \in Path, NEW d \in Name, NEW pd \in Path, p # pd,
           x = Section(p), WithFolderDoes(s, e, p, d, pd), Ordered(s),
           Adds(s, x, t), Adds(e, x, v), Adds(v, Entry(d), u), Neat(t)
    PROVE  WithFolderDoes(t, u, p, d, pd)
  <1>1. /\ x.is = "section" /\ AtStart(s) /\ Neat(s)
        /\ \A q : x = Section(q) <=> q = p
        /\ x # End /\ Entry(d) # End /\ Entry(d).is # "section"
        /\ \A q : Entry(d) # Section(q)
        /\ \A m : x # Entry(m)
        /\ \A m : Entry(d) = Entry(m) <=> d = m
    BY LinesDiffer DEF Adds
  <1>2. \A q \in Path : ~Open(s, q) /\ ~Open(e, q)
    BY <1>1 DEF Ordered, WithFolderDoes
  <1>3. p \in Folders(t) /\ Open(t, p) /\ (Closed(t, p) <=> Closed(s, p))
    BY <1>1 DEF Adds
  <1>4. Neat(u) /\ (AtStart(u) <=> AtStart(t))
    BY <1>1 DEF WithFolderDoes, Adds
  <1>5. ASSUME NEW q \in Path
        PROVE  /\ Open(v, q) <=> q = p
               /\ Open(u, q) <=> Open(t, q)
               /\ q \in Folders(u) <=> q \in Folders(t) \/ (q = pd /\ Closed(t, p))
    <2>1. q \in Folders(e) <=> q \in Folders(s) \/ (q = pd /\ Closed(s, p))
      BY DEF WithFolderDoes
    <2>2. /\ Open(t, q) <=> q = p
          /\ Open(v, q) <=> q = p
          /\ q \in Folders(t) <=> q \in Folders(s) \/ q = p
          /\ q \in Folders(v) <=> q \in Folders(e) \/ q = p
      BY <1>1, <1>2 DEF Adds
    <2>3. /\ Open(u, q) <=> Open(v, q)
          /\ q \in Folders(u) <=> q \in Folders(v)
      BY <1>1 DEF Adds
    <2>4. QED
      BY <1>3, <2>1, <2>2, <2>3
  <1>6. ASSUME NEW q \in Path, NEW m \in Name
        PROVE  /\ m \in NamesIn(u, q) <=> m \in NamesIn(t, q) \/ (q = p /\ m = d)
               /\ q # pd => (m \in Shown(u, q) <=> m \in Shown(t, q) \/ (q = p /\ m = d))
    <2>1. /\ m \in NamesIn(e, q) <=> m \in NamesIn(s, q) \/ (q = p /\ m = d /\ p \in Folders(s))
          /\ q \notin {p, pd} => (m \in Shown(e, q) <=> m \in Shown(s, q))
      BY DEF WithFolderDoes
    <2>2. /\ m \in NamesIn(t, q) <=> m \in NamesIn(s, q)
          /\ m \in NamesIn(v, q) <=> m \in NamesIn(e, q)
          /\ m \in Shown(t, q) <=> q # p /\ m \in Shown(s, q)
          /\ m \in Shown(v, q) <=> q # p /\ m \in Shown(e, q)
      BY <1>1 DEF Adds
    <2>3. /\ m \in NamesIn(u, q) <=> m \in NamesIn(v, q) \/ (m = d /\ Open(v, q))
          /\ m \in Shown(u, q) <=> m \in Shown(v, q) \/ (m = d /\ Open(v, q))
      BY <1>1 DEF Adds
    <2>4. QED
      BY <1>5, <2>1, <2>2, <2>3
  <1>7. ASSUME NEW q \in Path, NEW r \in Path, q # r
        PROVE  /\ Behind(t, q, r) <=> r = p \/ (Behind(s, q, r) /\ q # p)
               /\ Behind(u, q, r) <=> r = p \/ (Behind(e, q, r) /\ q # p)
    <2>1. /\ Behind(t, q, r) <=> r = p \/ (Behind(s, q, r) /\ q # p)
          /\ Behind(v, q, r) <=> r = p \/ (Behind(e, q, r) /\ q # p)
      BY <1>1, <1>7 DEF Adds
    <2>2. Behind(u, q, r) <=> Behind(v, q, r)
      BY <1>1, <1>7 DEF Adds
    <2>3. QED
      BY <2>1, <2>2
  <1>8. ~Behind(t, p, pd)
    BY <1>7
  <1>9. \A q, r \in Path : q # r /\ pd \notin {q, r} => (Behind(u, q, r) <=> Behind(t, q, r))
    BY <1>7 DEF WithFolderDoes
  <1>10. \A q \in Path : q # pd /\ Behind(t, q, pd) => Behind(u, q, pd)
    BY <1>7 DEF WithFolderDoes
  <1>11. \A r \in Path : r \notin {p, pd} => ~Behind(t, p, r)
    BY <1>7
  <1>12. QED
    BY <1>3, <1>4, <1>5, <1>6, <1>8, <1>9, <1>10, <1>11 DEF WithFolderDoes

\* ... and the end of one, behind which the new section comes.
LEMMA WithFolderEnd ==
    ASSUME NEW s, NEW e, NEW t, NEW a, NEW b, NEW u, NEW p \in Path, NEW d \in Name, NEW pd \in Path, p # pd,
           Open(s, p), WithFolderDoes(s, e, p, d, pd), Ordered(s), p \in Folders(s),
           Adds(s, End, t), Adds(e, End, a), Adds(a, Section(pd), b), Adds(b, End, u), Neat(t)
    PROVE  WithFolderDoes(t, u, p, d, pd)
  <1>1. /\ End.is # "section" /\ \A q : End # Section(q) /\ \A m : End # Entry(m)
        /\ Section(pd).is = "section" /\ Section(pd) # End /\ \A m : Section(pd) # Entry(m)
        /\ \A q : Section(pd) = Section(q) <=> q = pd
    BY LinesDiffer
  <1>2. p \in Folders(t) /\ Closed(t, p) /\ ~AtStart(s)
    BY DEF Adds, Ordered
  <1>3. Neat(u) /\ AtStart(u) /\ AtStart(t)
    <2>1. Neat(e) /\ ~AtStart(e)
      BY <1>2 DEF WithFolderDoes
    <2>2. Neat(a) /\ AtStart(a)
      BY <1>1, <2>1 DEF Adds
    <2>3. Neat(b) /\ ~AtStart(b)
      BY <1>1, <2>2 DEF Adds
    <2>4. QED
      BY <1>1, <2>3 DEF Adds
  <1>4. ASSUME NEW q \in Path
        PROVE  /\ ~Open(t, q) /\ ~Open(a, q) /\ ~Open(u, q)
               /\ q \in Folders(u) <=> q \in Folders(t) \/ q = pd
    <2>1. ~Open(t, q) /\ ~Open(a, q) /\ ~Open(u, q)
      BY <1>1 DEF Adds
    <2>2. q \in Folders(e) <=> q \in Folders(s) \/ (q = pd /\ Closed(s, p))
      BY DEF WithFolderDoes
    <2>3. /\ q \in Folders(t) <=> q \in Folders(s)
          /\ q \in Folders(a) <=> q \in Folders(e)
          /\ q \in Folders(b) <=> q \in Folders(a) \/ q = pd
          /\ q \in Folders(u) <=> q \in Folders(b)
      BY <1>1 DEF Adds
    <2>4. QED
      BY <2>1, <2>2, <2>3
  <1>5. ASSUME NEW q \in Path, NEW m \in Name
        PROVE  /\ m \in NamesIn(u, q) <=> m \in NamesIn(t, q) \/ (q = p /\ m = d)
               /\ q # pd => (m \in Shown(u, q) <=> m \in Shown(t, q) \/ (q = p /\ m = d))
    <2>1. /\ m \in NamesIn(e, q) <=> m \in NamesIn(s, q) \/ (q = p /\ m = d)
          /\ q # pd => (m \in Shown(e, q) <=> m \in Shown(s, q) \/ (q = p /\ m = d))
      BY DEF WithFolderDoes
    <2>2. /\ m \in NamesIn(t, q) <=> m \in NamesIn(s, q)
          /\ m \in NamesIn(a, q) <=> m \in NamesIn(e, q)
          /\ m \in NamesIn(b, q) <=> m \in NamesIn(a, q)
          /\ m \in NamesIn(u, q) <=> m \in NamesIn(b, q)
      BY <1>1 DEF Adds
    <2>3. /\ m \in Shown(t, q) <=> m \in Shown(s, q)
          /\ m \in Shown(a, q) <=> m \in Shown(e, q)
          /\ m \in Shown(b, q) <=> q # pd /\ m \in Shown(a, q)
          /\ m \in Shown(u, q) <=> m \in Shown(b, q)
      BY <1>1, <1>4 DEF Adds
    <2>4. QED
      BY <2>1, <2>2, <2>3
  <1>6. ASSUME NEW q \in Path, NEW r \in Path, q # r
        PROVE  /\ Behind(t, q, r) <=> Behind(s, q, r)
               /\ Behind(u, q, r) <=> r = pd \/ (Behind(e, q, r) /\ q # pd)
    <2>1. /\ Behind(t, q, r) <=> Behind(s, q, r)
          /\ Behind(a, q, r) <=> Behind(e, q, r)
          /\ Behind(u, q, r) <=> Behind(b, q, r)
      BY <1>1, <1>6 DEF Adds
    <2>2. Behind(b, q, r) <=> r = pd \/ (Behind(a, q, r) /\ q # pd)
      BY <1>1, <1>6 DEF Adds
    <2>3. QED
      BY <2>1, <2>2
  <1>7. \A r \in Path : r # p => ~Behind(t, p, r)
    BY <1>6 DEF Ordered
  <1>8. \A q, r \in Path : q # r /\ pd \notin {q, r} => (Behind(u, q, r) <=> Behind(t, q, r))
    BY <1>6 DEF WithFolderDoes
  <1>9. \A q \in Path : q # pd => Behind(u, q, pd)
    BY <1>6
  <1>10. QED
    BY <1>2, <1>3, <1>4, <1>5, <1>7, <1>8, <1>9 DEF WithFolderDoes

LEMMA WithFolderAll ==
    ASSUME NEW s \in Seq(Line), Neat(s), NEW p \in Path, NEW d \in Folder, Append(p, d) \in Path
    PROVE  /\ WithFolder(s, p, d) \in Seq(Line)
           /\ WithFolderDoes(s, WithFolder(s, p, d), p, d, Append(p, d))
  <1> DEFINE pd == Append(p, d)
             G == {r \in Seq(Line) :
                     /\ WithFolder(r, p, d) \in Seq(Line)
                     /\ Neat(r) => WithFolderDoes(r, WithFolder(r, p, d), p, d, pd)}
  <1>1. <<>> \in G
    <2>1. ~Closed(<<>>, p)
      BY DEF Closed
    <2>2. WithFolderDoes(<<>>, <<>>, p, d, pd)
      <3> HIDE DEF pd
      <3>1. QED
        BY <2>1, EmptyListing DEF WithFolderDoes
    <2>3. QED
      BY <2>2, EmptyListing, EmptyEdits
  <1>2. ASSUME NEW r \in Seq(Line), NEW x \in Line, r \in G
        PROVE  Append(r, x) \in G
    <2> DEFINE t == Append(r, x)
               e == WithFolder(r, p, d)
               v == Append(e, x)
               a == Append(e, End)
               b == Append(a, Section(pd))
               u == WithFolder(t, p, d)
    <2>1. /\ e \in Seq(Line) /\ (Neat(r) => WithFolderDoes(r, e, p, d, pd)) /\ t \in Seq(Line)
          /\ d \in Name /\ pd \in Path /\ Entry(d) \in Line /\ End \in Line /\ Section(pd) \in Line
      BY <1>2, Extend, LineTypes DEF Name
    <2>2. u = IF x = Section(p) THEN Append(v, Entry(d))
              ELSE IF x = End /\ Open(r, p) THEN Append(b, End) ELSE v
      <3>1. WithFolder(Append(r, x), p, d) =
              IF x = Section(p) THEN Append(Append(WithFolder(r, p, d), x), Entry(d))
              ELSE IF x = End /\ Open(r, p)
                   THEN Append(Append(Append(WithFolder(r, p, d), End), Section(Append(p, d))), End)
                   ELSE Append(WithFolder(r, p, d), x)
        BY WithFolderStep, SMTT(60)
      <3>2. QED
        BY <3>1
    <2>3. Adds(r, x, t) /\ Adds(e, x, v) /\ Adds(e, End, a)
      BY <2>1, Another
    <2>4. v \in Seq(Line) /\ a \in Seq(Line)
      BY <2>3 DEF Adds
    <2>5. Adds(v, Entry(d), Append(v, Entry(d))) /\ Adds(a, Section(pd), b)
      BY <2>1, <2>4, Another
    <2>6. b \in Seq(Line) /\ Append(v, Entry(d)) \in Seq(Line)
      BY <2>5 DEF Adds
    <2>7. Adds(b, End, Append(b, End))
      BY <2>1, <2>6, Another
    <2>8. u \in Seq(Line)
      BY <2>2, <2>4, <2>6, <2>7 DEF Adds
    <2>9. p # pd
      BY PathFacts
    <2>10. ASSUME Neat(t)
           PROVE  WithFolderDoes(t, u, p, d, pd)
      <3> HIDE DEF t, e, u, v, a, b, pd
      <3>1. WithFolderDoes(r, e, p, d, pd) /\ Ordered(r)
        BY <1>2, <2>1, <2>3, <2>10, NeatOrdered DEF Adds
      <3>2. CASE x = Section(p)
        <4>1. Adds(v, Entry(d), u)
          BY <2>2, <2>5, <3>2
        <4>2. QED
          BY <2>1, <2>3, <2>9, <2>10, <3>1, <3>2, <4>1, WithFolderHead
      <3>3. CASE x # Section(p) /\ x = End /\ Open(r, p)
        <4>1. Adds(b, End, u) /\ Adds(r, End, t)
          BY <2>2, <2>3, <2>7, <3>3
        <4>2. p \in Folders(r)
          BY <1>2, <3>3, Contained
        <4>3. QED
          BY <2>1, <2>3, <2>5, <2>9, <2>10, <3>1, <3>3, <4>1, <4>2, WithFolderEnd
      <3>4. CASE x # Section(p) /\ ~(x = End /\ Open(r, p))
        <4>1. u = v
          BY <2>2, <3>4
        <4>2. WithFolderDoes(t, v, p, d, pd)
          BY <2>1, <2>3, <2>9, <2>10, <3>1, <3>4, WithFolderKeeps
        <4>3. QED
          BY <4>1, <4>2
      <3>5. QED
        BY <3>2, <3>3, <3>4
    <2>11. QED
      BY <2>1, <2>8, <2>10
  <1> HIDE DEF G
  <1>3. Seq(Line) \subseteq G
    BY <1>1, <1>2, SeqInduct
  <1>4. QED
    BY <1>3 DEF G

-----------------------------------------------------------------------------
(* Listings that are written: no section is open at their end.             *)

LEMMA SoundFacts ==
    ASSUME NEW s, Sound(s)
    PROVE  /\ s \in Seq(Line) /\ Neat(s) /\ AtStart(s)
           /\ \A q \in Path : /\ ~Open(s, q) /\ ~Heads(s, q)
                              /\ Closed(s, q) <=> q \in Folders(s)
                              /\ Headed(s, q) <=> q \in Folders(s)
           /\ Folders(s) \subseteq Path
           /\ \A q \in Path : Shown(s, q) = NamesIn(s, q) /\ NamesIn(s, q) \subseteq Name
  <1>1. s \in Seq(Line) /\ Neat(s) /\ AtStart(s)
    BY WellFormedIs DEF Sound
  <1>2. Ordered(s)
    BY <1>1, NeatOrdered
  <1>3. ASSUME NEW q \in Path
        PROVE  /\ ~Open(s, q) /\ ~Heads(s, q)
               /\ Closed(s, q) <=> q \in Folders(s)
               /\ Headed(s, q) <=> q \in Folders(s)
    <2>1. ~Open(s, q)
      BY <1>1, <1>2 DEF Ordered
    <2>2. ~Heads(s, q)
      BY <1>1, HeadsOpen
    <2>3. ASSUME Closed(s, q)
          PROVE  q \in Folders(s)
      <3>1. PICK i \in DOMAIN s : Inside(s, i, q)
        BY <2>3 DEF Closed
      <3>2. PICK j \in 1..(i - 1) : s[j] = Section(q)
        BY <3>1 DEF Inside
      <3>3. j \in DOMAIN s
        BY <1>1, <3>1, <3>2, LenProperties
      <3>4. QED
        BY <1>1, <3>2, <3>3, FoldersAre
    <2>4. q \in Folders(s) => Closed(s, q)
      BY <1>2, <2>1 DEF Ordered
    <2>5. Headed(s, q) <=> q \in Folders(s)
      BY <1>1, <2>2, HeadedFolders
    <2>6. QED
      BY <2>1, <2>2, <2>3, <2>4, <2>5
  <1>4. Folders(s) \subseteq Path
    BY <1>1, FoldersAre
  <1>5. \A q \in Path : Shown(s, q) = NamesIn(s, q) /\ NamesIn(s, q) \subseteq Name
    BY <1>1, Contained DEF Sound, Complete
  <1>6. QED
    BY <1>1, <1>3, <1>4, <1>5

LEMMA BelowFacts ==
    ASSUME NEW p \in Path, NEW d \in Folder, Append(p, d) \in Path
    PROVE  /\ Below(p, Append(p, d))
           /\ \A q \in Path : Below(q, Append(p, d)) => q = p \/ Below(q, p)
           /\ \A r \in Path : Below(Append(p, d), r) => Below(p, r)
           /\ \A q \in Path : ~Below(q, q)
  <1> DEFINE pd == Append(p, d)
  <1>1. \A q \in Path : q \in Seq(Folder) /\ Len(q) \in Nat
    BY PathFacts
  <1>2. Len(pd) = Len(p) + 1 /\ \A i \in 1..Len(p) : pd[i] = p[i]
    BY <1>1, AppendProperties
  <1> HIDE DEF pd
  <1>3. Below(p, pd)
    BY <1>1, <1>2 DEF Below
  <1>4. ASSUME NEW q \in Path, Below(q, pd), q # p
        PROVE  Below(q, p)
    <2>1. Len(q) <= Len(p) /\ \A i \in 1..Len(q) : pd[i] = q[i]
      BY <1>1, <1>2, <1>4 DEF Below
    <2>2. \A i \in 1..Len(q) : p[i] = q[i]
      BY <1>1, <1>2, <2>1
    <2>3. Len(q) # Len(p)
      <3>1. SUFFICES ASSUME Len(q) = Len(p) PROVE q = p
        BY <1>4
      <3>2. QED
        BY <1>1, <2>2, <3>1, SeqEqual
    <2>4. QED
      BY <1>1, <2>1, <2>2, <2>3 DEF Below
  <1>5. ASSUME NEW r \in Path, Below(pd, r)
        PROVE  Below(p, r)
    <2>1. Len(p) < Len(r)
      BY <1>1, <1>2, <1>5 DEF Below
    <2>2. \A i \in 1..Len(p) : r[i] = p[i]
      BY <1>1, <1>2, <1>5 DEF Below
    <2>3. QED
      BY <2>1, <2>2 DEF Below
  <1>6. \A q \in Path : ~Below(q, q)
    BY <1>1 DEF Below
  <1>7. QED
    BY <1>3, <1>4, <1>5, <1>6 DEF pd

\* An edit that keeps the sections, adds no folder's name and leaves what is
\* shown what is there.
LEMMA SoundSame ==
    ASSUME NEW s, Sound(s), NEW t \in Seq(Line), SameSections(s, t),
           \A q \in Path, m \in Name : m \in Shown(t, q) <=> m \in NamesIn(t, q),
           \A q \in Path, m \in Folder : m \in NamesIn(t, q) => m \in NamesIn(s, q)
    PROVE  Sound(t) /\ Folders(t) = Folders(s)
  <1>1. WellFormed(t)
    BY SoundFacts, WellFormedIs DEF SameSections
  <1>2. Folders(t) = Folders(s)
    BY SoundFacts, FoldersAre DEF SameSections
  <1>3. Entered(t)
    BY <1>2, SoundFacts DEF Sound, Entered
  <1>4. Nested(t)
    <2>1. ASSUME NEW q \in Folders(t), NEW r \in Folders(t), Below(q, r)
          PROVE  Behind(t, q, r)
      <3>1. q \in Path /\ r \in Path /\ Behind(s, q, r)
        BY <1>2, <2>1, SoundFacts DEF Sound, Nested
      <3>2. q # r
        <4>1. Len(q) \in Nat
          BY <3>1, PathFacts
        <4>2. QED
          BY <2>1, <4>1 DEF Below
      <3>3. QED
        BY <3>1, <3>2 DEF SameSections
    <2>2. QED
      BY <2>1 DEF Nested
  <1>5. Complete(t)
    <2>1. ASSUME NEW q \in Path
          PROVE  Shown(t, q) = NamesIn(t, q)
      <3>1. Shown(t, q) \subseteq NamesIn(t, q) /\ NamesIn(t, q) \subseteq Name
        BY Contained
      <3>2. QED
        BY <3>1
    <2>2. QED
      BY <2>1 DEF Complete
  <1>6. QED
    BY <1>1, <1>2, <1>3, <1>4, <1>5 DEF Sound

\* What Upload makes of a listing.
LEMMA UploadDoes ==
    ASSUME NEW s, Sound(s), NEW p \in Path, NEW n \in File
    PROVE  LET t == WithEntry(s, p, n)
           IN  /\ Sound(t) /\ Folders(t) = Folders(s)
               /\ \A q \in Folders(t), m \in Name :
                    m \in NamesIn(t, q) <=> m \in NamesIn(s, q) \/ (q = p /\ m = n)
  <1> DEFINE t == WithEntry(s, p, n)
  <1>1. n \in Name /\ n \notin Folder
    BY DriveAssumption DEF Name
  <1>2. t \in Seq(Line) /\ WithEntryDoes(s, t, p, n)
    BY <1>1, SoundFacts, WithEntryAll
  <1> HIDE DEF t
  <1>3. \A q \in Path, m \in Name :
          /\ m \in NamesIn(t, q) <=> m \in NamesIn(s, q) \/ (q = p /\ m = n /\ p \in Folders(s))
          /\ m \in Shown(t, q) <=> m \in NamesIn(t, q)
    BY <1>2, SoundFacts DEF WithEntryDoes
  <1>4. \A q \in Path, m \in Folder : m \in NamesIn(t, q) => m \in NamesIn(s, q)
    BY <1>1, <1>3 DEF Name
  <1>5. Sound(t) /\ Folders(t) = Folders(s)
    BY <1>2, <1>3, <1>4, SoundSame DEF WithEntryDoes
  <1>6. \A q \in Folders(t), m \in Name :
          m \in NamesIn(t, q) <=> m \in NamesIn(s, q) \/ (q = p /\ m = n)
    BY <1>3, <1>5, SoundFacts
  <1>7. QED
    BY <1>5, <1>6 DEF t

LEMMA DeleteFileDoes ==
    ASSUME NEW s, Sound(s), NEW p \in Path, NEW n \in File
    PROVE  LET t == WithoutEntry(s, p, n)
           IN  /\ Sound(t) /\ Folders(t) = Folders(s)
               /\ \A q \in Folders(t), m \in Name :
                    m \in NamesIn(t, q) <=> m \in NamesIn(s, q) /\ ~(q = p /\ m = n)
  <1> DEFINE t == WithoutEntry(s, p, n)
  <1>1. t \in Seq(Line) /\ WithoutEntryDoes(s, t, p, n)
    BY SoundFacts, WithoutEntryAll DEF Name
  <1> HIDE DEF t
  <1>2. \A q \in Path, m \in Name :
          /\ m \in NamesIn(t, q) <=> m \in NamesIn(s, q) /\ ~(q = p /\ m = n)
          /\ m \in Shown(t, q) <=> m \in NamesIn(t, q)
    BY <1>1, SoundFacts DEF WithoutEntryDoes
  <1>3. Sound(t) /\ Folders(t) = Folders(s)
    BY <1>1, <1>2, SoundSame DEF WithoutEntryDoes, Name
  <1>4. \A q \in Folders(t), m \in Name :
          m \in NamesIn(t, q) <=> m \in NamesIn(s, q) /\ ~(q = p /\ m = n)
    BY <1>2, <1>3, SoundFacts
  <1>5. QED
    BY <1>3, <1>4 DEF t

LEMMA MoveFileDoes ==
    ASSUME NEW s, Sound(s), NEW p \in Path, NEW q \in Path, NEW n \in File
    PROVE  LET t == Moved(s, p, q, n)
           IN  /\ Sound(t) /\ Folders(t) = Folders(s)
               /\ \A r \in Folders(t), m \in Name :
                    m \in NamesIn(t, r) <=> \/ m \in NamesIn(s, r) /\ ~(r = p /\ m = n)
                                            \/ r = q /\ m = n /\ q # p
  <1> DEFINE t == Moved(s, p, q, n)
  <1>1. n \in Name /\ n \notin Folder
    BY DriveAssumption DEF Name
  <1>2. t \in Seq(Line) /\ MovedDoes(s, t, p, q, n)
    BY <1>1, SoundFacts, MovedAll
  <1> HIDE DEF t
  <1>3. \A r \in Path, m \in Name :
          /\ m \in NamesIn(t, r) <=> \/ m \in NamesIn(s, r) /\ ~(r = p /\ m = n)
                                     \/ r = q /\ m = n /\ q # p /\ q \in Folders(s)
          /\ m \in Shown(t, r) <=> m \in NamesIn(t, r)
    <2>1. (Headed(s, q) <=> q \in Folders(s)) /\ ~Heads(s, q)
      BY SoundFacts
    <2>2. \A r \in Path : Shown(s, r) = NamesIn(s, r)
      BY SoundFacts
    <2>3. QED
      BY <1>2, <2>1, <2>2 DEF MovedDoes
  <1>4. \A r \in Path, m \in Folder : m \in NamesIn(t, r) => m \in NamesIn(s, r)
    BY <1>1, <1>3 DEF Name
  <1>5. Sound(t) /\ Folders(t) = Folders(s)
    BY <1>2, <1>3, <1>4, SoundSame DEF MovedDoes
  <1>6. \A r \in Folders(t), m \in Name :
          m \in NamesIn(t, r) <=> \/ m \in NamesIn(s, r) /\ ~(r = p /\ m = n)
                                  \/ r = q /\ m = n /\ q # p
    BY <1>3, <1>5, SoundFacts
  <1>7. QED
    BY <1>5, <1>6 DEF t

LEMMA AddFolderDoes ==
    ASSUME NEW s, Sound(s), NEW p \in Path, NEW d \in Folder, Append(p, d) \in Path
    PROVE  LET t  == WithFolder(s, p, d)
               pd == Append(p, d)
           IN  /\ Sound(t)
               /\ Folders(t) = Folders(s) \cup (IF p \in Folders(s) THEN {pd} ELSE {})
               /\ \A q \in Folders(t), m \in Name :
                    m \in NamesIn(t, q) <=> m \in NamesIn(s, q) \/ (q = p /\ m = d)
  <1> DEFINE t == WithFolder(s, p, d)
             pd == Append(p, d)
  <1>1. t \in Seq(Line) /\ WithFolderDoes(s, t, p, d, pd)
    BY SoundFacts, WithFolderAll
  <1>2. /\ Below(p, pd) /\ p # pd /\ d \in Name
        /\ \A q \in Path : Below(q, pd) => q = p \/ Below(q, p)
        /\ \A r \in Path : Below(pd, r) => Below(p, r)
        /\ \A q \in Path : ~Below(q, q)
    BY BelowFacts, PathFacts DEF Name
  <1> HIDE DEF t, pd
  <1>3. pd \in Path
    BY DEF pd
  <1>4. /\ \A q \in Path : ~Open(s, q) /\ (Closed(s, q) <=> q \in Folders(s))
        /\ Folders(s) \subseteq Path /\ AtStart(s) /\ s \in Seq(Line)
        /\ \A q \in Path : Shown(s, q) = NamesIn(s, q) /\ NamesIn(s, q) \subseteq Name
    BY SoundFacts
  <1>5. WellFormed(t) /\ Folders(t) \subseteq Path
    BY <1>1, <1>4, WellFormedIs, FoldersAre DEF WithFolderDoes
  <1>6. Folders(t) = Folders(s) \cup (IF p \in Folders(s) THEN {pd} ELSE {})
    BY <1>1, <1>3, <1>4, <1>5 DEF WithFolderDoes
  <1>7. \A q \in Path, m \in Name :
          m \in NamesIn(t, q) <=> m \in NamesIn(s, q) \/ (q = p /\ m = d /\ p \in Folders(s))
    BY <1>1 DEF WithFolderDoes
  <1>8. ASSUME p \in Folders(s), pd \in Folders(s)
        PROVE  Behind(s, p, pd)
    BY <1>2, <1>8 DEF Sound, Nested
  <1>9. Entered(t)
    <2>1. ASSUME NEW q \in Folders(t), NEW n \in Folder \cap NamesIn(t, q)
          PROVE  Append(q, n) \in Folders(t)
      <3>1. q \in Path /\ n \in Name
        BY <1>5 DEF Name
      <3>2. CASE q = p /\ n = d /\ p \in Folders(s)
        BY <1>6, <3>2 DEF pd
      <3>3. CASE n \in NamesIn(s, q)
        <4>1. q \in Folders(s)
          BY <1>4, <3>1, <3>3, Contained
        <4>2. Append(q, n) \in Folders(s)
          BY <3>3, <4>1 DEF Sound, Entered
        <4>3. QED
          BY <1>6, <4>2
      <3>4. QED
        BY <1>7, <3>1, <3>2, <3>3
    <2>2. QED
      BY <2>1 DEF Entered
  <1>10. Nested(t)
    <2>1. ASSUME NEW q \in Folders(t), NEW r \in Folders(t), Below(q, r)
          PROVE  Behind(t, q, r)
      <3>1. q \in Path /\ r \in Path /\ q # r
        BY <1>2, <1>5, <2>1
      <3>2. \A a, b \in Path : a \in Folders(s) /\ b \in Folders(s) /\ Below(a, b) => Behind(s, a, b)
        BY DEF Sound, Nested
      <3>3. CASE pd \notin {q, r}
        BY <1>1, <1>6, <2>1, <3>1, <3>2, <3>3 DEF WithFolderDoes
      <3>4. CASE r = pd
        <4>1. q # pd /\ q \in Folders(s)
          BY <1>6, <3>1, <3>4
        <4>2. CASE p \notin Folders(s)
          <5>1. pd \in Folders(s)
            BY <1>6, <3>4, <4>2
          <5>2. Behind(s, q, pd)
            BY <1>3, <2>1, <3>1, <3>2, <3>4, <4>1, <5>1
          <5>3. QED
            BY <1>1, <3>1, <3>4, <4>1, <5>2 DEF WithFolderDoes
        <4>3. CASE p \in Folders(s) /\ q = p
          BY <1>1, <1>4, <3>4, <4>3 DEF WithFolderDoes
        <4>4. CASE p \in Folders(s) /\ q # p
          <5>1. Below(q, p)
            BY <1>2, <2>1, <3>1, <3>4, <4>4
          <5>2. Behind(s, q, p)
            BY <3>1, <3>2, <4>1, <4>4, <5>1
          <5>3. QED
            BY <1>1, <1>4, <3>1, <3>4, <4>1, <4>4, <5>2 DEF WithFolderDoes
        <4>5. QED
          BY <4>2, <4>3, <4>4
      <3>5. CASE q = pd
        <4>1. r # pd /\ r \in Folders(s) /\ Below(p, r) /\ r # p
          BY <1>2, <1>6, <2>1, <3>1, <3>5
        <4>2. Behind(s, p, r)
          <5>1. CASE p \in Folders(s)
            BY <3>1, <3>2, <4>1, <5>1
          <5>2. CASE p \notin Folders(s)
            BY <1>4, <3>1, <4>1, <5>2, Contained
          <5>3. QED
            BY <5>1, <5>2
        <4>3. Behind(s, pd, r)
          <5>1. CASE pd \in Folders(s)
            BY <1>3, <2>1, <3>1, <3>2, <3>5, <4>1, <5>1
          <5>2. CASE pd \notin Folders(s)
            BY <1>3, <1>4, <3>1, <4>1, <5>2, Contained
          <5>3. QED
            BY <5>1, <5>2
        <4>4. QED
          BY <1>1, <3>1, <3>5, <4>1, <4>2, <4>3 DEF WithFolderDoes
      <3>6. QED
        BY <3>3, <3>4, <3>5
    <2>2. QED
      BY <2>1 DEF Nested
  <1>11. Complete(t)
    <2>1. ASSUME NEW q \in Path
          PROVE  Shown(t, q) = NamesIn(t, q)
      <3>1. Shown(t, q) \subseteq NamesIn(t, q) /\ NamesIn(t, q) \subseteq Name
        BY <1>1, Contained
      <3>2. CASE q # pd
        <4>1. \A m \in Name : m \in Shown(t, q) <=> m \in NamesIn(t, q)
          BY <1>1, <1>4, <1>7, <3>2 DEF WithFolderDoes
        <4>2. QED
          BY <3>1, <4>1
      <3>3. CASE q = pd /\ pd \in Folders(s)
        <4>1. \A m \in Name : m \in Shown(t, pd) <=> m \in NamesIn(s, pd)
          BY <1>1, <1>3, <1>4, <1>8, <3>3 DEF WithFolderDoes
        <4>2. \A m \in Name : m \in NamesIn(t, pd) <=> m \in NamesIn(s, pd)
          BY <1>2, <1>3, <1>7
        <4>3. QED
          BY <3>1, <3>3, <4>1, <4>2
      <3>4. CASE q = pd /\ pd \notin Folders(s)
        <4>1. NamesIn(s, pd) = {}
          BY <1>3, <1>4, <3>4, Contained
        <4>2. \A m \in Name : m \notin NamesIn(t, pd)
          BY <1>2, <1>3, <1>7, <4>1
        <4>3. QED
          BY <3>1, <3>4, <4>2
      <3>5. QED
        BY <3>2, <3>3, <3>4
    <2>2. QED
      BY <2>1 DEF Complete
  <1>12. \A q \in Folders(t), m \in Name :
           m \in NamesIn(t, q) <=> m \in NamesIn(s, q) \/ (q = p /\ m = d)
    BY <1>2, <1>5, <1>6, <1>7
  <1>13. QED
    BY <1>1, <1>5, <1>6, <1>9, <1>10, <1>11, <1>12 DEF Sound, t, pd

LEMMA DeleteFolderDoes ==
    ASSUME NEW s, Sound(s), NEW p \in Path, NEW d \in Folder, Append(p, d) \in Path
    PROVE  LET t == WithoutFolder(s, p, d)
           IN  /\ Sound(t) /\ Folders(t) = Folders(s) \ {Append(p, d)}
               /\ \A q \in Folders(t), m \in Name :
                    m \in NamesIn(t, q) <=> m \in NamesIn(s, q) /\ ~(q = p /\ m = d)
  <1> DEFINE t == WithoutFolder(s, p, d)
             pd == Append(p, d)
  <1>1. t \in Seq(Line) /\ WithoutFolderDoes(s, t, p, d, pd)
    BY SoundFacts, WithoutFolderAll
  <1>2. \A q \in Path, n \in Folder : Append(q, n) = pd => q = p /\ n = d
    <2>1. \A q \in Path : q \in Seq(Folder)
      BY PathFacts
    <2>2. QED
      BY <2>1, AppendInjective
  <1> HIDE DEF t, pd
  <1>3. pd \in Path
    BY DEF pd
  <1>4. /\ \A q \in Path : ~Open(s, q)
        /\ Folders(s) \subseteq Path /\ AtStart(s)
        /\ \A q \in Path : Shown(s, q) = NamesIn(s, q) /\ NamesIn(s, q) \subseteq Name
    BY SoundFacts
  <1>5. WellFormed(t) /\ Folders(t) \subseteq Path
    BY <1>1, <1>4, WellFormedIs, FoldersAre DEF WithoutFolderDoes
  <1>6. Folders(t) = Folders(s) \ {pd}
    BY <1>1, <1>3, <1>4, <1>5 DEF WithoutFolderDoes
  <1>7. \A q \in Folders(t), m \in Name :
          m \in NamesIn(t, q) <=> m \in NamesIn(s, q) /\ ~(q = p /\ m = d)
    BY <1>1, <1>5, <1>6 DEF WithoutFolderDoes
  <1>8. Entered(t)
    <2>1. ASSUME NEW q \in Folders(t), NEW n \in Folder \cap NamesIn(t, q)
          PROVE  Append(q, n) \in Folders(t)
      <3>1. q \in Path /\ q \in Folders(s) /\ n \in Name
        BY <1>5, <1>6 DEF Name
      <3>2. n \in NamesIn(s, q) /\ ~(q = p /\ n = d)
        BY <1>7, <3>1
      <3>3. Append(q, n) \in Folders(s)
        BY <3>1, <3>2 DEF Sound, Entered
      <3>4. Append(q, n) # pd
        BY <1>2, <3>1, <3>2
      <3>5. QED
        BY <1>6, <3>3, <3>4
    <2>2. QED
      BY <2>1 DEF Entered
  <1>9. Nested(t)
    <2>1. ASSUME NEW q \in Folders(t), NEW r \in Folders(t), Below(q, r)
          PROVE  Behind(t, q, r)
      <3>1. q \in Path /\ r \in Path /\ pd \notin {q, r} /\ Behind(s, q, r)
        BY <1>5, <1>6, <2>1 DEF Sound, Nested
      <3>2. q # r
        BY <2>1, <3>1, PathFacts DEF Below
      <3>3. QED
        BY <1>1, <3>1, <3>2 DEF WithoutFolderDoes
    <2>2. QED
      BY <2>1 DEF Nested
  <1>10. Complete(t)
    <2>1. ASSUME NEW q \in Path
          PROVE  Shown(t, q) = NamesIn(t, q)
      <3>1. Shown(t, q) \subseteq NamesIn(t, q) /\ NamesIn(t, q) \subseteq Name
        BY <1>1, Contained
      <3>2. CASE q = pd
        BY <1>1, <1>3, <1>6, <3>1, <3>2, Contained
      <3>3. CASE q # pd
        <4>1. \A m \in Name : m \in Shown(t, q) <=> m \in NamesIn(t, q)
          BY <1>1, <1>4, <3>3 DEF WithoutFolderDoes
        <4>2. QED
          BY <3>1, <4>1
      <3>4. QED
        BY <3>2, <3>3
    <2>2. QED
      BY <2>1 DEF Complete
  <1>11. QED
    BY <1>1, <1>5, <1>6, <1>7, <1>8, <1>9, <1>10 DEF Sound, t, pd

-----------------------------------------------------------------------------
(* The commands that edit, on listings and on trees.                       *)

Edits == {"Upload", "AddFolder", "MoveFile", "DeleteFolder", "DeleteFile"}

LEMMA CommandFacts ==
    ASSUME NEW c \in Command
    PROVE  /\ c.user \in User
           /\ c.op \in Edits \cup {"Contents", "Download", "MoveFolder"}
           /\ c.op # "MoveFolder" => c.path \in Path
           /\ c.op \in {"Upload", "Download", "MoveFile", "DeleteFile"} => c.name \in File
           /\ c.op = "MoveFile" => c.newpath \in Path
           /\ c.op \in {"AddFolder", "DeleteFolder"} => c.name \in Folder /\ Append(c.path, c.name) \in Path
  <1>1. CASE c \in [op : {"Contents"}, user : User, path : Path]
    BY <1>1
  <1>2. CASE c \in [op : {"Upload", "Download", "DeleteFile"}, user : User, path : Path, name : File]
    BY <1>2 DEF Edits
  <1>3. CASE c \in [op : {"MoveFile"}, user : User, path : Path, newpath : Path, name : File]
    BY <1>3 DEF Edits
  <1>4. CASE c \in [op : {"AddFolder", "DeleteFolder"}, user : User, name : Folder,
                    path : {p \in Path : Len(p) < MaxDepth}]
    <2>1. /\ c.op \in {"AddFolder", "DeleteFolder"} /\ c.user \in User /\ c.name \in Folder
          /\ c.path \in Path /\ Len(c.path) < MaxDepth
      BY <1>4
    <2>2. Append(c.path, c.name) \in Path
      BY <2>1, PathFacts
    <2>3. QED
      BY <2>1, <2>2 DEF Edits
  <1>5. CASE c \in [op : {"MoveFolder"}, user : User]
    BY <1>5 DEF Edits
  <1>6. QED
    BY <1>1, <1>2, <1>3, <1>4, <1>5 DEF Command

\* Two trees are the same if they have the same folders with the same names.
LEMMA TreeIs ==
    ASSUME NEW s, Sound(s), NEW f, f = [r \in DOMAIN f |-> f[r]], DOMAIN f = Folders(s),
           \A r \in Folders(s) : f[r] \subseteq Name,
           \A r \in Folders(s), m \in Name : m \in NamesIn(s, r) <=> m \in f[r]
    PROVE  Tree(s) = f
  <1>1. \A r \in Folders(s) : NamesIn(s, r) \subseteq Name
    BY SoundFacts
  <1>2. \A r \in Folders(s) : NamesIn(s, r) = f[r]
    BY <1>1
  <1>3. QED
    BY <1>2 DEF Tree

\* A command makes of the tree of a listing what the abstract drive makes of it.
LEMMA EditKeeps ==
    ASSUME NEW s, Sound(s), NEW c \in Command, c.op \in Edits
    PROVE  /\ Sound(Edited(s, c))
           /\ Tree(Edited(s, c)) = TreeImpl!Edited(Tree(s), c)
           /\ \A r \in Folders(Edited(s, c)) : \A m \in File \cap NamesIn(Edited(s, c), r) :
                \/ r \in Folders(s) /\ m \in NamesIn(s, r)
                \/ c.op = "Upload" /\ r = c.path /\ m = c.name
                \/ c.op = "MoveFile" /\ r = c.newpath /\ m = c.name
  <1> DEFINE T == Tree(s)
             t == Edited(s, c)
  <1>1. /\ DOMAIN T = Folders(s) /\ Folders(s) \subseteq Path
        /\ \A r \in Folders(s) : T[r] = NamesIn(s, r) /\ T[r] \subseteq Name
    BY SoundFacts DEF Tree
  <1> HIDE DEF T
  <1>2. File \subseteq Name /\ Folder \subseteq Name
    BY DEF Name
  <1>3. CASE c.op = "Upload"
    <2> DEFINE f == TreeImpl!With(T, c.path, c.name)
    <2>1. t = WithEntry(s, c.path, c.name)
      BY <1>3 DEF Edited
    <2>2. c.path \in Path /\ c.name \in File
      BY <1>3, CommandFacts
    <2> HIDE DEF t
    <2>3. /\ Sound(t) /\ Folders(t) = Folders(s)
          /\ \A q \in Folders(t), m \in Name :
               m \in NamesIn(t, q) <=> m \in NamesIn(s, q) \/ (q = c.path /\ m = c.name)
      BY <2>1, <2>2, UploadDoes
    <2>4. /\ f = [r \in DOMAIN f |-> f[r]] /\ DOMAIN f = Folders(s)
          /\ \A r \in Folders(s) : f[r] = IF r = c.path THEN NamesIn(s, r) \cup {c.name} ELSE NamesIn(s, r)
      BY <1>1 DEF TreeImpl!With
    <2>5. TreeImpl!Edited(T, c) = f
      BY <1>3 DEF TreeImpl!Edited
    <2> HIDE DEF f
    <2>6. Tree(t) = f
      BY <1>1, <1>2, <2>2, <2>3, <2>4, TreeIs
    <2>7. \A r \in Folders(t) : \A m \in File \cap NamesIn(t, r) :
            (r \in Folders(s) /\ m \in NamesIn(s, r)) \/ (r = c.path /\ m = c.name)
      BY <1>2, <2>3
    <2>8. QED
      BY <1>3, <2>3, <2>5, <2>6, <2>7 DEF T, t
  <1>4. CASE c.op = "AddFolder"
    <2> DEFINE pd == Append(c.path, c.name)
               f == TreeImpl!WithFolder(T, c.path, c.name)
    <2>1. t = WithFolder(s, c.path, c.name)
      BY <1>4 DEF Edited
    <2>2. c.path \in Path /\ c.name \in Folder /\ pd \in Path /\ pd # c.path
      BY <1>4, CommandFacts, PathFacts
    <2> HIDE DEF t
    <2>3. /\ Sound(t)
          /\ Folders(t) = Folders(s) \cup (IF c.path \in Folders(s) THEN {pd} ELSE {})
          /\ \A q \in Folders(t), m \in Name :
               m \in NamesIn(t, q) <=> m \in NamesIn(s, q) \/ (q = c.path /\ m = c.name)
      BY <2>1, <2>2, AddFolderDoes
    <2>4. TreeImpl!Edited(T, c) = f
      BY <1>4 DEF TreeImpl!Edited
    <2>5. s \in Seq(Line)
      BY SoundFacts
    <2>6. \A r \in Path : r \notin Folders(s) => NamesIn(s, r) = {}
      BY <2>5, Contained
    <2>7. /\ f = [r \in DOMAIN f |-> f[r]] /\ DOMAIN f = Folders(t)
          /\ \A r \in Folders(t) : f[r] = IF r = c.path THEN NamesIn(s, r) \cup {c.name} ELSE NamesIn(s, r)
      <3>1. CASE c.path \notin Folders(s)
        <4>1. f = T /\ Folders(t) = Folders(s)
          BY <1>1, <2>3, <3>1 DEF TreeImpl!WithFolder
        <4>2. T = [r \in DOMAIN T |-> T[r]]
          BY DEF T, Tree
        <4>3. QED
          BY <1>1, <3>1, <4>1, <4>2
      <3>2. CASE c.path \in Folders(s)
        <4> DEFINE g == TreeImpl!With(T, c.path, c.name)
        <4>1. f = [r \in DOMAIN T \cup {pd} |-> IF r \in DOMAIN T THEN g[r] ELSE {}]
          BY <1>1, <3>2 DEF TreeImpl!WithFolder
        <4>2. \A r \in Folders(s) : g[r] = IF r = c.path THEN NamesIn(s, r) \cup {c.name} ELSE NamesIn(s, r)
          BY <1>1 DEF TreeImpl!With
        <4> HIDE DEF f, g, pd
        <4>3. f = [r \in Folders(t) |-> IF r \in Folders(s) THEN g[r] ELSE {}]
          BY <1>1, <2>3, <3>2, <4>1
        <4>4. f = [r \in DOMAIN f |-> f[r]] /\ DOMAIN f = Folders(t)
          BY <4>3
        <4>5. ASSUME NEW r \in Folders(t)
              PROVE  f[r] = IF r = c.path THEN NamesIn(s, r) \cup {c.name} ELSE NamesIn(s, r)
          <5>1. CASE r \in Folders(s)
            BY <4>2, <4>3, <5>1
          <5>2. CASE r \notin Folders(s)
            <6>1. r = pd /\ NamesIn(s, r) = {} /\ r # c.path
              BY <2>2, <2>3, <2>6, <5>2
            <6>2. QED
              BY <4>3, <5>2, <6>1
          <5>3. QED
            BY <5>1, <5>2
        <4>6. QED
          BY <4>4, <4>5
      <3>3. QED
        BY <3>1, <3>2
    <2> HIDE DEF f, pd
    <2>8. \A r \in Folders(t) : NamesIn(s, r) \subseteq Name
      BY <2>3, SoundFacts
    <2>9. Tree(t) = f
      <3>1. \A r \in Folders(t) : f[r] \subseteq Name
        BY <1>2, <2>2, <2>7, <2>8
      <3>2. ASSUME NEW r \in Folders(t), NEW m \in Name
            PROVE  m \in NamesIn(t, r) <=> m \in f[r]
        <4>1. m \in NamesIn(t, r) <=> m \in NamesIn(s, r) \/ (r = c.path /\ m = c.name)
          BY <2>3
        <4>2. f[r] = IF r = c.path THEN NamesIn(s, r) \cup {c.name} ELSE NamesIn(s, r)
          BY <2>7
        <4>3. QED
          BY <4>1, <4>2
      <3>3. QED
        BY <2>3, <2>7, <3>1, <3>2, TreeIs
    <2>10. ASSUME NEW r \in Folders(t), NEW m \in File \cap NamesIn(t, r)
           PROVE  r \in Folders(s) /\ m \in NamesIn(s, r)
      <3>1. r \in Path
        BY <2>3, SoundFacts
      <3>2. m # c.name
        BY <2>2, DriveAssumption
      <3>3. m \in NamesIn(s, r)
        BY <1>2, <2>3, <3>2
      <3>4. QED
        BY <2>6, <3>1, <3>3
    <2>11. QED
      BY <2>3, <2>4, <2>9, <2>10 DEF T, t
  <1>5. CASE c.op = "MoveFile"
    <2> DEFINE f == TreeImpl!Moved(T, c.path, c.newpath, c.name)
    <2>1. t = Moved(s, c.path, c.newpath, c.name)
      BY <1>5 DEF Edited
    <2>2. c.path \in Path /\ c.newpath \in Path /\ c.name \in File
      BY <1>5, CommandFacts
    <2> HIDE DEF t
    <2>3. /\ Sound(t) /\ Folders(t) = Folders(s)
          /\ \A r \in Folders(t), m \in Name :
               m \in NamesIn(t, r) <=> \/ m \in NamesIn(s, r) /\ ~(r = c.path /\ m = c.name)
                                       \/ r = c.newpath /\ m = c.name /\ c.newpath # c.path
      BY <2>1, <2>2, MoveFileDoes
    <2>4. TreeImpl!Edited(T, c) = f
      BY <1>5 DEF TreeImpl!Edited
    <2>5. /\ f = [r \in DOMAIN f |-> f[r]] /\ DOMAIN f = Folders(s)
          /\ \A r \in Folders(s) : f[r] = IF r = c.path THEN NamesIn(s, r) \ {c.name}
                                          ELSE IF r = c.newpath THEN NamesIn(s, r) \cup {c.name}
                                          ELSE NamesIn(s, r)
      <3> DEFINE g == TreeImpl!Without(T, c.path, c.name)
      <3>1. /\ g = [r \in DOMAIN g |-> g[r]] /\ DOMAIN g = Folders(s)
            /\ \A r \in Folders(s) : g[r] = IF r = c.path THEN NamesIn(s, r) \ {c.name} ELSE NamesIn(s, r)
        BY <1>1 DEF TreeImpl!Without
      <3>2. f = IF c.newpath = c.path THEN g ELSE TreeImpl!With(g, c.newpath, c.name)
        BY DEF TreeImpl!Moved
      <3> HIDE DEF f, g
      <3>3. CASE c.newpath = c.path
        BY <3>1, <3>2, <3>3
      <3>4. CASE c.newpath # c.path
        <4>1. f = [r \in DOMAIN g |-> IF r = c.newpath THEN g[r] \cup {c.name} ELSE g[r]]
          BY <3>2, <3>4 DEF TreeImpl!With
        <4>2. QED
          BY <3>1, <3>4, <4>1
      <3>5. QED
        BY <3>3, <3>4
    <2> HIDE DEF f
    <2>6. Tree(t) = f
      <3>1. \A r \in Folders(s) : f[r] \subseteq Name
        BY <1>1, <1>2, <2>2, <2>5
      <3>2. \A r \in Folders(t), m \in Name : m \in NamesIn(t, r) <=> m \in f[r]
        BY <2>3, <2>5
      <3>3. QED
        BY <2>3, <2>5, <3>1, <3>2, TreeIs
    <2>7. \A r \in Folders(t) : \A m \in File \cap NamesIn(t, r) :
            (r \in Folders(s) /\ m \in NamesIn(s, r)) \/ (r = c.newpath /\ m = c.name)
      BY <1>2, <2>3
    <2>8. QED
      BY <1>5, <2>3, <2>4, <2>6, <2>7 DEF T, t
  <1>6. CASE c.op = "DeleteFolder"
    <2> DEFINE pd == Append(c.path, c.name)
               f == TreeImpl!WithoutFolder(T, c.path, c.name)
    <2>1. t = WithoutFolder(s, c.path, c.name)
      BY <1>6 DEF Edited
    <2>2. c.path \in Path /\ c.name \in Folder /\ pd \in Path
      BY <1>6, CommandFacts
    <2> HIDE DEF t
    <2>3. /\ Sound(t) /\ Folders(t) = Folders(s) \ {pd}
          /\ \A q \in Folders(t), m \in Name :
               m \in NamesIn(t, q) <=> m \in NamesIn(s, q) /\ ~(q = c.path /\ m = c.name)
      BY <2>1, <2>2, DeleteFolderDoes
    <2>4. TreeImpl!Edited(T, c) = f
      BY <1>6 DEF TreeImpl!Edited
    <2>5. /\ f = [r \in DOMAIN f |-> f[r]] /\ DOMAIN f = Folders(t)
          /\ \A r \in Folders(t) : f[r] = IF r = c.path THEN NamesIn(s, r) \ {c.name} ELSE NamesIn(s, r)
      <3> DEFINE g == TreeImpl!Without(T, c.path, c.name)
      <3>1. \A r \in Folders(s) : g[r] = IF r = c.path THEN NamesIn(s, r) \ {c.name} ELSE NamesIn(s, r)
        BY <1>1 DEF TreeImpl!Without
      <3>2. f = [r \in DOMAIN T \ {pd} |-> g[r]]
        BY DEF TreeImpl!WithoutFolder
      <3> HIDE DEF f, g, pd
      <3>3. QED
        BY <1>1, <2>3, <3>1, <3>2
    <2> HIDE DEF f, pd
    <2>6. Tree(t) = f
      <3>1. \A r \in Folders(t) : f[r] \subseteq Name
        BY <1>1, <2>3, <2>5
      <3>2. \A r \in Folders(t), m \in Name : m \in NamesIn(t, r) <=> m \in f[r]
        BY <2>3, <2>5
      <3>3. QED
        BY <2>3, <2>5, <3>1, <3>2, TreeIs
    <2>7. \A r \in Folders(t) : \A m \in File \cap NamesIn(t, r) : r \in Folders(s) /\ m \in NamesIn(s, r)
      BY <1>2, <2>3
    <2>8. QED
      BY <2>3, <2>4, <2>6, <2>7 DEF T, t
  <1>7. CASE c.op = "DeleteFile"
    <2> DEFINE f == TreeImpl!Without(T, c.path, c.name)
    <2>1. t = WithoutEntry(s, c.path, c.name)
      BY <1>7 DEF Edited
    <2>2. c.path \in Path /\ c.name \in File
      BY <1>7, CommandFacts
    <2> HIDE DEF t
    <2>3. /\ Sound(t) /\ Folders(t) = Folders(s)
          /\ \A q \in Folders(t), m \in Name :
               m \in NamesIn(t, q) <=> m \in NamesIn(s, q) /\ ~(q = c.path /\ m = c.name)
      BY <2>1, <2>2, DeleteFileDoes
    <2>4. TreeImpl!Edited(T, c) = f
      BY <1>7 DEF TreeImpl!Edited
    <2>5. /\ f = [r \in DOMAIN f |-> f[r]] /\ DOMAIN f = Folders(s)
          /\ \A r \in Folders(s) : f[r] = IF r = c.path THEN NamesIn(s, r) \ {c.name} ELSE NamesIn(s, r)
      BY <1>1 DEF TreeImpl!Without
    <2> HIDE DEF f
    <2>6. Tree(t) = f
      BY <1>1, <2>3, <2>5, TreeIs
    <2>7. \A r \in Folders(t) : \A m \in File \cap NamesIn(t, r) : r \in Folders(s) /\ m \in NamesIn(s, r)
      BY <1>2, <2>3
    <2>8. QED
      BY <2>3, <2>4, <2>6, <2>7 DEF T, t
  <1>8. QED
    BY <1>3, <1>4, <1>5, <1>6, <1>7 DEF Edits

LEMMA SoundStarts ==
    /\ Sound(<<>>) /\ Sound(NewListing)
    /\ Folders(<<>>) = {} /\ \A p \in Path : NamesIn(NewListing, p) = {}
    /\ Tree(<<>>) = TreeImpl!EmptyTree /\ Tree(NewListing) = TreeImpl!NewTree
  <1> DEFINE a == Append(<<>>, Section(Root))
             b == Append(a, End)
  <1>1. Root \in Path /\ Root = <<>>
    <2>1. 0 \in 0..MaxDepth /\ <<>> \in [1..0 -> Folder]
      BY DriveAssumption
    <2>2. QED
      BY <2>1 DEF Root, Path, BoundedSeq, SeqOf
  <1>2. Section(Root) \in Line /\ End \in Line
    BY <1>1, LineTypes
  <1>3. NewListing = b
    BY DEF NewListing
  <1>4. Adds(<<>>, Section(Root), a) /\ Adds(a, End, b)
    <2>1. Adds(<<>>, Section(Root), a)
      BY <1>2, Another, EmptyListing
    <2>2. a \in Seq(Line)
      BY <2>1 DEF Adds
    <2>3. QED
      BY <1>2, <2>1, <2>2, Another
  <1>5. /\ Section(Root).is = "section" /\ End.is # "section" /\ Section(Root) # End
        /\ \A m : Section(Root) # Entry(m) /\ End # Entry(m)
        /\ \A q : (Section(Root) = Section(q) <=> q = Root) /\ End # Section(q)
    BY LinesDiffer
  <1> HIDE DEF a, b
  <1>6. b \in Seq(Line) /\ WellFormed(b)
    <2>1. Neat(a) /\ ~AtStart(a)
      BY <1>4, <1>5, EmptyListing DEF Adds
    <2>2. b \in Seq(Line) /\ Neat(b) /\ AtStart(b)
      BY <1>4, <1>5, <2>1 DEF Adds
    <2>3. QED
      BY <2>2, WellFormedIs
  <1>7. \A q \in Path : q \in Folders(b) <=> q = Root
    BY <1>4, <1>5, EmptyListing DEF Adds
  <1>8. \A q \in Path, m \in Name : m \notin NamesIn(b, q)
    <2>1. \A q \in Path, m \in Name : m \notin NamesIn(a, q)
      BY <1>4, <1>5, EmptyListing DEF Adds
    <2>2. QED
      BY <1>4, <1>5, <2>1 DEF Adds
  <1>9. \A q \in Path : Shown(b, q) = {} /\ NamesIn(b, q) = {}
    BY <1>6, <1>8, Contained
  <1>10. Folders(b) = {Root}
    BY <1>1, <1>6, <1>7, FoldersAre
  <1>11. Sound(b)
    <2>1. \A q \in Path : ~Below(q, q)
      BY PathFacts DEF Below
    <2>2. QED
      BY <1>1, <1>6, <1>9, <1>10, <2>1 DEF Sound, Entered, Nested, Complete
  <1>12. Sound(<<>>)
    BY EmptyListing, WellFormedIs DEF Sound, Entered, Nested, Complete
  <1>13. Tree(b) = TreeImpl!NewTree
    BY <1>1, <1>9, <1>10 DEF Tree, TreeImpl!NewTree
  <1>14. Tree(<<>>) = TreeImpl!EmptyTree
    BY EmptyListing DEF Tree, TreeImpl!EmptyTree
  <1>15. QED
    BY <1>3, <1>9, <1>11, <1>12, <1>13, <1>14, EmptyListing

-----------------------------------------------------------------------------
(* The server: DInv holds at the start, and every step keeps it.           *)

LEMMA DFacts ==
    ASSUME DInv
    PROVE  /\ Absent \notin User \cup Command \cup Seq(Line)
           /\ \A u \in User : disk[u] \in Seq(Line) \cup {Absent}
           /\ current # Absent => current \in User /\ disk[current] \in Seq(Line) /\ Sound(disk[current])
           /\ listOfUsers # <<>> => current # Absent
           /\ command # Absent => command \in Command /\ current \in User
           /\ \A u \in User : (Listing(u) = Absent <=> disk[u] = Absent) /\ Sound(Listed(u))
           /\ pc # "write" => \A u \in User : Listing(u) = disk[u]
           /\ DOMAIN listOfUsers = 1..Len(listOfUsers) /\ Len(listOfUsers) \in Nat
           /\ \A i \in DOMAIN listOfUsers : listOfUsers[i] \in User
  <1>1. Absent \notin User \cup Command \cup Seq(Line)
    BY DriveAssumption
  <1>2. \A u \in User : disk[u] \in Seq(Line) \cup {Absent}
    BY DEF DInv, TypeOK
  <1>3. /\ DOMAIN listOfUsers = 1..Len(listOfUsers) /\ Len(listOfUsers) \in Nat
        /\ \A i \in DOMAIN listOfUsers : listOfUsers[i] \in User
    BY DEF DInv, TypeOK
  <1>4. ASSUME current # Absent
        PROVE  current \in User /\ disk[current] \in Seq(Line) /\ Sound(disk[current])
    <2>1. PICK i \in DOMAIN listOfUsers : listOfUsers[i] = current
      BY <1>4 DEF DInv, Known
    <2>2. current \in User /\ disk[current] # Absent
      BY <1>3, <2>1 DEF DInv, Known
    <2>3. QED
      BY <1>2, <2>2 DEF DInv
  <1>5. listOfUsers # <<>> => current # Absent
    BY <1>1, <1>3 DEF DInv, Known
  <1>6. command # Absent => command \in Command /\ current \in User
    BY <1>4 DEF DInv, TypeOK
  <1>7. filecontents \in Seq(Line) /\ Sound(filecontents) /\ filecontents # Absent /\ <<>> # Absent
    BY <1>1, EmptyListing DEF DInv, TypeOK
  <1>8. pc = "write" => disk[current] = <<>>
    BY DEF DInv, Serving
  <1>9. ASSUME NEW u \in User
        PROVE  (Listing(u) = Absent <=> disk[u] = Absent) /\ Sound(Listed(u))
    <2>1. CASE pc = "write" /\ u = current
      BY <1>7, <1>8, <2>1 DEF Listing, Listed
    <2>2. CASE ~(pc = "write" /\ u = current)
      <3>1. Listing(u) = disk[u]
        BY <2>2 DEF Listing
      <3>2. disk[u] # Absent => Sound(disk[u])
        BY DEF DInv
      <3>3. QED
        BY <3>1, <3>2, SoundStarts DEF Listed
    <2>3. QED
      BY <2>1, <2>2
  <1>10. pc # "write" => \A u \in User : Listing(u) = disk[u]
    BY DEF Listing
  <1>11. QED
    BY <1>1, <1>2, <1>3, <1>4, <1>5, <1>6, <1>9, <1>10

\* Files stay in the store while listings are as they were, or are empty.
LEMMA StoredKept ==
    ASSUME DInv, cells \cup moved \subseteq cells' \cup moved',
           \A u \in User : Listed(u)' \in {Listed(u), <<>>, NewListing}
    PROVE  ListedStored'
  <1> SUFFICES ASSUME NEW u \in User, NEW p \in Folders(Listed(u)'), NEW f \in File \cap NamesIn(Listed(u)', p)
               PROVE  <<u, p, f>> \in cells' \cup moved'
    BY DEF ListedStored
  <1>1. CASE Listed(u)' = Listed(u)
    <2>1. <<u, p, f>> \in cells \cup moved
      BY <1>1 DEF DInv, ListedStored
    <2>2. QED
      BY <2>1
  <1>2. Folders(<<>>) = {} /\ \A q \in Folders(NewListing) : NamesIn(NewListing, q) = {}
    BY SoundStarts, SoundFacts
  <1>3. QED
    BY <1>1, <1>2

LEMMA DInit == Init => DInv
  <1> SUFFICES ASSUME Init PROVE DInv
    OBVIOUS
  <1>1. /\ disk = [u \in User |-> Absent] /\ cells = {} /\ moved = {} /\ listOfUsers = <<>> /\ count = 0
        /\ current = Absent /\ pc = "ready" /\ command = Absent /\ filecontents = <<>> /\ answer = Absent
        /\ received = 0 /\ starts = 0
    BY DEF Init
  <1>2. <<>> \in Seq(User) /\ <<>> \in Seq(Line)
    BY EmptyListing
  <1>3. 0 \in 0..MaxCommands /\ 0 \in 0..MaxStarts
    BY DriveAssumption
  <1>4. TypeOK
    BY <1>1, <1>2, <1>3 DEF TypeOK
  <1>5. \A u \in User : disk[u] = Absent /\ Listed(u) = <<>>
    BY <1>1 DEF Listed, Listing
  <1>6. Known /\ Serving
    BY <1>1 DEF Known, Serving
  <1>7. ListedStored
    BY <1>5, EmptyListing DEF ListedStored
  <1>8. QED
    BY <1>1, <1>4, <1>5, <1>6, <1>7, SoundStarts DEF DInv

\* The server finds, or makes, a listing for a user it did not know.
LEMMA SelectFacts ==
    ASSUME DInv, NEW u \in User, SelectUser(u)
    PROVE  /\ listOfUsers' \in Seq(User) /\ count' \in Nat /\ current' \in User
           /\ disk' \in [User -> Seq(Line) \cup {Absent}]
           /\ Known'
           /\ disk' = disk \/ (disk[u] = Absent /\ disk' = [disk EXCEPT ![u] = NewListing])
  <1> DEFINE D == {i \in DOMAIN listOfUsers : listOfUsers[i] # u}
             counted == count + Cardinality(D)
  <1>1. /\ disk \in [User -> Seq(Line) \cup {Absent}] /\ listOfUsers \in Seq(User) /\ count \in Nat
        /\ Len(listOfUsers) \in Nat /\ DOMAIN listOfUsers = 1..Len(listOfUsers)
        /\ \A i \in DOMAIN listOfUsers : listOfUsers[i] \in User
    BY DFacts DEF DInv, TypeOK
  <1>2. NewListing \in Seq(Line) /\ NewListing # Absent
    BY SoundStarts, DriveAssumption DEF Sound
  <1>3. Cardinality(D) \in Nat
    <2>1. IsFiniteSet(1..Len(listOfUsers))
      BY <1>1, FS_Interval
    <2>2. D \subseteq 1..Len(listOfUsers)
      BY <1>1
    <2>3. QED
      BY <2>1, <2>2, FS_Subset, FS_CardinalityType
  <1>4. listOfUsers = <<>> => counted = Len(listOfUsers)
    <2>1. SUFFICES ASSUME listOfUsers = <<>> PROVE counted = Len(listOfUsers)
      OBVIOUS
    <2>2. D = {} /\ count = 0 /\ Len(listOfUsers) = 0
      BY <2>1 DEF DInv, Known
    <2>3. QED
      BY <2>2, FS_EmptySet
  <1> HIDE DEF D
  <1>5. CASE counted = Len(listOfUsers)
    <2>1. /\ listOfUsers' = Append(listOfUsers, u) /\ count' = 0 /\ current' = u
          /\ disk' = [disk EXCEPT ![u] = IF disk[u] = Absent THEN NewListing ELSE disk[u]]
      BY <1>5 DEF SelectUser, D
    <2>2. disk' \in [User -> Seq(Line) \cup {Absent}]
      BY <1>1, <1>2, <2>1
    <2>3. disk' = disk \/ (disk[u] = Absent /\ disk' = [disk EXCEPT ![u] = NewListing])
      BY <1>1, <2>1
    <2>4. /\ listOfUsers' \in Seq(User) /\ listOfUsers' # <<>>
          /\ Len(listOfUsers') = Len(listOfUsers) + 1 /\ listOfUsers'[Len(listOfUsers) + 1] = u
          /\ \A i \in 1..Len(listOfUsers) : listOfUsers'[i] = listOfUsers[i]
      BY <1>1, <2>1, AppendProperties
    <2>5. DOMAIN listOfUsers' = 1..(Len(listOfUsers) + 1)
      BY <2>4
    <2>6. \A v \in User : disk[v] # Absent \/ v = u => disk'[v] # Absent
      BY <1>1, <1>2, <2>1
    <2>7. ASSUME NEW i \in DOMAIN listOfUsers'
          PROVE  disk'[listOfUsers'[i]] # Absent
      <3>1. CASE i = Len(listOfUsers) + 1
        BY <2>4, <2>6, <3>1
      <3>2. CASE i \in 1..Len(listOfUsers)
        <4>1. disk[listOfUsers[i]] # Absent /\ listOfUsers[i] \in User
          BY <1>1, <3>2 DEF DInv, Known
        <4>2. QED
          BY <2>4, <2>6, <3>2, <4>1
      <3>3. QED
        BY <1>1, <2>5, <3>1, <3>2
    <2>8. Len(listOfUsers) + 1 \in DOMAIN listOfUsers'
      BY <1>1, <2>5
    <2>9. Known'
      BY <2>1, <2>4, <2>7, <2>8 DEF Known
    <2>10. QED
      BY <2>1, <2>2, <2>3, <2>4, <2>9
  <1>6. CASE counted # Len(listOfUsers)
    <2>1. count' = counted /\ listOfUsers' = listOfUsers /\ current' = current /\ disk' = disk
      BY <1>6 DEF SelectUser, D
    <2>2. listOfUsers # <<>> /\ current \in User /\ counted \in Nat
      <3>1. listOfUsers # <<>>
        BY <1>4, <1>6
      <3>2. QED
        BY <1>1, <1>3, <3>1, DFacts
    <2>3. Known'
      BY <2>1, <2>2 DEF DInv, Known
    <2>4. QED
      BY <1>1, <2>1, <2>2, <2>3
  <1>7. QED
    BY <1>5, <1>6

LEMMA CommandsAre ==
    ASSUME NEW c \in Command, c.op \in ToSet(Commands)
    PROVE  /\ Handler(c.op) = "contents" => c.op = "Contents"
           /\ Handler(c.op) = "put" => c.op = "Upload"
           /\ Handler(c.op) = "get" => c.op = "Download"
           /\ Handler(c.op) = "edit" => c.op \in Edits \ {"Upload"}
           /\ Handler(c.op) \in {"contents", "put", "get", "edit"}
  <1>1. c.op # "MoveFolder"
    <2>1. \A i \in 1..7 : Commands[i] # "MoveFolder"
      BY DEF Commands
    <2>2. DOMAIN Commands = 1..7
      BY DEF Commands
    <2>3. QED
      BY <2>1, <2>2 DEF ToSet
  <1>2. c.op \in Edits \cup {"Contents", "Download"}
    BY <1>1, CommandFacts
  <1>3. QED
    BY <1>2 DEF Handler, Edits

LEMMA DReceive ==
    ASSUME DInv, NEW c \in Command, Receive(c)
    PROVE  DInv'
  <1>1. /\ pc = "ready" /\ command = Absent /\ filecontents = <<>> /\ received' = received + 1
        /\ SelectUser(c.user) /\ answer' = Absent
        /\ cells' = cells /\ filecontents' = filecontents /\ starts' = starts /\ moved' = moved
    BY DEF Receive, DInv, TypeOK
  <1>2. c.user \in User
    BY CommandFacts
  <1>3. /\ listOfUsers' \in Seq(User) /\ count' \in Nat /\ current' \in User
        /\ disk' \in [User -> Seq(Line) \cup {Absent}]
        /\ Known'
        /\ disk' = disk \/ (disk[c.user] = Absent /\ disk' = [disk EXCEPT ![c.user] = NewListing])
    BY <1>1, <1>2, SelectFacts
  <1>4. \/ c.op \in ToSet(Commands) /\ pc' = Handler(c.op) /\ command' = c
        \/ pc' \in {"off", "hung"} /\ command' = command
    BY DEF Receive
  <1>5. c # Absent /\ current' # Absent
    BY <1>3, DriveAssumption
  <1>6. /\ pc' \in {"contents", "put", "get", "edit", "off", "hung"}
        /\ command' \in Command \cup {Absent}
        /\ command' # Absent <=> pc' \in {"contents", "put", "get", "edit"}
    BY <1>1, <1>4, <1>5, CommandsAre
  <1>7. received' \in 0..MaxCommands
    BY <1>1, DriveAssumption DEF Receive, DInv, TypeOK
  <1>8. TypeOK'
    BY <1>1, <1>3, <1>5, <1>6, <1>7 DEF DInv, TypeOK
  <1>9. Serving'
    BY <1>1, <1>4, <1>6, CommandsAre DEF Serving, Edits
  <1>10. ASSUME NEW u \in User
         PROVE  /\ disk'[u] # Absent => Sound(disk'[u])
                /\ Listed(u)' \in {Listed(u), <<>>, NewListing}
    <2>1. disk'[u] = disk[u] \/ disk'[u] = NewListing
      BY <1>2, <1>3 DEF DInv, TypeOK
    <2>2. NewListing # Absent
      BY SoundStarts, DriveAssumption DEF Sound
    <2>3. Listing(u) = disk[u] /\ Listing(u)' = disk'[u]
      BY <1>1, <1>6 DEF Listing
    <2>4. disk'[u] # Absent => Sound(disk'[u])
      BY <2>1, SoundStarts DEF DInv
    <2>5. Listed(u)' \in {Listed(u), <<>>, NewListing}
      BY <2>1, <2>3 DEF Listed
    <2>6. QED
      BY <2>4, <2>5
  <1>11. ListedStored'
    BY <1>1, <1>10, StoredKept
  <1>12. Sound(filecontents')
    BY <1>1 DEF DInv
  <1>13. QED
    BY <1>3, <1>8, <1>9, <1>10, <1>11, <1>12 DEF DInv

LEMMA DQuiet ==
    ASSUME DInv, Disconnected \/ Contents \/ Put \/ Download \/ StoreFails
    PROVE  DInv'
  <1>1. /\ disk' = disk /\ listOfUsers' = listOfUsers /\ count' = count /\ current' = current
        /\ filecontents' = filecontents /\ received' = received /\ starts' = starts /\ moved' = moved
    BY DEF Disconnected, Contents, Put, Download, StoreFails, memVars
  <1>2. pc # "write" /\ pc' # "write"
    BY DEF Disconnected, Contents, Put, Download, StoreFails, Done
  <1>3. command # Absent => /\ current # Absent /\ command \in Command /\ current \in User
                            /\ command.op # "MoveFolder" => command.path \in Path
                            /\ command.op \in {"Upload", "Download"} => command.name \in File
    BY DFacts, CommandFacts DEF DInv, TypeOK
  <1>4. /\ cells' \subseteq User \X Path \X File /\ cells \subseteq cells'
    <2>1. cells \subseteq User \X Path \X File
      BY DEF DInv, TypeOK
    <2>2. CASE Disconnected \/ Contents \/ Download
      BY <2>1, <2>2 DEF Disconnected, Contents, Download
    <2>3. CASE Put \/ (StoreFails /\ pc = "put")
      <3>1. pc = "put" /\ cells' \in {cells, cells \cup {Key}}
        BY <2>3 DEF Put, StoreFails
      <3>2. command # Absent /\ command.op = "Upload"
        BY <3>1 DEF DInv, TypeOK, Serving
      <3>3. Key \in User \X Path \X File
        BY <1>3, <3>2 DEF Key
      <3>4. QED
        BY <2>1, <3>1, <3>3
    <2>4. CASE StoreFails /\ pc # "put"
      BY <2>1, <2>4 DEF StoreFails
    <2>5. QED
      BY <2>2, <2>3, <2>4
  <1>5. /\ command' \in Command \cup {Absent}
        /\ pc' \in {"ready", "edit", "hung", "off"}
        /\ command' # Absent <=> pc' = "edit"
        /\ pc' = "edit" => /\ pc = "put" /\ command' = command /\ Key \in cells'
                           /\ command.op = "Upload" /\ command # Absent
    <2>1. CASE Disconnected
      BY <2>1 DEF Disconnected, DInv, TypeOK
    <2>2. CASE Contents \/ Download
      BY <2>2 DEF Contents, Download, Done
    <2>3. CASE Put
      BY <2>3 DEF Put, DInv, TypeOK, Serving
    <2>4. CASE StoreFails
      BY <2>4 DEF StoreFails
    <2>5. QED
      BY <2>1, <2>2, <2>3, <2>4
  <1>6. answer' = Absent \/ answer' \in [user : User, path : Path, names : SUBSET Name]
    <2>1. CASE Contents
      <3>1. command # Absent /\ command.op = "Contents"
        BY <2>1 DEF Contents, DInv, TypeOK, Serving
      <3>2. command.path \in Path /\ current \in User
        BY <1>3, <3>1
      <3>3. Shown(disk[current], command.path) \subseteq Name
        BY DEF Shown
      <3>4. QED
        BY <2>1, <3>2, <3>3 DEF Contents
    <2>2. CASE ~Contents
      BY <2>2 DEF Disconnected, Put, Download, StoreFails, DInv, TypeOK
    <2>3. QED
      BY <2>1, <2>2
  <1>7. TypeOK'
    BY <1>1, <1>2, <1>3, <1>4, <1>5, <1>6 DEF DInv, TypeOK
  <1>8. Serving'
    BY <1>1, <1>2, <1>5 DEF Serving, Key
  <1>9. ListedStored'
    <2>1. \A u \in User : Listed(u)' = Listed(u)
      BY <1>1, <1>2 DEF Listed, Listing
    <2>2. QED
      BY <1>1, <1>4, <2>1, StoredKept
  <1>10. QED
    BY <1>1, <1>7, <1>8, <1>9 DEF DInv, Known

LEMMA DTruncate ==
    ASSUME DInv, Truncate
    PROVE  DInv'
  <1>1. /\ pc = "edit" /\ pc' = "write" /\ filecontents' = disk[current]
        /\ disk' = [disk EXCEPT ![current] = <<>>]
        /\ cells' = cells /\ listOfUsers' = listOfUsers /\ count' = count /\ current' = current
        /\ command' = command /\ answer' = answer /\ received' = received /\ starts' = starts /\ moved' = moved
    BY DEF Truncate, memVars
  <1>2. current \in User /\ disk[current] \in Seq(Line) /\ Sound(disk[current]) /\ command # Absent
    BY <1>1, DFacts DEF DInv, TypeOK
  <1>3. <<>> \in Seq(Line) /\ <<>> # Absent
    BY EmptyListing, DriveAssumption
  <1>4. disk' \in [User -> Seq(Line) \cup {Absent}] /\ disk'[current] = <<>>
        /\ \A u \in User : u # current => disk'[u] = disk[u]
    BY <1>1, <1>2, <1>3 DEF DInv, TypeOK
  <1>5. TypeOK'
    BY <1>1, <1>2, <1>4 DEF DInv, TypeOK
  <1>6. Known'
    <2>1. \A u \in User : disk[u] # Absent => disk'[u] # Absent
      BY <1>3, <1>4
    <2>2. QED
      BY <1>1, <2>1, DFacts DEF DInv, Known
  <1>7. Serving'
    BY <1>1, <1>4 DEF DInv, Serving, Key
  <1>8. ListedStored'
    <2>1. \A u \in User : Listed(u)' = Listed(u)
      BY <1>1, <1>2, <1>4 DEF Listed, Listing
    <2>2. QED
      BY <1>1, <2>1, StoredKept
  <1>9. \A u \in User : disk'[u] # Absent => Sound(disk'[u])
    BY <1>4, SoundStarts DEF DInv
  <1>10. Sound(filecontents')
    BY <1>1, <1>2
  <1>11. QED
    BY <1>5, <1>6, <1>7, <1>8, <1>9, <1>10 DEF DInv

\* What is written is the edit of what was read.
LEMMA WriteFacts ==
    ASSUME DInv, Write
    PROVE  /\ pc = "write" /\ pc' = "ready" /\ command' = Absent
           /\ current \in User /\ command \in Command /\ command.op \in Edits
           /\ Sound(filecontents) /\ disk[current] = <<>>
           /\ disk' \in [User -> Seq(Line) \cup {Absent}]
           /\ disk'[current] = Edited(filecontents, command)
           /\ \A u \in User : u # current => disk'[u] = disk[u]
           /\ Sound(disk'[current]) /\ disk'[current] \in Seq(Line) /\ disk'[current] # Absent
  <1>1. /\ pc = "write" /\ pc' = "ready" /\ command' = Absent
        /\ disk' = [disk EXCEPT ![current] = Edited(filecontents, command)]
    BY DEF Write, Done
  <1>2. command # Absent /\ command.op \in Edits /\ disk[current] = <<>>
    BY <1>1 DEF DInv, TypeOK, Serving, Edits
  <1>3. current \in User /\ command \in Command /\ Sound(filecontents)
    BY <1>2, DFacts DEF DInv
  <1>4. Sound(Edited(filecontents, command))
    BY <1>2, <1>3, EditKeeps
  <1>5. Edited(filecontents, command) \in Seq(Line)
    BY <1>4 DEF Sound
  <1>6. disk \in [User -> Seq(Line) \cup {Absent}]
    BY DEF DInv, TypeOK
  <1>7. /\ disk' \in [User -> Seq(Line) \cup {Absent}]
        /\ disk'[current] = Edited(filecontents, command)
        /\ \A u \in User : u # current => disk'[u] = disk[u]
    BY <1>1, <1>3, <1>5, <1>6
  <1>8. QED
    BY <1>1, <1>2, <1>3, <1>4, <1>5, <1>7, DriveAssumption

LEMMA DWrite ==
    ASSUME DInv, Write
    PROVE  DInv'
  <1>1. /\ cells' = cells /\ listOfUsers' = listOfUsers /\ count' = count /\ current' = current
        /\ filecontents' = <<>> /\ answer' = answer /\ received' = received /\ starts' = starts
        /\ moved' = CASE command.op = "MoveFile" -> moved \cup {<<current, command.newpath, command.name>>}
                      [] command.op = "Upload"   -> moved \ {Key}
                      [] OTHER                   -> moved
    BY DEF Write, memVars
  <1>2. /\ command.op = "MoveFile" => command.newpath \in Path /\ command.name \in File
        /\ command.op = "Upload" => command.path \in Path /\ command.name \in File /\ Key \in cells
    BY WriteFacts, CommandFacts DEF DInv, Serving
  <1>3. moved' \subseteq User \X Path \X File
    <2>1. moved \subseteq User \X Path \X File
      BY DEF DInv, TypeOK
    <2>2. CASE command.op = "MoveFile"
      <3>1. moved' = moved \cup {<<current, command.newpath, command.name>>}
        BY <1>1, <2>2
      <3>2. <<current, command.newpath, command.name>> \in User \X Path \X File
        BY <1>2, <2>2, WriteFacts
      <3>3. QED
        BY <2>1, <3>1, <3>2
    <2>3. CASE command.op # "MoveFile"
      BY <1>1, <2>1, <2>3
    <2>4. QED
      BY <2>2, <2>3
  <1>4. TypeOK'
    BY <1>1, <1>3, WriteFacts, EmptyListing DEF DInv, TypeOK
  <1>5. Known'
    <2>1. \A u \in User : disk[u] # Absent => disk'[u] # Absent
      BY WriteFacts
    <2>2. QED
      BY <1>1, <2>1, DFacts DEF DInv, Known
  <1>6. Serving'
    BY WriteFacts DEF Serving
  <1>7. cells \cup moved \subseteq cells' \cup moved'
    BY <1>1, <1>2
  <1>8. ListedStored'
    <2> SUFFICES ASSUME NEW u \in User, NEW p \in Folders(Listed(u)'), NEW f \in File \cap NamesIn(Listed(u)', p)
                 PROVE  <<u, p, f>> \in cells' \cup moved'
      BY DEF ListedStored
    <2>1. CASE u # current
      <3>1. Listed(u)' = Listed(u)
        BY <2>1, WriteFacts DEF Listed, Listing
      <3>2. <<u, p, f>> \in cells \cup moved
        BY <3>1 DEF DInv, ListedStored
      <3>3. QED
        BY <1>7, <3>2
    <2>2. CASE u = current
      <3>1. Listed(u)' = Edited(filecontents, command)
        BY <1>1, <2>2, WriteFacts DEF Listed, Listing
      <3>2. Listed(u) = filecontents
        <4>1. filecontents # Absent
          BY DriveAssumption DEF DInv, TypeOK
        <4>2. QED
          BY <2>2, <4>1, WriteFacts DEF Listed, Listing
      <3>3. \/ p \in Folders(filecontents) /\ f \in NamesIn(filecontents, p)
            \/ command.op = "Upload" /\ p = command.path /\ f = command.name
            \/ command.op = "MoveFile" /\ p = command.newpath /\ f = command.name
        BY <3>1, WriteFacts, EditKeeps
      <3>4. CASE p \in Folders(filecontents) /\ f \in NamesIn(filecontents, p)
        <4>1. <<u, p, f>> \in cells \cup moved
          BY <3>2, <3>4 DEF DInv, ListedStored
        <4>2. QED
          BY <1>7, <4>1
      <3>5. CASE command.op = "Upload" /\ p = command.path /\ f = command.name
        BY <1>1, <1>2, <2>2, <3>5 DEF Key
      <3>6. CASE command.op = "MoveFile" /\ p = command.newpath /\ f = command.name
        BY <1>1, <2>2, <3>6
      <3>7. QED
        BY <3>3, <3>4, <3>5, <3>6
    <2>3. QED
      BY <2>1, <2>2
  <1>9. \A u \in User : disk'[u] # Absent => Sound(disk'[u])
    BY WriteFacts DEF DInv
  <1>10. QED
    BY <1>1, <1>4, <1>5, <1>6, <1>8, <1>9, SoundStarts DEF DInv

\* A server that is killed leaves a listing that it was writing empty; one that
\* is interrupted may empty all it knows.
LEMMA DDies ==
    ASSUME DInv, Crash \/ \E n \in 1..Len(listOfUsers) : Interrupt(n)
    PROVE  DInv'
  <1>1. /\ pc' = "off" /\ command' = Absent /\ filecontents' = <<>>
        /\ cells' = cells /\ listOfUsers' = listOfUsers /\ count' = count /\ current' = current
        /\ answer' = answer /\ received' = received /\ starts' = starts /\ moved' = moved
    BY DEF Crash, Interrupt, Dies, memVars
  <1>2. /\ disk' \in [User -> Seq(Line) \cup {Absent}]
        /\ \A u \in User : disk'[u] \in {disk[u], <<>>}
    <2>1. CASE Crash
      BY <2>1 DEF Crash, memVars, DInv, TypeOK
    <2>2. CASE \E n \in 1..Len(listOfUsers) : Interrupt(n)
      <3>1. PICK n : disk' = [u \in User |-> IF \E i \in 1..n : listOfUsers[i] = u THEN <<>> ELSE disk[u]]
        BY <2>2 DEF Interrupt
      <3>2. <<>> \in Seq(Line) /\ disk \in [User -> Seq(Line) \cup {Absent}]
        BY EmptyListing DEF DInv, TypeOK
      <3>3. QED
        BY <3>1, <3>2
    <2>3. QED
      BY <2>1, <2>2
  <1>3. <<>> # Absent /\ <<>> \in Seq(Line)
    BY EmptyListing, DriveAssumption
  <1>4. TypeOK'
    BY <1>1, <1>2, <1>3 DEF DInv, TypeOK
  <1>5. Known'
    <2>1. \A u \in User : disk[u] # Absent => disk'[u] # Absent
      BY <1>2, <1>3
    <2>2. QED
      BY <1>1, <2>1, DFacts DEF DInv, Known
  <1>6. Serving'
    BY <1>1 DEF Serving
  <1>7. ASSUME NEW u \in User
        PROVE  Listed(u)' \in {Listed(u), <<>>, NewListing}
    <2>1. Listing(u)' = disk'[u]
      BY <1>1 DEF Listing
    <2>2. disk[u] = <<>> \/ Listing(u) = disk[u]
      BY DEF Listing, DInv, Serving
    <2>3. QED
      BY <1>2, <1>3, <2>1, <2>2 DEF Listed
  <1>8. ListedStored'
    BY <1>1, <1>7, StoredKept
  <1>9. \A u \in User : disk'[u] # Absent => Sound(disk'[u])
    BY <1>2, SoundStarts DEF DInv
  <1>10. QED
    BY <1>1, <1>4, <1>5, <1>6, <1>8, <1>9, SoundStarts DEF DInv

LEMMA DStart ==
    ASSUME DInv, Start
    PROVE  DInv'
  <1>1. /\ pc = "off" /\ pc' = "ready" /\ starts' = starts + 1 /\ starts < MaxStarts
        /\ listOfUsers' = <<>> /\ count' = 0 /\ current' = Absent
        /\ disk' = disk /\ cells' = cells /\ command' = command /\ filecontents' = filecontents
        /\ answer' = answer /\ received' = received /\ moved' = moved
    BY DEF Start
  <1>2. command = Absent
    BY <1>1 DEF DInv, TypeOK
  <1>3. <<>> \in Seq(User) /\ starts' \in 0..MaxStarts
    BY <1>1, DriveAssumption DEF DInv, TypeOK
  <1>4. TypeOK'
    BY <1>1, <1>2, <1>3 DEF DInv, TypeOK
  <1>5. Known' /\ Serving'
    BY <1>1 DEF Known, Serving
  <1>6. ListedStored'
    <2>1. \A u \in User : Listed(u)' = Listed(u)
      BY <1>1 DEF Listed, Listing
    <2>2. QED
      BY <1>1, <2>1, StoredKept
  <1>7. QED
    BY <1>1, <1>4, <1>5, <1>6 DEF DInv

LEMMA DStutter ==
    ASSUME DInv, UNCHANGED vars
    PROVE  DInv'
  BY DEF vars, memVars, DInv, TypeOK, Known, Serving, ListedStored, Listed, Listing, Key

LEMMA DStep == DInv /\ [Next]_vars => DInv'
  <1> SUFFICES ASSUME DInv, [Next]_vars PROVE DInv'
    OBVIOUS
  <1>1. ASSUME NEW c \in Request, Receive(c) PROVE DInv'
    BY <1>1, RequestAssumption, DReceive
  <1>2. CASE Disconnected \/ Contents \/ Put \/ Download \/ StoreFails
    BY <1>2, DQuiet
  <1>3. CASE Truncate
    BY <1>3, DTruncate
  <1>4. CASE Write
    BY <1>4, DWrite
  <1>5. CASE Crash \/ \E n \in 1..Len(listOfUsers) : Interrupt(n)
    BY <1>5, DDies
  <1>6. CASE Start
    BY <1>6, DStart
  <1>7. CASE UNCHANGED vars
    BY <1>7, DStutter
  <1>8. QED
    BY <1>1, <1>2, <1>3, <1>4, <1>5, <1>6, <1>7 DEF Next

LEMMA DriveInvariant == Spec => []DInv
  BY DInit, DStep, PTL DEF Spec

-----------------------------------------------------------------------------
\* The variables keep their types; in particular a command is being carried out
\* only for a current user, and only a handler that writes holds lines.
THEOREM DriveTypeCorrect == Spec => []TypeOK
  <1>1. DInv => TypeOK
    BY DEF DInv
  <1>2. QED
    BY <1>1, DriveInvariant, PTL

\* However commands, crashes and interrupts follow each other, the sections of
\* every listing are apart and ended, and every folder it names can be opened.
THEOREM FoldersOpen == Spec => []Openable
  <1>1. ASSUME DInv
        PROVE  Openable
    BY <1>1, DFacts DEF Openable, Sound, Entered
  <1>2. DInv => Openable
    BY <1>1
  <1>3. QED
    BY <1>2, DriveInvariant, PTL

\* Every file in a listing is in the store, unless a move has written its entry.
THEOREM FilesStored == Spec => []ListedStored
  <1>1. DInv => ListedStored
    BY DEF DInv
  <1>2. QED
    BY <1>1, DriveInvariant, PTL

-----------------------------------------------------------------------------
(* Listings keep trees: every step of the server is one of the abstract    *)
(* drive, or changes nothing of it.                                        *)

TreeOf(u) == IF Listing(u) = Absent THEN Absent ELSE Tree(Listing(u))
Trees == [u \in User |-> TreeOf(u)]
Asked == IF command = Absent THEN Absent ELSE [command EXCEPT !.user = current]

\* The command of the current user is a command like the one that was read.
LEMMA AskedFacts ==
    ASSUME NEW c \in Command, NEW v \in User
    PROVE  LET r == [c EXCEPT !.user = v]
           IN  /\ r \in Command /\ r # Absent /\ r.user = v /\ r.op = c.op
               /\ c.op \in Edits \cup {"Contents"} => r.path = c.path
               /\ c.op \in Edits => r.name = c.name
               /\ c.op = "MoveFile" => r.newpath = c.newpath
  <1> DEFINE r == [c EXCEPT !.user = v]
  <1>1. /\ r \in Command /\ r.user = v /\ r.op = c.op
        /\ c.op \in Edits \cup {"Contents"} => r.path = c.path
        /\ c.op \in Edits => r.name = c.name
        /\ c.op = "MoveFile" => r.newpath = c.newpath
    <2>1. CASE c \in [op : {"Contents"}, user : User, path : Path]
      <3>1. r \in [op : {"Contents"}, user : User, path : Path] /\ r.user = v /\ r.op = c.op /\ r.path = c.path
        BY <2>1
      <3>2. QED
        BY <2>1, <3>1 DEF Command, Edits
    <2>2. CASE c \in [op : {"Upload", "Download", "DeleteFile"}, user : User, path : Path, name : File]
      <3>1. /\ r \in [op : {"Upload", "Download", "DeleteFile"}, user : User, path : Path, name : File]
            /\ r.user = v /\ r.op = c.op /\ r.path = c.path /\ r.name = c.name
        BY <2>2
      <3>2. QED
        BY <2>2, <3>1 DEF Command
    <2>3. CASE c \in [op : {"MoveFile"}, user : User, path : Path, newpath : Path, name : File]
      <3>1. /\ r \in [op : {"MoveFile"}, user : User, path : Path, newpath : Path, name : File]
            /\ r.user = v /\ r.op = c.op /\ r.path = c.path /\ r.name = c.name /\ r.newpath = c.newpath
        BY <2>3
      <3>2. QED
        BY <2>3, <3>1 DEF Command
    <2>4. CASE c \in [op : {"AddFolder", "DeleteFolder"}, user : User, name : Folder,
                      path : {p \in Path : Len(p) < MaxDepth}]
      <3>1. /\ r \in [op : {"AddFolder", "DeleteFolder"}, user : User, name : Folder,
                      path : {p \in Path : Len(p) < MaxDepth}]
            /\ r.user = v /\ r.op = c.op /\ r.path = c.path /\ r.name = c.name
        BY <2>4
      <3>2. QED
        BY <2>4, <3>1 DEF Command
    <2>5. CASE c \in [op : {"MoveFolder"}, user : User]
      <3>1. r \in [op : {"MoveFolder"}, user : User] /\ r.user = v /\ r.op = c.op
        BY <2>5
      <3>2. QED
        BY <2>5, <3>1 DEF Command, Edits
    <2>6. QED
      BY <2>1, <2>2, <2>3, <2>4, <2>5 DEF Command
  <1> HIDE DEF r
  <1>2. r # Absent
    BY <1>1, DriveAssumption
  <1>3. QED
    BY <1>1, <1>2 DEF r

LEMMA TreeType ==
    ASSUME NEW s, Sound(s)
    PROVE  Tree(s) # Absent
  <1>1. Folders(s) \subseteq Path /\ \A p \in Folders(s) : NamesIn(s, p) \in SUBSET Name
    BY SoundFacts
  <1>2. Tree(s) \in [Folders(s) -> SUBSET Name]
    BY <1>1 DEF Tree
  <1>3. QED
    BY <1>1, <1>2, DriveAssumption

LEMMA TreeFacts ==
    ASSUME DInv
    PROVE  /\ Trees = [u \in User |-> Trees[u]] /\ DOMAIN Trees = User
           /\ \A u \in User : Trees[u] = IF disk[u] = Absent THEN Absent ELSE Tree(Listing(u))
           /\ \A u \in User : Trees[u] = Absent <=> disk[u] = Absent
  <1>1. Trees = [u \in User |-> Trees[u]] /\ DOMAIN Trees = User
    BY DEF Trees
  <1>2. ASSUME NEW u \in User
        PROVE  /\ Trees[u] = IF disk[u] = Absent THEN Absent ELSE Tree(Listing(u))
               /\ Trees[u] = Absent <=> disk[u] = Absent
    <2>1. (Listing(u) = Absent <=> disk[u] = Absent) /\ (Listing(u) # Absent => Sound(Listing(u)))
      BY DFacts DEF Listed
    <2>2. Trees[u] = IF Listing(u) = Absent THEN Absent ELSE Tree(Listing(u))
      BY DEF Trees, TreeOf
    <2>3. Listing(u) # Absent => Tree(Listing(u)) # Absent
      BY <2>1, TreeType
    <2>4. QED
      BY <2>1, <2>2, <2>3
  <1>3. QED
    BY <1>1, <1>2

LEMMA TreesStay ==
    ASSUME \A u \in User : Listing(u)' = Listing(u)
    PROVE  Trees' = Trees
  BY DEF Trees, TreeOf

\* A command that comes in is a request; the first of a user gives him a tree.
LEMMA ReceiveAsks ==
    ASSUME DInv, NEW c \in Command, Receive(c)
    PROVE  /\ Asked = Absent /\ answer' = Absent
           /\ Trees' = Trees \/ \E u \in User : Trees[u] = Absent /\ Trees' = [Trees EXCEPT ![u] = TreeImpl!NewTree]
           /\ Asked' # Absent => Trees'[Asked'.user] # Absent
  <1>1. /\ pc = "ready" /\ command = Absent /\ answer' = Absent /\ SelectUser(c.user) /\ c.user \in User
    BY CommandFacts DEF Receive, DInv, TypeOK
  <1>2. \/ command' = c
        \/ command' = Absent
    BY <1>1 DEF Receive
  <1>3. DInv'
    BY DReceive
  <1>4. disk' = disk \/ (disk[c.user] = Absent /\ disk' = [disk EXCEPT ![c.user] = NewListing])
    BY <1>1, SelectFacts
  <1>5. pc' # "write"
    BY <1>1 DEF Receive, Handler
  <1>6. \A u \in User : Listing(u) = disk[u] /\ Listing(u)' = disk'[u]
    BY <1>1, <1>5 DEF Listing
  <1>7. ASSUME disk' = disk
        PROVE  Trees' = Trees
    BY <1>6, <1>7, TreesStay
  <1>8. ASSUME disk[c.user] = Absent, disk' = [disk EXCEPT ![c.user] = NewListing]
        PROVE  \E u \in User : Trees[u] = Absent /\ Trees' = [Trees EXCEPT ![u] = TreeImpl!NewTree]
    <2>1. /\ Trees[c.user] = Absent
          /\ Trees = [u \in User |-> Trees[u]]
      BY <1>1, <1>8, TreeFacts
    <2>2. NewListing # Absent
      BY SoundStarts, DriveAssumption DEF Sound
    <2>3. disk'[c.user] = NewListing /\ \A u \in User : u # c.user => disk'[u] = disk[u]
      BY <1>1, <1>8 DEF DInv, TypeOK
    <2>4. Trees' = [u \in User |-> IF disk'[u] = Absent THEN Absent ELSE Tree(disk'[u])]
      BY <1>6 DEF Trees, TreeOf
    <2>5. \A u \in User : Trees[u] = IF disk[u] = Absent THEN Absent ELSE Tree(disk[u])
      BY <1>6, TreeFacts
    <2>6. \A u \in User : Trees'[u] = IF u = c.user THEN TreeImpl!NewTree ELSE Trees[u]
      BY <2>2, <2>3, <2>4, <2>5, SoundStarts
    <2>7. Trees' = [u \in User |-> Trees'[u]]
      BY <2>4
    <2>8. Trees' = [Trees EXCEPT ![c.user] = TreeImpl!NewTree]
      <3> DEFINE T == Trees
                 U == Trees'
                 N == TreeImpl!NewTree
      <3>1. /\ T = [u \in User |-> T[u]] /\ U = [u \in User |-> U[u]]
            /\ \A u \in User : U[u] = IF u = c.user THEN N ELSE T[u]
        BY <2>1, <2>6, <2>7
      <3> HIDE DEF T, U, N
      <3>2. U = [T EXCEPT ![c.user] = N]
        BY <1>1, <3>1
      <3>3. QED
        BY <3>2 DEF T, U, N
    <2>9. QED
      BY <1>1, <2>1, <2>8
  <1>9. ASSUME Asked' # Absent
        PROVE  Trees'[Asked'.user] # Absent
    <2>1. command' = c /\ command' # Absent
      BY <1>2, <1>9 DEF Asked
    <2>2. current' \in User
      BY <1>1, SelectFacts
    <2>3. Asked'.user = current'
      BY <2>1, <2>2, AskedFacts DEF Asked
    <2>4. disk'[current'] # Absent
      <3>1. current' # Absent
        BY <2>2, DriveAssumption
      <3>2. PICK i \in DOMAIN listOfUsers' : listOfUsers'[i] = current'
        BY <1>3, <3>1 DEF DInv, Known
      <3>3. QED
        BY <1>3, <3>2 DEF DInv, Known
    <2>5. Trees'[current'] # Absent
      <3>1. disk'[current'] \in Seq(Line) /\ Sound(disk'[current'])
        BY <1>3, <2>2, <2>4 DEF DInv, TypeOK
      <3>2. Trees'[current'] = Tree(disk'[current'])
        BY <1>6, <2>2, <2>4 DEF Trees, TreeOf
      <3>3. QED
        BY <3>1, <3>2, TreeType
    <2>6. QED
      BY <2>3, <2>5
  <1>10. QED
    BY <1>1, <1>4, <1>7, <1>8, <1>9 DEF Asked

\* Asking for what is in a folder, or for a file, serves the request at once, ...
LEMMA ReadsServe ==
    ASSUME DInv, Contents \/ Download
    PROVE  /\ Asked # Absent /\ Asked' = Absent
           /\ Trees' = [Trees EXCEPT ![Asked.user] = TreeImpl!Edited(Trees[Asked.user], Asked)]
           /\ answer' = IF Asked.op # "Contents" THEN answer
                        ELSE [user |-> Asked.user, path |-> Asked.path,
                              names |-> TreeImpl!Names(Trees[Asked.user], Asked.path)]
  <1>1. /\ pc \in {"contents", "get"} /\ pc' = "ready" /\ command' = Absent /\ disk' = disk
        /\ Contents <=> pc = "contents"
        /\ Contents => answer' = [user |-> current, path |-> command.path,
                                  names |-> Shown(disk[current], command.path)]
        /\ Download => answer' = answer
    BY DEF Contents, Download, Done
  <1>2. /\ command # Absent /\ command \in Command /\ current \in User /\ current # Absent
        /\ command.op = IF Contents THEN "Contents" ELSE "Download"
        /\ command.path \in Path
    <2>1. command # Absent /\ current # Absent
      BY <1>1 DEF DInv, TypeOK
    <2>2. command.op = IF Contents THEN "Contents" ELSE "Download"
      BY <1>1 DEF DInv, Serving
    <2>3. command \in Command /\ current \in User
      BY <2>1, DFacts
    <2>4. QED
      BY <2>1, <2>2, <2>3, CommandFacts
  <1>3. /\ Asked # Absent /\ Asked.user = current /\ Asked.op = command.op
        /\ Contents => Asked.path = command.path
    BY <1>2, AskedFacts DEF Asked
  <1>4. Asked' = Absent
    BY <1>1 DEF Asked
  <1>5. Trees' = Trees
    BY <1>1, TreesStay DEF Listing
  <1>6. TreeImpl!Edited(Trees[current], Asked) = Trees[current]
    BY <1>2, <1>3 DEF TreeImpl!Edited
  <1>7. Trees = [Trees EXCEPT ![current] = Trees[current]]
    <2> DEFINE T == Trees
    <2>1. T = [u \in User |-> T[u]]
      BY TreeFacts
    <2> HIDE DEF T
    <2>2. T = [T EXCEPT ![current] = T[current]]
      BY <2>1
    <2>3. QED
      BY <2>2 DEF T
  <1>8. ASSUME Contents
        PROVE  Shown(disk[current], command.path) = TreeImpl!Names(Trees[current], command.path)
    <2>1. Sound(disk[current]) /\ disk[current] # Absent /\ Listing(current) = disk[current]
      BY <1>1, <1>2, DFacts
    <2>2. Trees[current] = Tree(disk[current])
      BY <1>2, <2>1, TreeFacts
    <2>3. /\ Shown(disk[current], command.path) = NamesIn(disk[current], command.path)
          /\ command.path \notin Folders(disk[current]) => NamesIn(disk[current], command.path) = {}
      BY <1>2, <2>1, SoundFacts, Contained
    <2>4. QED
      BY <2>2, <2>3 DEF TreeImpl!Names, Tree
  <1>9. answer' = IF Asked.op # "Contents" THEN answer
                  ELSE [user |-> Asked.user, path |-> Asked.path,
                        names |-> TreeImpl!Names(Trees[Asked.user], Asked.path)]
    BY <1>1, <1>2, <1>3, <1>8
  <1>10. QED
    BY <1>3, <1>4, <1>5, <1>6, <1>7, <1>9

\* ... and a listing that is written is the edited tree.
LEMMA WriteServes ==
    ASSUME DInv, Write
    PROVE  /\ Asked # Absent /\ Asked' = Absent
           /\ Trees' = [Trees EXCEPT ![Asked.user] = TreeImpl!Edited(Trees[Asked.user], Asked)]
           /\ answer' = answer /\ Asked.op # "Contents"
  <1>1. /\ pc = "write" /\ pc' = "ready" /\ command' = Absent /\ answer' = answer
        /\ current \in User /\ command \in Command /\ command.op \in Edits
        /\ Sound(filecontents) /\ disk[current] = <<>> /\ command # Absent /\ <<>> # Absent
        /\ filecontents # Absent
    BY WriteFacts, DriveAssumption, EmptyListing DEF Write, DInv, TypeOK
  <1>2. /\ Asked \in Command /\ Asked # Absent /\ Asked.user = current /\ Asked.op = command.op
        /\ Asked.path = command.path /\ Asked.name = command.name
        /\ command.op = "MoveFile" => Asked.newpath = command.newpath
    BY <1>1, AskedFacts DEF Asked
  <1>3. Asked' = Absent
    BY <1>1 DEF Asked
  <1>4. Trees[current] = Tree(filecontents)
    <2>1. Listing(current) = filecontents /\ disk[current] # Absent
      BY <1>1 DEF Listing
    <2>2. QED
      BY <1>1, <2>1, TreeFacts
  <1>5. Tree(disk'[current]) = TreeImpl!Edited(Tree(filecontents), Asked)
    <2>1. Tree(disk'[current]) = TreeImpl!Edited(Tree(filecontents), command)
      BY <1>1, WriteFacts, EditKeeps
    <2>2. Edited(filecontents, Asked) = Edited(filecontents, command)
      BY <1>1, <1>2 DEF Edited, Edits
    <2>3. Tree(Edited(filecontents, Asked)) = TreeImpl!Edited(Tree(filecontents), Asked)
      BY <1>1, <1>2, EditKeeps
    <2>4. QED
      BY <2>2, <2>3, WriteFacts
  <1>6. \A u \in User : Trees'[u] = IF u = current THEN TreeImpl!Edited(Trees[u], Asked) ELSE Trees[u]
    <2>1. \A u \in User : Trees'[u] = IF disk'[u] = Absent THEN Absent ELSE Tree(disk'[u])
      BY <1>1 DEF Trees, TreeOf, Listing
    <2>2. \A u \in User : u # current => /\ disk'[u] = disk[u] /\ Listing(u) = disk[u]
                                         /\ Trees[u] = IF disk[u] = Absent THEN Absent ELSE Tree(disk[u])
      BY WriteFacts, TreeFacts DEF Listing
    <2>3. disk'[current] # Absent
      BY WriteFacts
    <2>4. QED
      BY <1>1, <1>4, <1>5, <2>1, <2>2, <2>3
  <1>7. Trees' = [Trees EXCEPT ![current] = TreeImpl!Edited(Trees[current], Asked)]
    <2> DEFINE T == Trees
               U == Trees'
               N == TreeImpl!Edited(Trees[current], Asked)
    <2>1. /\ T = [u \in User |-> T[u]] /\ U = [u \in User |-> U[u]]
          /\ \A u \in User : U[u] = IF u = current THEN N ELSE T[u]
      <3>1. T = [u \in User |-> T[u]] /\ U = [u \in User |-> U[u]]
        BY DEF Trees
      <3>2. QED
        BY <1>6, <3>1
    <2> HIDE DEF T, U, N
    <2>2. U = [T EXCEPT ![current] = N]
      BY <1>1, <2>1
    <2>3. QED
      BY <2>2 DEF T, U, N
  <1>8. Asked.op # "Contents"
    BY <1>1, <1>2 DEF Edits
  <1>9. QED
    BY <1>1, <1>2, <1>3, <1>7, <1>8

\* A server that fails gives up its request, and may have emptied trees.
LEMMA FailsFail ==
    ASSUME DInv, StoreFails \/ Crash \/ \E n \in 1..Len(listOfUsers) : Interrupt(n)
    PROVE  /\ Asked' = Absent /\ answer' = answer /\ DOMAIN Trees' = User
           /\ \A u \in User : Trees'[u] \in {Trees[u], TreeImpl!EmptyTree}
  <1>1. command' = Absent /\ answer' = answer /\ pc' # "write"
    BY DEF StoreFails, Crash, Interrupt, Dies
  <1>2. \A u \in User : disk'[u] \in {disk[u], <<>>}
    <2>1. CASE StoreFails \/ Crash
      BY <2>1 DEF StoreFails, Crash
    <2>2. CASE \E n \in 1..Len(listOfUsers) : Interrupt(n)
      BY <2>2 DEF Interrupt
    <2>3. QED
      BY <2>1, <2>2
  <1>3. ASSUME NEW u \in User
        PROVE  Trees'[u] \in {Trees[u], TreeImpl!EmptyTree}
    <2>1. <<>> # Absent
      BY DriveAssumption, EmptyListing
    <2>2. Trees'[u] = IF disk'[u] = Absent THEN Absent ELSE Tree(disk'[u])
      BY <1>1 DEF Trees, TreeOf, Listing
    <2>3. disk[u] = <<>> \/ Listing(u) = disk[u]
      BY DEF Listing, DInv, Serving
    <2>4. Trees[u] = IF disk[u] = Absent THEN Absent ELSE Tree(Listing(u))
      BY TreeFacts
    <2>5. Tree(<<>>) = TreeImpl!EmptyTree
      BY SoundStarts
    <2>6. QED
      BY <1>2, <2>1, <2>2, <2>3, <2>4, <2>5
  <1>4. DOMAIN Trees' = User
    BY DEF Trees
  <1>5. QED
    BY <1>1, <1>3, <1>4 DEF Asked

\* Of the other steps nothing is seen.
LEMMA OthersStay ==
    ASSUME DInv, Disconnected \/ Put \/ Truncate \/ Start \/ UNCHANGED vars
    PROVE  Trees' = Trees /\ Asked' = Asked /\ answer' = answer
  <1>1. command' = command /\ answer' = answer /\ (command # Absent => current' = current)
    BY DEF Disconnected, Put, Truncate, Start, vars, memVars, DInv, TypeOK
  <1>2. Asked' = Asked
    BY <1>1 DEF Asked
  <1>3. \A u \in User : Listing(u)' = Listing(u)
    <2>1. CASE Truncate
      <3>1. /\ pc = "edit" /\ pc' = "write" /\ filecontents' = disk[current] /\ current' = current
            /\ disk' = [disk EXCEPT ![current] = <<>>]
        BY <2>1 DEF Truncate, memVars
      <3>2. current \in User
        BY <3>1, DFacts DEF DInv, TypeOK
      <3>3. \A u \in User : u # current => disk'[u] = disk[u]
        BY <3>1 DEF DInv, TypeOK
      <3>4. QED
        BY <3>1, <3>3 DEF Listing
    <2>2. CASE Disconnected \/ Put \/ Start
      <3>1. disk' = disk /\ pc # "write" /\ pc' # "write"
        BY <2>2 DEF Disconnected, Put, Start
      <3>2. QED
        BY <3>1 DEF Listing
    <2>3. CASE UNCHANGED vars
      BY <2>3 DEF vars, memVars, Listing
    <2>4. QED
      BY <2>1, <2>2, <2>3
  <1>4. QED
    BY <1>1, <1>2, <1>3, TreesStay

\* The server starts without trees, and every step is one of the abstract drive.
LEMMA TreesStart == Init => TreeImpl!Init
  <1> SUFFICES ASSUME Init PROVE TreeImpl!Init
    OBVIOUS
  <1>1. command = Absent /\ answer = Absent /\ \A u \in User : Listing(u) = Absent
    BY DEF Init, Listing
  <1>2. QED
    BY <1>1 DEF TreeImpl!Init

LEMMA TreesStep == DInv /\ [Next]_vars => [TreeImpl!Next]_<<Trees, Asked, answer>>
  <1> SUFFICES ASSUME DInv, [Next]_vars
               PROVE  TreeImpl!Next \/ UNCHANGED <<Trees, Asked, answer>>
    OBVIOUS
  <1>1. ASSUME NEW c \in Request, Receive(c) PROVE TreeImpl!Ask
    <2>1. c \in Command
      BY RequestAssumption
    <2>2. QED
      BY <1>1, <2>1, ReceiveAsks DEF TreeImpl!Ask, Trees, TreeOf, Asked
  <1>2. CASE Contents \/ Download
    <2>1. TreeImpl!Serve
      BY <1>2, ReadsServe DEF TreeImpl!Serve, Trees, TreeOf, Asked
    <2>2. QED
      BY <2>1 DEF TreeImpl!Next
  <1>3. CASE Write
    <2>1. TreeImpl!Serve
      BY <1>3, WriteServes DEF TreeImpl!Serve, Trees, TreeOf, Asked
    <2>2. QED
      BY <2>1 DEF TreeImpl!Next
  <1>4. CASE StoreFails \/ Crash \/ \E n \in 1..Len(listOfUsers) : Interrupt(n)
    <2>1. TreeImpl!Fail
      BY <1>4, FailsFail DEF TreeImpl!Fail, Trees, TreeOf, Asked
    <2>2. QED
      BY <2>1 DEF TreeImpl!Next
  <1>5. CASE Disconnected \/ Put \/ Truncate \/ Start \/ UNCHANGED vars
    BY <1>5, OthersStay
  <1>6. QED
    BY <1>1, <1>2, <1>3, <1>4, <1>5 DEF Next, TreeImpl!Next

\* The server with its listings implements the drive with its trees: what is
\* edited, shown or lost is what the tree of the current user says.
THEOREM TreesKept == Spec => KeepsTree
  <1>1. DInv /\ [Next]_vars => [TreeImpl!Next]_<<Trees, Asked, answer>>
    BY TreesStep
  <1>2. QED
    BY <1>1, TreesStart, DriveInvariant, PTL DEF Spec, KeepsTree, TreeImpl!Spec, Trees, TreeOf, Asked
=============================================================================
