------------------------------ MODULE WebProofs ------------------------------
(***************************************************************************)
(* Proofs about Web: what sign-up, log-in and the shared UDP socket keep,  *)
(* what the pages of mail and drive show, whose children share a connection*)
(* to each server, and where the balancer sends a browser, for any number  *)
(* of frontends, connections, users and tablet servers, any requests, any  *)
(* servers that stop and any writes that are lost.                         *)
(***************************************************************************)
EXTENDS Web, FiniteSetTheorems, SequenceTheorems, NaturalsInduction, TLAPS

Types == FrontTypeOK /\ AccountsTypeOK /\ asked \in Workload

\* No child has been forked for a slot that is still to come, and who has sent a
\* query is past its start.
Forked ==
    /\ \A p \in Port, i \in Slot : i >= slot[p] => pc[<<p, i>>] = "none"
    /\ \A c \in queries : pc[c] \notin {"none", "start"}

\* A sign-up that puts a column has put those before it, or lost them.
Puts == {"put firstname", "put lastname", "put password"}

NamesFirst ==
    \A c \in Child :
        LET u == req[c].user
        IN /\ pc[c] \in Puts => req[c].page = "signup"
           /\ pc[c] \in {"put lastname", "put password"} => <<u, "firstname">> \in names \cup lost
           /\ pc[c] = "put password" => <<u, "lastname">> \in names \cup lost

\* Nothing has happened to the account of u that OneOwner excepts.
Clean(u) == u \notin rivals /\ <<u, "password">> \notin lost

\* One sign-up at a time, ...
OneSignUp ==
    \A c, d \in Child : \A u \in User :
        Clean(u) /\ c \in SigningUp(u) /\ d \in SigningUp(u) => c = d

\* ... which puts only where there is no password, ...
PutsNew ==
    \A c \in Child :
        pc[c] \in Puts /\ Served(c) /\ Clean(req[c].user) => pass[req[c].user] = Absent

\* ... and a cookie that was not given for nothing goes with the password.
CookieFits ==
    \A c \in cookies :
        /\ c \in Child /\ pc[c] # "none" /\ req[c] \in AccountRequest
        /\ (req[c].page = "signup" \/ req[c].pass # Blank) /\ Clean(req[c].user)
             => pass[req[c].user] = req[c].pass

OneFounder ==
    \A c, d \in cookies :
        /\ req[c].page = "signup" /\ req[d].page = "signup"
        /\ req[c].user = req[d].user /\ Clean(req[c].user)
        => c = d

Owners == OneSignUp /\ PutsNew /\ CookieFits /\ OneFounder

WInv == Types /\ Forked /\ AnswersSuffice /\ NamesFirst /\ AccountComplete /\ Owners

-----------------------------------------------------------------------------
(* What the pages do is none of the accounts' business.                    *)

\* A child that is on its way in no account page takes a step to a place from
\* which nothing is asked of the master or put into the store.
Moves(c, to) ==
    /\ pc[c] \notin {"none", "address"}
    /\ to \in {"asked", "stuck", "done", "crashed"}
    /\ to = "asked" => req[c].page # "signup"
    /\ pc' = [pc EXCEPT ![c] = to]
    /\ UNCHANGED <<parent, slot, req>>

\* The child of an account page names a user and a password.
LEMMA Account_Form ==
    ASSUME NEW r \in Request \cup {NoRequest}, r.page \in {"login", "signup"}
    PROVE  r \in AccountRequest /\ r.user \in User /\ r.pass \in Password
  BY DEF Request, AccountRequest, LoginForm, SignupForm, PageRequest, NoRequest, MailPage, DrivePage,
     LocalPage

LEMMA PageMoves ==
    ASSUME Types, NEW c \in Child, Page(c), UNCHANGED accountVars
    PROVE  \E to \in {"asked", "done", "crashed"} : Moves(c, to)
  <1>1. ASSUME NEW page \in MailPage \cup DrivePage, Send(c, page)
        PROVE  \E to \in {"asked", "done", "crashed"} : Moves(c, to)
    BY <1>1 DEF Send, Moves, At, GoTo, MailPage, DrivePage
  <1>2. ASSUME NEW page \in MailPage \cup DrivePage, NEW left,
               NEW to \in {"done", "crashed"}, Read(c, page, left, to)
        PROVE  \E x \in {"asked", "done", "crashed"} : Moves(c, x)
    BY <1>2 DEF Read, Moves, At, GoTo
  <1>3. ASSUME file(c) \/ form(c)
        PROVE  \E to \in {"asked", "done", "crashed"} : Moves(c, to)
    BY <1>3 DEF file, form, Moves, At, GoTo
  <1>4. ASSUME mail(c) \/ inbox(c) \/ viewmail(c) \/ sentbox(c) \/ newmail(c)
        PROVE  \E to \in {"asked", "done", "crashed"} : Moves(c, to)
    BY <1>1, <1>2, <1>4 DEF mail, inbox, viewmail, sentbox, newmail, MailPage
  <1>5. ASSUME createfolder(c) \/ deletefolder(c) \/ deletefile(c) \/ movefolder(c)
        PROVE  \E to \in {"asked", "done", "crashed"} : Moves(c, to)
    BY <1>1, <1>2, <1>5 DEF createfolder, deletefolder, deletefile, movefolder, DrivePage
  <1>6. ASSUME movefile(c)
        PROVE  \E to \in {"asked", "done", "crashed"} : Moves(c, to)
    BY <1>1, <1>2, <1>6 DEF movefile, DrivePage
  <1>7. ASSUME viewfolder(c)
        PROVE  \E to \in {"asked", "done", "crashed"} : Moves(c, to)
    <2>1. CASE Send(c, "viewfolder")
      BY <1>1, <2>1 DEF DrivePage
    <2>2. CASE ~Send(c, "viewfolder")
      <3>1. PICK left : \/ Read(c, "viewfolder", left, "done")
                        \/ Read(c, "viewfolder", left, "crashed")
        BY <1>7, <2>2 DEF viewfolder
      <3>2. QED
        BY <1>2, <3>1 DEF DrivePage
    <2>3. QED
      BY <2>1, <2>2
  <1>8. ASSUME downloadfile(c)
        PROVE  \E to \in {"asked", "done", "crashed"} : Moves(c, to)
    <2>1. CASE Send(c, "downloadfile")
      BY <1>1, <2>1 DEF DrivePage
    <2>2. CASE \E left \in Remains(There(c)) : Read(c, "downloadfile", left, "done")
      BY <1>2, <2>2 DEF DrivePage
    <2>3. CASE At(c, {"downloadfile"}, "asked") /\ GoTo(c, "crashed")
      BY <2>3 DEF Moves, At, GoTo
    <2>4. QED
      BY <1>8, <2>1, <2>2, <2>3 DEF downloadfile
  <1>9. ASSUME fileupload(c)
        PROVE  \E to \in {"asked", "done", "crashed"} : Moves(c, to)
    <2>1. CASE Send(c, "fileupload")
      BY <1>1, <2>1 DEF DrivePage
    <2>2. CASE ~Send(c, "fileupload")
      BY <1>9, <2>2 DEF fileupload, Moves, At, GoTo
    <2>3. QED
      BY <2>1, <2>2
  <1>10. QED
    BY <1>3, <1>4, <1>5, <1>6, <1>7, <1>8, <1>9 DEF Page

Waiters(p) == {c \in Child : c[1] = p /\ pc[c] = "address"}
Askers(p) == {c \in queries : c[1] = p}

LEMMA FiniteChildren ==
    ASSUME WebAssumption, Types, NEW p \in Port
    PROVE  /\ IsFiniteSet(Waiters(p)) /\ IsFiniteSet(Askers(p))
           /\ Cardinality(Waiters(p)) \in Nat /\ Cardinality(Askers(p)) \in Nat
  <1>1. IsFiniteSet(Port) /\ IsFiniteSet(Slot)
    BY FS_Interval DEF WebAssumption, Port, Slot
  <1>2. IsFiniteSet(Child)
    BY <1>1, FS_Product DEF Child
  <1>3. Waiters(p) \in SUBSET Child /\ Askers(p) \in SUBSET Child
    BY DEF Waiters, Askers, Types, AccountsTypeOK
  <1>4. QED
    BY <1>2, <1>3, FS_Subset, FS_CardinalityType

\* Steps that leave the socket of the frontends alone.
LEMMA SufficeKept ==
    ASSUME AnswersSuffice, UNCHANGED <<queries, addresses>>,
           \A c \in Child : pc'[c] = "address" <=> pc[c] = "address"
    PROVE  AnswersSuffice'
  <1>1. \A p \in Port : {c \in Child : c[1] = p /\ pc'[c] = "address"}
                          = {c \in Child : c[1] = p /\ pc[c] = "address"}
    OBVIOUS
  <1>2. QED
    BY <1>1 DEF AnswersSuffice

LEMMA MovesInv ==
    ASSUME WInv, NEW c \in Child, NEW to, Moves(c, to), UNCHANGED <<accountVars, asked>>
    PROVE  WInv'
  <1> USE DEF WInv
  <1>0. /\ pc' = [pc EXCEPT ![c] = to]
        /\ to \in {"asked", "stuck", "done", "crashed"}
        /\ pc[c] \notin {"none", "address"}
        /\ UNCHANGED <<parent, slot, req>>
        /\ UNCHANGED <<queries, addresses, server, pass, names, stopped, cookies, lost, rivals>>
        /\ pc \in [Child -> Ended \cup {"start", "asked", "address", "get", "firstname",
                 "put firstname", "put lastname", "put password", "stuck"}]
    BY DEF Moves, accountVars, Types, FrontTypeOK
  <1>1. Types'
    BY <1>0 DEF Types, FrontTypeOK, AccountsTypeOK, Ended
  <1>2. Forked'
    BY <1>0 DEF Forked, Types, AccountsTypeOK, Child
  <1>3. AnswersSuffice'
    BY <1>0, SufficeKept
  <1>4. NamesFirst'
    BY <1>0 DEF NamesFirst, Puts
  <1>5. AccountComplete'
    BY <1>0 DEF AccountComplete
  <1>6. OneSignUp'
    <2>1. ASSUME NEW u \in User PROVE SigningUp(u)' \subseteq SigningUp(u)
      <3>1. to = "asked" => req[c].page # "signup"
        BY DEF Moves
      <3>2. QED
        BY <1>0, <3>1 DEF SigningUp, Ended
    <2>2. QED
      BY <1>0, <2>1 DEF Owners, OneSignUp, Clean
  <1>7. PutsNew'
    BY <1>0 DEF Owners, PutsNew, Clean, Puts, Served
  <1>8. CookieFits'
    BY <1>0 DEF Owners, CookieFits, Clean
  <1>9. OneFounder'
    BY <1>0 DEF Owners, OneFounder, Clean
  <1>10. QED
    BY <1>1, <1>2, <1>3, <1>4, <1>5, <1>6, <1>7, <1>8, <1>9 DEF Owners

-----------------------------------------------------------------------------
(* The parents *)

\* Steps of the parents and of the servers of the pages.
LEMMA IdleInv ==
    ASSUME WInv, UNCHANGED <<slot, req, pc, accountVars, asked>>,
           parent' \in [Port -> {"none", "up", "dead"}]
    PROVE  WInv'
  <1> USE DEF WInv, accountVars
  <1>1. Types'
    BY DEF Types, FrontTypeOK, AccountsTypeOK
  <1>2. Forked' /\ AnswersSuffice'
    BY DEF Forked, AnswersSuffice
  <1>3. NamesFirst' /\ AccountComplete'
    BY DEF NamesFirst, AccountComplete
  <1>4. OneSignUp' /\ PutsNew'
    BY DEF Owners, OneSignUp, PutsNew, Clean, SigningUp, Served
  <1>5. CookieFits' /\ OneFounder'
    BY DEF Owners, CookieFits, OneFounder, Clean
  <1>6. QED
    BY <1>1, <1>2, <1>3, <1>4, <1>5 DEF Owners

LEMMA AcceptInv ==
    ASSUME WebAssumption, WorkloadAssumption, WInv,
           NEW p \in Port, NEW r \in asked.requests[p], Accept(p, r),
           UNCHANGED <<accountVars, asked>>
    PROVE  WInv'
  <1> DEFINE c == <<p, slot[p]>>
  <1> USE DEF WInv
  <1>a. slot[p] \in Slot
    <2>1. slot[p] \in 0..CONNMAX /\ slot[p] < CONNMAX /\ CONNMAX \in Nat
      BY DEF Accept, Types, FrontTypeOK, WebAssumption
    <2>2. QED
      BY <2>1 DEF Slot
  <1>b. c \in Child /\ pc[c] = "none"
    <2>1. slot[p] >= slot[p]
      BY <1>a DEF Slot
    <2>2. QED
      BY <1>a, <2>1 DEF Forked, Child
  <1>0. /\ slot[p] \in Slot /\ c \in Child /\ pc[c] = "none"
        /\ slot' = [slot EXCEPT ![p] = @ + 1]
        /\ req' = [req EXCEPT ![c] = r]
        /\ pc' = [pc EXCEPT ![c] = "start"]
        /\ UNCHANGED <<queries, addresses, server, pass, names, stopped, cookies, lost, rivals>>
    BY <1>a, <1>b DEF Accept, accountVars
  <1>1. r \in Request
    BY DEF Types, WorkloadAssumption
  <1>2. c \notin queries /\ c \notin cookies
    BY <1>0 DEF Forked, Owners, CookieFits
  <1>3. Types'
    <2>1. slot' \in [Port -> 0..CONNMAX]
      <3>1. slot[p] + 1 \in 0..CONNMAX
        BY <1>a DEF Slot, WebAssumption
      <3>2. QED
        BY <1>0, <3>1 DEF Types, FrontTypeOK
    <2>2. req' \in [Child -> Request \cup {NoRequest}]
      BY <1>0, <1>1 DEF Types, FrontTypeOK
    <2>3. pc' \in [Child -> Ended \cup {"start", "asked", "address", "get", "firstname",
                 "put firstname", "put lastname", "put password", "stuck"}]
      BY <1>0 DEF Types, FrontTypeOK
    <2>4. parent' \in [Port -> {"none", "up", "dead"}]
      BY DEF Accept, Types, FrontTypeOK
    <2>5. AccountsTypeOK'
      BY <1>0 DEF Types, AccountsTypeOK
    <2>6. QED
      BY <2>1, <2>2, <2>3, <2>4, <2>5 DEF Types, FrontTypeOK
  <1>4. Forked'
    <2>1. ASSUME NEW q \in Port, NEW i \in Slot, i >= slot'[q]
          PROVE  pc'[<<q, i>>] = "none"
      <3>1. slot[q] \in Nat /\ i \in Nat /\ slot[p] \in Nat /\ i >= slot[q] /\ (q = p => i > slot[p])
        <4>1. slot[q] \in 0..CONNMAX /\ slot[p] \in 0..CONNMAX /\ CONNMAX \in Nat
          BY DEF Types, FrontTypeOK, WebAssumption
        <4>2. slot'[q] = IF q = p THEN slot[p] + 1 ELSE slot[q]
          BY <1>0 DEF Types, FrontTypeOK
        <4>3. i \in Nat
          BY DEF Slot, WebAssumption
        <4>4. QED
          BY <2>1, <4>1, <4>2, <4>3
      <3>2. <<q, i>> # c /\ <<q, i>> \in Child /\ pc[<<q, i>>] = "none"
        BY <3>1 DEF Forked, Child
      <3>3. QED
        BY <1>0, <3>2 DEF Types, FrontTypeOK
    <2>2. ASSUME NEW d \in queries' PROVE pc'[d] \notin {"none", "start"}
      BY <1>0, <1>2, <2>2 DEF Forked, Types, FrontTypeOK, AccountsTypeOK
    <2>3. QED
      BY <2>1, <2>2 DEF Forked
  <1>5. AnswersSuffice'
    BY <1>0, SufficeKept DEF Types, FrontTypeOK
  <1>6. NamesFirst'
    <2>1. ASSUME NEW d \in Child, pc'[d] \in Puts
          PROVE  d # c /\ pc'[d] = pc[d] /\ req'[d] = req[d]
      BY <1>0, <2>1 DEF Puts, Types, FrontTypeOK
    <2>2. QED
      BY <1>0, <2>1 DEF NamesFirst, Puts
  <1>7. AccountComplete'
    BY <1>0 DEF AccountComplete
  <1>8. OneSignUp'
    <2>1. ASSUME NEW u \in User PROVE SigningUp(u)' \subseteq SigningUp(u)
      BY <1>0 DEF SigningUp, Types, FrontTypeOK
    <2>2. QED
      BY <1>0, <2>1 DEF Owners, OneSignUp, Clean
  <1>9. PutsNew'
    BY <1>0 DEF Owners, PutsNew, Clean, Puts, Served, Types, FrontTypeOK
  <1>10. CookieFits' /\ OneFounder'
    <2>1. \A d \in cookies : req'[d] = req[d] /\ pc'[d] = pc[d]
      BY <1>0, <1>2 DEF Owners, CookieFits, Types, FrontTypeOK
    <2>2. CookieFits'
      BY <1>0, <2>1 DEF Owners, CookieFits, Clean
    <2>3. OneFounder'
      BY <1>0, <2>1 DEF Owners, OneFounder, Clean
    <2>4. QED
      BY <2>2, <2>3
  <1>11. QED
    BY <1>3, <1>4, <1>5, <1>6, <1>7, <1>8, <1>9, <1>10 DEF Owners

-----------------------------------------------------------------------------
(* The way to a server *)

LEMMA QueryInv ==
    ASSUME WebAssumption, WInv, NEW c \in Child, query(c), UNCHANGED asked
    PROVE  WInv'
  <1> USE DEF WInv
  <1>0. /\ pc[c] = "start" /\ req[c].page \in {"login", "signup"}
        /\ pc' = [pc EXCEPT ![c] = "address"]
        /\ queries' = queries \cup {c}
        /\ rivals \subseteq rivals'
        /\ UNCHANGED <<parent, slot, req, addresses, server, pass, names, stopped, lost, cookies>>
    BY DEF query, GoTo, storeVars
  <1>1. req[c].user \in User
    BY <1>0, Account_Form DEF Types, FrontTypeOK
  <1>2. Types'
    <2>1. rivals' \subseteq User
      BY <1>1 DEF query, Types, AccountsTypeOK
    <2>2. QED
      BY <1>0, <2>1 DEF Types, FrontTypeOK, AccountsTypeOK
  <1>3. Forked'
    BY <1>0 DEF Forked, Types, FrontTypeOK, AccountsTypeOK, Child
  <1>4. AnswersSuffice'
    <2> SUFFICES ASSUME NEW p \in Port
                 PROVE  Cardinality(Waiters(p)') = Cardinality(Askers(p)') + Len(addresses'[p])
      BY DEF AnswersSuffice, Waiters, Askers
    <2>1. Cardinality(Waiters(p)) = Cardinality(Askers(p)) + Len(addresses[p])
      BY DEF AnswersSuffice, Waiters, Askers
    <2>2. CASE c[1] = p
      <3>1. Waiters(p)' = Waiters(p) \cup {c} /\ c \notin Waiters(p)
        BY <1>0, <2>2 DEF Waiters, Types, FrontTypeOK
      <3>2. Askers(p)' = Askers(p) \cup {c} /\ c \notin Askers(p)
        BY <1>0, <2>2 DEF Askers, Forked
      <3>3. /\ Cardinality(Waiters(p)') = Cardinality(Waiters(p)) + 1
            /\ Cardinality(Askers(p)') = Cardinality(Askers(p)) + 1
        BY <3>1, <3>2, FiniteChildren, FS_AddElement
      <3>4. Len(addresses[p]) \in Nat
        BY DEF Types, AccountsTypeOK
      <3>5. QED
        BY <1>0, <2>1, <3>3, <3>4, FiniteChildren
    <2>3. CASE c[1] # p
      <3>1. Waiters(p)' = Waiters(p) /\ Askers(p)' = Askers(p)
        BY <1>0, <2>3 DEF Waiters, Askers, Types, FrontTypeOK
      <3>2. QED
        BY <1>0, <2>1, <3>1
    <2>4. QED
      BY <2>2, <2>3
  <1>5. NamesFirst'
    BY <1>0 DEF NamesFirst, Puts, Types, FrontTypeOK
  <1>6. AccountComplete'
    BY <1>0 DEF AccountComplete
  <1>7. OneSignUp'
    <2> SUFFICES ASSUME NEW a \in Child, NEW b \in Child, NEW u \in User,
                        Clean(u)', a \in SigningUp(u)', b \in SigningUp(u)'
                 PROVE  a = b
      BY DEF OneSignUp
    <2>1. Clean(u)
      BY <1>0 DEF Clean
    <2>2. \A d \in Child \ {c} : d \in SigningUp(u)' => d \in SigningUp(u)
      BY <1>0 DEF SigningUp, Types, FrontTypeOK
    <2>3. c \in SigningUp(u)' => SigningUp(u) = {}
      <3>1. c \in SigningUp(u)' => req[c].page = "signup" /\ req[c].user = u
        BY <1>0 DEF SigningUp
      <3>2. u \notin rivals'
        BY DEF Clean
      <3>3. QED
        BY <3>1, <3>2 DEF query
    <2>4. QED
      BY <2>1, <2>2, <2>3 DEF Owners, OneSignUp
  <1>8. PutsNew'
    BY <1>0 DEF Owners, PutsNew, Clean, Puts, Served, Types, FrontTypeOK
  <1>9. CookieFits' /\ OneFounder'
    <2>1. CookieFits'
      BY <1>0 DEF Owners, CookieFits, Clean, Types, FrontTypeOK
    <2>2. OneFounder'
      BY <1>0 DEF Owners, OneFounder, Clean
    <2>3. QED
      BY <2>1, <2>2
  <1>10. QED
    BY <1>2, <1>3, <1>4, <1>5, <1>6, <1>7, <1>8, <1>9 DEF Owners

LEMMA HandleQueryInv ==
    ASSUME WebAssumption, WInv, NEW c \in Child, handleQuery(c), UNCHANGED asked
    PROVE  WInv'
  <1> USE DEF WInv
  <1>0. /\ c \in queries /\ queries' = queries \ {c}
        /\ UNCHANGED <<parent, slot, req, pc, server, pass, names, stopped, lost, cookies, rivals>>
    BY DEF handleQuery, storeVars, frontVars
  <1>1. PICK t \in Tablet : addresses' = [addresses EXCEPT ![c[1]] = Append(@, t)]
    BY DEF handleQuery
  <1>2. c[1] \in Port
    BY DEF Child
  <1>3. Types'
    <2>1. addresses' \in [Port -> Seq(Tablet)]
      BY <1>1, <1>2 DEF Types, AccountsTypeOK
    <2>2. QED
      BY <1>0, <2>1 DEF Types, FrontTypeOK, AccountsTypeOK
  <1>4. Forked'
    BY <1>0 DEF Forked
  <1>5. AnswersSuffice'
    <2> SUFFICES ASSUME NEW p \in Port
                 PROVE  Cardinality(Waiters(p)') = Cardinality(Askers(p)') + Len(addresses'[p])
      BY DEF AnswersSuffice, Waiters, Askers
    <2>1. Cardinality(Waiters(p)) = Cardinality(Askers(p)) + Len(addresses[p])
      BY DEF AnswersSuffice, Waiters, Askers
    <2>2. Waiters(p)' = Waiters(p)
      BY <1>0 DEF Waiters
    <2>3. CASE c[1] = p
      <3>1. Askers(p)' = Askers(p) \ {c} /\ c \in Askers(p)
        BY <1>0, <2>3 DEF Askers
      <3>2. Cardinality(Askers(p)') = Cardinality(Askers(p)) - 1
        BY <3>1, FiniteChildren, FS_RemoveElement, ZenonT(40)
      <3>3. Len(addresses'[p]) = Len(addresses[p]) + 1 /\ Len(addresses[p]) \in Nat
        <4>1. addresses'[p] = Append(addresses[p], t) /\ addresses[p] \in Seq(Tablet)
          BY <1>1, <1>2, <2>3 DEF Types, AccountsTypeOK
        <4>2. QED
          BY <4>1, LenProperties, AppendProperties
      <3>4. QED
        BY <2>1, <2>2, <3>2, <3>3, FiniteChildren
    <2>4. CASE c[1] # p
      <3>1. Askers(p)' = Askers(p) /\ addresses'[p] = addresses[p]
        BY <1>0, <1>1, <2>4 DEF Askers, Types, AccountsTypeOK
      <3>2. QED
        BY <2>1, <2>2, <3>1
    <2>5. QED
      BY <2>3, <2>4
  <1>6. NamesFirst' /\ AccountComplete'
    BY <1>0 DEF NamesFirst, AccountComplete
  <1>7. OneSignUp' /\ PutsNew'
    BY <1>0 DEF Owners, OneSignUp, PutsNew, Clean, SigningUp, Served
  <1>8. CookieFits' /\ OneFounder'
    BY <1>0 DEF Owners, CookieFits, OneFounder, Clean
  <1>9. QED
    BY <1>3, <1>4, <1>5, <1>6, <1>7, <1>8 DEF Owners

LEMMA ConnectInv ==
    ASSUME WebAssumption, WInv, NEW c \in Child, connect(c), UNCHANGED asked
    PROVE  WInv'
  <1> USE DEF WInv
  <1> DEFINE to == IF Head(addresses[c[1]]) \in stopped THEN "crashed" ELSE "get"
  <1>0. /\ pc[c] = "address" /\ addresses[c[1]] # <<>>
        /\ server' = [server EXCEPT ![c] = Head(addresses[c[1]])]
        /\ pc' = [pc EXCEPT ![c] = to]
        /\ addresses' = [addresses EXCEPT ![c[1]] = Tail(@)]
        /\ UNCHANGED <<parent, slot, req, queries, pass, names, stopped, lost, cookies, rivals>>
    BY DEF connect, GoTo, storeVars
  <1>1. c[1] \in Port /\ addresses[c[1]] \in Seq(Tablet)
    BY DEF Child, Types, AccountsTypeOK
  <1>2. Types'
    <2>1. addresses' \in [Port -> Seq(Tablet)]
      BY <1>0, <1>1, HeadTailProperties DEF Types, AccountsTypeOK
    <2>2. server' \in [Child -> Tablet \cup {Absent}]
      BY <1>0, <1>1, HeadTailProperties DEF Types, AccountsTypeOK
    <2>3. QED
      BY <1>0, <2>1, <2>2 DEF Types, FrontTypeOK, AccountsTypeOK, Ended
  <1>3. Forked'
    BY <1>0 DEF Forked, Types, FrontTypeOK, AccountsTypeOK, Child
  <1>4. AnswersSuffice'
    <2> SUFFICES ASSUME NEW p \in Port
                 PROVE  Cardinality(Waiters(p)') = Cardinality(Askers(p)') + Len(addresses'[p])
      BY DEF AnswersSuffice, Waiters, Askers
    <2>1. Cardinality(Waiters(p)) = Cardinality(Askers(p)) + Len(addresses[p])
      BY DEF AnswersSuffice, Waiters, Askers
    <2>2. Askers(p)' = Askers(p)
      BY <1>0 DEF Askers
    <2>3. CASE c[1] = p
      <3>1. Waiters(p)' = Waiters(p) \ {c} /\ c \in Waiters(p)
        BY <1>0, <2>3 DEF Waiters, Types, FrontTypeOK
      <3>2. Cardinality(Waiters(p)') = Cardinality(Waiters(p)) - 1
        BY <3>1, FiniteChildren, FS_RemoveElement, ZenonT(40)
      <3>3. addresses'[p] = Tail(addresses[p])
        BY <1>0, <1>1, <2>3 DEF Types, AccountsTypeOK
      <3>4. Len(addresses'[p]) = Len(addresses[p]) - 1 /\ Len(addresses[p]) \in Nat
        BY <1>0, <1>1, <2>3, <3>3, HeadTailProperties, LenProperties
      <3>5. QED
        BY <2>1, <2>2, <3>2, <3>4, FiniteChildren
    <2>4. CASE c[1] # p
      <3>1. Waiters(p)' = Waiters(p) /\ addresses'[p] = addresses[p]
        BY <1>0, <2>4 DEF Waiters, Types, FrontTypeOK, AccountsTypeOK
      <3>2. QED
        BY <2>1, <2>2, <3>1
    <2>5. QED
      BY <2>3, <2>4
  <1>5. NamesFirst'
    BY <1>0 DEF NamesFirst, Puts, Types, FrontTypeOK
  <1>6. AccountComplete'
    BY <1>0 DEF AccountComplete
  <1>7. OneSignUp'
    <2>1. ASSUME NEW u \in User PROVE SigningUp(u)' \subseteq SigningUp(u)
      BY <1>0 DEF SigningUp, Ended, Types, FrontTypeOK
    <2>2. QED
      BY <1>0, <2>1 DEF Owners, OneSignUp, Clean
  <1>8. PutsNew'
    <2>1. ASSUME NEW d \in Child, pc'[d] \in Puts
          PROVE  pc'[d] = pc[d] /\ server'[d] = server[d]
      BY <1>0, <2>1 DEF Puts, Types, FrontTypeOK, AccountsTypeOK
    <2>2. QED
      BY <1>0, <2>1 DEF Owners, PutsNew, Clean, Served
  <1>9. CookieFits' /\ OneFounder'
    <2>1. CookieFits'
      BY <1>0 DEF Owners, CookieFits, Clean, Types, FrontTypeOK
    <2>2. OneFounder'
      BY <1>0 DEF Owners, OneFounder, Clean
    <2>3. QED
      BY <2>1, <2>2
  <1>10. QED
    BY <1>2, <1>3, <1>4, <1>5, <1>6, <1>7, <1>8, <1>9 DEF Owners

-----------------------------------------------------------------------------
(* The pages of an account *)

\* What a child reads as the password, if it is not blank, is the password.
LEMMA CommandFits ==
    ASSUME AccountAssumption, NEW c, command(c) # Blank
    PROVE  Served(c) /\ command(c) = pass[req[c].user]
  BY DEF command, Err

LEMMA LoginInv ==
    ASSUME AccountAssumption, WInv, NEW c \in Child, login(c), UNCHANGED asked
    PROVE  WInv'
  <1> USE DEF WInv
  <1> DEFINE to == IF command(c) = req[c].pass THEN "firstname" ELSE "done"
  <1>0. /\ pc[c] = "get" /\ req[c].page = "login"
        /\ pc' = [pc EXCEPT ![c] = to]
        /\ cookies' = IF command(c) = req[c].pass THEN cookies \cup {c} ELSE cookies
        /\ UNCHANGED <<parent, slot, req, queries, addresses, server, pass, names, stopped, lost, rivals>>
    BY DEF login, At, GoTo, storeVars
  <1>1. req[c] \in AccountRequest
    BY <1>0, Account_Form DEF Types, FrontTypeOK
  <1>2. Types'
    BY <1>0 DEF Types, FrontTypeOK, AccountsTypeOK, Ended
  <1>3. Forked'
    BY <1>0 DEF Forked, Types, FrontTypeOK, AccountsTypeOK, Child
  <1>4. AnswersSuffice'
    BY <1>0, SufficeKept DEF Types, FrontTypeOK
  <1>5. NamesFirst'
    BY <1>0 DEF NamesFirst, Puts, Types, FrontTypeOK
  <1>6. AccountComplete'
    BY <1>0 DEF AccountComplete
  <1>7. OneSignUp'
    <2>1. ASSUME NEW u \in User PROVE SigningUp(u)' \subseteq SigningUp(u)
      BY <1>0 DEF SigningUp, Ended, Types, FrontTypeOK
    <2>2. QED
      BY <1>0, <2>1 DEF Owners, OneSignUp, Clean
  <1>8. PutsNew'
    BY <1>0 DEF Owners, PutsNew, Clean, Puts, Served, Types, FrontTypeOK
  <1>9. CookieFits'
    <2>1. ASSUME NEW d \in cookies' PROVE pc'[d] # "none" /\ d \in Child /\ req[d] \in AccountRequest
      BY <1>0, <1>1, <2>1 DEF Owners, CookieFits, Types, FrontTypeOK
    <2>2. ASSUME c \in cookies', c \notin cookies, req[c].pass # Blank
          PROVE  pass[req[c].user] = req[c].pass
      BY <1>0, <2>2, CommandFits
    <2>3. QED
      BY <1>0, <2>1, <2>2 DEF Owners, CookieFits, Clean
  <1>10. OneFounder'
    BY <1>0 DEF Owners, OneFounder, Clean
  <1>11. QED
    BY <1>2, <1>3, <1>4, <1>5, <1>6, <1>7, <1>8, <1>9, <1>10 DEF Owners

LEMMA SignupInv ==
    ASSUME WInv, NEW c \in Child, signup(c), UNCHANGED asked
    PROVE  WInv'
  <1> USE DEF WInv
  <1> DEFINE to == IF Err(c) THEN "put firstname" ELSE "done"
  <1>0. /\ pc[c] = "get" /\ req[c].page = "signup"
        /\ pc' = [pc EXCEPT ![c] = to]
        /\ UNCHANGED <<parent, slot, req, queries, addresses, server, pass, names, stopped,
                        lost, cookies, rivals>>
    BY DEF signup, At, GoTo, accountVars
  <1>1. Types'
    BY <1>0 DEF Types, FrontTypeOK, AccountsTypeOK, Ended
  <1>2. Forked'
    BY <1>0 DEF Forked, Types, FrontTypeOK, AccountsTypeOK, Child
  <1>3. AnswersSuffice'
    BY <1>0, SufficeKept DEF Types, FrontTypeOK
  <1>4. NamesFirst'
    BY <1>0 DEF NamesFirst, Puts, Types, FrontTypeOK
  <1>5. AccountComplete'
    BY <1>0 DEF AccountComplete
  <1>6. OneSignUp'
    <2>1. ASSUME NEW u \in User PROVE SigningUp(u)' \subseteq SigningUp(u)
      BY <1>0 DEF SigningUp, Ended, Types, FrontTypeOK
    <2>2. QED
      BY <1>0, <2>1 DEF Owners, OneSignUp, Clean
  <1>7. PutsNew'
    <2>1. to = "put firstname" /\ Served(c) => pass[req[c].user] = Absent
      BY DEF Err
    <2>2. QED
      BY <1>0, <2>1 DEF Owners, PutsNew, Clean, Puts, Served, Types, FrontTypeOK
  <1>8. CookieFits' /\ OneFounder'
    <2>1. CookieFits'
      BY <1>0 DEF Owners, CookieFits, Clean, Types, FrontTypeOK
    <2>2. OneFounder'
      BY <1>0 DEF Owners, OneFounder, Clean
    <2>3. QED
      BY <2>1, <2>2
  <1>9. QED
    BY <1>1, <1>2, <1>3, <1>4, <1>5, <1>6, <1>7, <1>8 DEF Owners

LEMMA StopInv ==
    ASSUME WInv, NEW t \in Tablet, Stop(t), UNCHANGED asked
    PROVE  WInv'
  <1> USE DEF WInv
  <1>0. /\ stopped' = stopped \cup {t}
        /\ UNCHANGED <<parent, slot, req, pc, queries, addresses, server, pass, names,
                        lost, cookies, rivals>>
    BY DEF Stop, frontVars
  <1>1. Types'
    BY <1>0 DEF Types, FrontTypeOK, AccountsTypeOK
  <1>2. Forked' /\ AnswersSuffice'
    BY <1>0 DEF Forked, AnswersSuffice
  <1>3. NamesFirst' /\ AccountComplete'
    BY <1>0 DEF NamesFirst, AccountComplete
  <1>4. OneSignUp' /\ PutsNew'
    BY <1>0 DEF Owners, OneSignUp, PutsNew, Clean, SigningUp, Served
  <1>5. CookieFits' /\ OneFounder'
    BY <1>0 DEF Owners, CookieFits, OneFounder, Clean
  <1>6. QED
    BY <1>1, <1>2, <1>3, <1>4, <1>5 DEF Owners

\* The pages of an account that only move its child on.
LEMMA AccountMoves ==
    ASSUME Types, NEW c \in Child, mismatch(c) \/ hello(c) \/ hangup(c)
    PROVE  UNCHANGED accountVars /\ \E to \in {"stuck", "done", "crashed"} : Moves(c, to)
  <1>1. CASE mismatch(c)
    BY <1>1 DEF mismatch, Moves, At, GoTo
  <1>2. CASE hello(c)
    BY <1>2 DEF hello, Moves, At, GoTo
  <1>3. CASE hangup(c)
    BY <1>3 DEF hangup, Moves, At, GoTo
  <1>4. QED
    BY <1>1, <1>2, <1>3

-----------------------------------------------------------------------------
(* The puts of a sign-up *)

\* A name: the password cells stay, and the name is there, or lost, when the
\* child goes on.
LEMMA PutNameInv ==
    ASSUME WInv, NEW c \in Child, put_firstname(c) \/ put_lastname(c), UNCHANGED asked
    PROVE  WInv'
  <1> USE DEF WInv
  <1> DEFINE u == req[c].user
  <1>1. PICK col \in {"firstname", "lastname"}, x \in Puts \cup {"stuck", "crashed"} :
          /\ pc[c] \in Puts /\ req[c].page = "signup"
          /\ pc' = [pc EXCEPT ![c] = x]
          /\ x \in Puts => <<u, col>> \in names' \cup lost'
          /\ x = "put lastname" => col = "firstname"
          /\ x = "put password" => pc[c] = "put lastname" /\ col = "lastname"
          /\ x \in Puts => x # "put firstname"
          /\ names' \in {names, names \cup {<<u, col>>}}
          /\ lost' \in {lost, lost \cup {<<u, col>>}}
    <2>1. CASE put_firstname(c)
      <3>1. PutColumn(c, "put firstname", "firstname", "put lastname")
        BY <2>1 DEF put_firstname
      <3>2. QED
        BY <3>1 DEF PutColumn, put, At, GoTo, storeVars, Puts
    <2>2. CASE put_lastname(c)
      <3>1. PutColumn(c, "put lastname", "lastname", "put password")
        BY <2>2 DEF put_lastname
      <3>2. QED
        BY <3>1 DEF PutColumn, put, At, GoTo, storeVars, Puts
    <2>3. QED
      BY <2>1, <2>2
  <1>0. /\ UNCHANGED <<parent, slot, req, queries, addresses, server, stopped, cookies, rivals>>
        /\ pass' = pass
    BY DEF put_firstname, put_lastname, PutColumn, put, GoTo, storeVars
  <1>2. u \in User
    BY <1>1, Account_Form DEF Types, FrontTypeOK
  <1>3. Types'
    <2>1. FrontTypeOK'
      BY <1>0, <1>1 DEF Types, FrontTypeOK, Ended, Puts
    <2>2. names' \subseteq User \X Column /\ lost' \subseteq User \X Column
      <3>1. <<u, col>> \in User \X Column
        BY <1>2 DEF Column
      <3>2. names \subseteq User \X Column /\ lost \subseteq User \X Column
        BY DEF Types, AccountsTypeOK
      <3>3. QED
        BY <1>1, <3>1, <3>2
    <2>3. AccountsTypeOK'
      BY <1>0, <2>2 DEF Types, AccountsTypeOK
    <2>4. QED
      BY <2>1, <2>3 DEF Types
  <1>4. Forked'
    BY <1>0, <1>1 DEF Forked, Types, FrontTypeOK, AccountsTypeOK, Child, Puts
  <1>5. AnswersSuffice'
    BY <1>0, <1>1, SufficeKept DEF Types, FrontTypeOK, Puts
  <1>6. names \cup lost \subseteq names' \cup lost'
    BY <1>1
  <1>7. NamesFirst'
    <2> SUFFICES ASSUME NEW d \in Child
                 PROVE  /\ pc'[d] \in Puts => req[d].page = "signup"
                        /\ pc'[d] \in {"put lastname", "put password"} =>
                             <<req[d].user, "firstname">> \in names' \cup lost'
                        /\ pc'[d] = "put password" =>
                             <<req[d].user, "lastname">> \in names' \cup lost'
      BY <1>0 DEF NamesFirst
    <2>1. CASE d = c
      <3>1. pc'[d] = x
        BY <1>1, <2>1 DEF Types, FrontTypeOK
      <3>2. QED
        BY <1>1, <1>6, <2>1, <3>1 DEF NamesFirst, Puts
    <2>2. CASE d # c
      BY <1>1, <1>6, <2>2 DEF NamesFirst, Types, FrontTypeOK
    <2>3. QED
      BY <2>1, <2>2
  <1>8. AccountComplete'
    BY <1>0, <1>6 DEF AccountComplete
  <1>9. \A v : Clean(v)' => Clean(v)
    BY <1>0, <1>1 DEF Clean
  <1>10. OneSignUp'
    <2>1. ASSUME NEW v \in User PROVE SigningUp(v)' \subseteq SigningUp(v)
      BY <1>0, <1>1 DEF SigningUp, Ended, Puts, Types, FrontTypeOK
    <2>2. QED
      BY <1>0, <1>9, <2>1 DEF Owners, OneSignUp
  <1>11. PutsNew'
    <2>1. ASSUME NEW d \in Child, pc'[d] \in Puts PROVE pc[d] \in Puts
      BY <1>1, <2>1 DEF Types, FrontTypeOK
    <2>2. QED
      BY <1>0, <1>9, <2>1 DEF Owners, PutsNew, Served
  <1>12. CookieFits'
    BY <1>0, <1>1, <1>9 DEF Owners, CookieFits, Types, FrontTypeOK, Puts
  <1>13. OneFounder'
    BY <1>0, <1>9 DEF Owners, OneFounder
  <1>14. QED
    BY <1>3, <1>4, <1>5, <1>7, <1>8, <1>10, <1>11, <1>12, <1>13 DEF Owners

\* The password: it is put where there was none, or nothing is claimed of the
\* account.
LEMMA PutPasswordInv ==
    ASSUME AccountAssumption, WInv, NEW c \in Child, put_password(c), UNCHANGED asked
    PROVE  WInv'
  <1> USE DEF WInv
  <1> PICK u : u = req[c].user
    OBVIOUS
  <1> DEFINE Still(v) == v \notin rivals' /\ <<v, "password">> \notin lost'
  <1>1. PutColumn(c, "put password", "password", "done")
    BY DEF put_password
  <1>2. PICK x \in {"done", "stuck", "crashed"} :
          /\ pc[c] = "put password" /\ req[c].page = "signup"
          /\ pc' = [pc EXCEPT ![c] = x]
          /\ \/ pass' = [pass EXCEPT ![u] = req[c].pass] /\ lost' = lost /\ Served(c)
             \/ pass' = pass /\ lost' = lost \cup {<<u, "password">>}
             \/ pass' = pass /\ lost' = lost /\ x # "done"
    BY <1>1 DEF PutColumn, put, At, GoTo, storeVars
  <1>0. /\ UNCHANGED <<parent, slot, req, queries, addresses, server, stopped, rivals>>
        /\ names' = names
    BY <1>1 DEF PutColumn, put, GoTo, storeVars
  <1>3. /\ req[c] \in AccountRequest /\ u \in User /\ req[c].pass \in Password
        /\ pass \in [User -> Password \cup {Absent}]
    BY <1>2, Account_Form DEF Types, FrontTypeOK, AccountsTypeOK
  <1>4. cookies' \in {cookies, cookies \cup {c}} /\ (cookies' # cookies => x = "done")
    <2>1. pc'[c] = x
      BY <1>2 DEF Types, FrontTypeOK
    <2>2. QED
      BY <2>1 DEF put_password
  <1>5. Types'
    <2>1. FrontTypeOK'
      BY <1>0, <1>2 DEF Types, FrontTypeOK, Ended
    <2>2. pass' \in [User -> Password \cup {Absent}] /\ lost' \subseteq User \X Column
      <3>1. <<u, "password">> \in User \X Column
        BY <1>3 DEF Column
      <3>2. lost \subseteq User \X Column
        BY DEF Types, AccountsTypeOK
      <3>3. lost' \subseteq User \X Column
        BY <1>2, <3>1, <3>2
      <3>4. pass' \in [User -> Password \cup {Absent}]
        BY <1>2, <1>3
      <3>5. QED
        BY <3>3, <3>4
    <2>3. cookies' \subseteq Child
      BY <1>4 DEF Types, AccountsTypeOK
    <2>4. AccountsTypeOK'
      BY <1>0, <2>2, <2>3 DEF Types, AccountsTypeOK
    <2>5. QED
      BY <2>1, <2>4 DEF Types
  <1>6. Forked'
    BY <1>0, <1>2 DEF Forked, Types, FrontTypeOK, AccountsTypeOK, Child
  <1>7. AnswersSuffice'
    BY <1>0, <1>2, SufficeKept DEF Types, FrontTypeOK
  <1>8. NamesFirst'
    BY <1>0, <1>2 DEF NamesFirst, Puts, Types, FrontTypeOK
  <1>9. AccountComplete'
    <2> SUFFICES ASSUME NEW v \in User, pass'[v] # Absent, NEW col \in {"firstname", "lastname"}
                 PROVE  <<v, col>> \in names' \cup lost'
      BY DEF AccountComplete
    <2>1. CASE v = u
      BY <1>0, <1>2, <2>1 DEF NamesFirst
    <2>2. CASE v # u
      BY <1>0, <1>2, <1>3, <2>2 DEF AccountComplete
    <2>3. QED
      BY <2>1, <2>2
  <1>10. \A v : Still(v) => Clean(v)
    BY <1>0, <1>2 DEF Clean
  <1>11. OneSignUp'
    <2>1. ASSUME NEW v \in User PROVE SigningUp(v)' \subseteq SigningUp(v)
      BY <1>0, <1>2 DEF SigningUp, Ended, Types, FrontTypeOK
    <2>2. QED
      BY <1>0, <1>10, <2>1 DEF Owners, OneSignUp, Clean
  <1>12. ASSUME Still(u), Served(c) PROVE pass[u] = Absent
    BY <1>2, <1>10, <1>12 DEF Owners, PutsNew, Puts
  <1>13. PutsNew'
    <2> SUFFICES ASSUME NEW d \in Child, pc'[d] \in Puts, Served(d), Still(req[d].user)
                 PROVE  pass'[req[d].user] = Absent
      BY <1>0 DEF PutsNew, Served, Clean
    <2>1. d # c /\ pc[d] \in Puts
      BY <1>2 DEF Types, FrontTypeOK, Puts
    <2>2. pass[req[d].user] = Absent /\ req[d].user \in User
      <3>1. req[d].page = "signup"
        BY <2>1 DEF NamesFirst
      <3>2. req[d].user \in User
        BY <3>1, Account_Form DEF Types, FrontTypeOK
      <3>3. QED
        BY <1>10, <2>1, <3>2 DEF Owners, PutsNew
    <2>3. req[d].user # u
      <3>1. SUFFICES ASSUME req[d].user = u PROVE FALSE
        OBVIOUS
      <3>2. c \in SigningUp(u)
        BY <1>2 DEF SigningUp, Ended
      <3>3. d \in SigningUp(u)
        BY <2>1, <3>1 DEF SigningUp, Ended, NamesFirst, Puts
      <3>4. QED
        BY <1>3, <1>10, <2>1, <3>1, <3>2, <3>3 DEF Owners, OneSignUp
    <2>4. QED
      BY <1>2, <1>3, <2>2, <2>3
  <1>14. ASSUME NEW d \in cookies, req[d].user = u, Still(u), Served(c),
                req[d].page = "signup" \/ req[d].pass # Blank
         PROVE  FALSE
    <2>1. pass[u] = req[d].pass /\ req[d] \in AccountRequest
      BY <1>10, <1>14 DEF Owners, CookieFits
    <2>2. req[d].pass \in Password
      BY <2>1 DEF AccountRequest, LoginForm, SignupForm
    <2>3. QED
      BY <1>12, <1>14, <2>1, <2>2 DEF AccountAssumption
  <1>15. x = "done" /\ Still(u) => Served(c) /\ pass'[u] = req[c].pass
    BY <1>2, <1>3
  <1>16. CookieFits'
    <2> SUFFICES ASSUME NEW d \in cookies'
                 PROVE  /\ d \in Child /\ pc'[d] # "none" /\ req[d] \in AccountRequest
                        /\ (req[d].page = "signup" \/ req[d].pass # Blank) /\ Still(req[d].user)
                             => pass'[req[d].user] = req[d].pass
      BY <1>0 DEF CookieFits, Clean
    <2>1. d \in Child /\ pc'[d] # "none" /\ req[d] \in AccountRequest
      BY <1>2, <1>3, <1>4 DEF Owners, CookieFits, Types, FrontTypeOK
    <2>2. CASE d \in cookies
      <3>1. SUFFICES ASSUME req[d].page = "signup" \/ req[d].pass # Blank, Still(req[d].user)
                     PROVE  pass'[req[d].user] = req[d].pass
        BY <2>1
      <3>2. pass[req[d].user] = req[d].pass /\ req[d].user \in User
        <4>1. req[d].user \in User
          BY <2>1 DEF AccountRequest, LoginForm, SignupForm
        <4>2. QED
          BY <1>10, <2>2, <3>1, <4>1 DEF Owners, CookieFits
      <3>3. CASE req[d].user = u
        BY <1>2, <1>14, <2>2, <3>1, <3>2, <3>3
      <3>4. CASE req[d].user # u
        BY <1>2, <1>3, <3>2, <3>4
      <3>5. QED
        BY <3>3, <3>4
    <2>3. CASE d \notin cookies
      BY <1>4, <1>15, <2>1, <2>3
    <2>4. QED
      BY <2>2, <2>3
  <1>17. OneFounder'
    <2> SUFFICES ASSUME NEW a \in cookies', NEW b \in cookies',
                        req[a].page = "signup", req[b].page = "signup",
                        req[a].user = req[b].user, Still(req[a].user)
                 PROVE  a = b
      BY <1>0 DEF OneFounder, Clean
    <2>1. CASE a \in cookies /\ b \in cookies
      BY <1>10, <2>1 DEF Owners, OneFounder
    <2>2. CASE a \in cookies /\ b \notin cookies
      BY <1>4, <1>14, <1>15, <2>2
    <2>3. CASE a \notin cookies /\ b \in cookies
      BY <1>4, <1>14, <1>15, <2>3
    <2>4. CASE a \notin cookies /\ b \notin cookies
      BY <1>4, <2>4
    <2>5. QED
      BY <2>1, <2>2, <2>3, <2>4
  <1>18. QED
    BY <1>5, <1>6, <1>7, <1>8, <1>9, <1>11, <1>13, <1>16, <1>17 DEF Owners

-----------------------------------------------------------------------------
(* The whole tier *)

LEMMA InitInv ==
    ASSUME WebAssumption, Init
    PROVE  WInv
  <1>0. /\ slot = [p \in Port |-> 0] /\ parent = [p \in Port |-> "none"]
        /\ req = [c \in Child |-> NoRequest] /\ pc = [c \in Child |-> "none"]
        /\ queries = {} /\ addresses = [p \in Port |-> <<>>]
        /\ server = [c \in Child |-> Absent] /\ pass = [u \in User |-> Absent]
        /\ names = {} /\ stopped = {} /\ cookies = {} /\ lost = {} /\ rivals = {}
        /\ asked \in Workload
    BY DEF Init, FrontInit, AccountsInit
  <1>1. Types
    <2>1. slot \in [Port -> 0..CONNMAX]
      BY <1>0 DEF WebAssumption
    <2>2. addresses \in [Port -> Seq(Tablet)]
      BY <1>0
    <2>3. QED
      BY <1>0, <2>1, <2>2 DEF Types, FrontTypeOK, AccountsTypeOK, Ended
  <1>2. Forked
    BY <1>0 DEF Forked, Child
  <1>3. AnswersSuffice
    <2> SUFFICES ASSUME NEW p \in Port
                 PROVE  Cardinality(Waiters(p)) = Cardinality(Askers(p)) + Len(addresses[p])
      BY DEF AnswersSuffice, Waiters, Askers
    <2>1. Waiters(p) = {} /\ Askers(p) = {} /\ Len(addresses[p]) = 0
      BY <1>0 DEF Waiters, Askers
    <2>2. QED
      BY <2>1, FS_EmptySet
  <1>4. NamesFirst /\ AccountComplete
    BY <1>0 DEF NamesFirst, AccountComplete, Puts
  <1>5. OneSignUp /\ PutsNew
    BY <1>0 DEF OneSignUp, PutsNew, SigningUp, Ended, Puts
  <1>6. CookieFits /\ OneFounder
    BY <1>0 DEF CookieFits, OneFounder
  <1>7. QED
    BY <1>1, <1>2, <1>3, <1>4, <1>5, <1>6 DEF WInv, Owners

LEMMA AccountInv ==
    ASSUME WebAssumption, AccountAssumption, WInv, NEW c \in Child, Account(c), UNCHANGED asked
    PROVE  WInv'
  <1>1. CASE query(c)
    BY <1>1, QueryInv
  <1>2. CASE connect(c)
    BY <1>2, ConnectInv
  <1>3. CASE login(c)
    BY <1>3, LoginInv
  <1>4. CASE signup(c)
    BY <1>4, SignupInv
  <1>5. CASE put_firstname(c) \/ put_lastname(c)
    BY <1>5, PutNameInv
  <1>6. CASE put_password(c)
    BY <1>6, PutPasswordInv
  <1>7. CASE mismatch(c) \/ hello(c) \/ hangup(c)
    BY <1>7, AccountMoves, MovesInv DEF WInv
  <1>8. QED
    BY <1>1, <1>2, <1>3, <1>4, <1>5, <1>6, <1>7 DEF Account

LEMMA NextInv ==
    ASSUME WebAssumption, AccountAssumption, WorkloadAssumption, WInv, [Next]_vars
    PROVE  WInv'
  <1>0. parent \in [Port -> {"none", "up", "dead"}]
    BY DEF WInv, Types, FrontTypeOK
  <1>1. CASE Next
    <2>0. UNCHANGED asked
      BY <1>1 DEF Next
    <2>1. ASSUME NEW p \in Port, Parent(p), UNCHANGED accountVars
          PROVE  WInv'
      <3>1. CASE \E r \in asked.requests[p] : Accept(p, r)
        BY <2>0, <2>1, <3>1, AcceptInv
      <3>2. CASE startServer(p) \/ Kill(p)
        <4>1. UNCHANGED <<slot, req, pc>>
          BY <3>2 DEF startServer, Kill
        <4>2. parent' \in [Port -> {"none", "up", "dead"}]
          BY <1>0, <3>2 DEF startServer, Kill
        <4>3. QED
          BY <2>0, <2>1, <4>1, <4>2, IdleInv
      <3>3. QED
        BY <2>1, <3>1, <3>2 DEF Parent
    <2>2. ASSUME NEW c \in Child, Page(c), UNCHANGED accountVars
          PROVE  WInv'
      BY <2>0, <2>2, PageMoves, MovesInv DEF WInv
    <2>3. ASSUME UNCHANGED <<frontVars, accountVars>>
          PROVE  WInv'
      BY <1>0, <2>0, <2>3, IdleInv DEF frontVars
    <2>4. ASSUME PageServers PROVE UNCHANGED frontVars
      BY <2>4 DEF PageServers, MailAnswers, DriveAccepts, DriveReads
    <2>5. asked.stops \subseteq Tablet
      BY DEF WInv, Types, WorkloadAssumption
    <2>6. CASE \E c \in Child : Account(c) \/ handleQuery(c)
      BY <2>0, <2>6, AccountInv, HandleQueryInv
    <2>7. CASE \E t \in asked.stops : Stop(t)
      BY <2>0, <2>5, <2>7, StopInv
    <2>8. CASE UNCHANGED accountVars /\ \E p \in Port : Parent(p)
      BY <2>1, <2>8
    <2>9. CASE UNCHANGED accountVars /\ (PageServers \/ \E c \in Child : Page(c))
      BY <2>2, <2>3, <2>4, <2>9
    <2>10. CASE UNCHANGED <<frontVars, accountVars>>
      BY <2>3, <2>10
    <2>11. Step
      BY <1>1 DEF Next
    <2>12. QED
      BY <2>6, <2>7, <2>8, <2>9, <2>10, <2>11 DEF Step
  <1>2. CASE UNCHANGED vars
    BY <1>0, <1>2, IdleInv DEF vars, frontVars
  <1>3. QED
    BY <1>1, <1>2

LEMMA Invariance == Spec => []WInv
  <1>1. Init => WInv
    BY WebAssumption, InitInv
  <1>2. WInv /\ [Next]_vars => WInv'
    BY WebAssumption, AccountAssumption, WorkloadAssumption, NextInv
  <1>3. QED
    BY <1>1, <1>2, PTL DEF Spec

-----------------------------------------------------------------------------
(* The theorems *)

\* An account with a password has its names, wherever its sign-up was broken
\* off: put_password comes last (http4.cc:1320).
THEOREM AccountsComplete == Spec => []AccountComplete
  <1>1. WInv => AccountComplete
    BY DEF WInv
  <1>2. QED
    BY <1>1, Invariance, PTL

\* However children take each other's answers from the socket they share
\* (http4.cc:983 and 1219), every child that waits has an answer to come or one
\* in the socket.
THEOREM EnoughAnswers == Spec => []AnswersSuffice
  <1>1. WInv => AnswersSuffice
    BY DEF WInv
  <1>2. QED
    BY <1>1, Invariance, PTL

\* A cookie goes to who gave the password of the one sign-up of the name, unless
\* two sign-ups overlapped or the password was lost (http4.cc:1059 and 1265).
THEOREM SingleOwner == Spec => []OneOwner
  <1>1. WInv => OneOwner
    <2> SUFFICES ASSUME WInv, NEW c \in cookies, NEW d \in cookies,
                        req[c].page = "signup" \/ req[c].pass # Blank,
                        req[d].page = "signup" \/ req[d].pass # Blank,
                        req[d].user = req[c].user, Clean(req[c].user)
                 PROVE  /\ req[c].pass = req[d].pass
                        /\ req[c].page = "signup" /\ req[d].page = "signup" => c = d
      BY DEF OneOwner, Clean
    <2>1. pass[req[c].user] = req[c].pass /\ pass[req[d].user] = req[d].pass
      BY DEF WInv, Owners, CookieFits
    <2>2. req[c].page = "signup" /\ req[d].page = "signup" => c = d
      BY DEF WInv, Owners, OneFounder
    <2>3. QED
      BY <2>1, <2>2
  <1>2. QED
    BY <1>1, Invariance, PTL

-----------------------------------------------------------------------------
(* The pages of mail and drive.                                            *)

PageTypes ==
    /\ up \in [Port -> [Server -> Seq(Written)]]
    /\ down \in [Port -> [Server -> Seq(Answer)]]
    /\ shown \in [Child -> Seq(Answer)]
    /\ overlap \subseteq Port \X Server
    /\ drive \in {"command", "data", "gone"}
    /\ accepted = {} \/ \E p \in Port : accepted = {p}
    /\ accepted = {} => drive = "command"

\* No two requests have been on the connection at once, and no child has got so
\* far that it may leave something there.
Calm(p, s) ==
    /\ <<p, s>> \notin overlap
    /\ s = "drive" =>
         /\ drive # "gone"
         /\ \A d \in Child :
              d[1] = p /\ req[d].page \in Careless => pc[d] \in {"none", "start", "asked"}

\* What is on the connection is the command of c, or its answer.
Holds(p, s, c) ==
    \/ up[p][s] = <<[from |-> c, what |-> "command"]>> /\ down[p][s] = <<>>
    \/ up[p][s] = <<>> /\ down[p][s] = <<[to |-> c, what |-> "answer"]>>

Aligned(p, s) ==
    \/ Waiting(p, s) = {} /\ up[p][s] = <<>> /\ down[p][s] = <<>>
    \/ \E c \in Child : Waiting(p, s) = {c} /\ Holds(p, s, c)

InStep == \A p \in Port, s \in Server : Calm(p, s) => Aligned(p, s)

\* While the connection is calm the drive waits for the bytes of a file only
\* until the child that sends them has read that it may.
Uploads ==
    drive = "data" =>
        \A p \in accepted : Calm(p, "drive") =>
            /\ up[p]["drive"] = <<>>
            /\ \E d \in Waiting(p, "drive") : req[d].page = "fileupload"

PInv == PageTypes /\ InStep /\ Uploads /\ OwnAnswer

-----------------------------------------------------------------------------
(* What is calm now was calm before, and steps of no page change nothing.  *)

\* No child comes back to an earlier place, and none gets another request.
Onward ==
    \A d \in Child :
        /\ pc[d] # "none" => pc'[d] # "none" /\ req'[d] = req[d]
        /\ pc'[d] \in {"none", "start", "asked"} => pc[d] \in {"none", "start", "asked"}

\* No child asks a server, nor ends a page that one was asked for.
OffPage ==
    /\ Onward
    /\ \A d \in Child :
         /\ pc'[d] = "asked" <=> pc[d] = "asked"
         /\ pc'[d] = "done" /\ req'[d].page \in MailPage \cup DrivePage => pc[d] = "done"

LEMMA CalmBefore ==
    ASSUME Onward, overlap \subseteq overlap', drive = "gone" => drive' = "gone",
           NEW p \in Port, NEW s \in Server, Calm(p, s)'
    PROVE  Calm(p, s)
  <1>1. <<p, s>> \notin overlap
    BY DEF Calm
  <1>2. ASSUME s = "drive", NEW d \in Child, d[1] = p, req[d].page \in Careless
        PROVE  pc[d] \in {"none", "start", "asked"}
    BY <1>2 DEF Calm, Onward
  <1>3. s = "drive" => drive # "gone"
    BY DEF Calm
  <1>4. QED
    BY <1>1, <1>2, <1>3 DEF Calm

LEMMA UndisturbedBefore ==
    ASSUME Onward, overlap \subseteq overlap', drive = "gone" => drive' = "gone",
           NEW p \in Port, NEW s \in Server, NEW c, Undisturbed(p, s, c)'
    PROVE  Undisturbed(p, s, c)
  <1>1. ASSUME s = "drive", NEW d \in Child \ {c}, d[1] = p, pc[d] # "none"
        PROVE  req[d].page \notin Careless
    BY <1>1 DEF Undisturbed, Onward
  <1>2. QED
    BY <1>1 DEF Undisturbed

LEMMA OffPageInv ==
    ASSUME PInv, OffPage, UNCHANGED pageVars
    PROVE  PInv'
  <1>1. /\ UNCHANGED <<up, down, shown, accepted, drive, overlap>>
        /\ Onward
    BY DEF pageVars, OffPage
  <1>2. PageTypes'
    BY <1>1 DEF PInv, PageTypes
  <1>3. \A p \in Port, s \in Server : Calm(p, s)' => Calm(p, s)
    BY <1>1, CalmBefore
  <1>4. \A p, s : Waiting(p, s)' = Waiting(p, s)
    BY <1>1 DEF Waiting, ServerOf, OffPage, Onward
  <1>5. InStep'
    BY <1>1, <1>3, <1>4 DEF PInv, InStep, Aligned, Holds
  <1>6. Uploads'
    <2>1. SUFFICES ASSUME drive = "data", NEW p \in accepted, Calm(p, "drive")'
                   PROVE  /\ up[p]["drive"] = <<>>
                          /\ \E d \in Waiting(p, "drive") : req'[d].page = "fileupload"
      BY <1>1, <1>4 DEF Uploads
    <2>2. p \in Port
      BY DEF PInv, PageTypes
    <2>3. PICK d \in Waiting(p, "drive") : req[d].page = "fileupload" /\ up[p]["drive"] = <<>>
      BY <1>3, <2>1, <2>2 DEF PInv, Uploads, Server
    <2>4. req'[d] = req[d]
      BY <1>1, <2>3 DEF Waiting, Onward
    <2>5. QED
      BY <2>3, <2>4
  <1>7. OwnAnswer'
    <2>1. SUFFICES ASSUME NEW c \in Child, pc'[c] = "done",
                          req'[c].page \in MailPage \cup DrivePage,
                          Undisturbed(c[1], ServerOf(c), c)'
                   PROVE  shown[c] = <<[to |-> c, what |-> "answer"]>>
      BY <1>1 DEF OwnAnswer
    <2>2. pc[c] = "done" /\ req'[c] = req[c]
      BY <2>1 DEF OffPage, Onward
    <2>3. c[1] \in Port /\ ServerOf(c) \in Server /\ ServerOf(c)' = ServerOf(c)
      BY <2>2 DEF Child, ServerOf, Server
    <2>4. Undisturbed(c[1], ServerOf(c), c)
      BY <1>1, <2>1, <2>3, UndisturbedBefore
    <2>5. QED
      BY <2>1, <2>2, <2>4 DEF PInv, OwnAnswer
  <1>8. QED
    BY <1>2, <1>5, <1>6, <1>7 DEF PInv

LEMMA OffPage_Same ==
    ASSUME UNCHANGED <<req, pc>>
    PROVE  OffPage
  BY DEF OffPage, Onward

LEMMA OffPage_GoTo ==
    ASSUME Types, NEW c \in Child, NEW to, GoTo(c, to),
           pc[c] \notin {"none", "asked"}, to \notin {"none", "start", "asked"},
           to = "done" => req[c].page \notin MailPage \cup DrivePage
    PROVE  OffPage
  BY DEF OffPage, Onward, GoTo, Types, FrontTypeOK

LEMMA OffPage_Accept ==
    ASSUME WebAssumption, WInv, NEW p \in Port, NEW r, Accept(p, r)
    PROVE  OffPage
  <1> DEFINE c == <<p, slot[p]>>
  <1>1. slot[p] \in Slot
    <2>1. slot[p] \in 0..CONNMAX /\ slot[p] < CONNMAX /\ CONNMAX \in Nat
      BY DEF Accept, WInv, Types, FrontTypeOK, WebAssumption
    <2>2. QED
      BY <2>1 DEF Slot
  <1>2. c \in Child /\ pc[c] = "none"
    <2>1. slot[p] >= slot[p]
      BY <1>1 DEF Slot
    <2>2. QED
      BY <1>1, <2>1 DEF WInv, Forked, Child
  <1>3. \A d \in Child : /\ d # c => pc'[d] = pc[d] /\ req'[d] = req[d]
                         /\ pc'[c] = "start"
    BY <1>2 DEF Accept, WInv, Types, FrontTypeOK
  <1>4. QED
    BY <1>2, <1>3 DEF OffPage, Onward

LEMMA OffPage_Account ==
    ASSUME Types, NEW c \in Child, Account(c)
    PROVE  OffPage
  <1>1. \A page \in {"login", "signup"} : page \notin MailPage \cup DrivePage
    BY DEF MailPage, DrivePage
  <1>2. CASE query(c)
    BY <1>2, OffPage_GoTo DEF query
  <1>3. CASE mismatch(c) \/ hello(c) \/ hangup(c) \/ login(c) \/ signup(c)
    BY <1>1, <1>3, OffPage_GoTo DEF mismatch, hello, hangup, login, signup, At
  <1>4. CASE connect(c)
    BY <1>4, OffPage_GoTo DEF connect
  <1>5. ASSUME NEW from \in Puts, NEW to \in {"put lastname", "put password", "done"}, NEW col,
               PutColumn(c, from, col, to)
        PROVE  OffPage
    <2>1. req[c].page = "signup" /\ pc[c] = from /\ from \notin {"none", "asked"}
      BY <1>5 DEF PutColumn, At, Puts
    <2>2. PICK where \in {"put lastname", "put password", "done", "stuck", "crashed"} : GoTo(c, where)
      BY <1>5 DEF PutColumn
    <2>3. QED
      BY <1>1, <2>1, <2>2, OffPage_GoTo
  <1>6. CASE put_firstname(c) \/ put_lastname(c) \/ put_password(c)
    BY <1>5, <1>6 DEF put_firstname, put_lastname, put_password, Puts
  <1>7. QED
    BY <1>2, <1>3, <1>4, <1>6 DEF Account

-----------------------------------------------------------------------------
(* A child writes its command.                                             *)

LEMMA SendInv ==
    ASSUME Types, PInv, NEW c \in Child, NEW page \in MailPage \cup DrivePage, Send(c, page)
    PROVE  PInv'
  <1>a. PICK p \in Port : p = c[1]
    BY DEF Child
  <1>b. PICK s \in Server : s = ServerOf(c)
    BY DEF ServerOf, Server
  <1> DEFINE goneBy == s = "drive" /\ drive = "gone"
  <1>c. req[c].page = page /\ pc[c] = "start"
    BY DEF Send, At
  <1>d. \/ GoTo(c, "crashed") /\ UNCHANGED pageVars
        \/ GoTo(c, "asked") /\ ~goneBy /\ Ask(c, s)
        \/ GoTo(c, "asked") /\ goneBy /\ UNCHANGED pageVars
    BY <1>b, Zenon DEF Send
  <1>1. CASE GoTo(c, "crashed") /\ UNCHANGED pageVars
    BY <1>c, <1>1, OffPageInv, OffPage_GoTo
  <1>2. CASE GoTo(c, "asked")
    <2>1. /\ pc' = [pc EXCEPT ![c] = "asked"] /\ req' = req
          /\ pc \in [Child -> Ended \cup {"start", "asked", "address", "get", "firstname",
                 "put firstname", "put lastname", "put password", "stuck"}]
      BY <1>2 DEF GoTo, Types, FrontTypeOK
    <2>2. Onward
      BY <1>c, <2>1 DEF Onward
    <2>3. /\ Waiting(p, s)' = Waiting(p, s) \cup {c}
          /\ \A q, t : <<q, t>> # <<p, s>> => Waiting(q, t)' = Waiting(q, t)
      <3>1. pc'[c] = "asked" /\ \A d \in Child \ {c} : pc'[d] = pc[d]
        BY <2>1
      <3>2. \A d : ServerOf(d)' = ServerOf(d)
        BY <2>1 DEF ServerOf
      <3>3. QED
        BY <1>a, <1>b, <3>1, <3>2 DEF Waiting
    <2>4. OwnAnswer' = (\A d \in Child :
              /\ pc'[d] = "done" /\ req[d].page \in MailPage \cup DrivePage
              /\ Undisturbed(d[1], ServerOf(d), d)'
              => shown'[d] = <<[to |-> d, what |-> "answer"]>>)
      BY <2>1 DEF OwnAnswer, ServerOf
    <2>5. ASSUME overlap \subseteq overlap', drive' = drive, shown' = shown
          PROVE  OwnAnswer'
      <3>1. SUFFICES ASSUME NEW d \in Child, pc'[d] = "done",
                            req[d].page \in MailPage \cup DrivePage,
                            Undisturbed(d[1], ServerOf(d), d)'
                     PROVE  shown[d] = <<[to |-> d, what |-> "answer"]>>
        BY <2>4, <2>5
      <3>2. pc[d] = "done" /\ d[1] \in Port /\ ServerOf(d) \in Server
        BY <2>1, <3>1 DEF Child, ServerOf, Server
      <3>3. ServerOf(d)' = ServerOf(d)
        BY <2>1 DEF ServerOf
      <3>4. Undisturbed(d[1], ServerOf(d), d)
        BY <2>2, <2>5, <3>1, <3>2, <3>3, UndisturbedBefore
      <3>5. QED
        BY <3>1, <3>2, <3>4 DEF PInv, OwnAnswer
    <2>6. CASE ~goneBy /\ Ask(c, s)
      <3>1. /\ UNCHANGED <<down, shown, accepted, drive>> /\ overlap \subseteq overlap'
            /\ up' = [up EXCEPT ![p][s] = Append(@, [from |-> c, what |-> "command"])]
            /\ <<p, s>> \notin overlap' => Waiting(p, s) = {}
            /\ overlap' \subseteq overlap \cup {<<p, s>>}
        BY <1>a, <2>6 DEF Ask
      <3>2. \A q \in Port, t \in Server : Calm(q, t)' => Calm(q, t)
        BY <2>2, <3>1, CalmBefore
      <3>3. PageTypes'
        <4>1. [from |-> c, what |-> "command"] \in Written
          BY DEF Written
        <4>2. up' \in [Port -> [Server -> Seq(Written)]]
          <5>1. Append(up[p][s], [from |-> c, what |-> "command"]) \in Seq(Written)
            BY <4>1, AppendProperties DEF PInv, PageTypes
          <5>2. QED
            BY <3>1, <5>1 DEF PInv, PageTypes
        <4>3. QED
          BY <1>c, <3>1, <4>2 DEF PInv, PageTypes
      <3>4. /\ up'[p][s] = Append(up[p][s], [from |-> c, what |-> "command"])
            /\ \A q \in Port, t \in Server : <<q, t>> # <<p, s>> => up'[q][t] = up[q][t]
        BY <1>c, <3>1 DEF PInv, PageTypes
      <3>5. InStep'
        <4>1. SUFFICES ASSUME NEW q \in Port, NEW t \in Server, Calm(q, t)'
                       PROVE  Aligned(q, t)'
          BY DEF InStep
        <4>2. Aligned(q, t)
          BY <3>2, <4>1 DEF PInv, InStep
        <4>3. CASE <<q, t>> # <<p, s>>
          <5>1. Waiting(q, t)' = Waiting(q, t) /\ up'[q][t] = up[q][t] /\ down' = down
            BY <2>3, <3>1, <3>4, <4>3
          <5>2. QED
            BY <4>2, <5>1 DEF Aligned, Holds
        <4>4. CASE q = p /\ t = s
          <5>1. Waiting(p, s) = {}
            BY <3>1, <4>1, <4>4 DEF Calm
          <5>2. up[p][s] = <<>> /\ down[p][s] = <<>>
            BY <4>2, <4>4, <5>1 DEF Aligned
          <5>3. Waiting(p, s)' = {c} /\ up'[p][s] = <<[from |-> c, what |-> "command"]>>
            BY <2>3, <3>4, <5>1, <5>2
          <5>4. Holds(p, s, c)'
            BY <3>1, <5>2, <5>3 DEF Holds
          <5>5. QED
            BY <4>4, <5>3, <5>4 DEF Aligned
        <4>5. QED
          BY <4>3, <4>4
      <3>6. Uploads'
        <4>1. SUFFICES ASSUME drive = "data", NEW q \in accepted, Calm(q, "drive")'
                       PROVE  /\ up'[q]["drive"] = <<>>
                              /\ \E d \in Waiting(q, "drive")' : req[d].page = "fileupload"
          BY <2>1, <3>1 DEF Uploads
        <4>2. q \in Port /\ "drive" \in Server
          BY DEF PInv, PageTypes, Server
        <4>3. PICK d \in Waiting(q, "drive") : req[d].page = "fileupload" /\ up[q]["drive"] = <<>>
          BY <3>2, <4>1, <4>2 DEF PInv, Uploads
        <4>4. <<q, "drive">> # <<p, s>>
          BY <3>1, <4>1, <4>3 DEF Calm
        <4>5. QED
          BY <2>3, <3>4, <4>2, <4>3, <4>4
      <3>7. QED
        BY <2>5, <3>1, <3>3, <3>5, <3>6 DEF PInv
    <2>7. CASE goneBy /\ UNCHANGED pageVars
      <3>1. UNCHANGED <<up, down, shown, accepted, drive, overlap>>
        BY <2>7 DEF pageVars
      <3>2. \A q \in Port, t \in Server : Calm(q, t)' => Calm(q, t)
        BY <2>2, <3>1, CalmBefore
      <3>3. PageTypes'
        BY <3>1 DEF PInv, PageTypes
      <3>4. InStep'
        <4>1. SUFFICES ASSUME NEW q \in Port, NEW t \in Server, Calm(q, t)'
                       PROVE  Aligned(q, t)'
          BY DEF InStep
        <4>2. t # "drive"
          BY <2>7, <3>1, <4>1 DEF Calm
        <4>3. Aligned(q, t)
          BY <3>2, <4>1 DEF PInv, InStep
        <4>4. QED
          BY <2>3, <2>7, <3>1, <4>2, <4>3 DEF Aligned, Holds
      <3>5. Uploads'
        BY <2>7, <3>1 DEF Uploads
      <3>6. QED
        BY <2>5, <3>1, <3>3, <3>4, <3>5 DEF PInv
    <2>8. QED
      BY <1>1, <1>2, <1>d, <2>6, <2>7
  <1>3. QED
    BY <1>1, <1>2, <1>d

-----------------------------------------------------------------------------
(* A child reads what is there and ends.                                   *)

\* What a step from "asked" does to the connection: the page of a careless
\* child leaves what it likes there, and may write the bytes of a file.
TakesAnswer(c, p, s, left, to) ==
    /\ p = c[1] /\ s = ServerOf(c)
    /\ pc[c] = "asked" /\ GoTo(c, to)
    /\ down' = [down EXCEPT ![p][s] = left]
    /\ \/ /\ shown' = [shown EXCEPT ![c] = down[p][s]]
          /\ down[p][s] # <<>> \/ (s = "drive" /\ drive = "gone")
       \/ shown' = shown /\ to = "crashed" /\ req[c].page \in Careless
    /\ \/ up' = up /\ left = <<>>
       \/ up' = up /\ req[c].page \in Careless
       \/ /\ up' = [up EXCEPT ![p]["drive"] = Append(@, [from |-> c, what |-> "data"])]
          /\ req[c].page \in Careless
    /\ UNCHANGED <<accepted, drive, overlap>>

LEMMA TakesAnswerInv ==
    ASSUME Types, PInv, NEW c \in Child, NEW p \in Port, NEW s \in Server,
           NEW left \in Seq(Answer), NEW to \in {"done", "crashed"},
           TakesAnswer(c, p, s, left, to)
    PROVE  PInv'
  <1> USE DEF TakesAnswer
  <1>1. /\ pc' = [pc EXCEPT ![c] = to] /\ req' = req
        /\ pc'[c] = to /\ pc[c] = "asked" /\ \A d \in Child \ {c} : pc'[d] = pc[d]
    BY DEF GoTo, Types, FrontTypeOK
  <1>2. Onward
    BY <1>1 DEF Onward
  <1>3. \A q \in Port, t \in Server : Calm(q, t)' => Calm(q, t)
    BY <1>2, CalmBefore
  <1>4. \A d : ServerOf(d)' = ServerOf(d)
    BY <1>1 DEF ServerOf
  <1>5. /\ Waiting(p, s)' = Waiting(p, s) \ {c} /\ c \in Waiting(p, s)
        /\ \A q, t : <<q, t>> # <<p, s>> => Waiting(q, t)' = Waiting(q, t)
    BY <1>1, <1>4 DEF Waiting
  <1>6. req[c].page \in Careless => s = "drive" /\ ~Calm(p, "drive")'
    <2>1. req[c].page \in Careless => s = "drive"
      BY DEF Careless, ServerOf, MailPage
    <2>2. req[c].page \in Careless => ~Calm(p, "drive")'
      BY <1>1 DEF Calm
    <2>3. QED
      BY <2>1, <2>2
  <1>7. /\ down'[p][s] = left
        /\ \A q \in Port, t \in Server : <<q, t>> # <<p, s>> => down'[q][t] = down[q][t]
    BY DEF PInv, PageTypes
  <1>8. \A q \in Port, t \in Server :
            <<q, t>> # <<p, s>> \/ req[c].page \notin Careless => up'[q][t] = up[q][t]
    <2>1. CASE up' = up
      BY <2>1
    <2>2. CASE up' # up
      <3>1. /\ up' = [up EXCEPT ![p]["drive"] = Append(@, [from |-> c, what |-> "data"])]
            /\ s = "drive" /\ req[c].page \in Careless
        BY <1>6, <2>2
      <3>2. \A q \in Port, t \in Server : <<q, t>> # <<p, "drive">> => up'[q][t] = up[q][t]
        BY <3>1 DEF PInv, PageTypes
      <3>3. QED
        BY <3>1, <3>2
    <2>3. QED
      BY <2>1, <2>2
  <1>9. PageTypes'
    <2>1. down' \in [Port -> [Server -> Seq(Answer)]]
      BY DEF PInv, PageTypes
    <2>2. up' \in [Port -> [Server -> Seq(Written)]]
      <3>1. [from |-> c, what |-> "data"] \in Written /\ "drive" \in Server
        BY DEF Written, Server
      <3>2. Append(up[p]["drive"], [from |-> c, what |-> "data"]) \in Seq(Written)
        BY <3>1, AppendProperties DEF PInv, PageTypes
      <3>3. QED
        <4>1. CASE up' = up
          BY <4>1 DEF PInv, PageTypes
        <4>2. CASE up' = [up EXCEPT ![p]["drive"] = Append(@, [from |-> c, what |-> "data"])]
          BY <3>1, <3>2, <4>2 DEF PInv, PageTypes
        <4>3. QED
          BY <4>1, <4>2
    <2>3. shown' \in [Child -> Seq(Answer)]
      <3>1. down[p][s] \in Seq(Answer)
        BY DEF PInv, PageTypes
      <3>2. QED
        BY <3>1 DEF PInv, PageTypes
    <2>4. QED
      BY <2>1, <2>2, <2>3 DEF PInv, PageTypes
  <1>10. Calm(p, s) => /\ Waiting(p, s) = {c} /\ Holds(p, s, c)
                       /\ ~(s = "drive" /\ drive = "gone")
    BY <1>5 DEF PInv, InStep, Aligned, Calm
  <1>11. InStep'
    <2>1. SUFFICES ASSUME NEW q \in Port, NEW t \in Server, Calm(q, t)'
                   PROVE  Aligned(q, t)'
      BY DEF InStep
    <2>2. CASE <<q, t>> # <<p, s>>
      <3>1. /\ Waiting(q, t)' = Waiting(q, t)
            /\ up'[q][t] = up[q][t] /\ down'[q][t] = down[q][t]
        BY <1>5, <1>7, <1>8, <2>2
      <3>2. Aligned(q, t)
        BY <1>3, <2>1 DEF PInv, InStep
      <3>3. QED
        BY <3>1, <3>2 DEF Aligned, Holds
    <2>3. CASE q = p /\ t = s
      <3>1. Calm(p, s) /\ req[c].page \notin Careless
        BY <1>3, <1>6, <2>1, <2>3
      <3>2. left = <<>> /\ down[p][s] # <<>>
        BY <1>10, <3>1
      <3>3. up[p][s] = <<>> /\ up'[p][s] = up[p][s]
        BY <1>8, <1>10, <3>1, <3>2 DEF Holds
      <3>4. Waiting(p, s)' = {}
        BY <1>5, <1>10, <3>1
      <3>5. QED
        BY <1>7, <2>3, <3>2, <3>3, <3>4 DEF Aligned
    <2>4. QED
      BY <2>2, <2>3
  <1>12. Uploads'
    <2>1. SUFFICES ASSUME drive = "data", NEW q \in accepted, Calm(q, "drive")'
                   PROVE  /\ up'[q]["drive"] = <<>>
                          /\ \E d \in Waiting(q, "drive")' : req[d].page = "fileupload"
      BY <1>1 DEF Uploads
    <2>2. q \in Port /\ "drive" \in Server
      BY DEF PInv, PageTypes, Server
    <2>3. PICK d \in Waiting(q, "drive") : req[d].page = "fileupload" /\ up[q]["drive"] = <<>>
      BY <1>3, <2>1, <2>2 DEF PInv, Uploads
    <2>4. d # c
      BY <1>6, <2>1, <2>3 DEF Careless, Waiting
    <2>5. <<q, "drive">> # <<p, s>> \/ req[c].page \notin Careless
      BY <1>6, <2>1
    <2>6. up'[q]["drive"] = <<>>
      BY <1>8, <2>2, <2>3, <2>5
    <2>7. d \in Waiting(q, "drive")'
      BY <1>1, <1>4, <2>3, <2>4 DEF Waiting
    <2>8. QED
      BY <2>3, <2>6, <2>7
  <1>13. OwnAnswer'
    <2>1. SUFFICES ASSUME NEW d \in Child, pc'[d] = "done",
                          req[d].page \in MailPage \cup DrivePage,
                          Undisturbed(d[1], ServerOf(d), d)'
                   PROVE  shown'[d] = <<[to |-> d, what |-> "answer"]>>
      BY <1>1 DEF OwnAnswer
    <2>2. PICK q \in Port, t \in Server : q = d[1] /\ t = ServerOf(d)
      BY DEF Child, ServerOf, Server
    <2>3. Undisturbed(q, t, d)'
      BY <1>4, <2>1, <2>2
    <2>4. Undisturbed(q, t, d)
      BY <1>2, <2>3, UndisturbedBefore
    <2>5. CASE d # c
      <3>1. pc[d] = "done" /\ shown'[d] = shown[d]
        BY <1>1, <2>1, <2>5 DEF PInv, PageTypes
      <3>2. QED
        BY <2>1, <2>2, <2>4, <3>1 DEF PInv, OwnAnswer
    <2>6. CASE d = c
      <3>1. q = p /\ t = s
        BY <2>2, <2>6
      <3>2. Calm(p, s)
        BY <1>1, <2>4, <2>6, <3>1 DEF Calm, Undisturbed
      <3>3. to = "done" /\ down[p][s] # <<>> /\ shown'[c] = down[p][s]
        BY <1>1, <1>10, <2>1, <2>6, <3>2 DEF PInv, PageTypes
      <3>4. QED
        BY <1>10, <2>6, <3>2, <3>3 DEF Holds
    <2>7. QED
      BY <2>5, <2>6
  <1>14. QED
    BY <1>9, <1>11, <1>12, <1>13 DEF PInv

LEMMA RemainsType ==
    ASSUME NEW ds \in Seq(Answer)
    PROVE  Remains(ds) \subseteq Seq(Answer)
  <1>1. <<>> \in Seq(Answer)
    BY EmptySeq
  <1>2. ASSUME NEW i \in DOMAIN ds
        PROVE  <<[ds[i] EXCEPT !.what = "rest"]>> \o SubSeq(ds, i + 1, Len(ds)) \in Seq(Answer)
    <2>1. i \in 1..Len(ds) /\ Len(ds) \in Nat /\ ds[i] \in Answer
      BY LenProperties, ElementOfSeq
    <2>2. [ds[i] EXCEPT !.what = "rest"] \in Answer
      BY <2>1 DEF Answer
    <2>3. \A j \in (i + 1)..Len(ds) : ds[j] \in Answer
      BY <2>1, ElementOfSeq
    <2>4. SubSeq(ds, i + 1, Len(ds)) \in Seq(Answer)
      BY <2>1, <2>3, SubSeqProperties
    <2>5. <<[ds[i] EXCEPT !.what = "rest"]>> \in Seq(Answer)
      BY <2>2
    <2>6. QED
      BY <2>4, <2>5, ConcatProperties
  <1>3. QED
    BY <1>1, <1>2 DEF Remains

LEMMA ReadInv ==
    ASSUME Types, PInv, NEW c \in Child, NEW page \in MailPage \cup DrivePage,
           NEW left \in Seq(Answer), NEW to \in {"done", "crashed"},
           left = <<>> \/ page \in Careless, Read(c, page, left, to)
    PROVE  PInv'
  <1>1. PICK p \in Port, s \in Server : p = c[1] /\ s = ServerOf(c)
    BY DEF Child, ServerOf, Server
  <1>2. /\ pc[c] = "asked" /\ req[c].page = page /\ GoTo(c, to)
        /\ UNCHANGED <<up, accepted, drive, overlap>>
    BY DEF Read, At
  <1>3. /\ down' = [down EXCEPT ![p][s] = left]
        /\ shown' = [shown EXCEPT ![c] = down[p][s]]
        /\ down[p][s] # <<>> \/ (s = "drive" /\ drive = "gone")
    BY <1>1 DEF Read, There
  <1>4. TakesAnswer(c, p, s, left, to)
    BY <1>1, <1>2, <1>3 DEF TakesAnswer
  <1>5. QED
    BY <1>1, <1>4, TakesAnswerInv

LEMMA UploadInv ==
    ASSUME Types, PInv, NEW c \in Child, fileupload(c)
    PROVE  PInv'
  <1>1. PICK p \in Port : p = c[1]
    BY DEF Child
  <1>2. CASE Send(c, "fileupload")
    BY <1>2, SendInv DEF DrivePage
  <1>3. CASE ~Send(c, "fileupload")
    <2>1. /\ At(c, {"fileupload"}, "asked")
          /\ There(c) # <<>> \/ drive = "gone"
          /\ down' = [down EXCEPT ![p]["drive"] = <<>>]
          /\ shown' = [shown EXCEPT ![c] = There(c)]
          /\ UNCHANGED <<accepted, drive, overlap>>
      BY <1>1, <1>3 DEF fileupload
    <2>2. PICK to \in {"done", "crashed"} :
            /\ GoTo(c, to)
            /\ \/ up' = up
               \/ up' = [up EXCEPT ![p]["drive"] = Append(@, [from |-> c, what |-> "data"])]
      BY <1>1, <1>3 DEF fileupload
    <2>3. "drive" = ServerOf(c) /\ req[c].page \in Careless /\ pc[c] = "asked"
      BY <2>1 DEF At, ServerOf, MailPage, Careless
    <2>4. There(c) = down[p]["drive"]
      BY <1>1, <2>3 DEF There
    <2>5. TakesAnswer(c, p, "drive", <<>>, to)
      BY <1>1, <2>1, <2>2, <2>3, <2>4 DEF TakesAnswer
    <2>6. <<>> \in Seq(Answer) /\ "drive" \in Server
      BY EmptySeq DEF Server
    <2>7. QED
      BY <2>5, <2>6, TakesAnswerInv
  <1>4. QED
    BY <1>2, <1>3

LEMMA DownloadInv ==
    ASSUME Types, PInv, NEW c \in Child, downloadfile(c)
    PROVE  PInv'
  <1>1. There(c) \in Seq(Answer)
    BY DEF There, PInv, PageTypes, Child, ServerOf, Server
  <1>2. CASE Send(c, "downloadfile")
    BY <1>2, SendInv DEF DrivePage
  <1>3. CASE \E left \in Remains(There(c)) : Read(c, "downloadfile", left, "done")
    BY <1>1, <1>3, RemainsType, ReadInv DEF DrivePage, Careless
  <1>4. CASE At(c, {"downloadfile"}, "asked") /\ GoTo(c, "crashed") /\ UNCHANGED pageVars
    <2>1. PICK p \in Port : p = c[1]
      BY DEF Child
    <2>2. "drive" = ServerOf(c) /\ req[c].page \in Careless /\ pc[c] = "asked"
      BY <1>4 DEF At, ServerOf, MailPage, Careless
    <2>3. "drive" \in Server /\ down[p]["drive"] \in Seq(Answer)
      BY DEF Server, PInv, PageTypes
    <2>4. down = [down EXCEPT ![p]["drive"] = down[p]["drive"]]
      BY <2>3 DEF PInv, PageTypes
    <2>5. TakesAnswer(c, p, "drive", down[p]["drive"], "crashed")
      BY <1>4, <2>1, <2>2, <2>4 DEF TakesAnswer, pageVars
    <2>6. PICK left \in Seq(Answer) : TakesAnswer(c, p, "drive", left, "crashed")
      BY <2>3, <2>5
    <2>7. QED
      BY <2>3, <2>6, TakesAnswerInv
  <1>5. QED
    BY <1>2, <1>3, <1>4 DEF downloadfile

LEMMA PageInv ==
    ASSUME Types, PInv, NEW c \in Child, Page(c)
    PROVE  PInv'
  <1>1. <<>> \in Seq(Answer) /\ There(c) \in Seq(Answer)
    BY EmptySeq DEF There, PInv, PageTypes, Child, ServerOf, Server
  <1>2. CASE form(c) \/ file(c)
    <2>1. OffPage /\ UNCHANGED pageVars
      BY <1>2, OffPage_GoTo DEF form, file, At, MailPage, DrivePage
    <2>2. QED
      BY <2>1, OffPageInv
  <1>3. ASSUME NEW page \in MailPage \cup DrivePage,
               Send(c, page) \/ Read(c, page, <<>>, "done")
        PROVE  PInv'
    BY <1>1, <1>3, SendInv, ReadInv
  <1>4. CASE mail(c) \/ inbox(c) \/ viewmail(c) \/ sentbox(c) \/ newmail(c)
    BY <1>3, <1>4 DEF mail, inbox, viewmail, sentbox, newmail, MailPage
  <1>5. CASE createfolder(c) \/ deletefolder(c) \/ deletefile(c) \/ movefolder(c)
    BY <1>3, <1>5 DEF createfolder, deletefolder, deletefile, movefolder, DrivePage
  <1>6. ASSUME NEW page \in {"movefile", "viewfolder"}, NEW left \in Remains(There(c)),
               NEW to \in {"done", "crashed"}, Read(c, page, left, to)
        PROVE  PInv'
    <2>1. page \in DrivePage /\ page \in Careless /\ left \in Seq(Answer)
      BY <1>1, RemainsType DEF DrivePage, Careless
    <2>2. QED
      BY <1>6, <2>1, ReadInv
  <1>7. CASE movefile(c)
    BY <1>3, <1>6, <1>7 DEF movefile, DrivePage
  <1>8. CASE viewfolder(c)
    <2>1. CASE Send(c, "viewfolder")
      BY <1>3, <2>1 DEF DrivePage
    <2>2. CASE ~Send(c, "viewfolder")
      <3>1. PICK left \in Remains(There(c)) : \/ Read(c, "viewfolder", left, "done")
                                              \/ Read(c, "viewfolder", left, "crashed")
        BY <1>8, <2>2 DEF viewfolder
      <3>2. QED
        BY <1>6, <3>1
    <2>3. QED
      BY <2>1, <2>2
  <1>9. QED
    BY <1>2, <1>4, <1>5, <1>7, <1>8, DownloadInv, UploadInv DEF Page

-----------------------------------------------------------------------------
(* The servers                                                             *)

\* Server s takes all that frontend p has written, and answers who wrote first.
Answers(p, s) ==
    /\ up[p][s] # <<>>
    /\ Reply(p, s) /\ TakeAll(p, s)

LEMMA AnswersAligned ==
    ASSUME PInv, NEW p \in Port, NEW s \in Server, Answers(p, s),
           UNCHANGED frontVars, overlap' = overlap, drive = "gone" => drive' = "gone"
    PROVE  /\ InStep'
           /\ up' \in [Port -> [Server -> Seq(Written)]]
           /\ down' \in [Port -> [Server -> Seq(Answer)]]
  <1>1. up[p][s] \in Seq(Written) /\ down[p][s] \in Seq(Answer)
    BY DEF PInv, PageTypes
  <1>2. [to |-> up[p][s][1].from, what |-> "answer"] \in Answer
    <2>1. 1 \in 1..Len(up[p][s])
      BY <1>1, EmptySeq DEF Answers
    <2>2. up[p][s][1] \in Written
      BY <1>1, <2>1, ElementOfSeq
    <2>3. QED
      BY <2>2 DEF Written, Answer
  <1>3. Append(down[p][s], [to |-> up[p][s][1].from, what |-> "answer"]) \in Seq(Answer)
    BY <1>1, <1>2, AppendProperties
  <1>4. up' \in [Port -> [Server -> Seq(Written)]]
    BY EmptySeq DEF PInv, PageTypes, Answers, TakeAll
  <1>5. down' \in [Port -> [Server -> Seq(Answer)]]
    BY <1>3 DEF PInv, PageTypes, Answers, Reply
  <1>6. /\ up'[p][s] = <<>>
        /\ down'[p][s] = Append(down[p][s], [to |-> up[p][s][1].from, what |-> "answer"])
        /\ \A q \in Port, t \in Server :
             <<q, t>> # <<p, s>> => up'[q][t] = up[q][t] /\ down'[q][t] = down[q][t]
    BY DEF PInv, PageTypes, Answers, Reply, TakeAll
  <1>7. \A q, t : Waiting(q, t)' = Waiting(q, t)
    BY DEF Waiting, ServerOf, frontVars
  <1>8. InStep'
    <2>1. SUFFICES ASSUME NEW q \in Port, NEW t \in Server, Calm(q, t)'
                   PROVE  Aligned(q, t)'
      BY DEF InStep
    <2>2. Onward
      BY DEF Onward, frontVars
    <2>3. Aligned(q, t)
      BY <2>1, <2>2, CalmBefore DEF PInv, InStep
    <2>4. CASE <<q, t>> # <<p, s>>
      BY <1>6, <1>7, <2>3, <2>4 DEF Aligned, Holds
    <2>5. CASE q = p /\ t = s
      <3>1. PICK c \in Child : Waiting(p, s) = {c} /\ Holds(p, s, c)
        BY <2>3, <2>5 DEF Aligned, Answers
      <3>2. up[p][s] = <<[from |-> c, what |-> "command"]>> /\ down[p][s] = <<>>
        BY <3>1 DEF Holds, Answers
      <3>3. down'[p][s] = <<[to |-> c, what |-> "answer"]>>
        BY <1>6, <3>2
      <3>4. Waiting(p, s)' = {c} /\ Holds(p, s, c)'
        BY <1>6, <1>7, <3>1, <3>3 DEF Holds
      <3>5. QED
        BY <2>5, <3>4 DEF Aligned
    <2>6. QED
      BY <2>4, <2>5
  <1>9. QED
    BY <1>4, <1>5, <1>8

LEMMA OwnAnswerKept ==
    ASSUME PInv, UNCHANGED <<frontVars, shown>>, overlap' = overlap,
           drive = "gone" => drive' = "gone"
    PROVE  OwnAnswer'
  <1>1. Onward
    BY DEF Onward, frontVars
  <1>2. \A d : ServerOf(d)' = ServerOf(d)
    BY DEF ServerOf, frontVars
  <1>3. SUFFICES ASSUME NEW d \in Child, pc[d] = "done",
                        req[d].page \in MailPage \cup DrivePage,
                        Undisturbed(d[1], ServerOf(d), d)'
                 PROVE  shown[d] = <<[to |-> d, what |-> "answer"]>>
    BY DEF OwnAnswer, frontVars
  <1>4. PICK q \in Port, t \in Server : q = d[1] /\ t = ServerOf(d)
    BY DEF Child, ServerOf, Server
  <1>5. Undisturbed(q, t, d)'
    BY <1>2, <1>3, <1>4
  <1>6. Undisturbed(q, t, d)
    BY <1>1, <1>5, UndisturbedBefore
  <1>7. QED
    BY <1>3, <1>4, <1>6 DEF PInv, OwnAnswer

LEMMA UploadsKept ==
    ASSUME PInv, UNCHANGED frontVars, accepted' = accepted, overlap' = overlap, drive' = drive,
           \A p \in Port : up'[p]["drive"] = up[p]["drive"]
    PROVE  Uploads'
  <1>1. Onward
    BY DEF Onward, frontVars
  <1>2. \A p \in Port : "drive" \in Server /\ (Calm(p, "drive")' => Calm(p, "drive"))
    BY <1>1, CalmBefore DEF Server
  <1>3. \A q, t : Waiting(q, t)' = Waiting(q, t)
    BY DEF Waiting, ServerOf, frontVars
  <1>4. \A p \in accepted : p \in Port
    BY DEF PInv, PageTypes
  <1>5. SUFFICES ASSUME drive = "data", NEW p \in accepted, Calm(p, "drive")'
                 PROVE  /\ up'[p]["drive"] = <<>>
                        /\ \E d \in Waiting(p, "drive") : req[d].page = "fileupload"
    BY <1>3 DEF Uploads, frontVars
  <1>6. QED
    BY <1>2, <1>4, <1>5 DEF PInv, Uploads

LEMMA MailAnswersInv ==
    ASSUME PInv, NEW p \in Port, MailAnswers(p)
    PROVE  PInv'
  <1>1. /\ Answers(p, "mail") /\ "mail" \in Server
        /\ UNCHANGED frontVars /\ UNCHANGED <<shown, accepted, drive, overlap>>
    BY DEF MailAnswers, Answers, Server
  <1>2. /\ InStep'
        /\ up' \in [Port -> [Server -> Seq(Written)]]
        /\ down' \in [Port -> [Server -> Seq(Answer)]]
    BY <1>1, AnswersAligned
  <1>3. PageTypes'
    BY <1>1, <1>2 DEF PInv, PageTypes
  <1>4. \A q \in Port : up'[q]["drive"] = up[q]["drive"]
    BY <1>1 DEF Answers, TakeAll, PInv, PageTypes, Server
  <1>5. Uploads'
    BY <1>1, <1>4, UploadsKept
  <1>6. OwnAnswer'
    BY <1>1, OwnAnswerKept DEF frontVars
  <1>7. QED
    BY <1>2, <1>3, <1>5, <1>6 DEF PInv

LEMMA DriveAcceptsInv ==
    ASSUME PInv, NEW p \in Port, DriveAccepts(p)
    PROVE  PInv'
  <1>1. /\ accepted = {} /\ accepted' = {p}
        /\ UNCHANGED <<up, down, shown, drive, overlap>> /\ UNCHANGED frontVars
    BY DEF DriveAccepts
  <1>2. PageTypes' /\ drive = "command"
    BY <1>1 DEF PInv, PageTypes
  <1>3. Uploads'
    BY <1>1, <1>2 DEF Uploads
  <1>4. InStep'
    <2>1. SUFFICES ASSUME NEW q \in Port, NEW t \in Server, Calm(q, t)'
                   PROVE  Aligned(q, t)'
      BY DEF InStep
    <2>2. Onward
      BY <1>1 DEF Onward, frontVars
    <2>3. Aligned(q, t)
      BY <1>1, <2>1, <2>2, CalmBefore DEF PInv, InStep
    <2>4. Waiting(q, t)' = Waiting(q, t)
      BY <1>1 DEF Waiting, ServerOf, frontVars
    <2>5. QED
      BY <1>1, <2>3, <2>4 DEF Aligned, Holds
  <1>5. OwnAnswer'
    BY <1>1, OwnAnswerKept
  <1>6. QED
    BY <1>2, <1>3, <1>4, <1>5 DEF PInv

LEMMA DriveReadsInv ==
    ASSUME PInv, NEW p \in Port, DriveReads(p)
    PROVE  PInv'
  <1> DEFINE ws == up[p]["drive"]
  <1>1. /\ p \in accepted /\ accepted = {p} /\ accepted' = accepted
        /\ "drive" \in Server /\ TakeAll(p, "drive")
        /\ UNCHANGED <<shown, overlap>> /\ UNCHANGED frontVars
    BY DEF DriveReads, PInv, PageTypes, Server
  <1>2. up' \in [Port -> [Server -> Seq(Written)]]
    BY <1>1, EmptySeq DEF TakeAll, PInv, PageTypes
  <1>3. /\ up'[p]["drive"] = <<>>
        /\ \A q \in Port, t \in Server : <<q, t>> # <<p, "drive">> => up'[q][t] = up[q][t]
    BY <1>1 DEF TakeAll, PInv, PageTypes
  <1>4. \A q, t : Waiting(q, t)' = Waiting(q, t)
    BY <1>1 DEF Waiting, ServerOf, frontVars
  <1>5. Onward
    BY <1>1 DEF Onward, frontVars
  <1>6. CASE drive = "data"
    <2>1. drive' \in {"command", "data"} /\ down' = down /\ ws # <<>>
      BY <1>6 DEF DriveReads
    <2>2. ~Calm(p, "drive")
      BY <1>1, <1>6, <2>1 DEF PInv, Uploads
    <2>3. \A q \in Port, t \in Server : Calm(q, t)' => Calm(q, t) /\ <<q, t>> # <<p, "drive">>
      BY <1>1, <1>5, <1>6, <2>2, CalmBefore
    <2>4. InStep'
      <3>1. SUFFICES ASSUME NEW q \in Port, NEW t \in Server, Calm(q, t)'
                     PROVE  Aligned(q, t)'
        BY DEF InStep
      <3>2. Aligned(q, t) /\ <<q, t>> # <<p, "drive">>
        BY <2>3, <3>1 DEF PInv, InStep
      <3>3. QED
        BY <1>3, <1>4, <2>1, <3>2 DEF Aligned, Holds
    <2>5. Uploads'
      BY <1>1, <2>3 DEF Uploads
    <2>6. PageTypes'
      BY <1>1, <1>2, <2>1 DEF PInv, PageTypes
    <2>7. OwnAnswer'
      BY <1>1, <1>6, OwnAnswerKept
    <2>8. QED
      BY <2>4, <2>5, <2>6, <2>7 DEF PInv
  <1>7. CASE drive = "command" /\ drive' # "gone"
    <2>1. /\ Reply(p, "drive") /\ \E i \in DOMAIN ws : ws[i].what = "command"
          /\ drive' = IF req[ws[1].from].page = "fileupload" THEN "data" ELSE "command"
      BY <1>7 DEF DriveReads
    <2>2. Answers(p, "drive")
      BY <1>1, <2>1 DEF Answers
    <2>3. /\ InStep'
          /\ down' \in [Port -> [Server -> Seq(Answer)]]
      BY <1>1, <1>7, <2>2, AnswersAligned
    <2>4. PageTypes'
      BY <1>1, <1>2, <2>1, <2>3 DEF PInv, PageTypes
    <2>5. Uploads'
      <3>1. SUFFICES ASSUME drive' = "data", Calm(p, "drive")'
                     PROVE  \E d \in Waiting(p, "drive") : req[d].page = "fileupload"
        BY <1>1, <1>3, <1>4 DEF Uploads, frontVars
      <3>2. Calm(p, "drive")
        BY <1>1, <1>5, <1>7, <3>1, CalmBefore
      <3>3. PICK c \in Child : Waiting(p, "drive") = {c} /\ Holds(p, "drive", c)
        BY <1>1, <2>2, <3>2 DEF PInv, InStep, Aligned, Answers
      <3>4. ws = <<[from |-> c, what |-> "command"]>>
        BY <2>2, <3>3 DEF Holds, Answers
      <3>5. QED
        BY <2>1, <3>1, <3>3, <3>4
    <2>6. OwnAnswer'
      BY <1>1, <1>7, OwnAnswerKept
    <2>7. QED
      BY <2>3, <2>4, <2>5, <2>6 DEF PInv
  <1>8. CASE drive = "command" /\ drive' = "gone"
    <2>1. down' = down
      BY <1>8 DEF DriveReads
    <2>2. InStep'
      <3>1. SUFFICES ASSUME NEW q \in Port, NEW t \in Server, Calm(q, t)'
                     PROVE  Aligned(q, t)'
        BY DEF InStep
      <3>2. Aligned(q, t) /\ t # "drive"
        BY <1>1, <1>5, <1>8, <3>1, CalmBefore DEF PInv, InStep, Calm
      <3>3. QED
        BY <1>3, <1>4, <2>1, <3>2 DEF Aligned, Holds
    <2>3. Uploads'
      BY <1>8 DEF Uploads
    <2>4. PageTypes'
      BY <1>1, <1>2, <1>8, <2>1 DEF PInv, PageTypes
    <2>5. OwnAnswer'
      BY <1>1, <1>8, OwnAnswerKept
    <2>6. QED
      BY <2>2, <2>3, <2>4, <2>5 DEF PInv
  <1>9. QED
    BY <1>6, <1>7, <1>8 DEF DriveReads

-----------------------------------------------------------------------------
(* All steps                                                               *)

LEMMA PInvInit ==
    ASSUME Init
    PROVE  PInv
  <1>1. /\ pc = [c \in Child |-> "none"] /\ PagesInit
    BY DEF Init, FrontInit
  <1>2. PageTypes
    BY <1>1, EmptySeq DEF PagesInit, PageTypes
  <1>3. Uploads /\ OwnAnswer
    BY <1>1 DEF PagesInit, Uploads, OwnAnswer
  <1>4. \A p \in Port, s \in Server : Waiting(p, s) = {}
    BY <1>1 DEF Waiting
  <1>5. InStep
    BY <1>1, <1>4 DEF PagesInit, InStep, Aligned
  <1>6. QED
    BY <1>2, <1>3, <1>5 DEF PInv

LEMMA PInvNext ==
    ASSUME WebAssumption, WInv, PInv, [Next]_vars
    PROVE  PInv'
  <1>1. ASSUME UNCHANGED pageVars, UNCHANGED <<req, pc>>
        PROVE  PInv'
    BY <1>1, OffPage_Same, OffPageInv
  <1>2. CASE UNCHANGED pageVars /\ \E p \in Port : Parent(p)
    <2>1. PICK p \in Port : Parent(p)
      BY <1>2
    <2>2. CASE \E r \in asked.requests[p] : Accept(p, r)
      BY <1>2, <2>2, OffPage_Accept, OffPageInv
    <2>3. CASE startServer(p) \/ Kill(p)
      BY <1>1, <1>2, <2>3 DEF startServer, Kill
    <2>4. QED
      BY <2>1, <2>2, <2>3 DEF Parent
  <1>3. CASE UNCHANGED pageVars /\ \E c \in Child : Account(c)
    BY <1>3, OffPage_Account, OffPageInv DEF WInv
  <1>4. CASE UNCHANGED pageVars /\ \E c \in Child : handleQuery(c)
    BY <1>1, <1>4 DEF handleQuery, frontVars
  <1>5. CASE UNCHANGED pageVars /\ \E t \in asked.stops : Stop(t)
    BY <1>1, <1>5 DEF Stop, frontVars
  <1>6. CASE \E c \in Child : Page(c)
    BY <1>6, PageInv DEF WInv
  <1>7. CASE PageServers
    BY <1>7, MailAnswersInv, DriveAcceptsInv, DriveReadsInv DEF PageServers
  <1>8. CASE UNCHANGED <<frontVars, accountVars, pageVars>>
    BY <1>1, <1>8 DEF frontVars
  <1>9. CASE UNCHANGED vars
    BY <1>1, <1>9 DEF vars, frontVars
  <1>10. QED
    BY <1>2, <1>3, <1>4, <1>5, <1>6, <1>7, <1>8, <1>9 DEF Next, Step

LEMMA PagesInvariance == Spec => []PInv
  <1>1. Init => PInv
    BY PInvInit
  <1>2. WInv /\ PInv /\ [Next]_vars => PInv'
    BY WebAssumption, PInvNext
  <1>3. QED
    BY <1>1, <1>2, Invariance, PTL DEF Spec

\* A page of mail or drive is made of the answer to the child's own command,
\* although all children of a frontend read the same connection (http4.cc), as
\* long as no two of them used it at once and none of the pages that leave
\* something there came before.
THEOREM OwnAnswers == Spec => []OwnAnswer
  <1>1. PInv => OwnAnswer
    BY DEF PInv
  <1>2. QED
    BY <1>1, PagesInvariance, PTL

\* On such a connection there is, for every child that waits, its command or
\* its answer, and nothing else.
THEOREM CommandsInStep == Spec => []Lockstep
  <1>1. PInv => Lockstep
    <2>1. SUFFICES ASSUME PInv, NEW p \in Port, NEW s \in Server, Undisturbed(p, s, <<>>)
                   PROVE  LET pending == [i \in DOMAIN up[p][s] |-> up[p][s][i].from]
                                          \o [i \in DOMAIN down[p][s] |-> down[p][s][i].to]
                          IN /\ Cardinality(Waiting(p, s)) = Len(pending)
                             /\ Range(pending) = Waiting(p, s)
      BY DEF Lockstep
    <2>2. \A d \in Child : d # <<>>
      <3>1. \A d \in Child : d = <<d[1], d[2]>>
        BY DEF Child
      <3>2. \A q, i : Len(<<q, i>>) = 2 /\ Len(<<>>) = 0
        OBVIOUS
      <3>3. QED
        BY <3>1, <3>2
    <2>3. Aligned(p, s)
      BY <2>1, <2>2 DEF PInv, InStep, Calm, Undisturbed
    <2>4. ASSUME NEW c, NEW pending, pending = <<c>>
          PROVE  Len(pending) = 1 /\ Range(pending) = {c}
      BY <2>4 DEF Range
    <2>5. CASE Waiting(p, s) = {} /\ up[p][s] = <<>> /\ down[p][s] = <<>>
      <3>1. [i \in DOMAIN up[p][s] |-> up[p][s][i].from] = <<>>
        BY <2>5
      <3>2. [i \in DOMAIN down[p][s] |-> down[p][s][i].to] = <<>>
        BY <2>5
      <3>3. <<>> \o <<>> = <<>> /\ Range(<<>>) = {} /\ Len(<<>>) = 0
        BY DEF Range
      <3>4. QED
        BY <2>5, <3>1, <3>2, <3>3, FS_EmptySet
    <2>6. CASE \E c \in Child : Waiting(p, s) = {c} /\ Holds(p, s, c)
      <3>1. PICK c \in Child : Waiting(p, s) = {c} /\ Holds(p, s, c)
        BY <2>6
      <3>2. [i \in DOMAIN up[p][s] |-> up[p][s][i].from]
              \o [i \in DOMAIN down[p][s] |-> down[p][s][i].to] = <<c>>
        <4>1. CASE /\ up[p][s] = <<[from |-> c, what |-> "command"]>> /\ down[p][s] = <<>>
          <5>1. [i \in DOMAIN up[p][s] |-> up[p][s][i].from] = <<c>>
            BY <4>1
          <5>2. [i \in DOMAIN down[p][s] |-> down[p][s][i].to] = <<>>
            BY <4>1
          <5>3. <<c>> \in Seq({c})
            OBVIOUS
          <5>4. QED
            BY <5>1, <5>2, <5>3, ConcatEmptySeq
        <4>2. CASE /\ up[p][s] = <<>> /\ down[p][s] = <<[to |-> c, what |-> "answer"]>>
          <5>1. [i \in DOMAIN up[p][s] |-> up[p][s][i].from] = <<>>
            BY <4>2
          <5>2. [i \in DOMAIN down[p][s] |-> down[p][s][i].to] = <<c>>
            BY <4>2
          <5>3. <<c>> \in Seq({c})
            OBVIOUS
          <5>4. QED
            BY <5>1, <5>2, <5>3, ConcatEmptySeq
        <4>3. QED
          BY <3>1, <4>1, <4>2 DEF Holds
      <3>3. Cardinality({c}) = 1
        BY FS_Singleton
      <3>4. QED
        BY <2>4, <3>1, <3>2, <3>3
    <2>7. QED
      BY <2>3, <2>5, <2>6 DEF Aligned
  <1>2. QED
    BY <1>1, PagesInvariance, PTL

-----------------------------------------------------------------------------
(* The balancer                                                            *)

\* A set of numbers that is not empty has a least one, by a measure.
LEMMA LeastBy ==
    ASSUME NEW T, T # {}, NEW f \in [T -> Nat]
    PROVE  \E j \in T : \A i \in T : f[j] <= f[i]
  <1>1. PICK n \in {f[i] : i \in T} : \A m \in {f[i] : i \in T} : ~(<<m, n>> \in OpToRel(<, Nat))
    <2>1. {f[i] : i \in T} \subseteq Nat /\ {f[i] : i \in T} # {}
      OBVIOUS
    <2>2. QED
      BY <2>1, NatLessThanWellFounded, WFMin
  <1>2. PICK j \in T : n = f[j]
    OBVIOUS
  <1>3. ASSUME NEW i \in T
        PROVE  f[j] <= f[i]
    <2>1. ~(<<f[i], f[j]>> \in OpToRel(<, Nat))
      BY <1>1, <1>2
    <2>2. ~(f[i] < f[j])
      BY <2>1 DEF OpToRel
    <2>3. QED
      BY <2>2
  <1>4. QED
    BY <1>3

LEMMA NextOpenIsOpen ==
    ASSUME WebAssumption, NEW open \in SUBSET Port, open # {}, NEW k \in Port
    PROVE  NextOpen(k, open) \in open
  <1> DEFINE f == [i \in open |-> (i + NumPorts - k) % NumPorts]
  <1>1. \A i \in open : f[i] \in Nat
    BY DEF WebAssumption, Port
  <1>2. f \in [open -> Nat]
    BY <1>1
  <1> HIDE DEF f
  <1>3. PICK j \in open : \A i \in open : f[j] <= f[i]
    BY <1>2, LeastBy
  <1>4. \A i \in open : (j + NumPorts - k) % NumPorts <= (i + NumPorts - k) % NumPorts
    BY <1>3 DEF f
  <1>5. QED
    BY <1>4 DEF NextOpen

LEMMA ChooseRange ==
    ASSUME WebAssumption, NEW open \in SUBSET Port, NEW i \in Slot,
           NEW j \in Choose(i % NumPorts, open)
    PROVE  /\ j \in 0..(2 * NumPorts)
           /\ j \in open \/ (j >= NumPorts /\ open # Port)
  <1> DEFINE n == NumPorts
             k == i % n
             first == k + n - Cardinality(open)
  <1>1. n \in Nat \ {0} /\ i \in Nat /\ k \in 0..(n - 1)
    BY DEF WebAssumption, Slot
  <1>2. /\ IsFiniteSet(Port) /\ Cardinality(Port) = n
        /\ IsFiniteSet(open) /\ Cardinality(open) \in 0..n
        /\ Cardinality(open) = n => open = Port
    <2>1. IsFiniteSet(Port) /\ Cardinality(Port) = n
      BY <1>1, FS_Interval DEF Port
    <2>2. IsFiniteSet(open) /\ Cardinality(open) <= n /\ (Cardinality(open) = n => open = Port)
      BY <2>1, FS_Subset
    <2>3. Cardinality(open) \in Nat
      BY <2>2, FS_CardinalityType
    <2>4. QED
      BY <1>1, <2>1, <2>2, <2>3
  <1>3. Cardinality(open) # 0 => open # {}
    BY FS_EmptySet
  <1>4. first \in 0..(2 * n)
    BY <1>1, <1>2
  <1>5. \A l \in open : l \in 0..(2 * n)
    BY <1>1 DEF Port
  <1>6. CASE first < n
    <2>1. first \in Port /\ open # {}
      BY <1>1, <1>2, <1>3, <1>6 DEF Port
    <2>2. j = NextOpen(first, open)
      BY <1>6 DEF Choose
    <2>3. QED
      BY <1>5, <2>1, <2>2, NextOpenIsOpen
  <1>7. CASE ~(first < n)
    <2>1. open # Port /\ first >= n
      BY <1>1, <1>2, <1>4, <1>7
    <2>2. CASE j = first
      BY <1>4, <2>1, <2>2
    <2>3. CASE j # first
      <3>1. open # {} /\ j = NextOpen((first + 1) % n, open)
        BY <1>7, <2>3 DEF Choose
      <3>2. (first + 1) % n \in Port
        BY <1>1, <1>4 DEF Port
      <3>3. QED
        BY <1>5, <3>1, <3>2, NextOpenIsOpen
    <2>4. QED
      BY <2>2, <2>3
  <1>8. QED
    BY <1>6, <1>7

BInv == BalancerTypeOK /\ RedirectsOpen

LEMMA BInvStep ==
    ASSUME WebAssumption, BInv,
           \/ UNCHANGED balancerVars
           \/ fetchFromMaster \/ Visit
           \/ \E i \in Slot, allUp \in BOOLEAN : Balance(i, allUp)
    PROVE  BInv'
  <1> USE DEF BInv
  <1>1. CASE UNCHANGED balancerVars
    BY <1>1 DEF balancerVars, BalancerTypeOK, RedirectsOpen
  <1>2. CASE fetchFromMaster
    BY <1>2 DEF fetchFromMaster, BalancerTypeOK, RedirectsOpen
  <1>3. CASE Visit
    <2>1. bslot \in Slot /\ bslot + 1 \in 0..CONNMAX
      BY <1>3 DEF Visit, BalancerTypeOK, WebAssumption, Slot
    <2>2. BalancerTypeOK'
      BY <1>3, <2>1 DEF Visit, BalancerTypeOK
    <2>3. \A i \in Slot : bpc'[i] = "request" => bpc[i] = "request"
      BY <1>3, <2>1 DEF Visit, BalancerTypeOK
    <2>4. RedirectsOpen'
      BY <1>3, <2>3 DEF Visit, RedirectsOpen
    <2>5. QED
      BY <2>2, <2>4
  <1>4. ASSUME NEW i \in Slot, NEW how \in {"done", "crashed"}, End(i, how)
        PROVE  BInv'
    <2>1. 0 \in 0..(2 * NumPorts)
      BY DEF WebAssumption
    <2>2. BalancerTypeOK'
      BY <1>4, <2>1 DEF End, BalancerTypeOK
    <2>3. \A k \in Slot : bpc'[k] = "request" =>
              bpc[k] = "request" /\ status'[k] = status[k] /\ freeport'[k] = freeport[k]
      BY <1>4 DEF End, BalancerTypeOK
    <2>4. RedirectsOpen'
      BY <2>3 DEF RedirectsOpen
    <2>5. QED
      BY <2>2, <2>4
  <1>5. ASSUME NEW i \in Slot, Probe(i)
        PROVE  BInv'
    <2> DEFINE open == {p \in Port : IsOpen(p)}
    <2>0. open \in SUBSET Port
      OBVIOUS
    <2>1. CASE /\ \E j \in Choose(i % NumPorts, open) : freeport' = [freeport EXCEPT ![i] = j]
               /\ bpc' = [bpc EXCEPT ![i] = "request"]
      <3>1. PICK j \in Choose(i % NumPorts, open) : freeport' = [freeport EXCEPT ![i] = j]
        BY <2>1
      <3>2. j \in 0..(2 * NumPorts) /\ (j \in open \/ (j >= NumPorts /\ open # Port))
        BY <2>0, ChooseRange
      <3> HIDE DEF open
      <3>3. status' = [status EXCEPT ![i] = open] /\ UNCHANGED <<bparent, bslot>>
        BY <1>5 DEF Probe, open
      <3>4. BalancerTypeOK'
        BY <2>0, <2>1, <3>1, <3>2, <3>3 DEF BalancerTypeOK
      <3>5. /\ status'[i] = open /\ freeport'[i] = j
            /\ \A k \in Slot \ {i} :
                 bpc'[k] = bpc[k] /\ status'[k] = status[k] /\ freeport'[k] = freeport[k]
        BY <2>1, <3>1, <3>3 DEF BalancerTypeOK
      <3>6. RedirectsOpen'
        BY <3>2, <3>5 DEF RedirectsOpen
      <3>7. QED
        BY <3>4, <3>6
    <2>2. CASE bpc' = [bpc EXCEPT ![i] = "hung"] /\ UNCHANGED freeport
      <3> HIDE DEF open
      <3>1. status' = [status EXCEPT ![i] = open] /\ UNCHANGED <<bparent, bslot>>
        BY <1>5 DEF Probe, open
      <3>2. BalancerTypeOK'
        BY <2>0, <2>2, <3>1 DEF BalancerTypeOK
      <3>3. \A k \in Slot : bpc'[k] = "request" =>
              bpc[k] = "request" /\ status'[k] = status[k] /\ freeport'[k] = freeport[k]
        BY <2>2, <3>1 DEF BalancerTypeOK
      <3>4. QED
        BY <3>2, <3>3 DEF RedirectsOpen
    <2>3. QED
      BY <1>5, <2>1, <2>2 DEF Probe
  <1>6. ASSUME NEW i \in Slot, NEW given \in BOOLEAN, Balance(i, given)
        PROVE  BInv'
    BY <1>4, <1>5, <1>6 DEF Balance, Redirect, Admin
  <1>7. QED
    BY <1>1, <1>2, <1>3, <1>6

LEMMA BInvInit ==
    ASSUME WebAssumption, Init
    PROVE  BInv
  <1>1. 0 \in 0..(2 * NumPorts) /\ 0 \in 0..CONNMAX
    BY DEF WebAssumption
  <1>2. QED
    BY <1>1 DEF Init, BalancerInit, BInv, BalancerTypeOK, RedirectsOpen

LEMMA BalancerInvariance == Spec => []BInv
  <1>1. Init => BInv
    BY WebAssumption, BInvInit
  <1>2. BInv /\ [Next]_vars => BInv'
    <2> SUFFICES ASSUME BInv, [Next]_vars PROVE BInv'
      OBVIOUS
    <2>1. \/ UNCHANGED balancerVars
          \/ fetchFromMaster \/ Visit
          \/ \E i \in Slot : Balance(i, stopped = {})
      BY DEF Next, Step, vars
    <2>2. (stopped = {}) \in BOOLEAN
      OBVIOUS
    <2>3. QED
      BY <2>1, <2>2, WebAssumption, BInvStep
  <1>3. QED
    BY <1>1, <1>2, PTL DEF Spec

\* The browser is sent to a port that was open when the child of the balancer
\* looked, unless status[] was read past its end (http2.cc), which takes a
\* frontend that is not there.
THEOREM BrowserSentToOpenPort == Spec => []RedirectsOpen
  <1>1. BInv => RedirectsOpen
    BY DEF BInv
  <1>2. QED
    BY <1>1, BalancerInvariance, PTL

\* The variables of the whole web tier keep their types; on the way, no slot is
\* used past the last, and the drive never has two connections.
THEOREM WebTypeCorrect == Spec => []TypeOK
  <1>1. WInv /\ PInv /\ BInv => TypeOK
    <2> SUFFICES ASSUME WInv, PInv, BInv PROVE TypeOK
      OBVIOUS
    <2>1. accepted \subseteq Port /\ Cardinality(accepted) <= 1
      <3>1. CASE accepted = {}
        BY <3>1, FS_EmptySet
      <3>2. CASE \E p \in Port : accepted = {p}
        BY <3>2, FS_Singleton
      <3>3. QED
        BY <3>1, <3>2 DEF PInv, PageTypes
    <2>2. PagesTypeOK
      BY <2>1 DEF PInv, PageTypes, PagesTypeOK
    <2>3. QED
      BY <2>2 DEF WInv, Types, BInv, TypeOK
  <1>2. QED
    BY <1>1, Invariance, PagesInvariance, BalancerInvariance, PTL

=============================================================================
