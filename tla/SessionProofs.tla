--------------------------- MODULE SessionProofs ---------------------------
(***************************************************************************)
(* Proofs about ClientSession: which key a newval writes and who is left   *)
(* without an answer, for any sessions, keys and commands, however the     *)
(* handlers interleave on the table and however the role changes.          *)
(***************************************************************************)
EXTENDS ClientSession, TLAPS

PeerCmd == {"writ", "eras", "forw_put", "forw_del"}
ClientCmd == {"get", "put", "del", "cput", "oldval", "newval", "rset", "quit"}

Point == {"ready", "closed", "get", "cell", "oldval", "compare", "newval", "put", "write",
          "erase", "remove", "notify", "forward"}

Types ==
    /\ pc \in [Session -> Point]
    /\ cmd \in [Session -> {"none"} \cup ClientCmd \cup PeerCmd]
    /\ status \in [Session -> {1, 2, 3}]
    /\ key \in [Session -> Key \cup {NoKey}]
    /\ verified \in [Session -> Key \cup {NoKey}]
    /\ reply \in [Session -> {"none", "OK", "ERR"}]

Busy(s) == pc[s] \notin {"ready", "closed"}

\* Which command has a handler that comes to a point.
Place(s) ==
    /\ pc[s] \in {"get", "cell"} => cmd[s] = "get"
    /\ pc[s] \in {"oldval", "compare"} => cmd[s] = "oldval"
    /\ pc[s] = "newval" => cmd[s] = "newval"
    /\ pc[s] \in {"put", "write"} => cmd[s] \in {"put", "newval", "writ", "forw_put"}
    /\ pc[s] \in {"erase", "remove"} => cmd[s] \in {"del", "eras", "forw_del"}
    /\ pc[s] = "notify" => cmd[s] \in {"put", "newval", "del", "forw_put", "forw_del"}
    /\ pc[s] = "forward" => cmd[s] \in {"put", "newval", "del"}

\* The status says which command is in work, and above 1 that there is a key:
\* the one of cput, and at 3 the one of the oldval that was good.
Conversation(s) ==
    /\ status[s] = 2 => key[s] # NoKey /\ (Busy(s) => cmd[s] = "oldval")
    /\ status[s] = 3 => /\ key[s] # NoKey /\ verified[s] = key[s]
                        /\ Busy(s) => cmd[s] = "newval"
    /\ Busy(s) /\ cmd[s] = "oldval" => status[s] = 2
    /\ Busy(s) /\ cmd[s] = "newval" => status[s] = 3

\* Other tablet servers hold no conversation, and clients do not send theirs.
Roles(s) ==
    /\ s \in Client => cmd[s] \notin PeerCmd
    /\ s \in Peer => cmd[s] \notin ClientCmd /\ status[s] = 1

Silent(s) ==
    s \in Client /\ pc[s] = "ready" /\ reply[s] = "none" => cmd[s] = "newval"

Sound(s) ==
    /\ Place(s)
    /\ Conversation(s)
    /\ Roles(s)
    /\ Silent(s)

SInv == Types /\ \A s \in Session : Sound(s)

sessionVars == <<pc, cmd, status, key, verified, reply>>

\* A step of one session leaves the others as they are.
Keeps(s) ==
    \A t \in Session \ {s} :
        /\ pc'[t] = pc[t] /\ cmd'[t] = cmd[t] /\ status'[t] = status[t]
        /\ key'[t] = key[t] /\ verified'[t] = verified[t] /\ reply'[t] = reply[t]

LEMMA OneSession ==
    ASSUME SInv, NEW s \in Session, Types', Keeps(s), Sound(s)'
    PROVE  SInv'
  <1>1. ASSUME NEW t \in Session \ {s}
        PROVE  Sound(t)'
    BY <1>1 DEF SInv, Sound, Keeps, Place, Conversation, Roles, Silent, Busy
  <1>2. QED
    BY <1>1 DEF SInv

\* A command out of sequence is refused, and changes nothing else.
LEMMA RefusalInv ==
    ASSUME SInv, NEW s \in Client, NEW c \in ClientCmd, NEW n \in {1, 2, 3},
           OutOfSequence(s, c, n)
    PROVE  SInv'
  <1> s \in Session
    BY DEF Session
  <1>1. Types' /\ Keeps(s)
    BY DEF SInv, Types, Keeps, OutOfSequence, Begin, Answer, dbVars, Point
  <1>2. Sound(s)'
    BY SessionAssumption
      
          DEF SInv, Types, Sound, Place, Conversation, Roles, Silent, Busy, OutOfSequence, Begin,
           Answer, dbVars, ClientCmd, PeerCmd
  <1>3. QED
    BY <1>1, <1>2, OneSession

LEMMA GetInv ==
    ASSUME SInv, NEW s \in Client, NEW k \in Key, HandleGet(s, k)
    PROVE  SInv'
  <1> s \in Session
    BY DEF Session
  <1>1. CASE OutOfSequence(s, "get", 1)
    BY <1>1, RefusalInv DEF ClientCmd
  <1>2. CASE ~OutOfSequence(s, "get", 1)
    <2>1. /\ Begin(s, "get") /\ status[s] = 1 /\ SetKey(s, k)
          /\ GoOn(s, "get") \/ Answer(s, "ERR")
          /\ UNCHANGED <<status, verified>>
      BY <1>2 DEF HandleGet
    <2>2. Types' /\ Keeps(s)
      BY <2>1 DEF SInv, Types, Keeps, Point, ClientCmd, Begin, Answer, GoOn, SetKey
    <2>3. /\ cmd'[s] = "get" /\ pc'[s] \in {"get", "ready"} /\ status'[s] = 1
          /\ pc'[s] = "ready" => reply'[s] = "ERR"
      BY <2>1, SessionAssumption
         DEF SInv, Types, Sound, Conversation, Begin, Answer, GoOn, SetKey
    <2>4. Sound(s)'
      BY <2>3, SessionAssumption
         DEF Sound, Place, Conversation, Busy, Roles, PeerCmd, ClientCmd, Silent
    <2>5. QED
      BY <2>2, <2>4, OneSession
  <1>3. QED
    BY <1>1, <1>2

LEMMA PutInv ==
    ASSUME SInv, NEW s \in Client, NEW k \in Key, NEW b \in Blob, HandlePut(s, k, b)
    PROVE  SInv'
  <1> s \in Session
    BY DEF Session
  <1>1. CASE OutOfSequence(s, "put", 1)
    BY <1>1, RefusalInv DEF ClientCmd
  <1>2. CASE ~OutOfSequence(s, "put", 1)
    <2>1. /\ Begin(s, "put") /\ status[s] = 1 /\ SetKey(s, k)
          /\ GoOn(s, "put") \/ GoOn(s, "forward")
          /\ UNCHANGED <<status, verified>>
      BY <1>2 DEF HandlePut
    <2>2. Types' /\ Keeps(s)
      BY <2>1 DEF SInv, Types, Keeps, Point, ClientCmd, Begin, GoOn, SetKey
    <2>3. /\ cmd'[s] = "put" /\ pc'[s] \in {"put", "forward"} /\ status'[s] = 1
      BY <2>1, SessionAssumption DEF SInv, Types, Sound, Conversation, Begin, GoOn, SetKey
    <2>4. Sound(s)'
      BY <2>3, SessionAssumption
         DEF Sound, Place, Conversation, Busy, Roles, PeerCmd, ClientCmd, Silent
    <2>5. QED
      BY <2>2, <2>4, OneSession
  <1>3. QED
    BY <1>1, <1>2

LEMMA DelInv ==
    ASSUME SInv, NEW s \in Client, NEW k \in Key, HandleDel(s, k)
    PROVE  SInv'
  <1> s \in Session
    BY DEF Session
  <1>1. CASE OutOfSequence(s, "del", 1)
    BY <1>1, RefusalInv DEF ClientCmd
  <1>2. CASE ~OutOfSequence(s, "del", 1)
    <2>1. /\ Begin(s, "del") /\ status[s] = 1 /\ SetKey(s, k)
          /\ GoOn(s, "erase") \/ GoOn(s, "forward") \/ Answer(s, "ERR")
          /\ UNCHANGED <<status, verified>>
      BY <1>2 DEF HandleDel
    <2>2. Types' /\ Keeps(s)
      BY <2>1 DEF SInv, Types, Keeps, Point, ClientCmd, Begin, Answer, GoOn, SetKey
    <2>3. /\ cmd'[s] = "del" /\ pc'[s] \in {"erase", "forward", "ready"} /\ status'[s] = 1
          /\ pc'[s] = "ready" => reply'[s] = "ERR"
      BY <2>1, SessionAssumption
         DEF SInv, Types, Sound, Conversation, Begin, Answer, GoOn, SetKey
    <2>4. Sound(s)'
      BY <2>3, SessionAssumption
         DEF Sound, Place, Conversation, Busy, Roles, PeerCmd, ClientCmd, Silent
    <2>5. QED
      BY <2>2, <2>4, OneSession
  <1>3. QED
    BY <1>1, <1>2

LEMMA CputInv ==
    ASSUME SInv, NEW s \in Client, NEW k \in Key, HandleCput(s, k)
    PROVE  SInv'
  <1> s \in Session
    BY DEF Session
  <1>1. CASE OutOfSequence(s, "cput", 1)
    BY <1>1, RefusalInv DEF ClientCmd
  <1>2. CASE ~OutOfSequence(s, "cput", 1)
    <2>1. /\ Begin(s, "cput") /\ SetKey(s, k)
          /\ Answer(s, "OK") \/ Answer(s, "ERR")
          /\ \E n \in {1, 2} : status' = [status EXCEPT ![s] = n]
          /\ verified' = [verified EXCEPT ![s] = NoKey]
      BY <1>2 DEF HandleCput
    <2>2. Types' /\ Keeps(s)
      BY <2>1 DEF SInv, Types, Keeps, Point, ClientCmd, Begin, Answer, SetKey
    <2>3. /\ cmd'[s] = "cput" /\ pc'[s] = "ready" /\ reply'[s] # "none"
          /\ status'[s] \in {1, 2} /\ key'[s] # NoKey
      BY <2>1, SessionAssumption DEF SInv, Types, Sound, Conversation, Begin, Answer, SetKey
    <2>4. Sound(s)'
      BY <2>3, SessionAssumption
         DEF Sound, Place, Conversation, Busy, Roles, PeerCmd, ClientCmd, Silent
    <2>5. QED
      BY <2>2, <2>4, OneSession
  <1>3. QED
    BY <1>1, <1>2

LEMMA OldValInv ==
    ASSUME SInv, NEW s \in Client, NEW b \in Blob, HandleOldVal(s, b)
    PROVE  SInv'
  <1> s \in Session
    BY DEF Session
  <1>1. CASE OutOfSequence(s, "oldval", 2)
    BY <1>1, RefusalInv DEF ClientCmd
  <1>2. CASE ~OutOfSequence(s, "oldval", 2)
    <2>1. /\ Begin(s, "oldval") /\ status[s] = 2 /\ GoOn(s, "oldval")
          /\ UNCHANGED <<status, key, verified>>
      BY <1>2 DEF HandleOldVal
    <2>2. Types' /\ Keeps(s)
      BY <2>1 DEF SInv, Types, Keeps, Point, ClientCmd, Begin, GoOn
    <2>3. /\ cmd'[s] = "oldval" /\ pc'[s] = "oldval" /\ status'[s] = 2
          /\ key'[s] # NoKey
      BY <2>1, SessionAssumption DEF SInv, Types, Sound, Conversation, Begin, GoOn
    <2>4. Sound(s)'
      BY <2>3, SessionAssumption
         DEF Sound, Place, Conversation, Busy, Roles, PeerCmd, ClientCmd, Silent
    <2>5. QED
      BY <2>2, <2>4, OneSession
  <1>3. QED
    BY <1>1, <1>2

LEMMA NewValInv ==
    ASSUME SInv, NEW s \in Client, NEW b \in Blob, HandleNewVal(s, b)
    PROVE  SInv'
  <1> s \in Session
    BY DEF Session
  <1>1. CASE OutOfSequence(s, "newval", 3)
    BY <1>1, RefusalInv DEF ClientCmd
  <1>2. CASE ~OutOfSequence(s, "newval", 3)
    <2>1. /\ Begin(s, "newval") /\ status[s] = 3 /\ GoOn(s, "newval")
          /\ UNCHANGED <<status, key, verified>>
      BY <1>2 DEF HandleNewVal
    <2>2. Types' /\ Keeps(s)
      BY <2>1 DEF SInv, Types, Keeps, Point, ClientCmd, Begin, GoOn
    <2>3. /\ cmd'[s] = "newval" /\ pc'[s] = "newval" /\ status'[s] = 3
          /\ key'[s] # NoKey /\ verified'[s] = key'[s]
      BY <2>1, SessionAssumption DEF SInv, Types, Sound, Conversation, Begin, GoOn
    <2>4. Sound(s)'
      BY <2>3, SessionAssumption
         DEF Sound, Place, Conversation, Busy, Roles, PeerCmd, ClientCmd, Silent
    <2>5. QED
      BY <2>2, <2>4, OneSession
  <1>3. QED
    BY <1>1, <1>2

LEMMA RsetInv ==
    ASSUME SInv, NEW s \in Client, HandleRset(s)
    PROVE  SInv'
  <1> s \in Session
    BY DEF Session
  <1>1. Types' /\ Keeps(s)
    BY DEF SInv, Types, Keeps, Point, ClientCmd, PeerCmd, HandleRset, Begin, Answer, Reset
  <1>2. /\ cmd'[s] = "rset" /\ pc'[s] = "ready" /\ reply'[s] = "OK"
        /\ status'[s] = 1
    BY SessionAssumption
       DEF SInv, Types, Sound, Place, Conversation, Busy, Roles, HandleRset, Begin, Answer, Reset
  <1>3. Sound(s)'
    BY <1>2, SessionAssumption
       DEF Sound, Place, Conversation, Busy, Roles, PeerCmd, ClientCmd, Silent
  <1>4. QED
    BY <1>1, <1>3, OneSession

LEMMA QuitInv ==
    ASSUME SInv, NEW s \in Client, HandleQuit(s)
    PROVE  SInv'
  <1> s \in Session
    BY DEF Session
  <1>1. Types' /\ Keeps(s)
    BY DEF SInv, Types, Keeps, Point, ClientCmd, PeerCmd, HandleQuit, Begin, dbVars
  <1>2. /\ cmd'[s] = "quit" /\ pc'[s] = "closed"
        /\ status'[s] = status[s] /\ key'[s] = key[s] /\ verified'[s] = verified[s]
        /\ status[s] \in {2, 3} => key[s] # NoKey
        /\ status[s] = 3 => verified[s] = key[s]
    BY SessionAssumption
       DEF SInv, Types, Sound, Place, Conversation, Busy, Roles, HandleQuit, Begin, dbVars
  <1>3. Sound(s)'
    BY <1>2, SessionAssumption
       DEF Sound, Place, Conversation, Busy, Roles, PeerCmd, ClientCmd, Silent
  <1>4. QED
    BY <1>1, <1>3, OneSession

LEMMA WriteInv ==
    ASSUME SInv, NEW s \in Peer, NEW k \in Key, NEW b \in Blob, NEW h \in PeerHash,
           HandleWrite(s, k, b, h)
    PROVE  SInv'
  <1> s \in Session
    BY DEF Session
  <1>1. Types' /\ Keeps(s)
    BY DEF SInv, Types, Keeps, Point, ClientCmd, PeerCmd, HandleWrite, Begin, GoOn, SetKey
  <1>2. cmd'[s] = "writ" /\ pc'[s] = "put" /\ status'[s] = 1
    BY SessionAssumption
       DEF SInv, Types, Sound, Place, Conversation, Busy, Roles, HandleWrite, Begin, GoOn, SetKey
  <1>3. Sound(s)'
    BY <1>2, SessionAssumption
       DEF Sound, Place, Conversation, Busy, Roles, PeerCmd, ClientCmd, Silent
  <1>4. QED
    BY <1>1, <1>3, OneSession

LEMMA EraseInv ==
    ASSUME SInv, NEW s \in Peer, NEW k \in Key, NEW h \in PeerHash, HandleErase(s, k, h)
    PROVE  SInv'
  <1> s \in Session
    BY DEF Session
  <1>1. Types' /\ Keeps(s)
    BY DEF SInv, Types, Keeps, Point, ClientCmd, PeerCmd, HandleErase, Begin, GoOn, SetKey
  <1>2. cmd'[s] = "eras" /\ pc'[s] = "erase" /\ status'[s] = 1
    BY SessionAssumption
       DEF SInv, Types, Sound, Place, Conversation, Busy, Roles, HandleErase, Begin, GoOn, SetKey
  <1>3. Sound(s)'
    BY <1>2, SessionAssumption
       DEF Sound, Place, Conversation, Busy, Roles, PeerCmd, ClientCmd, Silent
  <1>4. QED
    BY <1>1, <1>3, OneSession

\* A forward that meets a backup ends the process, and nothing else changes.
LEMMA ForwardInv ==
    ASSUME SInv, NEW s \in Peer, NEW c \in {"forw_put", "forw_del"},
           NEW k \in Key, NEW b \in Blob, NEW h \in PeerHash, HandleForward(s, c, k, b, h)
    PROVE  SInv'
  <1> s \in Session
    BY DEF Session
  <1>1. /\ pc[s] = "ready" /\ cmd' = [cmd EXCEPT ![s] = c] /\ UNCHANGED <<status, verified>>
        /\ \/ SetKey(s, k) /\ c = "forw_put" /\ GoOn(s, "put")
           \/ SetKey(s, k) /\ c = "forw_del" /\ GoOn(s, "erase")
           \/ UNCHANGED <<key, pc, reply>>
    BY DEF HandleForward, Abort, dbVars
  <1>2. Types' /\ Keeps(s)
    BY <1>1 DEF SInv, Types, Keeps, Point, PeerCmd, SetKey, GoOn
  <1>3. /\ cmd'[s] = c /\ status'[s] = 1
        /\ \/ c = "forw_put" /\ pc'[s] = "put"
           \/ c = "forw_del" /\ pc'[s] = "erase"
           \/ pc'[s] = "ready"
    BY <1>1 DEF SInv, Types, Sound, Roles, GoOn
  <1>4. Sound(s)'
    BY <1>3, SessionAssumption
       DEF Sound, Place, Conversation, Busy, Roles, PeerCmd, ClientCmd, Silent
  <1>5. QED
    BY <1>2, <1>4, OneSession

-----------------------------------------------------------------------------
(* A handler that has begun: its assertion fails, it comes to another point, *)
(* or it returns.                                                           *)

LEMMA AbortInv ==
    ASSUME SInv, UNCHANGED sessionVars
    PROVE  SInv'
  <1>1. Types'
    BY DEF SInv, Types, sessionVars
  <1>2. ASSUME NEW s \in Session
        PROVE  Sound(s)'
    <2>1. Sound(s)
      BY DEF SInv
    <2>2. Place(s)' /\ Conversation(s)'
      BY <2>1 DEF sessionVars, Sound, Place, Conversation, Busy
    <2>3. Roles(s)' /\ Silent(s)'
      BY <2>1 DEF sessionVars, Sound, Roles, Silent
    <2>4. QED
      BY <2>2, <2>3 DEF Sound
  <1>3. QED
    BY <1>1, <1>2 DEF SInv

LEMMA MoveInv ==
    ASSUME SInv, NEW s \in Session, NEW from \in Point \ {"ready", "closed"}, At(s, from),
           NEW to \in Point \ {"ready", "closed"}, GoOn(s, to), Place(s)',
           UNCHANGED <<status, key, verified>>
    PROVE  SInv'
  <1>1. Types' /\ Keeps(s)
    BY DEF SInv, Types, Keeps, Point, At, GoOn
  <1>2. /\ Busy(s) /\ Busy(s)' /\ cmd'[s] = cmd[s] /\ pc'[s] # "ready"
        /\ status'[s] = status[s] /\ key'[s] = key[s] /\ verified'[s] = verified[s]
    BY DEF SInv, Types, At, GoOn, Busy
  <1>3. Sound(s)'
    BY <1>2 DEF SInv, Sound, Conversation, Roles, Silent
  <1>4. QED
    BY <1>1, <1>3, OneSession

\* The handler of s returns with the answer r, and leaves the status n.
Returns(s, r, n) ==
    /\ pc' = [pc EXCEPT ![s] = "ready"]
    /\ reply' = [reply EXCEPT ![s] = r]
    /\ status' = [status EXCEPT ![s] = n]
    /\ cmd' = cmd
    /\ key' \in [Session -> Key \cup {NoKey}]
    /\ verified' \in [Session -> Key \cup {NoKey}]
    /\ \A t \in Session \ {s} : key'[t] = key[t] /\ verified'[t] = verified[t]

LEMMA ReturnInv ==
    ASSUME SInv, NEW s \in Session,
           NEW r \in {"none", "OK", "ERR"}, NEW n \in {1, 3}, Returns(s, r, n),
           r = "none" => cmd[s] = "newval" \/ s \in Peer,
           n = 3 => s \notin Peer /\ key'[s] # NoKey /\ verified'[s] = key'[s]
    PROVE  SInv'
  <1>1. Types' /\ Keeps(s)
    BY DEF SInv, Types, Keeps, Point, Returns
  <1>2. pc'[s] = "ready" /\ cmd'[s] = cmd[s] /\ status'[s] = n /\ reply'[s] = r
    BY DEF SInv, Types, Returns
  <1>3. Place(s)' /\ Conversation(s)'
    BY <1>2 DEF Place, Conversation, Busy
  <1>4. Roles(s)'
    BY <1>2 DEF SInv, Sound, Roles
  <1>5. Silent(s)'
    BY <1>2, SessionAssumption DEF Silent
  <1>6. QED
    BY <1>1, <1>3, <1>4, <1>5, OneSession DEF Sound

LEMMA GetStepInv ==
    ASSUME SInv, NEW s \in Session, GetAssert(s) \/ GetCell(s)
    PROVE  SInv'
  <1>1. ASSUME GetAssert(s), ~Exists(key[s])
        PROVE  SInv'
    BY <1>1, AbortInv DEF GetAssert, At, Abort, dbVars, sessionVars
  <1>2. ASSUME GetAssert(s), Exists(key[s])
        PROVE  SInv'
    <2>1. At(s, "get") /\ GoOn(s, "cell") /\ UNCHANGED <<status, key, verified>>
      BY <1>2 DEF GetAssert, dbVars
    <2>2. Place(s)'
      BY <2>1 DEF SInv, Types, Sound, Place, At, GoOn
    <2>3. QED
      BY <2>1, <2>2, MoveInv DEF Point
  <1>3. ASSUME GetCell(s)
        PROVE  SInv'
    <2>1. At(s, "cell") /\ Answer(s, "OK") /\ UNCHANGED <<status, key, verified>>
      BY <1>3 DEF GetCell, dbVars
    <2>2. status[s] = 1
      BY <2>1 DEF SInv, Types, Sound, Place, Conversation, Busy, At
    <2>3. status' = [status EXCEPT ![s] = 1]
      BY <2>1, <2>2 DEF SInv, Types
    <2>4. Returns(s, "OK", 1)
      BY <2>1, <2>3 DEF SInv, Types, Answer, At, Returns
    <2>5. QED
      BY <2>4, ReturnInv
  <1>4. QED
    BY <1>1, <1>2, <1>3

LEMMA OldValStepInv ==
    ASSUME SInv, NEW s \in Session, OldValAssert(s) \/ OldValCompare(s)
    PROVE  SInv'
  <1>1. ASSUME OldValAssert(s), ~Exists(key[s])
        PROVE  SInv'
    BY <1>1, AbortInv DEF OldValAssert, At, Abort, dbVars, sessionVars
  <1>2. ASSUME OldValAssert(s), Exists(key[s])
        PROVE  SInv'
    <2>1. At(s, "oldval") /\ GoOn(s, "compare") /\ UNCHANGED <<status, key, verified>>
      BY <1>2 DEF OldValAssert, dbVars
    <2>2. Place(s)'
      BY <2>1 DEF SInv, Types, Sound, Place, At, GoOn
    <2>3. QED
      BY <2>1, <2>2, MoveInv DEF Point
  <1>3. ASSUME OldValCompare(s)
        PROVE  SInv'
    <2>1. /\ At(s, "compare") /\ UNCHANGED key
          /\ \/ /\ status' = [status EXCEPT ![s] = 3] /\ Answer(s, "OK")
                /\ verified' = [verified EXCEPT ![s] = key[s]]
             \/ /\ status' = [status EXCEPT ![s] = 1] /\ Answer(s, "ERR")
                /\ UNCHANGED verified
      BY <1>3 DEF OldValCompare, dbVars
    <2>2. status[s] = 2 /\ key[s] # NoKey /\ s \notin Peer
      BY <2>1 DEF SInv, Sound, Place, Conversation, Roles, ClientCmd, Busy, At
    <2>3. CASE status' = [status EXCEPT ![s] = 3] /\ Answer(s, "OK")
                 /\ verified' = [verified EXCEPT ![s] = key[s]]
      <3>1. Returns(s, "OK", 3)
        BY <2>1, <2>3 DEF SInv, Types, Answer, At, Returns
      <3>2. key'[s] # NoKey /\ verified'[s] = key'[s]
        BY <2>1, <2>2, <2>3 DEF SInv, Types
      <3>3. QED
        BY <2>2, <3>1, <3>2, ReturnInv
    <2>4. CASE status' = [status EXCEPT ![s] = 1] /\ Answer(s, "ERR") /\ UNCHANGED verified
      <3>1. Returns(s, "ERR", 1)
        BY <2>1, <2>4 DEF SInv, Types, Answer, At, Returns
      <3>2. QED
        BY <3>1, ReturnInv
    <2>5. QED
      BY <2>1, <2>3, <2>4
  <1>4. QED
    BY <1>1, <1>2, <1>3

LEMMA NewValStepInv ==
    ASSUME SInv, NEW s \in Session, NewValAssert(s)
    PROVE  SInv'
  <1>1. CASE ~Exists(key[s])
    BY <1>1, AbortInv DEF NewValAssert, At, Abort, dbVars, sessionVars
  <1>2. CASE Exists(key[s])
    <2>1. /\ At(s, "newval") /\ UNCHANGED <<status, key, verified>>
          /\ GoOn(s, "put") \/ GoOn(s, "forward")
      BY <1>2 DEF NewValAssert, dbVars
    <2>2. Place(s)'
      BY <2>1 DEF SInv, Types, Sound, Place, At, GoOn
    <2>3. QED
      BY <2>1, <2>2, MoveInv DEF Point
  <1>3. QED
    BY <1>1, <1>2

\* After the table a handler notifies the replicas, but for those of writ and
\* eras, which return; writ resets the key.
LEMMA AfterTableInv ==
    ASSUME SInv, NEW s \in Session, NEW from \in {"put", "write", "erase", "remove"},
           At(s, from), AfterTable(s), UNCHANGED <<status, verified>>,
           \/ UNCHANGED key
           \/ cmd[s] = "writ" /\ key' = [key EXCEPT ![s] = NoKey]
    PROVE  SInv'
  <1> from \in Point \ {"ready", "closed"}
    BY DEF Point
  <1>1. CASE cmd[s] \in {"writ", "eras"}
    <2>1. status[s] = 1
      BY <1>1, SessionAssumption DEF SInv, Sound, Roles, PeerCmd, Session
    <2>2. Answer(s, "OK")
      BY <1>1 DEF AfterTable
    <2>3. status' = [status EXCEPT ![s] = 1]
      BY <2>1 DEF SInv, Types
    <2>4. Returns(s, "OK", 1)
      BY <2>2, <2>3 DEF SInv, Types, Answer, At, Returns
    <2>5. QED
      BY <2>4, ReturnInv
  <1>2. CASE cmd[s] \notin {"writ", "eras"}
    <2>1. GoOn(s, "notify") /\ UNCHANGED <<status, key, verified>>
      BY <1>2 DEF AfterTable
    <2>2. Place(s)'
      BY <1>2, <2>1 DEF SInv, Types, Sound, Place, At, GoOn
    <2>3. QED
      BY <2>1, <2>2, MoveInv DEF Point
  <1>3. QED
    BY <1>1, <1>2

LEMMA TableStepInv ==
    ASSUME SInv, NEW s \in Session,
           PutSeen(s) \/ PutCell(s) \/ EraseSeen(s) \/ EraseCell(s)
    PROVE  SInv'
  <1>1. CASE PutCell(s)
    BY <1>1, AfterTableInv DEF PutCell, AfterTableBuffer, Reset
  <1>2. CASE EraseCell(s)
    BY <1>2, AfterTableInv DEF EraseCell, dbVars
  <1>3. CASE PutSeen(s)
    <2>1. /\ At(s, "put") /\ UNCHANGED <<status, verified>>
          /\ \/ AfterTable(s) /\ AfterTableBuffer(s)
             \/ GoOn(s, "write") /\ UNCHANGED key
      BY <1>3 DEF PutSeen
    <2>2. CASE AfterTable(s) /\ AfterTableBuffer(s)
      BY <2>1, <2>2, AfterTableInv DEF AfterTableBuffer, Reset
    <2>3. CASE GoOn(s, "write") /\ UNCHANGED key
      <3>1. Place(s)'
        BY <2>1, <2>3 DEF SInv, Types, Sound, Place, At, GoOn
      <3>2. QED
        BY <2>1, <2>3, <3>1, MoveInv DEF Point
    <2>4. QED
      BY <2>1, <2>2, <2>3
  <1>4. CASE EraseSeen(s)
    <2>1. /\ At(s, "erase") /\ UNCHANGED <<status, key, verified>>
          /\ AfterTable(s) \/ GoOn(s, "remove")
      BY <1>4 DEF EraseSeen, dbVars
    <2>2. CASE AfterTable(s)
      BY <2>1, <2>2, AfterTableInv
    <2>3. CASE GoOn(s, "remove")
      <3>1. Place(s)'
        BY <2>1, <2>3 DEF SInv, Types, Sound, Place, At, GoOn
      <3>2. QED
        BY <2>1, <2>3, <3>1, MoveInv DEF Point
    <2>4. QED
      BY <2>1, <2>2, <2>3
  <1>5. QED
    BY <1>1, <1>2, <1>3, <1>4

\* The other servers have answered or not: whatever the command was, no
\* conversation is left open, and only newval and forwards may go unanswered.
LEMMA ConfirmedInv ==
    ASSUME SInv, NEW s \in Session, NEW ok \in BOOLEAN, Notified(s, ok) \/ Forwarded(s, ok)
    PROVE  SInv'
  <1>1. PICK from \in {"notify", "forward"} : At(s, from)
    BY DEF Notified, Forwarded
  <1>2. status' = [status EXCEPT ![s] = 1]
    <2>1. Busy(s) /\ cmd[s] # "oldval"
      BY <1>1 DEF SInv, Sound, Place, Busy, At
    <2>2. cmd[s] # "newval" => status[s] = 1
      BY <2>1 DEF SInv, Types, Sound, Conversation
    <2>3. status' = [status EXCEPT ![s] = IF cmd[s] = "newval" THEN 1 ELSE status[s]]
      BY DEF Notified, Forwarded, AfterNewVal
    <2>4. QED
      BY <2>2, <2>3
  <1>3. key' = key \/ key' = [key EXCEPT ![s] = NoKey]
    BY DEF Notified, Forwarded, Reset
  <1>4. UNCHANGED <<verified, cmd>>
    BY DEF Notified, Forwarded, At
  <1>5. PICK r \in {"none", "OK", "ERR"} :
          /\ reply' = [reply EXCEPT ![s] = r]
          /\ r = "none" => cmd[s] = "newval" \/ s \in Peer
    <2>1. CASE Notified(s, ok)
      <3>1. At(s, "notify")
        BY <2>1 DEF Notified
      <3>2. cmd[s] \in {"put", "newval", "del"} \/ s \in Peer
        BY <3>1 DEF SInv, Sound, Place, Roles, PeerCmd, At, Session
      <3>3. QED
        BY <2>1, <3>2 DEF Notified, Answer, GoOn
    <2>2. CASE Forwarded(s, ok)
      <3>1. At(s, "forward")
        BY <2>2 DEF Forwarded
      <3>2. cmd[s] \in {"put", "newval", "del"}
        BY <3>1 DEF SInv, Sound, Place, At
      <3>3. QED
        BY <2>2, <3>2 DEF Forwarded, Answer, GoOn
    <2>3. QED
      BY <2>1, <2>2
  <1>6. pc' = [pc EXCEPT ![s] = "ready"]
    BY DEF Notified, Forwarded, Answer, GoOn
  <1>7. Returns(s, r, 1)
    BY <1>2, <1>3, <1>4, <1>5, <1>6 DEF SInv, Types, Returns
  <1>8. QED
    BY <1>5, <1>7, ReturnInv

-----------------------------------------------------------------------------
LEMMA InitSInv == Init => SInv
  BY DEF Init, SInv, Types, Point, Sound, Place, Conversation, Busy, Roles, Silent,
         ClientCmd, PeerCmd

LEMMA ClientInv ==
    ASSUME SInv, NEW s \in Client, ClientCommand(s)
    PROVE  SInv'
  BY GetInv, PutInv, DelInv, CputInv, OldValInv, NewValInv, RsetInv, QuitInv
     DEF ClientCommand

LEMMA PeerInv ==
    ASSUME SInv, NEW s \in Peer, PeerCommand(s)
    PROVE  SInv'
  BY WriteInv, EraseInv, ForwardInv DEF PeerCommand

LEMMA HandlerInv ==
    ASSUME SInv, NEW s \in Session, Handler(s)
    PROVE  SInv'
  <1>1. CASE NotifyAssert(s)
    BY <1>1, AbortInv DEF NotifyAssert, At, Abort, dbVars, sessionVars
  <1>2. CASE ~NotifyAssert(s)
    BY <1>2, GetStepInv, OldValStepInv, NewValStepInv, TableStepInv, ConfirmedInv
       DEF Handler
  <1>3. QED
    BY <1>1, <1>2

LEMMA Invariance == Spec => []SInv
  <1>1. ASSUME SInv, [Next]_vars
        PROVE  SInv'
    <2>1. CASE UNCHANGED vars
      BY <1>1, <2>1, AbortInv DEF vars, dbVars, sessionVars
    <2>2. CASE ChangeRole
      BY <1>1, <2>2, AbortInv DEF ChangeRole, dbVars, sessionVars
    <2>3. CASE \E s \in Client : ClientCommand(s)
      BY <1>1, <2>3, ClientInv
    <2>4. CASE \E s \in Peer : PeerCommand(s)
      BY <1>1, <2>4, PeerInv
    <2>5. CASE \E s \in Session : Handler(s)
      BY <1>1, <2>5, HandlerInv
    <2>6. QED
      BY <1>1, <2>1, <2>2, <2>3, <2>4, <2>5 DEF Next
  <1>2. QED
    BY <1>1, InitSInv, PTL DEF Spec

\* newval writes the key that the conversation of its session verified
\* (ClientSession.cc:145-230), whatever commands come in whatever order.
THEOREM NewValVerified == Spec => []NewValOnVerified
  <1>1. SInv => NewValOnVerified
    BY DEF SInv, Sound, Conversation, Busy, NewValOnVerified
  <1>2. QED
    BY <1>1, Invariance, PTL

\* A client that waits after its handler has returned has sent a newval to a
\* backup (ClientSession.cc:224-228): every other command is answered.
THEOREM ClientsAnswered == Spec => []Answered
  <1>1. SInv => Answered
    BY DEF SInv, Sound, Silent, Answered, Session
  <1>2. QED
    BY <1>1, Invariance, PTL

=============================================================================
