---------------------------- MODULE Replication ----------------------------
(***************************************************************************)
(* How a put or a del reaches every tablet server of its range             *)
(* (ClientSession.cc): a backup forwards it to the primary, the primary    *)
(* applies it and starts a thread for each backup, each thread talks to a  *)
(* session of its backup and crosses the backup off a vector that all of   *)
(* them share, and when the vector is empty the client is told +OK.  The   *)
(* primary and the set of servers do not change here (module Cluster), and *)
(* a put or an erase of a table is one step (modules Tablet,               *)
(* ClientSession).                                                         *)
(***************************************************************************)
EXTENDS Naturals, FiniteSets

CONSTANTS
    Primary, Backup,    \* the tablet servers of the range
    Write,              \* the writes: a session's seed and a client's number
    Key, Val,           \* keys of the range; what clients put
    Absent,             \* there is no cell, and the value of a del
    SizeOf,             \* the length of each value in bytes
    Entry,              \* the servers that clients connect to
    Overlap             \* FALSE: a write starts only when the others are over

Server == Backup \cup {Primary}

ASSUME ReplicationAssumption ==
    /\ Primary \notin Backup /\ IsFiniteSet(Backup)
    /\ Absent \notin Val
    /\ SizeOf \in [Val -> Nat]
    /\ Entry \subseteq Server
    /\ Overlap \in BOOLEAN

VARIABLES
    tab, hashes,    \* the Tablet of each server
    req,            \* req[w]: the key, the value and the server it was sent to
    pc,             \* the handler of w on the primary
    reply,          \* what the client of w was told
    npc,            \* npc[w][b]: notifyFunc of w for the backup b
    bpc,            \* bpc[w][b]: the session of b that it talks to
    left, saved,    \* copySet.size(), and what the thread of b has read of it
    last            \* history: the last write sent for each key

tableVars == <<tab, hashes>>
vars == <<tableVars, req, pc, reply, npc, bpc, left, saved, last>>

Request == [key : Key, val : Val \cup {Absent}, at : Server]
NoRequest == [at |-> "nowhere"]

\* The hash of w at the primary, and the one its backups get.  handleForward
\* passes the hash that came with the command to its own tablet but never sets
\* currHash, so notifyFunc sends the command without a hash; handleWrite and
\* handleErase then find no third or second blank and take the whole line.
OwnHash(w) == <<"own", w>>
SentHash(w) ==
    IF req[w].at = Primary THEN OwnHash(w)
    ELSE IF req[w].val = Absent THEN <<"eras", req[w].key>>
    ELSE <<"writ", req[w].key, SizeOf[req[w].val]>>

Hash == ({"own"} \X Write) \cup ({"eras"} \X Key)
            \cup {<<"writ", k, SizeOf[v]>> : k \in Key, v \in Val}

TypeOK ==
    /\ tab \in [Server -> [Key -> Val \cup {Absent}]]
    /\ hashes \in [Server -> SUBSET Hash]
    /\ req \in [Write -> Request \cup {NoRequest}]
    /\ pc \in [Write -> {"idle", "forward", "local", "notify", "done"}]
    /\ reply \in [Write -> {"none", "OK", "ERR"}]
    /\ npc \in [Write -> [Backup -> {"start", "command", "blob", "crossing", "crossed", "failed"}]]
    /\ bpc \in [Write -> [Backup -> {"none", "asked", "coming", "done"}]]
    /\ left \in [Write -> Nat]
    /\ saved \in [Write -> [Backup -> Nat]]
    /\ last \in [Key -> SUBSET Write]

Init ==
    /\ tab = [s \in Server |-> [k \in Key |-> Absent]]
    /\ hashes = [s \in Server |-> {}]
    /\ req = [w \in Write |-> NoRequest]
    /\ pc = [w \in Write |-> "idle"]
    /\ reply = [w \in Write |-> "none"]
    /\ npc = [w \in Write |-> [b \in Backup |-> "start"]]
    /\ bpc = [w \in Write |-> [b \in Backup |-> "none"]]
    /\ left = [w \in Write |-> Cardinality(Backup)]
    /\ saved = [w \in Write |-> [b \in Backup |-> 0]]
    /\ last = [k \in Key |-> {}]

IsPut(w) == req[w].val # Absent

\* Nothing of w is on its way: no handler, no answer, no late command.
Over(w) ==
    /\ pc[w] = "done" /\ reply[w] # "none"
    /\ \A b \in Backup : bpc[w][b] # "coming"

Quiescent == \A w \in Write : pc[w] = "idle" \/ Over(w)

Tell(w, r) == reply' = [reply EXCEPT ![w] = r]
Goto(w, to) == pc' = [pc EXCEPT ![w] = to]

\* Mutant of ApplyAt: the put is a map::insert, which keeps an older value.
ApplyAt_Insert(s, w, h) ==
    LET k == req[w].key IN
    IF h \in hashes[s] \/ (~IsPut(w) /\ tab[s][k] = Absent)
    THEN UNCHANGED tableVars
    ELSE /\ tab' = [tab EXCEPT ![s][k] = IF @ = Absent \/ ~IsPut(w) THEN req[w].val ELSE @]
         /\ hashes' = [hashes EXCEPT ![s] = @ \cup {h}]

\* Tablet::put and Tablet::erase of w at s, under the hash h.
ApplyAt(s, w, h) ==
    LET k == req[w].key IN
    IF h \in hashes[s] \/ (~IsPut(w) /\ tab[s][k] = Absent)
    THEN UNCHANGED tableVars
    ELSE /\ tab' = [tab EXCEPT ![s][k] = req[w].val]
         /\ hashes' = [hashes EXCEPT ![s] = @ \cup {h}]

-----------------------------------------------------------------------------
(* The server the client is connected to                                   *)

\* handlePut, handleDel: a del of a key that this server does not have is
\* refused at once.
Submit(w, r) ==
    /\ pc[w] = "idle"
    /\ Overlap \/ Quiescent
    /\ r.at \in Entry
    /\ req' = [req EXCEPT ![w] = r]
    /\ \/ /\ r.val = Absent /\ tab[r.at][r.key] = Absent
          /\ Goto(w, "done") /\ Tell(w, "ERR")
          /\ UNCHANGED last
       \/ /\ r.val # Absent \/ tab[r.at][r.key] # Absent
          /\ Goto(w, IF r.at = Primary THEN "local" ELSE "forward")
          /\ last' = [last EXCEPT ![r.key] = {w}]
          /\ UNCHANGED reply
    /\ UNCHANGED <<tableVars, npc, bpc, left, saved>>

\* forwardFunc: the command and the blob reach the primary,
Forward(w) ==
    /\ pc[w] = "forward"
    /\ Goto(w, "local")
    /\ UNCHANGED <<tableVars, req, reply, npc, bpc, left, saved, last>>

\* or the backup gives up, while they may still be on their way or the primary
\* at work.
ForwardTimeout(w) ==
    /\ pc[w] # "idle" /\ req[w].at # Primary
    /\ reply[w] = "none"
    /\ Tell(w, "ERR")
    /\ UNCHANGED pc \/ (pc[w] = "forward" /\ Goto(w, "done"))
    /\ UNCHANGED <<tableVars, req, npc, bpc, left, saved, last>>

-----------------------------------------------------------------------------
(* The primary                                                             *)

\* tab->put or tab->erase, then notifyReplicas.
Local(w) ==
    /\ pc[w] = "local"
    /\ ApplyAt(Primary, w, OwnHash(w))
    /\ Goto(w, "notify")
    /\ UNCHANGED <<req, reply, npc, bpc, left, saved, last>>

Thread(w, b, from, to) ==
    /\ pc[w] = "notify"
    /\ npc[w][b] = from
    /\ npc' = [npc EXCEPT ![w][b] = to]
    /\ UNCHANGED <<req, pc, reply, last>>

Session(w, b, to) == bpc' = [bpc EXCEPT ![w][b] = to]

\* notifyFunc connects and sends "writ" or "eras".  An erase can be carried out
\* from now on; a put has still to bring its blob.
SendCommand(w, b) ==
    /\ Thread(w, b, "start", "command")
    /\ Session(w, b, IF IsPut(w) THEN "asked" ELSE "coming")
    /\ UNCHANGED <<tableVars, left, saved>>

\* "+OK shoot" is answered with the blob.
SendBlob(w, b) ==
    /\ bpc[w][b] = "asked"
    /\ Thread(w, b, "command", "blob")
    /\ Session(w, b, "coming")
    /\ UNCHANGED <<tableVars, left, saved>>

\* Mutant of CrossOffRead: the backup is crossed off once the blob is sent.
CrossOffRead_Unconfirmed(w, b) ==
    /\ Thread(w, b, IF IsPut(w) THEN "blob" ELSE "command", "crossing")
    /\ saved' = [saved EXCEPT ![w][b] = left[w]]
    /\ UNCHANGED <<tableVars, bpc, left>>

\* "+OK written" or "+OK erased".  crossOff takes the backup out of the shared
\* vector without a lock: it reads where the vector ends,
CrossOffRead(w, b) ==
    /\ bpc[w][b] = "done"
    /\ Thread(w, b, IF IsPut(w) THEN "blob" ELSE "command", "crossing")
    /\ saved' = [saved EXCEPT ![w][b] = left[w]]
    /\ UNCHANGED <<tableVars, bpc, left>>

\* Mutant of CrossOffWrite: one answer crosses two backups off.
CrossOffWrite_Two(w, b) ==
    /\ Thread(w, b, "crossing", "crossed")
    /\ left' = [left EXCEPT ![w] = saved[w][b] - 2]
    /\ UNCHANGED <<tableVars, bpc, saved>>

\* and sets the end one lower.
CrossOffWrite(w, b) ==
    /\ Thread(w, b, "crossing", "crossed")
    /\ left' = [left EXCEPT ![w] = saved[w][b] - 1]
    /\ UNCHANGED <<tableVars, bpc, saved>>

\* Mutant of GiveUp: only connecting fails, the answers are awaited for ever.
GiveUp_NoTimeout(w, b) ==
    /\ Thread(w, b, "start", "failed")
    /\ UNCHANGED <<tableVars, bpc, left, saved>>

\* The connection fails, or an answer does not come in time.
GiveUp(w, b) ==
    /\ \E at \in {"start", "command", "blob"} : Thread(w, b, at, "failed")
    /\ UNCHANGED <<tableVars, bpc, left, saved>>

\* Mutant of Join: the backup does not look whether it gave up.
Join_Late(w) ==
    /\ pc[w] = "notify"
    /\ \A b \in Backup : npc[w][b] \in {"crossed", "failed"}
    /\ Goto(w, "done")
    /\ \/ left[w] = 0 /\ Tell(w, "OK")
       \/ left[w] # 0 /\ req[w].at = Primary /\ Tell(w, "ERR")
       \/ left[w] # 0 /\ req[w].at # Primary /\ UNCHANGED reply
    /\ UNCHANGED <<tableVars, req, npc, bpc, left, saved, last>>

\* All threads are joined.  A client of the primary is answered; a forward only
\* when all is well ("+OK finalized"), and too late if the backup has given up.
Join(w) ==
    /\ pc[w] = "notify"
    /\ \A b \in Backup : npc[w][b] \in {"crossed", "failed"}
    /\ Goto(w, "done")
    /\ \/ left[w] = 0 /\ reply[w] = "none" /\ Tell(w, "OK")
       \/ left[w] # 0 /\ req[w].at = Primary /\ Tell(w, "ERR")
       \/ (IF left[w] = 0 THEN reply[w] # "none" ELSE req[w].at # Primary) /\ UNCHANGED reply
    /\ UNCHANGED <<tableVars, req, npc, bpc, left, saved, last>>

-----------------------------------------------------------------------------
\* The session of b, handleWrite or handleErase: it works on after the thread of
\* the primary has given up.
ApplyAtBackup(w, b) ==
    /\ bpc[w][b] = "coming"
    /\ ApplyAt(b, w, SentHash(w))
    /\ Session(w, b, "done")
    /\ UNCHANGED <<req, pc, reply, npc, left, saved, last>>

ThreadStep(w, b) ==
    SendCommand(w, b) \/ SendBlob(w, b) \/ CrossOffRead(w, b) \/ CrossOffWrite(w, b) \/ GiveUp(w, b)

Next ==
    \E w \in Write :
        \/ \E r \in Request : Submit(w, r)
        \/ Forward(w) \/ ForwardTimeout(w) \/ Local(w) \/ Join(w)
        \/ \E b \in Backup : ThreadStep(w, b) \/ ApplyAtBackup(w, b)

Spec == Init /\ [][Next]_vars

\* The threads run, and poll() returns when its time is up.
Fairness ==
    \A w \in Write :
        /\ WF_vars(Forward(w) \/ ForwardTimeout(w))
        /\ WF_vars(Local(w))
        /\ WF_vars(Join(w))
        /\ \A b \in Backup : WF_vars(ThreadStep(w, b))

FairSpec == Spec /\ Fairness

-----------------------------------------------------------------------------
(* Properties *)

\* "+OK" means that every backup has taken the put under the hash it was sent,
\* although the threads that count the backups share copySet without a lock:
\* the race can lose a decrement, never make one too many.
AckedRecorded ==
    \A w \in Write : reply[w] = "OK" /\ IsPut(w) =>
        \A b \in Backup : SentHash(w) \in hashes[b]

\* Every client is answered, however its server, the primary and the backups
\* wait for each other.
AllAnswered == \A w \in Write : (pc[w] # "idle") ~> (reply[w] # "none")

\* A write that was acknowledged makes the replicas agree on its key, whatever
\* became of the writes before it.
AckHeals ==
    Quiescent =>
        \A k \in Key : (\A w \in last[k] : reply[w] = "OK") =>
            \A b \in Backup : tab[b][k] = tab[Primary][k]

\* The servers that have taken w: the primary once it notifies the backups, a
\* backup once its session has carried the command out or found its hash.
Taken(w) ==
    {b \in Backup : bpc[w][b] = "done"} \cup
    {p \in {Primary} :
        pc[w] = "notify" \/ reply[w] = "OK" \/ \E b \in Backup : npc[w][b] # "start"}

\* Whatever the threads race for and whoever gives up too early: a write is
\* carried out by the primary once and before any backup takes it, the tables
\* change in no other way, the client is told +OK only when all have taken it,
\* and nobody is told one thing and then another.
Contract == INSTANCE WriteAll WITH taken <- [w \in Write |-> Taken(w)]
KeepsContract == Contract!Spec

=============================================================================
