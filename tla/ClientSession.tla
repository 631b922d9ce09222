--------------------------- MODULE ClientSession ---------------------------
(***************************************************************************)
(* The sessions of one tablet server (ClientSession.cc, ClientSession.h,   *)
(* tablet_thread.cc): one thread per connection, one command at a time in  *)
(* each, all on one shared table.  A handler is several steps where it     *)
(* reads the table more than once, so that the handlers of two sessions    *)
(* interleave.  CPUT is a conversation of three commands (cput, oldval,    *)
(* newval) that the session follows with its status.  What the other       *)
(* tablet servers answer (notifyReplicas, forwardFunc) is any answer here, *)
(* and what they send arrives on peer sessions.                            *)
(***************************************************************************)
EXTENDS Naturals, FiniteSets

CONSTANTS
    Client, Peer,   \* sessions of clients and of other tablet servers
    Key, Blob,      \* keys in the range; what clients put and compare
    PeerHash,       \* hashes that other servers send with their commands
    NoKey,          \* currKey after a reset
    Absent,         \* there is no cell of that key
    NoBytes,        \* the empty blob
    MaxCommands,    \* commands of one client session (bounds the model)
    MaxChanges      \* how often the server's role changes (bounds the model)

Session == Client \cup Peer

ASSUME SessionAssumption ==
    /\ Client \cap Peer = {}
    /\ NoKey \notin Key
    /\ Absent \notin Blob \cup {NoBytes} /\ NoBytes \notin Blob
    /\ MaxCommands \in Nat /\ MaxChanges \in Nat

VARIABLES
    isPrimary, changes,     \* config.isPrimary(), which handleElect may change
    tab, hashes,            \* the Tablet
    status,                 \* 1, after cput 2, after a good oldval 3
    key, blob, hash,        \* the DataBuffer: currKey, blobBuffer, the hash of the write
    pc, cmd,                \* where the thread is, in the handler of which command
    reply,                  \* what the last command was answered
    sent,                   \* commands so far
    aborted,                \* which assertion failed, if any: the whole process is gone
    verified                \* history: the key of the last good oldval

tabVars == <<tab, hashes>>
dbVars == <<key, blob, hash>>
roleVars == <<isPrimary, changes>>
vars == <<roleVars, tabVars, status, dbVars, pc, cmd, reply, sent, aborted, verified>>

Init ==
    /\ isPrimary \in BOOLEAN /\ changes = 0
    /\ tab \in [Key -> Blob \cup {Absent}] /\ hashes = {}
    /\ status = [s \in Session |-> 1]
    /\ key = [s \in Session |-> NoKey]
    /\ blob = [s \in Session |-> NoBytes]
    /\ hash = [s \in Session |-> <<s, 0>>]
    /\ pc = [s \in Session |-> "ready"]
    /\ cmd = [s \in Session |-> "none"]
    /\ reply = [s \in Session |-> "OK"]
    /\ sent = [s \in Session |-> 0]
    /\ aborted = "no"
    /\ verified = [s \in Session |-> NoKey]

Exists(k) == tab[k] # Absent

-----------------------------------------------------------------------------
(* How a handler begins and ends.                                          *)

\* notifyFunc and forwardFunc open a connection for each command.
Limit(s) == IF s \in Peer THEN 1 ELSE MaxCommands

Begin(s, c) ==
    /\ aborted = "no"
    /\ pc[s] = "ready"
    /\ sent[s] < Limit(s)
    /\ sent' = [sent EXCEPT ![s] = @ + 1]
    /\ cmd' = [cmd EXCEPT ![s] = c]
    /\ UNCHANGED <<roleVars, aborted>>

At(s, from) ==
    /\ aborted = "no"
    /\ pc[s] = from
    /\ UNCHANGED <<roleVars, cmd, sent>>

\* The handler answers r and returns.
Answer(s, r) ==
    /\ reply' = [reply EXCEPT ![s] = r]
    /\ pc' = [pc EXCEPT ![s] = "ready"]

\* It goes on at another point, with the answer to come.
GoOn(s, to) ==
    /\ reply' = [reply EXCEPT ![s] = "none"]
    /\ pc' = [pc EXCEPT ![s] = to]

\* "-ERR wrong sequence of command"
OutOfSequence(s, c, expectedStatus) ==
    /\ Begin(s, c)
    /\ status[s] # expectedStatus
    /\ Answer(s, "ERR")
    /\ UNCHANGED <<tabVars, status, dbVars, verified>>

\* populateKey, populateAll and setInvocationId (clients number their commands).
SetKey(s, k) == key' = [key EXCEPT ![s] = k]
SetHash(s, h) == hash' = [hash EXCEPT ![s] = h]
\* The hash of a client's write is made of the seed of its session and the
\* number the client gives the command; other servers send theirs.
SetId(s) == SetHash(s, <<s, sent[s] + 1>>)
SetBlob(s, b) == blob' = [blob EXCEPT ![s] = b]

\* DataBuffer::reset: the key goes and the bytes are zeroed.
Reset(s) ==
    /\ key' = [key EXCEPT ![s] = NoKey]
    /\ blob' = [blob EXCEPT ![s] = NoBytes]

\* A failed assertion ends the process.
Abort(s, what) ==
    /\ aborted' = what
    /\ UNCHANGED <<tabVars, status, dbVars, pc, reply, verified>>

-----------------------------------------------------------------------------
(* get, put, del                                                           *)

\* Mutant of HandleGet: it does not look at the status.
HandleGet_AnyStatus(s, k) ==
    /\ Begin(s, "get")
    /\ SetKey(s, k)
    /\ IF Exists(k) THEN GoOn(s, "get") ELSE Answer(s, "ERR")
    /\ UNCHANGED <<tabVars, status, blob, hash, verified>>

HandleGet(s, k) ==
    \/ OutOfSequence(s, "get", 1)
    \/ /\ Begin(s, "get")
       /\ status[s] = 1
       /\ SetKey(s, k)
       /\ IF Exists(k) THEN GoOn(s, "get") ELSE Answer(s, "ERR")
       /\ UNCHANGED <<tabVars, status, blob, hash, verified>>

\* Tablet::get asserts that the cell exists, then reads it with tab[key],
\* which makes an empty one if it is gone by then.
GetAssert(s) ==
    /\ At(s, "get")
    /\ IF Exists(key[s])
       THEN GoOn(s, "cell") /\ UNCHANGED <<tabVars, status, dbVars, aborted, verified>>
       ELSE Abort(s, "cell")

Cell(k) == tab' = [tab EXCEPT ![k] = IF @ = Absent THEN NoBytes ELSE @]

GetCell(s) ==
    /\ At(s, "cell")
    /\ Cell(key[s])
    /\ Answer(s, "OK")
    /\ UNCHANGED <<hashes, status, dbVars, aborted, verified>>

\* The blob follows the command; the primary writes, a backup forwards.
HandlePut(s, k, b) ==
    \/ OutOfSequence(s, "put", 1)
    \/ /\ Begin(s, "put")
       /\ status[s] = 1
       /\ SetKey(s, k) /\ SetBlob(s, b) /\ SetId(s)
       /\ GoOn(s, IF isPrimary THEN "put" ELSE "forward")
       /\ UNCHANGED <<tabVars, status, verified>>

\* Mutant of HandleDel: it returns without a word when there is no cell.
HandleDel_Silent(s, k) ==
    \/ OutOfSequence(s, "del", 1)
    \/ /\ Begin(s, "del")
       /\ status[s] = 1
       /\ SetKey(s, k) /\ SetId(s)
       /\ GoOn(s, IF ~Exists(k) THEN "ready" ELSE IF isPrimary THEN "erase" ELSE "forward")
       /\ UNCHANGED <<tabVars, status, blob, verified>>

HandleDel(s, k) ==
    \/ OutOfSequence(s, "del", 1)
    \/ /\ Begin(s, "del")
       /\ status[s] = 1
       /\ SetKey(s, k) /\ SetId(s)
       /\ IF Exists(k) THEN GoOn(s, IF isPrimary THEN "erase" ELSE "forward")
                       ELSE Answer(s, "ERR")
       /\ UNCHANGED <<tabVars, status, blob, verified>>

-----------------------------------------------------------------------------
(* cput, oldval, newval, rset, quit                                        *)

HandleCput(s, k) ==
    \/ OutOfSequence(s, "cput", 1)
    \/ /\ Begin(s, "cput")
       /\ status[s] = 1
       /\ SetKey(s, k) /\ SetId(s)
       /\ status' = [status EXCEPT ![s] = IF Exists(k) THEN 2 ELSE 1]
       /\ Answer(s, IF Exists(k) THEN "OK" ELSE "ERR")
       /\ verified' = [verified EXCEPT ![s] = NoKey]
       /\ UNCHANGED <<tabVars, blob>>

HandleOldVal(s, b) ==
    \/ OutOfSequence(s, "oldval", 2)
    \/ /\ Begin(s, "oldval")
       /\ status[s] = 2
       /\ SetBlob(s, b)
       /\ GoOn(s, "oldval")
       /\ UNCHANGED <<tabVars, status, key, hash, verified>>

\* Tablet::operator[]: the assertion, then tab[key].
OldValAssert(s) ==
    /\ At(s, "oldval")
    /\ IF Exists(key[s])
       THEN GoOn(s, "compare") /\ UNCHANGED <<tabVars, status, dbVars, aborted, verified>>
       ELSE Abort(s, "cell")

OldValCompare(s) ==
    /\ At(s, "compare")
    /\ Cell(key[s])
    /\ \/ /\ tab'[key[s]] = blob[s]
          /\ status' = [status EXCEPT ![s] = 3]
          /\ verified' = [verified EXCEPT ![s] = key[s]]
          /\ Answer(s, "OK")
       \/ /\ tab'[key[s]] # blob[s]
          /\ status' = [status EXCEPT ![s] = 1]
          /\ Answer(s, "ERR")
          /\ UNCHANGED verified
    /\ UNCHANGED <<hashes, dbVars, aborted>>

HandleNewVal(s, b) ==
    \/ OutOfSequence(s, "newval", 3)
    \/ /\ Begin(s, "newval")
       /\ status[s] = 3
       /\ SetBlob(s, b)
       /\ GoOn(s, "newval")
       /\ UNCHANGED <<tabVars, status, key, hash, verified>>

NewValAssert(s) ==
    /\ At(s, "newval")
    /\ IF Exists(key[s])
       THEN /\ GoOn(s, IF isPrimary THEN "put" ELSE "forward")
            /\ UNCHANGED <<tabVars, status, dbVars, aborted, verified>>
       ELSE Abort(s, "cell")

HandleRset(s) ==
    /\ Begin(s, "rset")
    /\ status' = [status EXCEPT ![s] = 1]
    /\ Reset(s)
    /\ Answer(s, "OK")
    /\ UNCHANGED <<tabVars, hash, verified>>

HandleQuit(s) ==
    /\ Begin(s, "quit")
    /\ reply' = [reply EXCEPT ![s] = "OK"]
    /\ pc' = [pc EXCEPT ![s] = "closed"]
    /\ UNCHANGED <<tabVars, status, dbVars, verified>>

-----------------------------------------------------------------------------
(* What other tablet servers send: writ and eras from the primary, forw     *)
(* from a backup.  They look at no status.                                 *)

HandleWrite(s, k, b, h) ==
    /\ Begin(s, "writ")
    /\ SetKey(s, k) /\ SetBlob(s, b) /\ SetHash(s, h)
    /\ GoOn(s, "put")
    /\ UNCHANGED <<tabVars, status, verified>>

HandleErase(s, k, h) ==
    /\ Begin(s, "eras")
    /\ SetKey(s, k) /\ SetHash(s, h)
    /\ GoOn(s, "erase")
    /\ UNCHANGED <<tabVars, status, blob, verified>>

\* handleForward begins with assert(config.isPrimary()); a forwarded put
\* brings a blob, a forwarded del none.
HandleForward(s, c, k, b, h) ==
    /\ aborted = "no"
    /\ pc[s] = "ready"
    /\ sent[s] < Limit(s)
    /\ sent' = [sent EXCEPT ![s] = @ + 1]
    /\ cmd' = [cmd EXCEPT ![s] = c]
    /\ UNCHANGED roleVars
    /\ \/ /\ isPrimary
          /\ SetKey(s, k) /\ SetHash(s, h)
          /\ \/ c = "forw_put" /\ SetBlob(s, b) /\ GoOn(s, "put")
             \/ c = "forw_del" /\ UNCHANGED blob /\ GoOn(s, "erase")
          /\ UNCHANGED <<tabVars, status, aborted, verified>>
       \/ ~isPrimary /\ Abort(s, "role")

-----------------------------------------------------------------------------
(* The table and the other servers                                         *)

\* After the table: writ and eras answer, the others notify the replicas.
AfterTable(s) ==
    IF cmd[s] \in {"writ", "eras"} THEN Answer(s, "OK") ELSE GoOn(s, "notify")

\* What is left of the DataBuffer then: handleWrite resets it.
AfterTableBuffer(s) ==
    IF cmd[s] = "writ" THEN Reset(s) ELSE UNCHANGED <<key, blob>>

\* tab->put(hash, currKey, blob) looks for the hash before it locks the table.
PutSeen(s) ==
    /\ At(s, "put")
    /\ \/ /\ hash[s] \in hashes
          /\ AfterTable(s) /\ AfterTableBuffer(s)
       \/ /\ hash[s] \notin hashes
          /\ GoOn(s, "write") /\ UNCHANGED <<key, blob>>
    /\ UNCHANGED <<tabVars, hash, status, aborted, verified>>

PutCell(s) ==
    /\ At(s, "write")
    /\ tab' = [tab EXCEPT ![key[s]] = blob[s]]
    /\ hashes' = hashes \cup {hash[s]}
    /\ AfterTable(s) /\ AfterTableBuffer(s)
    /\ UNCHANGED <<hash, status, aborted, verified>>

\* tab->erase(hash, currKey) looks for the cell and the hash before it locks;
\* without a cell the hash is not recorded.
EraseSeen(s) ==
    /\ At(s, "erase")
    /\ IF ~Exists(key[s]) \/ hash[s] \in hashes THEN AfterTable(s) ELSE GoOn(s, "remove")
    /\ UNCHANGED <<tabVars, dbVars, status, aborted, verified>>

EraseCell(s) ==
    /\ At(s, "remove")
    /\ tab' = [tab EXCEPT ![key[s]] = Absent]
    /\ hashes' = hashes \cup {hash[s]}
    /\ AfterTable(s)
    /\ UNCHANGED <<dbVars, status, aborted, verified>>

\* notifyReplicas asserts the role again.
NotifyAssert(s) ==
    /\ At(s, "notify")
    /\ ~isPrimary
    /\ Abort(s, "role")

\* Whoever has confirmed or not, a newval ends the sequence of the session.
AfterNewVal(s) == status' = [status EXCEPT ![s] = IF cmd[s] = "newval" THEN 1 ELSE @]

\* All replicas have confirmed (ok) or not.  A forward is answered only when
\* they have.
Notified(s, ok) ==
    /\ At(s, "notify")
    /\ isPrimary
    /\ IF ok \/ cmd[s] \in {"put", "del", "newval"}
       THEN Answer(s, IF ok THEN "OK" ELSE "ERR")
       ELSE GoOn(s, "ready")
    /\ IF cmd[s] = "del" \/ (ok /\ cmd[s] \in {"put", "newval"})
       THEN Reset(s) ELSE UNCHANGED <<key, blob>>
    /\ AfterNewVal(s)
    /\ UNCHANGED <<tabVars, hash, aborted, verified>>

\* The primary has confirmed (ok) or not.  A newval is answered only when it
\* has.
Forwarded(s, ok) ==
    /\ At(s, "forward")
    /\ IF ok \/ cmd[s] \in {"put", "del"}
       THEN Answer(s, IF ok THEN "OK" ELSE "ERR")
       ELSE GoOn(s, "ready")
    /\ IF cmd[s] = "del" THEN Reset(s) ELSE UNCHANGED <<key, blob>>
    /\ AfterNewVal(s)
    /\ UNCHANGED <<tabVars, hash, aborted, verified>>

-----------------------------------------------------------------------------
\* handleElect, on the thread of foofunc.
ChangeRole ==
    /\ aborted = "no"
    /\ changes < MaxChanges
    /\ isPrimary' = ~isPrimary
    /\ changes' = changes + 1
    /\ UNCHANGED <<tabVars, status, dbVars, pc, cmd, reply, sent, aborted, verified>>

ClientCommand(s) ==
    \/ \E k \in Key :
         \/ HandleGet(s, k) \/ HandleDel(s, k) \/ HandleCput(s, k)
         \/ \E b \in Blob : HandlePut(s, k, b)
    \/ \E b \in Blob : HandleOldVal(s, b) \/ HandleNewVal(s, b)
    \/ HandleRset(s) \/ HandleQuit(s)

PeerCommand(s) ==
    \E k \in Key, h \in PeerHash :
        \/ HandleErase(s, k, h)
        \/ \E b \in Blob :
             \/ HandleWrite(s, k, b, h)
             \/ \E c \in {"forw_put", "forw_del"} : HandleForward(s, c, k, b, h)

\* The steps of a handler that has begun.
Handler(s) ==
    \/ GetAssert(s) \/ GetCell(s)
    \/ OldValAssert(s) \/ OldValCompare(s) \/ NewValAssert(s)
    \/ PutSeen(s) \/ PutCell(s) \/ EraseSeen(s) \/ EraseCell(s) \/ NotifyAssert(s)
    \/ \E ok \in BOOLEAN : Notified(s, ok) \/ Forwarded(s, ok)

Next ==
    \/ \E s \in Client : ClientCommand(s)
    \/ \E s \in Peer : PeerCommand(s)
    \/ \E s \in Session : Handler(s)
    \/ ChangeRole

Spec == Init /\ [][Next]_vars

-----------------------------------------------------------------------------
(* Properties *)

\* newval writes to the key whose value the same conversation verified, and to
\* no other: whatever commands come in between, in whatever order, status and
\* currKey stay together (ClientSession.cc: every handler tests the status
\* before it touches the DataBuffer).
NewValOnVerified ==
    \A s \in Session :
        status[s] = 3 \/ (cmd[s] = "newval" /\ pc[s] \notin {"ready", "closed"})
            => verified[s] = key[s] /\ key[s] # NoKey

\* Every command of a client is answered, newval excepted (a backup whose
\* forward fails says nothing, ClientSession.cc:224-228): the mail server and the
\* frontend block in read() until the answer comes.
Answered ==
    \A s \in Client : pc[s] = "ready" /\ reply[s] = "none" => cmd[s] = "newval"

=============================================================================
