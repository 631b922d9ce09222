------------------------- MODULE ReplicationProofs -------------------------
(***************************************************************************)
(* Proofs about Replication: what an acknowledged put means, for every     *)
(* number of backups, writes, keys and values, wherever clients connect    *)
(* and however their writes overlap.                                       *)
(***************************************************************************)
EXTENDS Replication, FiniteSetTheorems, TLAPS

\* The backups that no thread has crossed off yet.
Uncrossed(w) == {b \in Backup : npc[w][b] # "crossed"}

\* A handler has a request, and no thread runs before it notifies.
Requested == \A w \in Write : pc[w] # "idle" => req[w] \in Request

Unstarted ==
    \A w \in Write : pc[w] \in {"idle", "forward", "local"} =>
        \A b \in Backup : npc[w][b] = "start" /\ bpc[w][b] = "none"

\* The raced size of copySet, and each copy of it that a thread holds, is never
\* below the number of backups that are not crossed off.
Counted ==
    \A w \in Write :
        /\ left[w] >= Cardinality(Uncrossed(w))
        /\ \A b \in Backup :
             npc[w][b] = "crossing" => saved[w][b] >= Cardinality(Uncrossed(w))

\* Only a backup that is done is crossed off.
Confirmed ==
    \A w \in Write, b \in Backup :
        npc[w][b] \in {"crossing", "crossed"} => bpc[w][b] = "done"

Recorded ==
    \A w \in Write, b \in Backup :
        bpc[w][b] = "done" /\ IsPut(w) => SentHash(w) \in hashes[b]

\* The primary puts before it notifies.
PrimaryPut ==
    \A w \in Write :
        (pc[w] = "notify" \/ \E b \in Backup : bpc[w][b] # "none") /\ IsPut(w)
            => OwnHash(w) \in hashes[Primary]

AllCrossed ==
    \A w \in Write : reply[w] = "OK" => \A b \in Backup : npc[w][b] = "crossed"

RInv ==
    /\ TypeOK /\ Requested /\ Unstarted /\ Counted
    /\ Confirmed /\ Recorded /\ PrimaryPut /\ AllCrossed

-----------------------------------------------------------------------------
LEMMA HashType ==
    ASSUME ReplicationAssumption, NEW w \in Write, req[w] \in Request
    PROVE  OwnHash(w) \in Hash /\ SentHash(w) \in Hash
  BY DEF ReplicationAssumption, Request, OwnHash, SentHash, Hash

LEMMA UncrossedFinite ==
    ASSUME ReplicationAssumption, NEW w \in Write
    PROVE  IsFiniteSet(Uncrossed(w)) /\ Cardinality(Uncrossed(w)) \in Nat
  BY FS_Subset, FS_CardinalityType DEF ReplicationAssumption, Uncrossed

\* Applying a write keeps the types, forgets no hash, and records a put.
LEMMA ApplyFacts ==
    ASSUME TypeOK, NEW w \in Write, NEW s \in Server, NEW h \in Hash,
           req[w] \in Request, ApplyAt(s, w, h)
    PROVE  /\ tab' \in [Server -> [Key -> Val \cup {Absent}]]
           /\ hashes' \in [Server -> SUBSET Hash]
           /\ \A t \in Server : hashes[t] \subseteq hashes'[t]
           /\ IsPut(w) => h \in hashes'[s]
  <1> USE DEF TypeOK
  <1>1. CASE h \in hashes[s] \/ (~IsPut(w) /\ tab[s][req[w].key] = Absent)
    BY <1>1 DEF ApplyAt, tableVars
  <1>2. CASE ~(h \in hashes[s] \/ (~IsPut(w) /\ tab[s][req[w].key] = Absent))
    <2>1. /\ tab' = [tab EXCEPT ![s][req[w].key] = req[w].val]
          /\ hashes' = [hashes EXCEPT ![s] = @ \cup {h}]
      BY <1>2 DEF ApplyAt
    <2>2. req[w].key \in Key /\ req[w].val \in Val \cup {Absent}
      BY DEF Request
    <2>3. tab' \in [Server -> [Key -> Val \cup {Absent}]]
      BY <2>1, <2>2
    <2>4. hashes' \in [Server -> SUBSET Hash] /\ h \in hashes'[s]
      BY <2>1
    <2>5. \A t \in Server : hashes[t] \subseteq hashes'[t]
      BY <2>1
    <2>6. QED
      BY <2>3, <2>4, <2>5
  <1>3. QED
    BY <1>1, <1>2

-----------------------------------------------------------------------------
LEMMA InitInv == ASSUME ReplicationAssumption, Init PROVE RInv
  <1>1. \A w \in Write : Uncrossed(w) = Backup
    BY DEF Init, Uncrossed
  <1>2. Cardinality(Backup) \in Nat
    BY FS_CardinalityType DEF ReplicationAssumption
  <1>3. TypeOK
    BY <1>2 DEF Init, TypeOK, Hash
  <1>4. Requested /\ Unstarted /\ Confirmed /\ Recorded /\ AllCrossed
    BY DEF Init, Requested, Unstarted, Confirmed, Recorded, AllCrossed
  <1>5. Counted
    BY <1>1, <1>2 DEF Init, Counted
  <1>6. PrimaryPut
    BY DEF Init, PrimaryPut
  <1>7. QED
    BY <1>3, <1>4, <1>5, <1>6 DEF RInv

\* Steps that leave the tables and the counting alone.
LEMMA CountedKept ==
    ASSUME Counted, UNCHANGED <<npc, left, saved>>
    PROVE  Counted'
  BY DEF Counted, Uncrossed

LEMMA SubmitInv ==
    ASSUME RInv, NEW w \in Write, NEW r \in Request, Submit(w, r)
    PROVE  RInv'
  <1> USE DEF RInv
  <1>1. TypeOK'
    <2>1. pc' \in [Write -> {"idle", "forward", "local", "notify", "done"}]
      BY DEF TypeOK, Submit, Goto
    <2>2. reply' \in [Write -> {"none", "OK", "ERR"}]
      BY DEF TypeOK, Submit, Tell
    <2>3. req' \in [Write -> Request \cup {NoRequest}]
      BY DEF TypeOK, Submit
    <2>4. last' \in [Key -> SUBSET Write]
      <3>1. last' = last \/ last' = [last EXCEPT ![r.key] = {w}]
        BY DEF Submit
      <3>2. last \in [Key -> SUBSET Write] /\ {w} \in SUBSET Write
        BY DEF TypeOK
      <3>3. QED
        BY <3>1, <3>2
    <2>5. QED
      BY <2>1, <2>2, <2>3, <2>4 DEF TypeOK, Submit, tableVars
  <1>2. /\ pc[w] = "idle" /\ pc'[w] \in {"done", "local", "forward"}
        /\ \A v \in Write \ {w} : pc'[v] = pc[v] /\ req'[v] = req[v] /\ reply'[v] = reply[v]
        /\ req'[w] = r /\ reply'[w] \in {reply[w], "ERR"}
    BY DEF Submit, Goto, Tell, TypeOK
  <1>3. /\ \A b \in Backup : npc[w][b] = "start" /\ bpc[w][b] = "none"
        /\ UNCHANGED <<tab, hashes, npc, bpc, left, saved>>
    BY <1>2 DEF Unstarted, Submit, tableVars
  <1>4. Requested'
    BY <1>2 DEF Requested
  <1>5. Unstarted' /\ Confirmed'
    BY <1>2, <1>3 DEF Unstarted, Confirmed
  <1>6. Counted'
    BY <1>3, CountedKept
  <1>7. Recorded'
    BY <1>2, <1>3 DEF Recorded, IsPut, SentHash, OwnHash
  <1>8. PrimaryPut'
    BY <1>2, <1>3 DEF PrimaryPut, IsPut, OwnHash
  <1>9. AllCrossed'
    BY <1>2, <1>3 DEF AllCrossed
  <1>10. QED
    BY <1>1, <1>4, <1>5, <1>6, <1>7, <1>8, <1>9

LEMMA ForwardInv ==
    ASSUME RInv, NEW w \in Write, Forward(w) \/ ForwardTimeout(w)
    PROVE  RInv'
  <1> USE DEF RInv
  <1>1. /\ UNCHANGED <<tab, hashes, req, npc, bpc, left, saved, last>>
        /\ pc[w] # "idle" /\ pc'[w] # "idle"
        /\ pc'[w] = pc[w] \/ (pc[w] = "forward" /\ pc'[w] \in {"local", "done"})
        /\ reply'[w] \in {reply[w], "ERR"}
        /\ \A v \in Write \ {w} : pc'[v] = pc[v] /\ reply'[v] = reply[v]
    BY DEF Forward, ForwardTimeout, Goto, Tell, TypeOK, tableVars
  <1>2. TypeOK'
    <2>1. pc' \in [Write -> {"idle", "forward", "local", "notify", "done"}]
      BY DEF TypeOK, Forward, ForwardTimeout, Goto
    <2>2. reply' \in [Write -> {"none", "OK", "ERR"}]
      BY DEF TypeOK, Forward, ForwardTimeout, Tell
    <2>3. QED
      BY <1>1, <2>1, <2>2 DEF TypeOK
  <1>3. Requested' /\ Unstarted' /\ Confirmed'
    BY <1>1 DEF Requested, Unstarted, Confirmed
  <1>4. Counted'
    BY <1>1, CountedKept
  <1>5. Recorded'
    BY <1>1 DEF Recorded, IsPut, SentHash, OwnHash
  <1>6. PrimaryPut'
    BY <1>1 DEF PrimaryPut, IsPut, OwnHash
  <1>7. AllCrossed'
    BY <1>1 DEF AllCrossed
  <1>8. QED
    BY <1>2, <1>3, <1>4, <1>5, <1>6, <1>7

LEMMA LocalInv ==
    ASSUME ReplicationAssumption, RInv, NEW w \in Write, Local(w)
    PROVE  RInv'
  <1> USE DEF RInv
  <1>1. /\ UNCHANGED <<req, reply, npc, bpc, left, saved, last>>
        /\ pc[w] = "local" /\ pc'[w] = "notify"
        /\ \A v \in Write \ {w} : pc'[v] = pc[v]
    BY DEF Local, Goto, TypeOK
  <1>2. req[w] \in Request /\ \A b \in Backup : npc[w][b] = "start" /\ bpc[w][b] = "none"
    BY <1>1 DEF Requested, Unstarted
  <1>3. Primary \in Server /\ Backup \subseteq Server /\ OwnHash(w) \in Hash
    BY <1>2, HashType DEF Server
  <1>4. /\ tab' \in [Server -> [Key -> Val \cup {Absent}]]
        /\ hashes' \in [Server -> SUBSET Hash]
        /\ \A t \in Server : hashes[t] \subseteq hashes'[t]
        /\ IsPut(w) => OwnHash(w) \in hashes'[Primary]
    BY <1>2, <1>3, ApplyFacts DEF Local
  <1>5. TypeOK'
    BY <1>1, <1>4 DEF TypeOK, Local, Goto
  <1>6. Requested' /\ Unstarted' /\ Confirmed'
    BY <1>1 DEF Requested, Unstarted, Confirmed
  <1>7. Counted'
    BY <1>1, CountedKept
  <1>8. Recorded'
    BY <1>1, <1>3, <1>4 DEF Recorded, IsPut, SentHash, OwnHash
  <1>9. PrimaryPut'
    BY <1>1, <1>3, <1>4 DEF PrimaryPut, IsPut, OwnHash
  <1>10. AllCrossed'
    BY <1>1 DEF AllCrossed
  <1>11. QED
    BY <1>5, <1>6, <1>7, <1>8, <1>9, <1>10

\* A thread that has neither read nor written the end of copySet.
LEMMA TalkInv ==
    ASSUME RInv, NEW w \in Write, NEW b \in Backup,
           SendCommand(w, b) \/ SendBlob(w, b) \/ GiveUp(w, b)
    PROVE  RInv'
  <1> USE DEF RInv
  <1>1. /\ UNCHANGED <<tab, hashes, req, pc, reply, left, saved, last>>
        /\ pc[w] = "notify"
        /\ npc[w][b] \in {"start", "command", "blob"}
        /\ npc'[w][b] \in {"command", "blob", "failed"}
        /\ bpc'[w][b] \in {bpc[w][b], "asked", "coming"}
        /\ \A v \in Write, c \in Backup :
             v # w \/ c # b => npc'[v][c] = npc[v][c] /\ bpc'[v][c] = bpc[v][c]
    BY DEF SendCommand, SendBlob, GiveUp, Thread, Session, TypeOK, tableVars
  <1>2. TypeOK'
    <2>1. npc \in [Write -> [Backup -> {"start", "command", "blob", "crossing", "crossed", "failed"}]]
      BY DEF TypeOK
    <2>2. npc' \in [Write -> [Backup -> {"start", "command", "blob", "crossing", "crossed", "failed"}]]
      BY <2>1 DEF SendCommand, SendBlob, GiveUp, Thread
    <2>3. bpc \in [Write -> [Backup -> {"none", "asked", "coming", "done"}]]
      BY DEF TypeOK
    <2>4. bpc' \in [Write -> [Backup -> {"none", "asked", "coming", "done"}]]
      BY <2>3 DEF SendCommand, SendBlob, GiveUp, Session
    <2>5. QED
      BY <1>1, <2>2, <2>4 DEF TypeOK
  <1>3. Requested' /\ Unstarted' /\ Confirmed'
    BY <1>1 DEF Requested, Unstarted, Confirmed
  <1>4. \A v \in Write : Uncrossed(v)' = Uncrossed(v)
    BY <1>1 DEF Uncrossed
  <1>5. Counted'
    BY <1>1, <1>4 DEF Counted
  <1>6. Recorded'
    BY <1>1 DEF Recorded, IsPut, SentHash, OwnHash
  <1>7. PrimaryPut'
    BY <1>1 DEF PrimaryPut, IsPut, OwnHash
  <1>8. AllCrossed'
    BY <1>1 DEF AllCrossed
  <1>9. QED
    BY <1>2, <1>3, <1>5, <1>6, <1>7, <1>8

LEMMA CrossOffReadInv ==
    ASSUME RInv, NEW w \in Write, NEW b \in Backup, CrossOffRead(w, b)
    PROVE  RInv'
  <1> USE DEF RInv
  <1>1. /\ UNCHANGED <<tab, hashes, req, pc, reply, bpc, left, last>>
        /\ pc[w] = "notify" /\ bpc[w][b] = "done"
        /\ npc[w][b] \in {"command", "blob"} /\ npc'[w][b] = "crossing"
        /\ saved'[w][b] = left[w]
        /\ \A v \in Write, c \in Backup :
             v # w \/ c # b => npc'[v][c] = npc[v][c] /\ saved'[v][c] = saved[v][c]
    BY DEF CrossOffRead, Thread, TypeOK, tableVars
  <1>2. TypeOK'
    BY <1>1 DEF TypeOK, CrossOffRead, Thread
  <1>3. Requested' /\ Unstarted' /\ Confirmed'
    BY <1>1 DEF Requested, Unstarted, Confirmed
  <1>4. \A v \in Write : Uncrossed(v)' = Uncrossed(v)
    BY <1>1 DEF Uncrossed
  <1>5. Counted'
    BY <1>1, <1>4 DEF Counted
  <1>6. Recorded' /\ PrimaryPut'
    BY <1>1 DEF Recorded, PrimaryPut, IsPut, SentHash, OwnHash
  <1>7. AllCrossed'
    BY <1>1 DEF AllCrossed
  <1>8. QED
    BY <1>2, <1>3, <1>5, <1>6, <1>7

LEMMA CrossOffWriteInv ==
    ASSUME ReplicationAssumption, RInv, NEW w \in Write, NEW b \in Backup, CrossOffWrite(w, b)
    PROVE  RInv'
  <1> USE DEF RInv
  <1>1. /\ UNCHANGED <<tab, hashes, req, pc, reply, bpc, saved, last>>
        /\ pc[w] = "notify"
        /\ npc[w][b] = "crossing" /\ npc'[w][b] = "crossed"
        /\ left'[w] = saved[w][b] - 1
        /\ \A v \in Write \ {w} : left'[v] = left[v]
        /\ \A v \in Write, c \in Backup : v # w \/ c # b => npc'[v][c] = npc[v][c]
    BY DEF CrossOffWrite, Thread, TypeOK, tableVars
  <1>2. /\ Uncrossed(w)' = Uncrossed(w) \ {b} /\ b \in Uncrossed(w)
        /\ \A v \in Write \ {w} : Uncrossed(v)' = Uncrossed(v)
    BY <1>1 DEF Uncrossed
  <1>3. /\ Cardinality(Uncrossed(w)) \in Nat \ {0}
        /\ Cardinality(Uncrossed(w)') = Cardinality(Uncrossed(w)) - 1
    <2>1. IsFiniteSet(Uncrossed(w)) /\ Cardinality(Uncrossed(w)) \in Nat
      BY UncrossedFinite
    <2>2. Cardinality(Uncrossed(w)) # 0
      BY <1>2, <2>1, FS_EmptySet
    <2>3. Cardinality(Uncrossed(w) \ {b}) = Cardinality(Uncrossed(w)) - 1
      BY <1>2, <2>1, FS_RemoveElement
    <2>4. QED
      BY <1>2, <2>1, <2>2, <2>3
  <1>4. saved[w][b] \in Nat /\ saved[w][b] >= Cardinality(Uncrossed(w))
    BY <1>1 DEF Counted, TypeOK
  <1>5. TypeOK'
    <2>1. left' \in [Write -> Nat]
      <3>1. saved[w][b] - 1 \in Nat
        BY <1>3, <1>4
      <3>2. left' = [left EXCEPT ![w] = saved[w][b] - 1]
        BY DEF CrossOffWrite
      <3>3. left \in [Write -> Nat]
        BY DEF TypeOK
      <3>4. QED
        BY <3>1, <3>2, <3>3
    <2>2. npc' \in [Write -> [Backup -> {"start", "command", "blob", "crossing", "crossed", "failed"}]]
      BY DEF CrossOffWrite, Thread, TypeOK
    <2>3. QED
      BY <1>1, <2>1, <2>2 DEF TypeOK
  <1>6. Requested' /\ Unstarted' /\ Confirmed'
    BY <1>1 DEF Requested, Unstarted, Confirmed
  <1>7. Counted'
    <2>1. ASSUME NEW v \in Write, v # w
          PROVE  /\ left'[v] >= Cardinality(Uncrossed(v)')
                 /\ \A c \in Backup :
                      npc'[v][c] = "crossing" => saved'[v][c] >= Cardinality(Uncrossed(v)')
      BY <2>1, <1>1, <1>2 DEF Counted
    <2>2. left'[w] >= Cardinality(Uncrossed(w)')
      BY <1>1, <1>3, <1>4
    <2>3. ASSUME NEW c \in Backup, npc'[w][c] = "crossing"
          PROVE  saved'[w][c] >= Cardinality(Uncrossed(w)')
      <3>1. npc[w][c] = "crossing" /\ saved'[w][c] = saved[w][c]
        BY <2>3, <1>1
      <3>2. saved[w][c] \in Nat /\ saved[w][c] >= Cardinality(Uncrossed(w))
        BY <3>1 DEF Counted, TypeOK
      <3>3. QED
        BY <3>1, <3>2, <1>3
    <2>4. QED
      BY <2>1, <2>2, <2>3 DEF Counted
  <1>8. Recorded' /\ PrimaryPut'
    BY <1>1 DEF Recorded, PrimaryPut, IsPut, SentHash, OwnHash
  <1>9. AllCrossed'
    BY <1>1 DEF AllCrossed
  <1>10. QED
    BY <1>5, <1>6, <1>7, <1>8, <1>9

LEMMA JoinInv ==
    ASSUME ReplicationAssumption, RInv, NEW w \in Write, Join(w)
    PROVE  RInv'
  <1> USE DEF RInv
  <1>1. /\ UNCHANGED <<tab, hashes, req, npc, bpc, left, saved, last>>
        /\ pc[w] = "notify" /\ pc'[w] = "done"
        /\ reply'[w] \in {reply[w], "ERR", "OK"}
        /\ reply'[w] = "OK" => reply[w] = "OK" \/ left[w] = 0
        /\ \A v \in Write \ {w} : pc'[v] = pc[v] /\ reply'[v] = reply[v]
    BY DEF Join, Goto, Tell, TypeOK, tableVars
  <1>2. TypeOK'
    BY <1>1 DEF TypeOK, Join, Goto, Tell
  <1>3. Requested' /\ Unstarted' /\ Confirmed'
    BY <1>1 DEF Requested, Unstarted, Confirmed
  <1>4. Counted'
    BY <1>1, CountedKept
  <1>5. Recorded' /\ PrimaryPut'
    BY <1>1 DEF Recorded, PrimaryPut, IsPut, SentHash, OwnHash
  <1>6. left[w] = 0 => \A b \in Backup : npc[w][b] = "crossed"
    <2>1. IsFiniteSet(Uncrossed(w)) /\ Cardinality(Uncrossed(w)) \in Nat
      BY UncrossedFinite
    <2>2. left[w] = 0 => Cardinality(Uncrossed(w)) = 0
      BY <2>1 DEF Counted
    <2>3. QED
      BY <2>1, <2>2, FS_EmptySet DEF Uncrossed
  <1>7. AllCrossed'
    BY <1>1, <1>6 DEF AllCrossed
  <1>8. QED
    BY <1>2, <1>3, <1>4, <1>5, <1>7

LEMMA ApplyAtBackupInv ==
    ASSUME ReplicationAssumption, RInv, NEW w \in Write, NEW b \in Backup, ApplyAtBackup(w, b)
    PROVE  RInv'
  <1> USE DEF RInv
  <1>1. /\ UNCHANGED <<req, pc, reply, npc, left, saved, last>>
        /\ bpc[w][b] = "coming" /\ bpc'[w][b] = "done"
        /\ \A v \in Write, c \in Backup : v # w \/ c # b => bpc'[v][c] = bpc[v][c]
    BY DEF ApplyAtBackup, Session, TypeOK
  <1>2. req[w] \in Request /\ pc[w] \in {"notify", "done"}
    BY <1>1 DEF Requested, Unstarted, TypeOK
  <1>3. Primary \in Server /\ Backup \subseteq Server /\ SentHash(w) \in Hash
    BY <1>2, HashType DEF Server
  <1>4. /\ tab' \in [Server -> [Key -> Val \cup {Absent}]]
        /\ hashes' \in [Server -> SUBSET Hash]
        /\ \A t \in Server : hashes[t] \subseteq hashes'[t]
        /\ IsPut(w) => SentHash(w) \in hashes'[b]
    BY <1>2, <1>3, ApplyFacts DEF ApplyAtBackup
  <1>5. TypeOK'
    BY <1>1, <1>4 DEF TypeOK, ApplyAtBackup, Session
  <1>6. Requested' /\ Unstarted' /\ Confirmed'
    BY <1>1, <1>2 DEF Requested, Unstarted, Confirmed
  <1>7. Counted'
    BY <1>1, CountedKept
  <1>8. Recorded'
    BY <1>1, <1>3, <1>4, SMTT(30) DEF Recorded, IsPut, SentHash, OwnHash
  <1>9. PrimaryPut'
    BY <1>1, <1>3, <1>4 DEF PrimaryPut, IsPut, OwnHash
  <1>10. AllCrossed'
    BY <1>1 DEF AllCrossed
  <1>11. QED
    BY <1>5, <1>6, <1>7, <1>8, <1>9, <1>10

-----------------------------------------------------------------------------
THEOREM Invariance == Spec => []RInv
  <1>1. Init => RInv
    BY InitInv, ReplicationAssumption
  <1>2. ASSUME RInv, [Next]_vars PROVE RInv'
    <2>1. CASE UNCHANGED vars
      BY <1>2, <2>1, ZenonT(40) DEF RInv, vars, tableVars, TypeOK, Requested, Unstarted, Counted, Uncrossed,
             Confirmed, Recorded, PrimaryPut, AllCrossed, IsPut, SentHash, OwnHash
    <2>2. CASE Next
      <3>1. PICK w \in Write :
              \/ \E r \in Request : Submit(w, r)
              \/ Forward(w) \/ ForwardTimeout(w) \/ Local(w) \/ Join(w)
              \/ \E b \in Backup : ThreadStep(w, b) \/ ApplyAtBackup(w, b)
        BY <2>2 DEF Next
      <3>2. CASE \E r \in Request : Submit(w, r)
        BY <1>2, <3>2, SubmitInv
      <3>3. CASE Forward(w) \/ ForwardTimeout(w)
        BY <1>2, <3>3, ForwardInv
      <3>4. CASE Local(w)
        BY <1>2, <3>4, LocalInv, ReplicationAssumption
      <3>5. CASE Join(w)
        BY <1>2, <3>5, JoinInv, ReplicationAssumption
      <3>6. ASSUME NEW b \in Backup, ThreadStep(w, b)
            PROVE  RInv'
        BY <1>2, <3>6, TalkInv, CrossOffReadInv, CrossOffWriteInv, ReplicationAssumption
           DEF ThreadStep
      <3>7. ASSUME NEW b \in Backup, ApplyAtBackup(w, b)
            PROVE  RInv'
        BY <1>2, <3>7, ApplyAtBackupInv, ReplicationAssumption
      <3>8. QED
        BY <3>1, <3>2, <3>3, <3>4, <3>5, <3>6, <3>7
    <2>3. QED
      BY <1>2, <2>1, <2>2
  <1>3. QED
    BY <1>1, <1>2, PTL DEF Spec

\* The variables keep their types; in particular the size of copySet, which the
\* threads race to lower, never goes below zero.
THEOREM ReplicationTypes == Spec => []TypeOK
  <1>1. RInv => TypeOK
    BY DEF RInv
  <1>2. QED
    BY <1>1, Invariance, PTL

\* "+OK" for a put means that every backup has recorded it (notifyReplicas).
THEOREM AckMeansRecorded == Spec => []AckedRecorded
  <1>1. RInv => AckedRecorded
    BY DEF RInv, AllCrossed, Confirmed, Recorded, AckedRecorded
  <1>2. QED
    BY <1>1, Invariance, PTL

\* A backup is never ahead of the primary: what it has put, the primary put
\* before it.
PrimaryFirst ==
    \A w \in Write, b \in Backup :
        bpc[w][b] = "done" /\ IsPut(w) => OwnHash(w) \in hashes[Primary]

\* What a backup has put, the primary put before it.
THEOREM PrimaryIsFirst == Spec => []PrimaryFirst
  <1>1. RInv => PrimaryFirst
    BY DEF RInv, PrimaryPut, PrimaryFirst
  <1>2. QED
    BY <1>1, Invariance, PTL

-----------------------------------------------------------------------------
(* Writes that come one after the other, all through the primary.          *)

Sequential == ~Overlap /\ Entry = {Primary}

\* Such a write reaches the backups with its own hash.
Direct == \A w \in Write : pc[w] # "forward" /\ (pc[w] # "idle" => req[w].at = Primary)

\* A hash is known where its write was carried out, and nowhere else.
OwnHashes ==
    \A w \in Write :
        /\ OwnHash(w) \in hashes[Primary] => pc[w] \in {"notify", "done"}
        /\ \A b \in Backup :
             /\ OwnHash(w) \in hashes[b] => bpc[w][b] = "done"
             /\ npc[w][b] = "start" => bpc[w][b] = "none"

\* Whatever is still to be carried out belongs to the last write of its key, ...
UnderWay(w) == pc[w] \in {"local", "notify"} \/ \E b \in Backup : bpc[w][b] = "coming"

Latest ==
    /\ \A w \in Write : UnderWay(w) => last[req[w].key] = {w}
    /\ \A w, v \in Write : pc[w] \notin {"idle", "done"} /\ ~Over(v) /\ pc[v] # "idle" => v = w

\* ... which is what its key has wherever it was carried out.
Written ==
    \A k \in Key :
        /\ last[k] = {} => \A s \in Server : tab[s][k] = Absent
        /\ \A w \in last[k] :
             /\ last[k] = {w} /\ pc[w] # "idle" /\ req[w].key = k
             /\ pc[w] \in {"notify", "done"} => tab[Primary][k] = req[w].val
             /\ \A b \in Backup : bpc[w][b] = "done" => tab[b][k] = req[w].val

HInv == Direct /\ OwnHashes /\ Latest /\ Written

LEMMA HInit == Init => HInv
  <1> SUFFICES ASSUME Init PROVE HInv
    OBVIOUS
  <1>1. Direct /\ Latest
    BY DEF Init, Direct, Latest, UnderWay
  <1>2. OwnHashes
    BY DEF Init, OwnHashes, Server
  <1>3. Written
    BY DEF Init, Written
  <1>4. QED
    BY <1>1, <1>2, <1>3 DEF HInv

LEMMA HSubmit ==
    ASSUME Sequential, RInv, HInv, NEW w \in Write, NEW r \in Request, Submit(w, r)
    PROVE  HInv'
  <1> USE DEF HInv
  <1>1. /\ pc[w] = "idle" /\ r.at = Primary /\ r.key \in Key /\ Quiescent
        /\ UNCHANGED <<tab, hashes, npc, bpc>>
        /\ req'[w] = r /\ pc'[w] \in {"local", "done"}
        /\ pc'[w] = "local" => last' = [last EXCEPT ![r.key] = {w}] /\ reply'[w] = reply[w]
        /\ pc'[w] = "done" => last' = last /\ reply'[w] = "ERR"
        /\ \A v \in Write \ {w} : pc'[v] = pc[v] /\ req'[v] = req[v] /\ reply'[v] = reply[v]
    BY DEF Sequential, Submit, Goto, Tell, RInv, TypeOK, Request, tableVars
  <1>2. \A b \in Backup : npc[w][b] = "start" /\ bpc[w][b] = "none"
    BY <1>1 DEF RInv, Unstarted
  <1>3. Direct'
    BY <1>1 DEF Direct
  <1>4. OwnHashes'
    BY <1>1 DEF OwnHashes, OwnHash
  <1>5. \A v \in Write \ {w} : ~UnderWay(v) /\ ~UnderWay(v)' /\ (pc[v] = "idle" \/ Over(v)')
    BY <1>1 DEF Quiescent, Over, UnderWay, RInv, Unstarted
  <1>6. UnderWay(w)' => last'[req'[w].key] = {w}
    BY <1>1, <1>2 DEF UnderWay, RInv, TypeOK
  <1>7. Latest'
    <2>1. \A v \in Write : UnderWay(v)' => v = w
      BY <1>5
    <2>2. \A v \in Write : pc'[v] \notin {"idle", "done"} => v = w
      BY <1>1 DEF Quiescent, Over
    <2>3. \A v \in Write : pc'[v] # "idle" /\ ~Over(v)' => v = w
      BY <1>1, <1>5
    <2>4. QED
      BY <1>6, <2>1, <2>2, <2>3 DEF Latest
  <1>8. Written'
    <2>1. \A k \in Key : w \notin last[k]
      BY <1>1 DEF Written
    <2>2. ASSUME NEW k \in Key, last'[k] = last[k]
          PROVE  /\ last'[k] = {} => \A s \in Server : tab'[s][k] = Absent
                 /\ \A v \in last'[k] :
                      /\ last'[k] = {v} /\ pc'[v] # "idle" /\ req'[v].key = k
                      /\ pc'[v] \in {"notify", "done"} => tab'[Primary][k] = req'[v].val
                      /\ \A b \in Backup : bpc'[v][b] = "done" => tab'[b][k] = req'[v].val
      <3>1. \A v \in last[k] : v \in Write \ {w}
        BY <2>1 DEF RInv, TypeOK
      <3>2. QED
        BY <1>1, <2>2, <3>1 DEF Written
    <2>3. CASE pc'[w] = "done"
      BY <1>1, <2>2, <2>3 DEF Written
    <2>4. CASE pc'[w] = "local"
      <3>1. last'[r.key] = {w} /\ \A k \in Key \ {r.key} : last'[k] = last[k]
        BY <1>1, <2>4 DEF RInv, TypeOK
      <3>2. QED
        BY <1>1, <1>2, <2>2, <2>4, <3>1 DEF Written
    <2>5. QED
      BY <1>1, <2>3, <2>4
  <1>9. QED
    BY <1>3, <1>4, <1>7, <1>8

\* A thread of the primary asks a backup or counts its answer.
LEMMA HThread ==
    ASSUME RInv, HInv, NEW w \in Write, NEW b \in Backup, ThreadStep(w, b)
    PROVE  HInv'
  <1> USE DEF HInv
  <1>1. /\ UNCHANGED <<tab, hashes, req, pc, reply, last>>
        /\ pc[w] = "notify" /\ npc'[w][b] # "start"
        /\ \/ bpc'[w][b] = bpc[w][b]
           \/ bpc[w][b] # "done" /\ bpc'[w][b] \in {"asked", "coming"}
        /\ \A v \in Write, c \in Backup :
             v # w \/ c # b => npc'[v][c] = npc[v][c] /\ bpc'[v][c] = bpc[v][c]
    <2>1. CASE SendCommand(w, b)
      <3>1. npc[w][b] = "start" /\ bpc[w][b] = "none"
        BY <2>1 DEF SendCommand, Thread, OwnHashes
      <3>2. QED
        BY <2>1, <3>1 DEF SendCommand, Thread, Session, RInv, TypeOK, tableVars
    <2>2. CASE SendBlob(w, b)
      BY <2>2 DEF SendBlob, Thread, Session, RInv, TypeOK, tableVars
    <2>3. CASE CrossOffRead(w, b) \/ CrossOffWrite(w, b) \/ GiveUp(w, b)
      BY <2>3 DEF CrossOffRead, CrossOffWrite, GiveUp, Thread, RInv, TypeOK, tableVars
    <2>4. QED
      BY <2>1, <2>2, <2>3 DEF ThreadStep
  <1>2. Direct'
    BY <1>1 DEF Direct
  <1>3. OwnHashes'
    <2>1. \A v \in Write, c \in Backup :
            /\ bpc[v][c] = "done" => bpc'[v][c] = "done"
            /\ npc'[v][c] = "start" => npc[v][c] = "start" /\ bpc'[v][c] = bpc[v][c]
      BY <1>1
    <2>2. \A v \in Write : OwnHash(v)' = OwnHash(v)
      BY DEF OwnHash
    <2>3. QED
      BY <1>1, <2>1, <2>2 DEF OwnHashes
  <1>4. Latest'
    <2>1. \A v \in Write : UnderWay(v)' => UnderWay(v)
      BY <1>1 DEF UnderWay
    <2>2. \A v \in Write : Over(v) => v # w
      BY <1>1 DEF Over
    <2>3. \A v \in Write : Over(v) => Over(v)'
      BY <1>1, <2>2 DEF Over
    <2>4. QED
      BY <1>1, <2>1, <2>3 DEF Latest
  <1>5. Written'
    <2>1. \A v \in Write, c \in Backup : bpc'[v][c] = "done" => bpc[v][c] = "done"
      BY <1>1
    <2>2. \A k \in Key : last[k] \subseteq Write
      BY DEF RInv, TypeOK
    <2>3. QED
      BY <1>1, <2>1, <2>2 DEF Written
  <1>6. QED
    BY <1>2, <1>3, <1>4, <1>5

\* A write that a server does not know yet leaves its value in the key, and
\* touches no other key and no other hash.
LEMMA ApplyNew ==
    ASSUME TypeOK, NEW w \in Write, NEW s \in Server, NEW h,
           req[w] \in Request, h \notin hashes[s], ApplyAt(s, w, h)
    PROVE  /\ tab'[s][req[w].key] = req[w].val
           /\ \A t \in Server, k \in Key :
                t # s \/ k # req[w].key => tab'[t][k] = tab[t][k]
           /\ \A t \in Server : hashes'[t] \subseteq hashes[t] \cup (IF t = s THEN {h} ELSE {})
  <1> req[w].key \in Key
    BY DEF Request
  <1>1. CASE ~IsPut(w) /\ tab[s][req[w].key] = Absent
    BY <1>1 DEF ApplyAt, tableVars, IsPut
  <1>2. CASE ~(~IsPut(w) /\ tab[s][req[w].key] = Absent)
    BY <1>2 DEF ApplyAt, TypeOK
  <1>3. QED
    BY <1>1, <1>2

LEMMA HLocal ==
    ASSUME ReplicationAssumption, RInv, HInv, NEW w \in Write, Local(w)
    PROVE  HInv'
  <1> USE DEF HInv
  <1> DEFINE key == req[w].key
  <1>1. /\ UNCHANGED <<req, reply, npc, bpc, last>>
        /\ pc[w] = "local" /\ pc'[w] = "notify"
        /\ \A v \in Write \ {w} : pc'[v] = pc[v]
    BY DEF Local, Goto, RInv, TypeOK
  <1>2. /\ req[w] \in Request /\ key \in Key /\ last[key] = {w}
        /\ Primary \in Server /\ Backup \subseteq Server /\ Primary \notin Backup
        /\ OwnHash(w) \notin hashes[Primary]
    BY <1>1 DEF RInv, Requested, Request, Latest, UnderWay, OwnHashes, Server,
                ReplicationAssumption
  <1>3. /\ tab'[Primary][key] = req[w].val
        /\ \A t \in Server, k \in Key : t # Primary \/ k # key => tab'[t][k] = tab[t][k]
        /\ \A t \in Server : hashes'[t] \subseteq hashes[t] \cup (IF t = Primary THEN {OwnHash(w)} ELSE {})
    BY <1>2, ApplyNew DEF Local, RInv
  <1>4. Direct'
    BY <1>1 DEF Direct
  <1>5. OwnHashes'
    <2>1. \A v \in Write : OwnHash(v)' = OwnHash(v)
      BY DEF OwnHash
    <2>2. \A v \in Write : OwnHash(v) = OwnHash(w) => v = w
      BY DEF OwnHash
    <2>3. \A b \in Backup : hashes'[b] \subseteq hashes[b]
      BY <1>2, <1>3
    <2>4. QED
      BY <1>1, <1>2, <1>3, <2>1, <2>2, <2>3 DEF OwnHashes
  <1>6. Latest'
    <2>1. \A v \in Write : UnderWay(v)' => UnderWay(v)
      BY <1>1 DEF UnderWay
    <2>2. \A v \in Write : Over(v) => Over(v)'
      BY <1>1 DEF Over
    <2>3. QED
      BY <1>1, <2>1, <2>2 DEF Latest
  <1>7. Written'
    <2>1. ASSUME NEW k \in Key, k # key
          PROVE  w \notin last[k] /\ \A s \in Server : tab'[s][k] = tab[s][k]
      BY <1>2, <1>3, <2>1 DEF Written
    <2>2. \A k \in Key : last[k] \subseteq Write
      BY DEF RInv, TypeOK
    <2>3. \A b \in Backup : bpc[w][b] = "none"
      BY <1>1 DEF RInv, Unstarted
    <2>4. QED
      BY <1>1, <1>2, <1>3, <2>1, <2>2, <2>3 DEF Written
  <1>8. QED
    BY <1>4, <1>5, <1>6, <1>7

LEMMA HApplyAtBackup ==
    ASSUME ReplicationAssumption, RInv, HInv, NEW w \in Write, NEW b \in Backup,
           ApplyAtBackup(w, b)
    PROVE  HInv'
  <1> USE DEF HInv
  <1> DEFINE key == req[w].key
  <1>1. /\ UNCHANGED <<req, pc, reply, npc, last>>
        /\ bpc[w][b] = "coming" /\ bpc'[w][b] = "done"
        /\ \A v \in Write, c \in Backup : v # w \/ c # b => bpc'[v][c] = bpc[v][c]
    BY DEF ApplyAtBackup, Session, RInv, TypeOK
  <1>2. /\ pc[w] \in {"notify", "done"} /\ req[w] \in Request /\ key \in Key /\ last[key] = {w}
        /\ b \in Server /\ Primary \in Server /\ Backup \subseteq Server /\ Primary \notin Backup
        /\ npc[w][b] # "start" /\ OwnHash(w) \notin hashes[b]
    <2>1. pc[w] \in {"notify", "done"}
      BY <1>1 DEF RInv, Unstarted, TypeOK
    <2>2. QED
      BY <1>1, <2>1 DEF RInv, Requested, Request, Latest, UnderWay, OwnHashes, Server,
                        ReplicationAssumption
  <1>3. SentHash(w) = OwnHash(w)
    BY <1>2 DEF SentHash, Direct
  <1>4. /\ tab'[b][key] = req[w].val
        /\ \A t \in Server, k \in Key : t # b \/ k # key => tab'[t][k] = tab[t][k]
        /\ \A t \in Server : hashes'[t] \subseteq hashes[t] \cup (IF t = b THEN {OwnHash(w)} ELSE {})
    BY <1>2, <1>3, ApplyNew DEF ApplyAtBackup, RInv
  <1>5. Direct'
    BY <1>1 DEF Direct
  <1>6. OwnHashes'
    <2>1. \A v \in Write : OwnHash(v)' = OwnHash(v)
      BY DEF OwnHash
    <2>2. \A v \in Write : OwnHash(v) = OwnHash(w) => v = w
      BY DEF OwnHash
    <2>3. hashes'[Primary] \subseteq hashes[Primary]
      BY <1>2, <1>4
    <2>4. \A c \in Backup : c # b => hashes'[c] \subseteq hashes[c]
      BY <1>2, <1>4
    <2>5. QED
      BY <1>1, <1>2, <1>4, <2>1, <2>2, <2>3, <2>4 DEF OwnHashes
  <1>7. Latest'
    <2>1. \A v \in Write : UnderWay(v)' => UnderWay(v)
      BY <1>1 DEF UnderWay
    <2>2. \A v \in Write : Over(v) => Over(v)'
      BY <1>1 DEF Over
    <2>3. QED
      BY <1>1, <2>1, <2>2 DEF Latest
  <1>8. Written'
    <2>1. ASSUME NEW k \in Key, k # key
          PROVE  w \notin last[k] /\ \A s \in Server : tab'[s][k] = tab[s][k]
      BY <1>2, <1>4, <2>1 DEF Written
    <2>2. \A k \in Key : last[k] \subseteq Write
      BY DEF RInv, TypeOK
    <2>3. tab'[Primary] [key] = tab[Primary][key]
      BY <1>2, <1>4
    <2>4. \A c \in Backup : c # b => tab'[c][key] = tab[c][key]
      BY <1>2, <1>4
    <2>5. ASSUME NEW k \in Key
          PROVE  /\ last[k] = {} => \A s \in Server : tab'[s][k] = Absent
                 /\ \A v \in last[k] :
                      /\ last[k] = {v} /\ pc[v] # "idle" /\ req[v].key = k
                      /\ pc[v] \in {"notify", "done"} => tab'[Primary][k] = req[v].val
                      /\ \A c \in Backup : bpc'[v][c] = "done" => tab'[c][k] = req[v].val
      <3>1. CASE k = key
        BY <1>1, <1>2, <1>4, <2>3, <2>4, <3>1 DEF Written
      <3>2. CASE k # key
        BY <1>1, <1>2, <2>1, <2>2, <3>2 DEF Written
      <3>3. QED
        BY <3>1, <3>2
    <2>6. QED
      BY <1>1, <2>5 DEF Written
  <1>9. QED
    BY <1>5, <1>6, <1>7, <1>8

LEMMA HJoin ==
    ASSUME RInv, HInv, NEW w \in Write, Join(w)
    PROVE  HInv'
  <1> USE DEF HInv
  <1>1. /\ UNCHANGED <<tab, hashes, req, npc, bpc, last>>
        /\ pc[w] = "notify" /\ pc'[w] = "done"
        /\ \A v \in Write \ {w} : pc'[v] = pc[v] /\ reply'[v] = reply[v]
    BY DEF Join, Goto, Tell, RInv, TypeOK, tableVars
  <1>2. Direct' /\ OwnHashes'
    BY <1>1 DEF Direct, OwnHashes, OwnHash
  <1>3. Latest'
    <2>1. \A v \in Write : UnderWay(v)' => UnderWay(v)
      BY <1>1 DEF UnderWay
    <2>2. \A v \in Write : Over(v) => Over(v)'
      BY <1>1 DEF Over
    <2>3. QED
      BY <1>1, <2>1, <2>2 DEF Latest
  <1>4. Written'
    <2>1. \A k \in Key : last[k] \subseteq Write
      BY DEF RInv, TypeOK
    <2>2. \A v \in Write : pc'[v] # "idle" <=> pc[v] # "idle"
      BY <1>1
    <2>3. \A v \in Write : pc'[v] \in {"notify", "done"} => pc[v] \in {"notify", "done"}
      BY <1>1
    <2>4. QED
      BY <1>1, <2>1, <2>2, <2>3 DEF Written
  <1>5. QED
    BY <1>2, <1>3, <1>4

LEMMA HStep ==
    ASSUME Sequential, RInv, HInv, [Next]_vars
    PROVE  HInv'
  <1>1. CASE UNCHANGED vars
    BY <1>1 DEF HInv, Direct, OwnHashes, OwnHash, Latest, UnderWay, Over, Written, vars, tableVars
  <1>2. CASE Next
    <2>1. PICK w \in Write :
            \/ \E r \in Request : Submit(w, r)
            \/ Forward(w) \/ ForwardTimeout(w) \/ Local(w) \/ Join(w)
            \/ \E b \in Backup : ThreadStep(w, b) \/ ApplyAtBackup(w, b)
      BY <1>2 DEF Next
    <2>2. ~Forward(w) /\ ~ForwardTimeout(w)
      BY DEF HInv, Direct, Forward, ForwardTimeout
    <2>3. QED
      BY <2>1, <2>2, HSubmit, HLocal, HJoin, HThread, HApplyAtBackup, ReplicationAssumption
  <1>3. QED
    BY <1>1, <1>2

\* A backup that was told of a write and did not confirm it may have another
\* value of the key than the primary (notifyReplicas answers -ERR and leaves it
\* so), but with the next acknowledged write of that key all agree again, if
\* writes come one after the other and through the primary.
THEOREM AcknowledgedHeals == ASSUME Sequential PROVE Spec => []AckHeals
  <1>1. Init => HInv
    BY HInit
  <1>2. RInv /\ HInv /\ [Next]_vars => HInv'
    BY HStep
  <1>3. RInv /\ HInv => AckHeals
    <2>1. SUFFICES ASSUME RInv, HInv, Quiescent, NEW k \in Key,
                          \A w \in last[k] : reply[w] = "OK", NEW b \in Backup
                   PROVE  tab[b][k] = tab[Primary][k]
      BY DEF AckHeals
    <2>2. b \in Server /\ Primary \in Server
      BY DEF Server
    <2>3. CASE last[k] = {}
      BY <2>1, <2>2, <2>3 DEF HInv, Written
    <2>4. CASE last[k] # {}
      <3>1. PICK w \in last[k] : TRUE
        BY <2>4
      <3>2. w \in Write /\ reply[w] = "OK" /\ pc[w] # "idle"
        BY <2>1, <3>1 DEF HInv, Written, RInv, TypeOK
      <3>3. pc[w] = "done"
        BY <2>1, <3>2 DEF Quiescent, Over
      <3>4. bpc[w][b] = "done"
        BY <2>1, <3>2 DEF RInv, AllCrossed, Confirmed
      <3>5. QED
        BY <2>1, <3>1, <3>3, <3>4 DEF HInv, Written
    <2>5. QED
      BY <2>3, <2>4
  <1>4. QED
    BY <1>1, <1>2, <1>3, Invariance, PTL DEF Spec

-----------------------------------------------------------------------------
(* The steps of the threads are steps of WriteAll.                         *)

\* Who was not asked has no request and no answer; a client of the primary is
\* answered when its handler returns, and +OK is the end of every handler.
Unanswered ==
    \A w \in Write :
        /\ pc[w] = "idle" => req[w] = NoRequest /\ reply[w] = "none"
        /\ pc[w] \in {"forward", "local", "notify"} /\ req[w].at = Primary => reply[w] = "none"
        /\ reply[w] = "OK" => pc[w] = "done"

\* The primary knows the hash of a write only once it has carried it out, and so
\* never takes one for a duplicate.
Fresh == \A w \in Write : OwnHash(w) \in hashes[Primary] => pc[w] \in {"notify", "done"}

\* A backup hears of a write from the thread of the primary.
Asked == \A w \in Write, b \in Backup : npc[w][b] = "start" => bpc[w][b] = "none"

\* Without backups there is nobody to cross off.
Nobody == Backup = {} => \A w \in Write : left[w] = 0

CInv == Unanswered /\ Fresh /\ Asked /\ Nobody

LEMMA CInit == Init => CInv
  <1> SUFFICES ASSUME Init PROVE CInv
    OBVIOUS
  <1>1. Unanswered /\ Asked
    BY DEF Init, Unanswered, Asked
  <1>2. Fresh
    BY DEF Init, Fresh, Server
  <1>3. Nobody
    BY FS_EmptySet DEF Init, Nobody
  <1>4. QED
    BY <1>1, <1>2, <1>3 DEF CInv

\* Carrying a write out at s changes one cell of s, if any, and what s alone knows.
LEMMA ApplyOne ==
    ASSUME TypeOK, NEW w \in Write, NEW s \in Server, NEW h, ApplyAt(s, w, h)
    PROVE  /\ UNCHANGED tab \/ tab' = [tab EXCEPT ![s][req[w].key] = req[w].val]
           /\ \A t \in Server \ {s} : hashes'[t] = hashes[t]
           /\ hashes'[s] \subseteq hashes[s] \cup {h}
  BY DEF ApplyAt, tableVars, TypeOK

\* A write that s does not know of is carried out there.
LEMMA ApplyFresh ==
    ASSUME TypeOK, NEW w \in Write, NEW s \in Server, NEW h, ApplyAt(s, w, h),
           h \notin hashes[s], req[w] \in Request
    PROVE  tab' = [tab EXCEPT ![s][req[w].key] = req[w].val]
  <1>1. CASE ~IsPut(w) /\ tab[s][req[w].key] = Absent
    <2>1. UNCHANGED tab /\ req[w].val = Absent
      BY <1>1 DEF ApplyAt, tableVars, IsPut
    <2>2. tab \in [Server -> [Key -> Val \cup {Absent}]] /\ req[w].key \in Key
      BY DEF TypeOK, Request
    <2>3. [tab EXCEPT ![s][req[w].key] = req[w].val] = tab
      BY <1>1, <2>1, <2>2
    <2>4. QED
      BY <2>1, <2>3
  <1>2. QED
    BY <1>1 DEF ApplyAt

LEMMA OwnHashIsOwn ==
    ASSUME NEW v, NEW w, OwnHash(v) = OwnHash(w)
    PROVE  v = w
  BY DEF OwnHash

LEMMA CSubmit ==
    ASSUME RInv, CInv, NEW w \in Write, NEW r \in Request, Submit(w, r)
    PROVE  CInv' /\ Contract!Ask(w, r)
  <1> USE DEF RInv, CInv
  <1>1. /\ pc[w] = "idle" /\ pc'[w] \in {"done", "local", "forward"}
        /\ req'[w] = r
        /\ req[w] = NoRequest /\ reply[w] = "none"
        /\ \A v \in Write \ {w} : pc'[v] = pc[v] /\ req'[v] = req[v] /\ reply'[v] = reply[v]
        /\ UNCHANGED <<tab, hashes, npc, bpc, left, saved>>
    BY DEF Submit, Goto, Tell, TypeOK, Unanswered, tableVars
  <1>2. \/ UNCHANGED reply
        \/ reply'[w] = "ERR" /\ pc'[w] = "done" /\ Contract!Answer(w, "ERR") /\ r.val = Absent
    BY <1>1 DEF Submit, Goto, Tell, TypeOK, Contract!Answer
  <1>3. Unanswered'
    BY <1>1, <1>2 DEF Unanswered
  <1>4. Fresh'
    BY <1>1 DEF Fresh, OwnHash
  <1>5. Asked' /\ Nobody'
    BY <1>1 DEF Asked, Nobody
  <1>6. \A v \in Write : Taken(v)' = Taken(v)
    BY <1>1, <1>2 DEF Taken
  <1>7. Contract!Ask(w, r)
    BY <1>1, <1>2, <1>6 DEF Contract!Ask, Submit, NoRequest, Contract!NoRequest
  <1>8. QED
    BY <1>3, <1>4, <1>5, <1>7

LEMMA CForward ==
    ASSUME RInv, CInv, NEW w \in Write, Forward(w) \/ ForwardTimeout(w)
    PROVE  CInv' /\ (Contract!Deny(w) \/ UNCHANGED Contract!vars)
  <1> USE DEF RInv, CInv
  <1>1. /\ UNCHANGED <<tab, hashes, req, npc, bpc, left, saved>>
        /\ pc[w] # "idle" /\ pc'[w] # "idle"
        /\ pc'[w] = pc[w] \/ (pc[w] = "forward" /\ pc'[w] \in {"local", "done"})
        /\ \A v \in Write \ {w} : pc'[v] = pc[v] /\ reply'[v] = reply[v]
    BY DEF Forward, ForwardTimeout, Goto, Tell, TypeOK, tableVars
  <1>2. \/ UNCHANGED reply
        \/ req[w].at # Primary /\ reply'[w] = "ERR" /\ Contract!Answer(w, "ERR")
    BY DEF Forward, ForwardTimeout, Tell, TypeOK, Contract!Answer
  <1>3. Unanswered'
    BY <1>1, <1>2 DEF Unanswered
  <1>4. Fresh'
    BY <1>1 DEF Fresh, OwnHash
  <1>5. Asked' /\ Nobody'
    BY <1>1 DEF Asked, Nobody
  <1>6. \A v \in Write : Taken(v)' = Taken(v)
    <2>1. reply'[w] = "OK" <=> reply[w] = "OK"
      BY <1>2 DEF Contract!Answer
    <2>2. pc'[w] = "notify" <=> pc[w] = "notify"
      BY <1>1
    <2>3. QED
      BY <1>1, <2>1, <2>2 DEF Taken
  <1>7. req[w] \in Contract!Request
    BY <1>1 DEF Requested, Request, Server, Contract!Request, Contract!Server
  <1>8. Contract!Deny(w) \/ UNCHANGED Contract!vars
    BY <1>1, <1>2, <1>6, <1>7 DEF Contract!Deny, Contract!vars
  <1>9. QED
    BY <1>3, <1>4, <1>5, <1>8

LEMMA CLocal ==
    ASSUME ReplicationAssumption, RInv, CInv, NEW w \in Write, Local(w)
    PROVE  CInv' /\ Contract!Take(w, Primary)
  <1> USE DEF RInv, CInv
  <1>1. /\ UNCHANGED <<req, reply, npc, bpc, left, saved>>
        /\ pc[w] = "local" /\ pc'[w] = "notify"
        /\ \A v \in Write \ {w} : pc'[v] = pc[v]
    BY DEF Local, Goto, TypeOK
  <1>2. req[w] \in Request /\ \A b \in Backup : npc[w][b] = "start" /\ bpc[w][b] = "none"
    BY <1>1 DEF Requested, Unstarted
  <1>3. Primary \in Server /\ ApplyAt(Primary, w, OwnHash(w)) /\ OwnHash(w) \notin hashes[Primary]
    BY <1>1 DEF Server, Local, Fresh
  <1>4. tab' = [tab EXCEPT ![Primary][req[w].key] = req[w].val]
    BY <1>2, <1>3, ApplyFresh
  <1>5. Unanswered'
    BY <1>1 DEF Unanswered
  <1>6. Fresh'
    <2>1. hashes'[Primary] \subseteq hashes[Primary] \cup {OwnHash(w)}
      BY <1>3, ApplyOne
    <2>2. ASSUME NEW v \in Write, OwnHash(v)' \in hashes'[Primary]
          PROVE  pc'[v] \in {"notify", "done"}
      <3>1. OwnHash(v)' = OwnHash(v)
        BY DEF OwnHash
      <3>2. OwnHash(v) \in hashes[Primary] \/ v = w
        BY <2>1, <2>2, <3>1, OwnHashIsOwn
      <3>3. QED
        BY <1>1, <3>2 DEF Fresh
    <2>3. QED
      BY <2>2 DEF Fresh
  <1>7. Asked' /\ Nobody'
    BY <1>1 DEF Asked, Nobody
  <1>8. /\ Taken(w)' = Taken(w) \cup {Primary}
        /\ \A v \in Write \ {w} : Taken(v)' = Taken(v)
    BY <1>1 DEF Taken
  <1>9. Primary \notin Taken(w)
    BY <1>1, <1>2 DEF Taken, Unanswered, ReplicationAssumption
  <1>10. [v \in Write |-> Taken(v)]' = [[v \in Write |-> Taken(v)] EXCEPT ![w] = @ \cup {Primary}]
    BY <1>8
  <1>11. req[w] \in Contract!Request
    BY <1>2 DEF Request, Server, Contract!Request, Contract!Server
  <1>12. Contract!Take(w, Primary)
    BY <1>1, <1>4, <1>9, <1>10, <1>11 DEF Contract!Take
  <1>13. QED
    BY <1>5, <1>6, <1>7, <1>12

\* A thread of the primary talks to a backup and crosses it off.
LEMMA CThread ==
    ASSUME RInv, CInv, NEW w \in Write, NEW b \in Backup, ThreadStep(w, b)
    PROVE  CInv' /\ UNCHANGED Contract!vars
  <1> USE DEF RInv, CInv
  <1>1. /\ UNCHANGED <<tab, hashes, req, pc, reply>>
        /\ pc[w] = "notify"
        /\ npc'[w][b] # "start"
        /\ bpc'[w][b] = "done" <=> bpc[w][b] = "done"
        /\ \A v \in Write, c \in Backup :
             v # w \/ c # b => npc'[v][c] = npc[v][c] /\ bpc'[v][c] = bpc[v][c]
    BY DEF ThreadStep, SendCommand, SendBlob, CrossOffRead, CrossOffWrite, GiveUp, Thread, Session,
           TypeOK, tableVars, Asked
  <1>2. Unanswered'
    BY <1>1 DEF Unanswered
  <1>3. Fresh' /\ Asked'
    BY <1>1 DEF Fresh, OwnHash, Asked
  <1>4. Nobody'
    BY DEF Nobody
  <1>5. \A v \in Write : Taken(v)' = Taken(v)
    BY <1>1 DEF Taken
  <1>6. UNCHANGED Contract!vars
    BY <1>1, <1>5 DEF Contract!vars
  <1>7. QED
    BY <1>2, <1>3, <1>4, <1>6

LEMMA CJoin ==
    ASSUME ReplicationAssumption, RInv, CInv, NEW w \in Write, Join(w)
    PROVE  CInv' /\ (Contract!Acknowledge(w) \/ Contract!Deny(w) \/ UNCHANGED Contract!vars)
  <1> USE DEF RInv, CInv
  <1>1. /\ UNCHANGED <<tab, hashes, req, npc, bpc, left, saved>>
        /\ pc[w] = "notify" /\ pc'[w] = "done"
        /\ \A v \in Write \ {w} : pc'[v] = pc[v] /\ reply'[v] = reply[v]
        /\ \A b \in Backup : npc[w][b] # "start"
    BY DEF Join, Goto, Tell, TypeOK, tableVars
  <1>2. req[w] \in Request
    BY <1>1 DEF Requested
  <1>3. \/ left[w] = 0 /\ reply'[w] = "OK" /\ Contract!Answer(w, "OK")
        \/ reply'[w] = "ERR" /\ Contract!Answer(w, "ERR")
        \/ UNCHANGED reply /\ (left[w] = 0 => reply[w] # "none")
    <2>1. CASE left[w] = 0 /\ reply[w] = "none" /\ Tell(w, "OK")
      BY <2>1 DEF Tell, TypeOK, Contract!Answer
    <2>2. CASE left[w] # 0 /\ req[w].at = Primary /\ Tell(w, "ERR")
      BY <1>1, <2>2 DEF Tell, TypeOK, Contract!Answer, Unanswered
    <2>3. CASE (IF left[w] = 0 THEN reply[w] # "none" ELSE req[w].at # Primary) /\ UNCHANGED reply
      BY <2>3
    <2>4. QED
      BY <2>1, <2>2, <2>3 DEF Join
  <1>4. Unanswered'
    BY <1>1, <1>3 DEF Unanswered
  <1>5. Fresh' /\ Asked' /\ Nobody'
    BY <1>1 DEF Fresh, OwnHash, Asked, Nobody
  <1>6. Primary \in Taken(w) /\ Primary \in Taken(w)'
    <2>1. Primary \in Taken(w)
      BY <1>1 DEF Taken
    <2>2. CASE Backup = {}
      <3>1. left[w] = 0 /\ req[w].at = Primary
        BY <1>2, <2>2 DEF Nobody, Request, Server
      <3>2. reply[w] = "none"
        BY <1>1, <3>1 DEF Unanswered
      <3>3. reply'[w] = "OK"
        BY <3>1, <3>2, <1>1 DEF Join, Tell, TypeOK
      <3>4. QED
        BY <2>1, <3>3 DEF Taken
    <2>3. CASE Backup # {}
      BY <1>1, <2>1, <2>3 DEF Taken
    <2>4. QED
      BY <2>2, <2>3
  <1>7. \A v \in Write : Taken(v)' = Taken(v)
    <2>1. \A v \in Write \ {w} : Taken(v)' = Taken(v)
      BY <1>1 DEF Taken
    <2>2. Taken(w)' = Taken(w)
      BY <1>1, <1>6 DEF Taken
    <2>3. QED
      BY <2>1, <2>2
  <1>8. left[w] = 0 => Taken(w) = Contract!Server
    <2>1. left[w] = 0 => \A b \in Backup : npc[w][b] = "crossed"
      <3>1. IsFiniteSet(Uncrossed(w)) /\ Cardinality(Uncrossed(w)) \in Nat
        BY UncrossedFinite
      <3>2. left[w] = 0 => Cardinality(Uncrossed(w)) = 0
        BY <3>1 DEF Counted
      <3>3. QED
        BY <3>1, <3>2, FS_EmptySet DEF Uncrossed
    <2>2. left[w] = 0 => Backup \subseteq Taken(w)
      BY <2>1 DEF Confirmed, Taken
    <2>3. Taken(w) \subseteq Backup \cup {Primary}
      BY DEF Taken
    <2>4. QED
      BY <2>2, <2>3, <1>6 DEF Contract!Server
  <1>9. req[w] \in Contract!Request
    BY <1>2 DEF Request, Server, Contract!Request, Contract!Server
  <1>10. Contract!Acknowledge(w) \/ Contract!Deny(w) \/ UNCHANGED Contract!vars
    BY <1>1, <1>3, <1>7, <1>8, <1>9 DEF Contract!Acknowledge, Contract!Deny, Contract!vars
  <1>11. QED
    BY <1>4, <1>5, <1>10

LEMMA CApplyAtBackup ==
    ASSUME ReplicationAssumption, RInv, CInv, NEW w \in Write, NEW b \in Backup, ApplyAtBackup(w, b)
    PROVE  CInv' /\ Contract!Take(w, b)
  <1> USE DEF RInv, CInv
  <1>1. /\ UNCHANGED <<req, pc, reply, npc, left, saved>>
        /\ bpc[w][b] = "coming" /\ bpc'[w][b] = "done"
        /\ \A v \in Write, c \in Backup : v # w \/ c # b => bpc'[v][c] = bpc[v][c]
    BY DEF ApplyAtBackup, Session, TypeOK
  <1>2. req[w] \in Request /\ npc[w][b] # "start"
    BY <1>1 DEF Requested, Unstarted, TypeOK, Asked
  <1>3. /\ Primary \in Server /\ b \in Server /\ b # Primary
        /\ ApplyAt(b, w, SentHash(w))
    BY DEF Server, ApplyAtBackup, ReplicationAssumption
  <1>4. /\ UNCHANGED tab \/ tab' = [tab EXCEPT ![b][req[w].key] = req[w].val]
        /\ hashes'[Primary] = hashes[Primary]
    BY <1>3, ApplyOne
  <1>5. Unanswered' /\ Asked' /\ Nobody'
    BY <1>1, <1>2 DEF Unanswered, Asked, Nobody
  <1>6. Fresh'
    BY <1>1, <1>4 DEF Fresh, OwnHash
  <1>7. /\ Taken(w)' = Taken(w) \cup {b}
        /\ \A v \in Write \ {w} : Taken(v)' = Taken(v)
    BY <1>1 DEF Taken
  <1>8. b \notin Taken(w) /\ Primary \in Taken(w)
    BY <1>1, <1>2, <1>3 DEF Taken
  <1>9. [v \in Write |-> Taken(v)]' = [[v \in Write |-> Taken(v)] EXCEPT ![w] = @ \cup {b}]
    BY <1>7
  <1>10. req[w] \in Contract!Request
    BY <1>2 DEF Request, Server, Contract!Request, Contract!Server
  <1>11. Contract!Take(w, b)
    BY <1>1, <1>3, <1>4, <1>8, <1>9, <1>10 DEF Contract!Take
  <1>12. QED
    BY <1>5, <1>6, <1>11

LEMMA CStep ==
    ASSUME ReplicationAssumption, RInv, CInv, [Next]_vars
    PROVE  CInv' /\ [Contract!Next]_(Contract!vars)
  <1>1. CASE UNCHANGED vars
    <2>1. CInv'
      BY <1>1 DEF CInv, Unanswered, Fresh, OwnHash, Asked, Nobody, vars, tableVars
    <2>2. \A v \in Write : Taken(v)' = Taken(v)
      BY <1>1 DEF Taken, vars
    <2>3. QED
      BY <1>1, <2>1, <2>2 DEF vars, tableVars, Contract!vars
  <1>2. CASE Next
    <2>1. PICK w \in Write :
            \/ \E r \in Request : Submit(w, r)
            \/ Forward(w) \/ ForwardTimeout(w) \/ Local(w) \/ Join(w)
            \/ \E b \in Backup : ThreadStep(w, b) \/ ApplyAtBackup(w, b)
      BY <1>2 DEF Next
    <2>2. ASSUME NEW r \in Request, Submit(w, r)
          PROVE  CInv' /\ [Contract!Next]_(Contract!vars)
      <3>1. r \in Contract!Request
        BY DEF Request, Server, Contract!Request, Contract!Server
      <3>2. QED
        BY <2>2, <3>1, CSubmit DEF Contract!Next
    <2>3. CASE Forward(w) \/ ForwardTimeout(w)
      BY <2>3, CForward DEF Contract!Next
    <2>4. CASE Local(w)
      BY <2>4, CLocal DEF Contract!Next, Contract!Server
    <2>5. CASE Join(w)
      BY <2>5, CJoin DEF Contract!Next
    <2>6. ASSUME NEW b \in Backup, ThreadStep(w, b)
          PROVE  CInv' /\ [Contract!Next]_(Contract!vars)
      BY <2>6, CThread
    <2>7. ASSUME NEW b \in Backup, ApplyAtBackup(w, b)
          PROVE  CInv' /\ [Contract!Next]_(Contract!vars)
      BY <2>7, CApplyAtBackup DEF Contract!Next, Contract!Server
    <2>8. QED
      BY <2>1, <2>2, <2>3, <2>4, <2>5, <2>6, <2>7
  <1>3. QED
    BY <1>1, <1>2

\* Threads that race on copySet, late answers and timeouts implement WriteAll: the
\* primary carries a write out once and first, +OK is told when all have taken
\* it, and no answer is followed by another.
THEOREM ContractKept == Spec => KeepsContract
  <1>1. Init => Contract!Init
    <2> SUFFICES ASSUME Init PROVE Contract!Init
      OBVIOUS
    <2>1. \A w \in Write : Taken(w) = {}
      BY DEF Init, Taken
    <2>2. QED
      BY <2>1 DEF Init, Contract!Init, Server, Contract!Server, NoRequest, Contract!NoRequest
  <1>2. RInv /\ CInv /\ [Next]_vars => CInv' /\ [Contract!Next]_(Contract!vars)
    BY CStep, ReplicationAssumption
  <1>3. QED
    BY <1>1, <1>2, CInit, Invariance, PTL DEF Spec, KeepsContract, Contract!Spec

=============================================================================
