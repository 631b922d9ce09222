--------------------------- MODULE TabletProofs ---------------------------
(***************************************************************************)
(* Proofs about Tablet: what its checkpoint files guarantee for every set  *)
(* of keys, blobs and writers, any number of checkpoints and crashes, and  *)
(* every value an uninitialized counter may start from; and that the log   *)
(* loses no write, however long it is.                                     *)
(***************************************************************************)
EXTENDS Tablet, WellFoundedInduction, TLAPS

Complete(v) == v \in DOMAIN files /\ files[v] # Torn

\* Nothing is ever written to the log file that replay() reads.
NothingToReplay == rangeLog = <<>>

\* snapshot() runs in a live process; the file it writes exists until it is
\* closed, and the counter moves past it just before.
Opened ==
    /\ snap # "free" => proc = "up"
    /\ snap \in {"opened", "truncated", "logged"} => snapCount \in DOMAIN files
    /\ snap = "removed" => snapCount - 1 \in DOMAIN files

\* The last checkpoint that was completed is still there.
LastComplete ==
    taken > 0 =>
        /\ proc = "up" => Complete(IF snap = "removed" THEN snapCount - 2 ELSE snapCount - 1)
        /\ proc \in {"down", "failed"} => \E v \in DOMAIN files : files[v] # Torn

\* The versions on the disk of a server that was never restarted.
Start == IF snap = "removed" THEN snapCount - taken - 1 ELSE snapCount - taken

Window ==
    first /\ proc = "up" /\ Start >= 0 =>
        \A v \in DOMAIN files :
            /\ v \in Int
            /\ Start <= v
            /\ snapCount - 3 <= v
            /\ snap \in {"free", "removed"} => v <= snapCount - 1
            /\ v <= snapCount

\* A process that is still restoring has taken no checkpoint.
Fresh == proc = "restoring" => taken = 0 /\ ~first

\* What the log holds at each point of snapshot(): between checkpoints it is the
\* writes since the last one, behind the line that names it.
Covered ==
    proc = "up" =>
        /\ snap # "free" => archive = tab
        /\ snap = "truncated" => log = <<>>
        /\ snap = "logged" => log = <<SnapshotLine(snapCount)>>
        /\ snap = "removed" => log = <<SnapshotLine(snapCount - 1)>>
        /\ snap = "free" /\ taken > 0 =>
              /\ Len(log) > 0 /\ log[1] = SnapshotLine(snapCount - 1)
              /\ \A i \in 2..Len(log) : log[i] \in Write
              /\ ReplayAll(files[snapCount - 1], log) = tab
        /\ snap = "free" /\ taken = 0 /\ first =>
              /\ \A i \in 1..Len(log) : log[i] \in Write
              /\ ReplayAll(NoCells, log) = tab

TInv == TypeOK /\ NothingToReplay /\ Opened /\ Fresh /\ LastComplete /\ Window

-----------------------------------------------------------------------------
\* Folding over no lines gives the table back.
LEMMA ReplayNothing == ASSUME NEW t PROVE ReplayAll(t, <<>>) = t
  <1> DEFINE F(iter) == iter = [s \in SUBSET {} |->
                IF s = {} THEN t
                ELSE LET x == Max(s) IN Replayed(iter[s \ {x}], <<>>[x])]
  <1>1. F([s \in SUBSET {} |-> t])
    OBVIOUS
  <1>2. F(CHOOSE iter : F(iter))
    BY <1>1
  <1>3. (CHOOSE iter : F(iter))[{}] = t
    BY <1>2
  <1>4. DOMAIN <<>> = {}
    OBVIOUS
  <1>5. QED
    BY <1>3, <1>4 DEF ReplayAll, FoldLeft, MapThenFoldSet

LEMMA RestoredType ==
    ASSUME TypeOK, NothingToReplay, NEW v \in DOMAIN files, files[v] # Torn
    PROVE  RestoredTable(v) = files[v] /\ RestoredTable(v) \in Table
  <1> DEFINE marks == {i \in DOMAIN rangeLog : rangeLog[i] = SnapshotLine(v)}
  <1>1. marks = {} /\ Len(rangeLog) = 0 /\ SubSeq(rangeLog, 0 + 1, 0) = <<>>
    BY DEF NothingToReplay
  <1>2. RestoredTable(v) = ReplayAll(files[v], SubSeq(rangeLog, Len(rangeLog) + 1, Len(rangeLog)))
    <2> HIDE DEF marks
    <2>1. RestoredTable(v) =
            LET start == IF marks = {} THEN Len(rangeLog)
                         ELSE CHOOSE i \in marks : \A j \in marks : i <= j
            IN  ReplayAll(files[v], SubSeq(rangeLog, start + 1, Len(rangeLog)))
      BY DEF RestoredTable, marks
    <2>2. QED
      BY <1>1, <2>1
  <1>3. RestoredTable(v) = files[v]
    BY <1>1, <1>2, ReplayNothing
  <1>4. QED
    BY <1>3 DEF TypeOK

LEMMA ReplayedType ==
    ASSUME NEW t \in Table, NEW line \in Write PROVE Replayed(t, line) \in Table
  BY DEF Table, Write, Replayed

LEMMA NoCellsType == NoCells \in Table
  BY DEF NoCells, Table

LEMMA TabletInit == Init => TInv
  <1> SUFFICES ASSUME Init PROVE TInv
    OBVIOUS
  <1>1. TypeOK
    BY TabletAssumption, NoCellsType DEF Init, TypeOK, Line, Write
  <1>2. NothingToReplay /\ Opened /\ Fresh /\ LastComplete /\ Window
    BY <1>1 DEF Init, TypeOK, NothingToReplay, Opened, Fresh, LastComplete, Window, Start
  <1>3. QED
    BY <1>1, <1>2 DEF TInv

\* Every step keeps the types.
LEMMA TabletTypeStep == TInv /\ [Next]_vars => TypeOK'
  <1> SUFFICES ASSUME TInv, [Next]_vars PROVE TypeOK'
    OBVIOUS
  <1> USE DEF TInv, TypeOK, procVars, diskVars, countVars
  <1>1. CASE UNCHANGED vars
    BY <1>1 DEF vars
  <1>2. ASSUME NEW w \in Writer, NEW h \in Hash, NEW line \in Write, Check(w, h, line)
        PROVE  TypeOK'
    BY <1>2 DEF Check
  <1>3. ASSUME NEW w \in Writer, Apply(w)
        PROVE  TypeOK'
    <2>1. pending[w].line \in Write /\ pending[w].hash \in Hash
      BY <1>3 DEF Apply
    <2>2. tab' \in Table /\ hashes' \in SUBSET Hash
      BY <1>3, <2>1, ReplayedType DEF Apply
    <2>3. log' \in Seq(Line)
      BY <1>3, <2>1 DEF Apply, Line
    <2>4. pending' \in [Writer -> [hash : Hash, line : Write] \cup {Idle}]
      BY <1>3 DEF Apply
    <2>5. QED
      BY <1>3, <2>2, <2>3, <2>4 DEF Apply
  <1>4. CASE Get
    BY <1>4 DEF Get, vars
  <1>5. CASE SnapOpen
    BY <1>5 DEF SnapOpen, SnapStep
  <1>6. CASE SnapTruncate
    BY <1>6 DEF SnapTruncate, SnapStep
  <1>7. CASE SnapLog
    <2>1. SnapshotLine(snapCount) \in Line
      BY DEF SnapshotLine, Line
    <2>2. QED
      BY <1>7, <2>1 DEF SnapLog, SnapStep
  <1>8. CASE SnapRemove
    BY <1>8 DEF SnapRemove, SnapStep
  <1>00. CASE SnapClose
    BY <1>00, NoCellsType DEF SnapClose, SnapStep
  <1>10. CASE Crash
    BY <1>10, NoCellsType DEF Crash
  <1>11. CASE Restore
    <2>1. PICK v \in DOMAIN files :
             /\ files[v] # Torn
             /\ tab' = RestoredTable(v)
             /\ toRemove' = <<v, v - 1, v - 2, v - 3>>
      BY <1>11 DEF Restore
    <2>2. tab' \in Table
      BY <2>1, RestoredType
    <2>3. toRemove' \in Seq(Int)
      <3>1. v \in Int /\ v - 1 \in Int /\ v - 2 \in Int /\ v - 3 \in Int
        BY <2>1
      <3>2. QED
        BY <2>1, <3>1
    <2>4. snapCount' \in Int
      BY <1>11, TabletAssumption DEF Restore
    <2>5. QED
      BY <1>11, <2>2, <2>3, <2>4 DEF Restore
  <1>12. CASE RestoreFails
    BY <1>12 DEF RestoreFails
  <1>13. CASE Retry
    BY <1>13 DEF Retry
  <1>14. CASE RemoveOld
    <2>1. toRemove' \in Seq(Int)
      BY <1>14 DEF RemoveOld
    <2>2. QED
      BY <1>14, <2>1 DEF RemoveOld
  <1>15. CASE Restored
    BY <1>15 DEF Restored
  <1>16. \A k \in Key : DelLine(k) \in Write /\ \A b \in Blob : PutLine(k, b) \in Write
    BY DEF DelLine, PutLine, Write
  <1>17. QED
    BY <1>1, <1>2, <1>3, <1>4, <1>5, <1>6, <1>7, <1>8, <1>00, <1>10, <1>11,
       <1>12, <1>13, <1>14, <1>15, <1>16 DEF Next

\* No step writes the file replay() reads.
LEMMA RangeLogStep == TInv /\ [Next]_vars => NothingToReplay'
  <1> SUFFICES ASSUME TInv, [Next]_vars PROVE NothingToReplay'
    OBVIOUS
  <1> USE DEF TInv, NothingToReplay, procVars, diskVars
  <1>1. CASE UNCHANGED vars
    BY <1>1 DEF vars
  <1>2. ASSUME NEW w \in Writer, NEW h, NEW line, Check(w, h, line)
        PROVE  NothingToReplay'
    BY <1>2 DEF Check
  <1>3. ASSUME NEW w \in Writer, Apply(w)
        PROVE  NothingToReplay'
    BY <1>3 DEF Apply
  <1>4. CASE Get
    BY <1>4 DEF Get, vars
  <1>5. CASE SnapOpen
    BY <1>5 DEF SnapOpen, SnapStep
  <1>6. CASE SnapTruncate
    BY <1>6 DEF SnapTruncate, SnapStep
  <1>7. CASE SnapLog
    BY <1>7 DEF SnapLog, SnapStep
  <1>8. CASE SnapRemove
    BY <1>8 DEF SnapRemove, SnapStep
  <1>00. CASE SnapClose
    BY <1>00 DEF SnapClose, SnapStep
  <1>10. CASE Crash
    BY <1>10 DEF Crash
  <1>11. CASE Restore
    BY <1>11 DEF Restore
  <1>12. CASE RestoreFails
    BY <1>12 DEF RestoreFails
  <1>13. CASE Retry
    BY <1>13 DEF Retry
  <1>14. CASE RemoveOld
    BY <1>14 DEF RemoveOld
  <1>15. CASE Restored
    BY <1>15 DEF Restored
  <1>16. QED
    BY <1>1, <1>2, <1>3, <1>4, <1>5, <1>6, <1>7, <1>8, <1>00, <1>10, <1>11, <1>12, <1>13, <1>14, <1>15 DEF Next

\* The file being written stays until it is closed.
LEMMA OpenedStep == TInv /\ [Next]_vars => Opened'
  <1> SUFFICES ASSUME TInv, [Next]_vars PROVE Opened'
    OBVIOUS
  <1> USE DEF TInv, TypeOK, Opened, procVars, diskVars, countVars
  <1>1. CASE UNCHANGED vars
    BY <1>1 DEF vars
  <1>2. ASSUME NEW w \in Writer, NEW h, NEW line, Check(w, h, line)
        PROVE  Opened'
    BY <1>2 DEF Check
  <1>3. ASSUME NEW w \in Writer, Apply(w)
        PROVE  Opened'
    BY <1>3 DEF Apply
  <1>4. CASE Get
    BY <1>4 DEF Get, vars
  <1>5. CASE SnapOpen
    BY <1>5 DEF SnapOpen, SnapStep
  <1>6. CASE SnapTruncate
    BY <1>6 DEF SnapTruncate, SnapStep
  <1>7. CASE SnapLog
    BY <1>7 DEF SnapLog, SnapStep
  <1>8. CASE SnapRemove
    BY <1>8 DEF SnapRemove, SnapStep
  <1>00. CASE SnapClose
    BY <1>00 DEF SnapClose, SnapStep
  <1>10. CASE Crash
    BY <1>10 DEF Crash
  <1>11. CASE Restore
    BY <1>11 DEF Restore
  <1>12. CASE RestoreFails
    BY <1>12 DEF RestoreFails
  <1>13. CASE Retry
    BY <1>13 DEF Retry
  <1>14. CASE RemoveOld
    BY <1>14 DEF RemoveOld
  <1>15. CASE Restored
    BY <1>15 DEF Restored
  <1>16. QED
    BY <1>1, <1>2, <1>3, <1>4, <1>5, <1>6, <1>7, <1>8, <1>00, <1>10, <1>11, <1>12, <1>13, <1>14, <1>15 DEF Next

\* Checkpoints begin when restore() is over.
LEMMA FreshStep == TInv /\ [Next]_vars => Fresh'
  <1> SUFFICES ASSUME TInv, [Next]_vars PROVE Fresh'
    OBVIOUS
  <1> USE DEF TInv, TypeOK, Fresh, procVars, diskVars, countVars
  <1>1. CASE UNCHANGED vars
    BY <1>1 DEF vars
  <1>2. ASSUME NEW w \in Writer, NEW h, NEW line, Check(w, h, line)
        PROVE  Fresh'
    BY <1>2 DEF Check
  <1>3. ASSUME NEW w \in Writer, Apply(w)
        PROVE  Fresh'
    BY <1>3 DEF Apply
  <1>4. CASE Get
    BY <1>4 DEF Get, vars
  <1>5. CASE SnapOpen
    BY <1>5 DEF SnapOpen, SnapStep
  <1>6. CASE SnapTruncate
    BY <1>6 DEF SnapTruncate, SnapStep
  <1>7. CASE SnapLog
    BY <1>7 DEF SnapLog, SnapStep
  <1>8. CASE SnapRemove
    BY <1>8 DEF SnapRemove, SnapStep
  <1>00. CASE SnapClose
    BY <1>00 DEF SnapClose, SnapStep
  <1>10. CASE Crash
    BY <1>10 DEF Crash
  <1>11. CASE Restore
    BY <1>11 DEF Restore
  <1>12. CASE RestoreFails
    BY <1>12 DEF RestoreFails
  <1>13. CASE Retry
    BY <1>13 DEF Retry
  <1>14. CASE RemoveOld
    BY <1>14 DEF RemoveOld
  <1>15. CASE Restored
    BY <1>15 DEF Restored
  <1>16. QED
    BY <1>1, <1>2, <1>3, <1>4, <1>5, <1>6, <1>7, <1>8, <1>00, <1>10, <1>11, <1>12, <1>13, <1>14, <1>15 DEF Next

\* The removal of old files never reaches the last complete one.
LEMMA CompleteStep == TInv /\ [Next]_vars => LastComplete'
  <1> SUFFICES ASSUME TInv, [Next]_vars PROVE LastComplete'
    OBVIOUS
  <1> USE DEF TInv, TypeOK, Opened, Fresh, LastComplete, Complete, procVars, diskVars, countVars
  <1>1. CASE UNCHANGED vars
    BY <1>1 DEF vars
  <1>2. ASSUME NEW w \in Writer, NEW h, NEW line, Check(w, h, line)
        PROVE  LastComplete'
    BY <1>2 DEF Check
  <1>3. ASSUME NEW w \in Writer, Apply(w)
        PROVE  LastComplete'
    BY <1>3 DEF Apply
  <1>4. CASE Get
    BY <1>4 DEF Get, vars
  <1>5. CASE SnapOpen
    BY <1>5 DEF SnapOpen, SnapStep
  <1>6. CASE SnapTruncate
    BY <1>6 DEF SnapTruncate, SnapStep
  <1>7. CASE SnapLog
    BY <1>7 DEF SnapLog, SnapStep
  <1>8. CASE SnapRemove
    BY <1>8 DEF SnapRemove, SnapStep
  <1>00. CASE SnapClose
    <2>1. archive # Torn
      BY TabletAssumption DEF Table
    <2>2. files'[snapCount - 1] = archive /\ snapCount - 1 \in DOMAIN files'
      BY <1>00 DEF SnapClose, SnapStep
    <2>3. proc' = "up" /\ snap' = "free" /\ snapCount' = snapCount
      BY <1>00 DEF SnapClose, SnapStep
    <2>4. QED
      BY <2>1, <2>2, <2>3
  <1>10. CASE Crash
    <2>1. proc' = "down" /\ files' = files /\ taken' = taken /\ proc \in {"up", "restoring"}
      BY <1>10 DEF Crash
    <2>2. CASE taken > 0
      <3>1. proc = "up"
        BY <2>1, <2>2
      <3>2. Complete(IF snap = "removed" THEN snapCount - 2 ELSE snapCount - 1)
        BY <2>2, <3>1
      <3>3. QED
        BY <2>1, <3>2
    <2>3. QED
      BY <2>1, <2>2
  <1>11. CASE Restore
    BY <1>11 DEF Restore
  <1>12. CASE RestoreFails
    BY <1>12 DEF RestoreFails
  <1>13. CASE Retry
    BY <1>13 DEF Retry
  <1>14. CASE RemoveOld
    BY <1>14 DEF RemoveOld
  <1>15. CASE Restored
    BY <1>15 DEF Restored
  <1>16. QED
    BY <1>1, <1>2, <1>3, <1>4, <1>5, <1>6, <1>7, <1>8, <1>00, <1>10, <1>11, <1>12, <1>13, <1>14, <1>15 DEF Next

\* The third last file is the only one that can leave the window.
LEMMA WindowStep == TInv /\ [Next]_vars => Window'
  <1> SUFFICES ASSUME TInv, [Next]_vars PROVE Window'
    OBVIOUS
  <1> USE DEF TInv, TypeOK, Opened, Fresh, Window, Start, procVars, diskVars, countVars
  <1>1. CASE UNCHANGED vars
    BY <1>1 DEF vars
  <1>2. ASSUME NEW w \in Writer, NEW h, NEW line, Check(w, h, line)
        PROVE  Window'
    BY <1>2 DEF Check
  <1>3. ASSUME NEW w \in Writer, Apply(w)
        PROVE  Window'
    BY <1>3 DEF Apply
  <1>4. CASE Get
    BY <1>4 DEF Get, vars
  <1>5. CASE SnapOpen
    BY <1>5 DEF SnapOpen, SnapStep
  <1>6. CASE SnapTruncate
    BY <1>6 DEF SnapTruncate, SnapStep
  <1>7. CASE SnapLog
    BY <1>7 DEF SnapLog, SnapStep
  <1>8. CASE SnapRemove
    BY <1>8 DEF SnapRemove, SnapStep
  <1>00. CASE SnapClose
    BY <1>00 DEF SnapClose, SnapStep
  <1>10. CASE Crash
    BY <1>10 DEF Crash
  <1>11. CASE Restore
    BY <1>11 DEF Restore
  <1>12. CASE RestoreFails
    BY <1>12 DEF RestoreFails
  <1>13. CASE Retry
    BY <1>13 DEF Retry
  <1>14. CASE RemoveOld
    BY <1>14 DEF RemoveOld
  <1>15. CASE Restored
    BY <1>15 DEF Restored
  <1>16. QED
    BY <1>1, <1>2, <1>3, <1>4, <1>5, <1>6, <1>7, <1>8, <1>00, <1>10, <1>11, <1>12, <1>13, <1>14, <1>15 DEF Next

LEMMA TInvariant == Spec => []TInv
  <1>1. TInv /\ [Next]_vars => TInv'
    BY TabletTypeStep, RangeLogStep, OpenedStep, FreshStep, CompleteStep, WindowStep DEF TInv
  <1>2. QED
    BY TabletInit, <1>1, PTL DEF Spec

\* TypeOK is an invariant, whatever an uninitialized counter holds.
THEOREM TabletTypes == Spec => []TypeOK
  <1>1. TInv => TypeOK
    BY DEF TInv
  <1>2. QED
    BY TInvariant, <1>1, PTL

\* CheckpointSurvives: after the first completed checkpoint of a process a
\* complete one is on the disk at every moment of snapshot() and of a crash.
THEOREM SurvivingCheckpoint == Spec => []CheckpointSurvives
  <1>1. TInv => CheckpointSurvives
    BY DEF TInv, LastComplete, Complete, CheckpointSurvives
  <1>2. QED
    BY TInvariant, <1>1, PTL

\* FewFiles: the checkpoint files of a server that was never restarted are
\* among its last three.
THEOREM ThreeFiles == Spec => []FewFiles
  <1>1. TInv => FewFiles
    BY DEF TInv, TypeOK, Window, Start, FewFiles
  <1>2. QED
    BY TInvariant, <1>1, PTL

-----------------------------------------------------------------------------
(* What replaying does to one more line.                                   *)

\* FoldLeft is a function on sets of line numbers, the greatest of which is the
\* line that comes last.
Folded(iter, t, lines, s) ==
    IF s = {} THEN t ELSE Replayed(iter[s \ {Max(s)}], lines[Max(s)])

Folds(iter, t, lines, n) ==
    iter = [s \in SUBSET (1..n) |-> Folded(iter, t, lines, s)]

LEMMA Least ==
    ASSUME NEW D, D \subseteq Nat, D # {}
    PROVE  \E n \in D : \A m \in D : n <= m
  <1>1. PICK n \in D : \A m \in D : ~(<<m, n>> \in OpToRel(<, Nat))
    BY NatLessThanWellFounded, WFMin
  <1>2. ASSUME NEW m \in D
        PROVE  n <= m
    <2>1. ~(m < n)
      BY <1>1, <1>2 DEF OpToRel
    <2>2. QED
      BY <2>1
  <1>3. QED
    BY <1>2

\* What holds of 0, and of n + 1 if of n, holds of every number.
LEMMA Induct ==
    ASSUME NEW G, 0 \in G, \A n \in Nat : n \in G => n + 1 \in G
    PROVE  Nat \subseteq G
  <1>1. SUFFICES ASSUME Nat \ G # {} PROVE FALSE
    OBVIOUS
  <1>2. PICK n \in Nat \ G : \A m \in Nat \ G : n <= m
    BY <1>1, Least
  <1>3. n - 1 \in Nat /\ n - 1 \in G
    BY <1>2
  <1>4. QED
    BY <1>2, <1>3

\* The greatest of the first n + 1 numbers is n + 1, where it is one of them.
LEMMA MaxLast ==
    ASSUME NEW n \in Nat, NEW s \in SUBSET (1..(n + 1)), n + 1 \in s
    PROVE  Max(s) = n + 1 /\ s \ {Max(s)} \in SUBSET (1..n)
  <1>1. \A y \in s : n + 1 >= y
    OBVIOUS
  <1>2. \A x \in s : (\A y \in s : x >= y) => x = n + 1
    OBVIOUS
  <1>3. Max(s) = n + 1
    BY <1>1, <1>2 DEF Max
  <1>4. QED
    BY <1>3

LEMMA FoldsAt ==
    ASSUME NEW iter, NEW t, NEW lines, NEW n, Folds(iter, t, lines, n)
    PROVE  \A s \in SUBSET (1..n) : iter[s] = Folded(iter, t, lines, s)
  BY DEF Folds

LEMMA FoldsExtend ==
    ASSUME NEW t, NEW lines, NEW n \in Nat, NEW f, Folds(f, t, lines, n)
    PROVE  \E g : Folds(g, t, lines, n + 1)
  <1> DEFINE g == [s \in SUBSET (1..(n + 1)) |->
                     IF n + 1 \in s THEN Replayed(f[s \ {n + 1}], lines[n + 1]) ELSE f[s]]
  <1>1. \A s \in SUBSET (1..n) : s \in SUBSET (1..(n + 1)) /\ n + 1 \notin s
    OBVIOUS
  <1>2. \A s \in SUBSET (1..n) : g[s] = f[s]
    BY <1>1
  <1>3. \A s \in SUBSET (1..n) : f[s] = Folded(f, t, lines, s)
    BY FoldsAt
  <1>4. ASSUME NEW s \in SUBSET (1..(n + 1))
        PROVE  g[s] = Folded(g, t, lines, s)
    <2>1. CASE n + 1 \in s
      <3>1. Max(s) = n + 1 /\ s \ {n + 1} \in SUBSET (1..n)
        BY <2>1, MaxLast
      <3>2. g[s] = Replayed(f[s \ {n + 1}], lines[n + 1])
        BY <2>1
      <3>3. g[s \ {n + 1}] = f[s \ {n + 1}]
        BY <1>2, <3>1
      <3> HIDE DEF g
      <3>4. s # {}
        BY <2>1
      <3>5. Folded(g, t, lines, s) = Replayed(g[s \ {n + 1}], lines[n + 1])
        BY <3>1, <3>4 DEF Folded
      <3>6. QED
        BY <3>2, <3>3, <3>5
    <2>2. CASE n + 1 \notin s
      <3>1. s \in SUBSET (1..n)
        BY <2>2
      <3> HIDE DEF g
      <3>2. g[s] = Folded(f, t, lines, s)
        BY <1>2, <1>3, <3>1
      <3>3. CASE s = {}
        BY <3>2, <3>3 DEF Folded
      <3>4. CASE s # {}
        <4>1. s \ {Max(s)} \in SUBSET (1..n)
          BY <3>1
        <4>2. g[s \ {Max(s)}] = f[s \ {Max(s)}]
          BY <1>2, <4>1
        <4>3. /\ Folded(f, t, lines, s) = Replayed(f[s \ {Max(s)}], lines[Max(s)])
              /\ Folded(g, t, lines, s) = Replayed(g[s \ {Max(s)}], lines[Max(s)])
          BY <3>4 DEF Folded
        <4>4. QED
          BY <3>2, <4>2, <4>3
      <3>5. QED
        BY <3>3, <3>4
    <2>3. QED
      BY <2>1, <2>2
  <1>5. g = [s \in SUBSET (1..(n + 1)) |-> g[s]]
    OBVIOUS
  <1> HIDE DEF g
  <1>6. g = [s \in SUBSET (1..(n + 1)) |-> Folded(g, t, lines, s)]
    BY <1>4, <1>5, Zenon
  <1>7. Folds(g, t, lines, n + 1)
    BY <1>6 DEF Folds
  <1>8. QED
    BY <1>7

LEMMA FoldsExist ==
    ASSUME NEW t, NEW lines, NEW n \in Nat
    PROVE  \E f : Folds(f, t, lines, n)
  <1> DEFINE G == {m \in Nat : \E f : Folds(f, t, lines, m)}
  <1>1. 0 \in G
    <2> DEFINE f == [s \in SUBSET (1..0) |-> t]
    <2>1. \A s \in SUBSET (1..0) : s = {}
      OBVIOUS
    <2>2. f = [s \in SUBSET (1..0) |-> Folded(f, t, lines, s)]
      BY <2>1 DEF Folded
    <2>3. Folds(f, t, lines, 0)
      BY <2>2 DEF Folds
    <2>4. QED
      BY <2>3
  <1>2. \A m \in Nat : m \in G => m + 1 \in G
    BY FoldsExtend
  <1> HIDE DEF G
  <1>3. Nat \subseteq G
    BY <1>1, <1>2, Induct
  <1>4. QED
    BY <1>3 DEF G

\* Lines behind the first n do not matter to what the first n do.
LEMMA FoldsAgree ==
    ASSUME NEW t, NEW lines, NEW more, NEW n \in Nat, NEW m \in Nat, n <= m,
           \A i \in 1..n : more[i] = lines[i],
           NEW f, Folds(f, t, lines, n), NEW g, Folds(g, t, more, m)
    PROVE  g[1..n] = f[1..n]
  <1>1. \A s \in SUBSET (1..n) : f[s] = Folded(f, t, lines, s)
    BY FoldsAt
  <1>2. \A s \in SUBSET (1..m) : g[s] = Folded(g, t, more, s)
    BY FoldsAt
  <1> DEFINE G == {k \in Nat : k <= n => \A s \in SUBSET (1..k) : g[s] = f[s]}
  <1>3. 0 \in G
    <2>1. \A s \in SUBSET (1..0) : s = {}
      OBVIOUS
    <2>2. {} \in SUBSET (1..n) /\ {} \in SUBSET (1..m)
      OBVIOUS
    <2>3. f[{}] = t /\ g[{}] = t
      BY <1>1, <1>2, <2>2 DEF Folded
    <2>4. QED
      BY <2>1, <2>3
  <1>4. ASSUME NEW k \in Nat, k \in G PROVE k + 1 \in G
    <2> SUFFICES ASSUME k + 1 <= n, NEW s \in SUBSET (1..(k + 1)) PROVE g[s] = f[s]
      OBVIOUS
    <2>1. k <= n /\ \A r \in SUBSET (1..k) : g[r] = f[r]
      BY <1>4
    <2>2. s \in SUBSET (1..n) /\ s \in SUBSET (1..m)
      OBVIOUS
    <2> HIDE DEF G
    <2>3. CASE k + 1 \in s
      <3>1. Max(s) = k + 1 /\ s \ {k + 1} \in SUBSET (1..k)
        BY <2>3, MaxLast
      <3>2. s # {}
        BY <2>3
      <3>3. /\ Folded(f, t, lines, s) = Replayed(f[s \ {k + 1}], lines[k + 1])
            /\ Folded(g, t, more, s) = Replayed(g[s \ {k + 1}], more[k + 1])
        BY <3>1, <3>2 DEF Folded
      <3>4. g[s \ {k + 1}] = f[s \ {k + 1}] /\ more[k + 1] = lines[k + 1]
        BY <2>1, <3>1
      <3>5. f[s] = Folded(f, t, lines, s) /\ g[s] = Folded(g, t, more, s)
        BY <1>1, <1>2, <2>2
      <3>6. QED
        BY <3>3, <3>4, <3>5
    <2>4. CASE k + 1 \notin s
      <3>1. s \in SUBSET (1..k)
        BY <2>4
      <3>2. QED
        BY <2>1, <3>1
    <2>5. QED
      BY <2>3, <2>4
  <1> HIDE DEF G
  <1>5. Nat \subseteq G
    BY <1>3, <1>4, Induct
  <1>6. n \in G /\ 1..n \in SUBSET (1..n)
    BY <1>5
  <1>7. QED
    BY <1>6 DEF G

LEMMA ReplayIs ==
    ASSUME NEW t, NEW S, NEW lines \in Seq(S)
    PROVE  \E f : Folds(f, t, lines, Len(lines)) /\ ReplayAll(t, lines) = f[1..Len(lines)]
  <1> DEFINE F(iter) == iter = [s \in SUBSET (1..Len(lines)) |->
                IF s = {} THEN t
                ELSE LET x == Max(s) IN Replayed(iter[s \ {x}], lines[x])]
  <1>1. Len(lines) \in Nat /\ DOMAIN lines = 1..Len(lines)
    OBVIOUS
  <1>2. \E f : F(f)
    <2>1. PICK f : Folds(f, t, lines, Len(lines))
      BY <1>1, FoldsExist
    <2>2. F(f)
      BY <2>1 DEF Folds, Folded
    <2>3. QED
      BY <2>2
  <1>3. F(CHOOSE iter : F(iter))
    BY <1>2
  <1>4. Folds((CHOOSE iter : F(iter)), t, lines, Len(lines))
    BY <1>3 DEF Folds, Folded
  <1>5. ReplayAll(t, lines) = (CHOOSE iter : F(iter))[1..Len(lines)]
    BY <1>1 DEF ReplayAll, FoldLeft, MapThenFoldSet
  <1>6. QED
    BY <1>4, <1>5

\* Replaying one more line is what the line does to the table before it.
LEMMA ReplayAppend ==
    ASSUME NEW t, NEW S, NEW lines \in Seq(S), NEW e \in S
    PROVE  ReplayAll(t, Append(lines, e)) = Replayed(ReplayAll(t, lines), e)
  <1> DEFINE n == Len(lines)
             more == Append(lines, e)
  <1>1. /\ n \in Nat /\ more \in Seq(S) /\ Len(more) = n + 1 /\ more[n + 1] = e
        /\ \A i \in 1..n : more[i] = lines[i]
    OBVIOUS
  <1> HIDE DEF more, n
  <1>2. PICK f : Folds(f, t, lines, n) /\ ReplayAll(t, lines) = f[1..n]
    BY ReplayIs DEF n
  <1>3. PICK g : Folds(g, t, more, n + 1) /\ ReplayAll(t, more) = g[1..(n + 1)]
    BY <1>1, ReplayIs
  <1>4. g[1..n] = f[1..n]
    BY <1>1, <1>2, <1>3, FoldsAgree
  <1> DEFINE all == 1..(n + 1)
  <1>5. all \in SUBSET (1..(n + 1)) /\ n + 1 \in all /\ all # {} /\ all \ {n + 1} = 1..n
    <2>1. \A i \in Int : i \in 1..n <=> i \in 1..(n + 1) /\ i # n + 1
      BY <1>1
    <2>2. all \ {n + 1} = 1..n
      BY <2>1
    <2>3. n + 1 \in all
      BY <1>1
    <2>4. QED
      BY <2>2, <2>3
  <1>6. g[all] = Replayed(g[all \ {Max(all)}], more[Max(all)])
    <2> HIDE DEF all
    <2>1. \A r \in SUBSET (1..(n + 1)) : g[r] = Folded(g, t, more, r)
      BY <1>3, FoldsAt
    <2>2. Folded(g, t, more, all) = Replayed(g[all \ {Max(all)}], more[Max(all)])
      BY <1>5 DEF Folded
    <2>3. QED
      BY <1>5, <2>1, <2>2
  <1>7. Max(all) = n + 1
    <2> HIDE DEF all
    <2>1. QED
      BY <1>1, <1>5, MaxLast
  <1>8. ReplayAll(t, more) = Replayed(ReplayAll(t, lines), e)
    BY <1>1, <1>2, <1>3, <1>4, <1>5, <1>6, <1>7
  <1>00. QED
    BY <1>8 DEF more

LEMMA LineKinds ==
    ASSUME NEW t, NEW n
    PROVE  /\ Replayed(t, SnapshotLine(n)) = t
           /\ SnapshotLine(n).op = "SNAPSHOT" /\ SnapshotLine(n).version = n
  BY DEF Replayed, SnapshotLine

LEMMA WritesAreNoMarks == \A line \in Write : line.op # "SNAPSHOT"
  BY DEF Write

LEMMA ReplayMark ==
    ASSUME NEW t, NEW n \in Int
    PROVE  ReplayAll(t, <<SnapshotLine(n)>>) = t
  <1>1. SnapshotLine(n) \in Line /\ <<>> \in Seq(Line)
    BY DEF SnapshotLine, Line
  <1>2. <<SnapshotLine(n)>> = Append(<<>>, SnapshotLine(n))
    OBVIOUS
  <1>3. ReplayAll(t, Append(<<>>, SnapshotLine(n))) = Replayed(ReplayAll(t, <<>>), SnapshotLine(n))
    BY <1>1, ReplayAppend
  <1>4. ReplayAll(t, <<>>) = t /\ Replayed(t, SnapshotLine(n)) = t
    BY ReplayNothing, LineKinds
  <1>5. QED
    BY <1>2, <1>3, <1>4

-----------------------------------------------------------------------------
(* The log covers the table.                                               *)

LEMMA CoveredInit == Init => Covered
  BY ReplayNothing DEF Init, Covered

\* Nothing that Covered speaks of changes.
LEMMA CoveredKept ==
    ASSUME Covered, proc' = "up" => proc = "up",
           UNCHANGED <<snap, archive, tab, log, snapCount, files, taken, first>>
    PROVE  Covered'
  BY DEF Covered

\* A write goes to the table and to the end of the log.
LEMMA ApplyCovered ==
    ASSUME TInv, Covered, NEW w \in Writer, Apply(w)
    PROVE  Covered'
  <1> DEFINE line == pending[w].line
  <1>1. line \in Write /\ line \in Line /\ log \in Seq(Line)
    BY DEF Apply, TInv, TypeOK, Line
  <1>2. /\ proc = "up" /\ snap = "free"
        /\ tab' = Replayed(tab, line) /\ log' = Append(log, line)
        /\ UNCHANGED <<proc, snap, snapCount, files, taken, first>>
    BY DEF Apply, procVars
  <1> HIDE DEF line
  <1>3. \A t : ReplayAll(t, log') = Replayed(ReplayAll(t, log), line)
    BY <1>1, <1>2, ReplayAppend
  <1>4. /\ Len(log) \in Nat /\ Len(log') = Len(log) + 1 /\ log'[Len(log) + 1] = line
        /\ \A i \in 1..Len(log) : log'[i] = log[i]
    BY <1>1, <1>2
  <1>5. ASSUME taken > 0
        PROVE  /\ Len(log') > 0 /\ log'[1] = SnapshotLine(snapCount - 1)
               /\ \A i \in 2..Len(log') : log'[i] \in Write
               /\ ReplayAll(files[snapCount - 1], log') = tab'
    <2>1. /\ Len(log) > 0 /\ log[1] = SnapshotLine(snapCount - 1)
          /\ \A i \in 2..Len(log) : log[i] \in Write
          /\ ReplayAll(files[snapCount - 1], log) = tab
      BY <1>2, <1>5 DEF Covered
    <2>2. \A i \in 2..Len(log') : i = Len(log) + 1 \/ (i \in 2..Len(log) /\ i \in 1..Len(log))
      BY <1>4
    <2>3. QED
      BY <1>1, <1>2, <1>3, <1>4, <2>1, <2>2
  <1>6. ASSUME taken = 0, first
        PROVE  /\ \A i \in 1..Len(log') : log'[i] \in Write
               /\ ReplayAll(NoCells, log') = tab'
    <2>1. /\ \A i \in 1..Len(log) : log[i] \in Write
          /\ ReplayAll(NoCells, log) = tab
      BY <1>2, <1>6 DEF Covered
    <2>2. \A i \in 1..Len(log') : i = Len(log) + 1 \/ i \in 1..Len(log)
      BY <1>4
    <2>3. QED
      BY <1>1, <1>2, <1>3, <1>4, <2>1, <2>2
  <1>7. QED
    BY <1>2, <1>5, <1>6 DEF Covered

\* The checkpoint that is closed holds what the table held all along.
LEMMA CloseCovered ==
    ASSUME TInv, Covered, SnapClose
    PROVE  Covered'
  <1>1. /\ proc = "up" /\ snap = "removed" /\ snap' = "free" /\ proc' = "up"
        /\ files' = [files EXCEPT ![snapCount - 1] = archive]
        /\ taken' = taken + 1
        /\ UNCHANGED <<tab, snapCount, log>>
    BY DEF SnapClose, SnapStep
  <1>2. archive = tab /\ log = <<SnapshotLine(snapCount - 1)>>
    BY <1>1 DEF Covered
  <1>3. /\ snapCount \in Int /\ taken \in Nat /\ snapCount - 1 \in DOMAIN files
    BY <1>1 DEF TInv, TypeOK, Opened
  <1>4. files'[snapCount - 1] = tab
    BY <1>1, <1>2, <1>3
  <1>5. ReplayAll(tab, log') = tab
    BY <1>1, <1>2, <1>3, ReplayMark
  <1>6. Len(log') = 1 /\ log'[1] = SnapshotLine(snapCount - 1)
    BY <1>1, <1>2
  <1>7. taken' > 0
    BY <1>1, <1>3
  <1>8. QED
    BY <1>1, <1>4, <1>5, <1>6, <1>7 DEF Covered

LEMMA CoveredStep == TInv /\ Covered /\ [Next]_vars => Covered'
  <1> SUFFICES ASSUME TInv, Covered, [Next]_vars PROVE Covered'
    OBVIOUS
  <1> USE DEF procVars, diskVars, countVars
  <1>1. CASE UNCHANGED vars
    BY <1>1, CoveredKept DEF vars
  <1>2. ASSUME NEW w \in Writer, NEW h, NEW line, Check(w, h, line)
        PROVE  Covered'
    BY <1>2, CoveredKept DEF Check
  <1>3. ASSUME NEW w \in Writer, Apply(w)
        PROVE  Covered'
    BY <1>3, ApplyCovered
  <1>4. CASE Get
    BY <1>4, CoveredKept DEF Get, vars
  <1>5. CASE SnapOpen
    BY <1>5 DEF SnapOpen, SnapStep, Covered
  <1>6. CASE SnapTruncate
    BY <1>6 DEF SnapTruncate, SnapStep, Covered
  <1>7. CASE SnapLog
    <2>1. log = <<>> /\ archive = tab
      BY <1>7 DEF SnapLog, SnapStep, Covered
    <2>2. log' = <<SnapshotLine(snapCount)>>
      BY <1>7, <2>1 DEF SnapLog
    <2>3. QED
      BY <1>7, <2>1, <2>2 DEF SnapLog, SnapStep, Covered
  <1>8. CASE SnapRemove
    <2>1. log = <<SnapshotLine(snapCount)>> /\ archive = tab
      BY <1>8 DEF SnapRemove, SnapStep, Covered
    <2>2. snapCount' - 1 = snapCount
      BY <1>8 DEF SnapRemove, TInv, TypeOK
    <2>3. QED
      BY <1>8, <2>1, <2>2 DEF SnapRemove, SnapStep, Covered
  <1>00. CASE SnapClose
    BY <1>00, CloseCovered
  <1>10. CASE Crash
    BY <1>10 DEF Crash, Covered
  <1>11. CASE Restore
    BY <1>11 DEF Restore, Covered
  <1>12. CASE RestoreFails
    BY <1>12 DEF RestoreFails, Covered
  <1>13. CASE Retry
    BY <1>13 DEF Retry, Covered
  <1>14. CASE RemoveOld
    BY <1>14 DEF RemoveOld, Covered
  <1>15. CASE Restored
    <2>1. taken = 0 /\ ~first /\ snap = "free"
      BY <1>15 DEF Restored, TInv, Fresh, Opened
    <2>2. QED
      BY <1>15, <2>1 DEF Restored, Covered
  <1>16. QED
    BY <1>1, <1>2, <1>3, <1>4, <1>5, <1>6, <1>7, <1>8, <1>00, <1>10, <1>11, <1>12, <1>13, <1>14, <1>15 DEF Next

\* The last SNAPSHOT line of a log whose first line is the only one.
LEMMA OnlyMark ==
    ASSUME log \in Seq(Line), NEW n, Len(log) > 0, log[1] = SnapshotLine(n),
           \A i \in 2..Len(log) : log[i] \in Write
    PROVE  Base = files[n]
  <1> DEFINE marks == {i \in DOMAIN log : log[i].op = "SNAPSHOT"}
  <1>1. DOMAIN log = 1..Len(log) /\ Len(log) \in Nat
    OBVIOUS
  <1>2. marks = {1}
    <2>1. 1 \in marks
      <3>1. log[1].op = "SNAPSHOT" /\ 1 \in DOMAIN log
        BY <1>1, LineKinds
      <3>2. QED
        BY <3>1
    <2>2. ASSUME NEW i \in DOMAIN log, i # 1
          PROVE  i \notin marks
      <3>1. i \in 2..Len(log)
        BY <1>1, <2>2
      <3>2. QED
        BY <3>1, WritesAreNoMarks
    <2>3. QED
      BY <2>1, <2>2
  <1>3. (CHOOSE i \in marks : \A j \in marks : i >= j) = 1
    BY <1>2
  <1>4. Base = files[log[1].version]
    <2> HIDE DEF marks
    <2>1. Base = IF marks = {} THEN NoCells
                 ELSE files[log[CHOOSE i \in marks : \A j \in marks : i >= j].version]
      BY DEF Base, marks
    <2>2. QED
      BY <1>2, <1>3, <2>1
  <1>5. log[1].version = n
    BY LineKinds
  <1>6. QED
    BY <1>4, <1>5

LEMMA NoMark ==
    ASSUME \A i \in 1..Len(log) : log[i] \in Write, log \in Seq(Line)
    PROVE  Base = NoCells
  <1>1. {i \in DOMAIN log : log[i].op = "SNAPSHOT"} = {}
    BY WritesAreNoMarks
  <1>2. QED
    BY <1>1 DEF Base

\* LogCovers: whatever writes and checkpoints came between, the checkpoint that
\* the log names and the lines behind it give the table, so that snapshot() may
\* empty the log (tablet.cc:148-166).
THEOREM NoWriteLost == Spec => []LogCovers
  <1>1. TInv /\ Covered => LogCovers
    <2> SUFFICES ASSUME TInv, Covered, proc = "up", snap = "free", first \/ taken > 0
                 PROVE  ReplayAll(Base, log) = tab
      BY DEF LogCovers
    <2>1. log \in Seq(Line) /\ taken \in Nat /\ snapCount \in Int
      BY DEF TInv, TypeOK
    <2>2. CASE taken > 0
      BY <2>1, <2>2, OnlyMark DEF Covered
    <2>3. CASE taken = 0
      BY <2>1, <2>3, NoMark DEF Covered
    <2>4. QED
      BY <2>1, <2>2, <2>3
  <1>2. QED
    BY <1>1, CoveredInit, CoveredStep, TInvariant, PTL DEF Spec

=============================================================================
