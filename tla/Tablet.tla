------------------------------ MODULE Tablet ------------------------------
(***************************************************************************)
(* The table of one tablet server, its log and its checkpoint files        *)
(* (tablet.cc), through crashes of the process and restarts with -r.       *)
(* Writers are threads of client sessions; one more thread takes the       *)
(* checkpoints.  A crash loses the memory.  The log is flushed line by     *)
(* line; a checkpoint file is complete only when its stream is closed.     *)
(***************************************************************************)
EXTENDS Integers, SequencesExt

CONSTANTS
    Key, Blob,      \* keys of the range, contents of a cell
    Hash,           \* hashes of write requests
    Writer,         \* threads that write
    Absent,         \* there is no cell of that key
    Idle,           \* a writer between two requests
    Torn,           \* a checkpoint file whose stream was never closed
    Garbage,        \* what the uninitialized snapCount of a new process may hold
    MaxWrites, MaxVersion, MaxCrashes       \* bounds of the model

ASSUME TabletAssumption ==
    /\ Absent \notin Blob
    /\ Idle \notin [hash : Hash, line : [op : {"PUT"}, key : Key, blob : Blob]]
    /\ Idle \notin [hash : Hash, line : [op : {"DEL"}, key : Key]]
    /\ Torn \notin [Key -> Blob \cup {Absent}]
    /\ Garbage \subseteq Int /\ Garbage # {}
    /\ MaxWrites \in Nat /\ MaxVersion \in Int /\ MaxCrashes \in Nat

Table == [Key -> Blob \cup {Absent}]
NoCells == [k \in Key |-> Absent]

\* The lines of a log.  Writes are requests before they are lines.
PutLine(k, b)   == [op |-> "PUT", key |-> k, blob |-> b]
DelLine(k)      == [op |-> "DEL", key |-> k]
SnapshotLine(n) == [op |-> "SNAPSHOT", version |-> n]

Write == [op : {"PUT"}, key : Key, blob : Blob] \cup [op : {"DEL"}, key : Key]
Line  == Write \cup [op : {"SNAPSHOT"}, version : Int]

VARIABLES
    proc,                   \* "up", "down", "restoring", or "failed" to restore
    tab, hashes, snapCount, \* members of Tablet (of a dead process: the last values)
    pending,    \* pending[w]: the request writer w found to be new, or Idle
    snap,       \* where snapshot() is; it holds snapMutex unless this is "free"
    archive,    \* the table as snapshot() serialized it, in the buffer of ofs
    log,        \* the log file, as the constructor names it: log_<range>_<server>
    rangeLog,   \* the log file as replay() names it: log_<range>
    files,      \* the checkpoint files: version -> content
    toRemove,   \* versions restore() has still to remove
    writes, crashes,        \* so far (bound the model)
    first, taken            \* history: started without -r; checkpoints completed

procVars == <<proc, first, taken>>
diskVars == <<log, rangeLog, files>>
countVars == <<writes, crashes>>
vars == <<tab, hashes, snapCount, pending, snap, archive, toRemove, procVars, diskVars, countVars>>

TypeOK ==
    /\ proc \in {"up", "down", "restoring", "failed"}
    /\ tab \in Table
    /\ hashes \in SUBSET Hash
    /\ snapCount \in Int
    /\ pending \in [Writer -> [hash : Hash, line : Write] \cup {Idle}]
    /\ snap \in {"free", "opened", "truncated", "logged", "removed"}
    /\ archive \in Table
    /\ log \in Seq(Line)
    /\ rangeLog \in Seq(Line)
    /\ DOMAIN files \subseteq Int
    /\ \A v \in DOMAIN files : files[v] \in Table \cup {Torn}
    /\ toRemove \in Seq(Int)
    /\ first \in BOOLEAN
    /\ taken \in Nat
    /\ writes \in Nat /\ crashes \in Nat

\* A new server on an empty disk.
Init ==
    /\ proc = "up" /\ first = TRUE /\ taken = 0
    /\ tab = NoCells
    /\ hashes = {}
    /\ snapCount \in Garbage
    /\ pending = [w \in Writer |-> Idle]
    /\ snap = "free" /\ archive = NoCells
    /\ log = <<>> /\ rangeLog = <<>>
    /\ files = [v \in {} |-> Torn]
    /\ toRemove = <<>>
    /\ writes = 0 /\ crashes = 0

\* What a PUT or DEL line does to a table; replay skips every other line.
Replayed(t, line) ==
    CASE line.op = "PUT" -> [t EXCEPT ![line.key] = line.blob]
      [] line.op = "DEL" -> [t EXCEPT ![line.key] = Absent]
      [] OTHER -> t

ReplayAll(t, lines) == FoldLeft(Replayed, t, lines)

-----------------------------------------------------------------------------
(* put(hash, ..) and erase(hash, ..).  exists() and seen() run before the   *)
(* lock is taken; the early returns change nothing.                        *)

Check(w, h, line) ==
    /\ proc = "up"
    /\ pending[w] = Idle
    /\ writes < MaxWrites
    /\ line.op = "DEL" => tab[line.key] # Absent
    /\ h \notin hashes
    /\ pending' = [pending EXCEPT ![w] = [hash |-> h, line |-> line]]
    /\ writes' = writes + 1
    /\ UNCHANGED <<tab, hashes, snapCount, snap, archive, toRemove, procVars, diskVars, crashes>>

\* Mutant of Apply: the write does not wait for snapMutex.
Apply_Unlocked(w) ==
    /\ proc = "up"
    /\ pending[w] # Idle
    /\ tab' = Replayed(tab, pending[w].line)
    /\ hashes' = hashes \cup {pending[w].hash}
    /\ log' = Append(log, pending[w].line)
    /\ pending' = [pending EXCEPT ![w] = Idle]
    /\ UNCHANGED <<snapCount, snap, archive, toRemove, procVars, rangeLog, files, countVars>>

\* The locked part.  Its only effect on the disk is the line, the last step.
Apply(w) ==
    /\ proc = "up"
    /\ pending[w] # Idle
    /\ snap = "free"
    /\ tab' = Replayed(tab, pending[w].line)
    /\ hashes' = hashes \cup {pending[w].hash}
    /\ log' = Append(log, pending[w].line)
    /\ pending' = [pending EXCEPT ![w] = Idle]
    /\ UNCHANGED <<snapCount, snap, archive, toRemove, procVars, rangeLog, files, countVars>>

\* get: reads one cell and takes no lock a snapshot holds.
Get == proc = "up" /\ UNCHANGED vars

-----------------------------------------------------------------------------
(* snapshot(), one step per effect on the disk.                            *)

SnapStep(from, to) == proc = "up" /\ snap = from /\ snap' = to

\* ofs creates the file, or empties one of that name; oa << tab goes to its
\* buffer.
SnapOpen ==
    /\ SnapStep("free", "opened")
    /\ snapCount <= MaxVersion
    /\ files' = [v \in DOMAIN files \cup {snapCount} |-> IF v = snapCount THEN Torn ELSE files[v]]
    /\ archive' = tab
    /\ UNCHANGED <<tab, hashes, snapCount, pending, toRemove, procVars, log, rangeLog, countVars>>

SnapTruncate ==
    /\ SnapStep("opened", "truncated")
    /\ log' = <<>>
    /\ UNCHANGED <<tab, hashes, snapCount, pending, archive, toRemove, procVars, rangeLog, files, countVars>>

SnapLog ==
    /\ SnapStep("truncated", "logged")
    /\ log' = Append(log, SnapshotLine(snapCount))
    /\ UNCHANGED <<tab, hashes, snapCount, pending, archive, toRemove, procVars, rangeLog, files, countVars>>

\* Mutant of SnapRemove: the previous checkpoint goes, not the third last.
SnapRemove_Previous ==
    /\ SnapStep("logged", "removed")
    /\ files' = [v \in DOMAIN files \ {snapCount - 1} |-> files[v]]
    /\ snapCount' = snapCount + 1
    /\ UNCHANGED <<tab, hashes, pending, archive, toRemove, procVars, log, rangeLog, countVars>>

\* Mutant of SnapRemove: off by one, the first checkpoint is never removed.
SnapRemove_OffByOne ==
    /\ SnapStep("logged", "removed")
    /\ files' = [v \in DOMAIN files \ (IF snapCount > 3 THEN {snapCount - 3} ELSE {}) |-> files[v]]
    /\ snapCount' = snapCount + 1
    /\ UNCHANGED <<tab, hashes, pending, archive, toRemove, procVars, log, rangeLog, countVars>>

SnapRemove ==
    /\ SnapStep("logged", "removed")
    /\ files' = [v \in DOMAIN files \ (IF snapCount > 2 THEN {snapCount - 3} ELSE {}) |-> files[v]]
    /\ snapCount' = snapCount + 1
    /\ UNCHANGED <<tab, hashes, pending, archive, toRemove, procVars, log, rangeLog, countVars>>

\* The end of the function: ofs is flushed and closed, then the lock released.
SnapClose ==
    /\ SnapStep("removed", "free")
    /\ files' = [files EXCEPT ![snapCount - 1] = archive]
    /\ archive' = NoCells
    /\ taken' = taken + 1
    /\ UNCHANGED <<tab, hashes, snapCount, pending, toRemove, proc, first, log, rangeLog, countVars>>

-----------------------------------------------------------------------------
(* Crash and restart                                                       *)

Crash ==
    /\ proc \in {"up", "restoring"}
    /\ crashes < MaxCrashes
    /\ crashes' = crashes + 1
    /\ proc' = "down"
    /\ snap' = "free" /\ archive' = NoCells
    /\ pending' = [w \in Writer |-> Idle]
    /\ toRemove' = <<>>
    /\ UNCHANGED <<tab, hashes, snapCount, first, taken, diskVars, writes>>

\* getLatestSnapshotVersion: the last of the first run of matching names, in
\* the order of readdir, which is any order.
LatestVersion(v) == v \in DOMAIN files

\* replay(v): the lines of rangeLog after SNAPSHOT v.
RestoredTable(v) ==
    LET marks == {i \in DOMAIN rangeLog : rangeLog[i] = SnapshotLine(v)}
        start == IF marks = {} THEN Len(rangeLog)
                               ELSE CHOOSE i \in marks : \A j \in marks : i <= j
    IN  ReplayAll(files[v], SubSeq(rangeLog, start + 1, Len(rangeLog)))

\* Mutant of Restore: the exception for an incomplete file is swallowed.
Restore_Torn ==
    /\ proc = "down"
    /\ \E v \in DOMAIN files :
         /\ LatestVersion(v)
         /\ tab' = RestoredTable(v)
         /\ toRemove' = <<v, v - 1, v - 2, v - 3>>
    /\ hashes' = {}
    /\ snapCount' \in Garbage
    /\ proc' = "restoring"
    /\ first' = FALSE
    /\ taken' = 0
    /\ UNCHANGED <<pending, snap, archive, diskVars, countVars>>

\* restore() up to its last loop.  Nobody writes rangeLog, so nothing is
\* replayed, and nothing logged by replaying.
Restore ==
    /\ proc = "down"
    /\ \E v \in DOMAIN files :
         /\ LatestVersion(v)
         /\ files[v] # Torn
         /\ tab' = RestoredTable(v)
         /\ toRemove' = <<v, v - 1, v - 2, v - 3>>
    /\ hashes' = {}
    /\ snapCount' \in Garbage
    /\ proc' = "restoring"
    /\ first' = FALSE
    /\ taken' = 0
    /\ UNCHANGED <<pending, snap, archive, diskVars, countVars>>

\* The process dies when there is no file (keep is read uninitialized), when
\* the file is torn, and when the unterminated buffer happens to go on with
\* another digit, which names no file (text_iarchive throws).
RestoreFails ==
    /\ proc = "down"
    /\ \/ DOMAIN files = {}
       \/ \E v \in DOMAIN files : LatestVersion(v) /\ files[v] = Torn
       \/ \E v \in DOMAIN files, digit \in 0..9 : 10 * v + digit \notin DOMAIN files
    /\ proc' = "failed"
    /\ UNCHANGED <<tab, hashes, snapCount, pending, snap, archive, toRemove, first, taken, diskVars, countVars>>

\* The master notices and tries again.
Retry ==
    /\ proc = "failed"
    /\ proc' = "down"
    /\ UNCHANGED <<tab, hashes, snapCount, pending, snap, archive, toRemove, first, taken, diskVars, countVars>>

\* One iteration of the loop that removes the version restored and three more.
RemoveOld ==
    /\ proc = "restoring"
    /\ toRemove # <<>>
    /\ files' = [v \in DOMAIN files \ {Head(toRemove)} |-> files[v]]
    /\ toRemove' = Tail(toRemove)
    /\ UNCHANGED <<tab, hashes, snapCount, pending, snap, archive, procVars, log, rangeLog, countVars>>

Restored ==
    /\ proc = "restoring"
    /\ toRemove = <<>>
    /\ proc' = "up"
    /\ UNCHANGED <<tab, hashes, snapCount, pending, snap, archive, toRemove, first, taken, diskVars, countVars>>

-----------------------------------------------------------------------------
Next ==
    \/ \E w \in Writer :
         \/ \E h \in Hash, k \in Key :
              \/ \E b \in Blob : Check(w, h, PutLine(k, b))
              \/ Check(w, h, DelLine(k))
         \/ Apply(w)
    \/ Get
    \/ SnapOpen \/ SnapTruncate \/ SnapLog \/ SnapRemove \/ SnapClose
    \/ Crash \/ Restore \/ RestoreFails \/ Retry \/ RemoveOld \/ Restored

Spec == Init /\ [][Next]_vars

-----------------------------------------------------------------------------
(* Properties *)

\* The checkpoint the log continues: the one its last SNAPSHOT line names.
Base ==
    LET marks == {i \in DOMAIN log : log[i].op = "SNAPSHOT"}
    IN  IF marks = {} THEN NoCells
        ELSE files[log[CHOOSE i \in marks : \A j \in marks : i >= j].version]

\* While no checkpoint is being taken, the checkpoint named in the log and the
\* lines after it give the table: truncating the log loses no write.  (Not so
\* in a restarted process before its first checkpoint: restore() removes the
\* files and keeps the log.)
LogCovers ==
    proc = "up" /\ snap = "free" /\ (first \/ taken > 0) => ReplayAll(Base, log) = tab

\* Once a process has completed a checkpoint, a crash at any moment, also in
\* the middle of snapshot(), finds a complete one on the disk.
CheckpointSurvives ==
    proc \in {"up", "down"} /\ taken > 0 => \E v \in DOMAIN files : files[v] # Torn

\* The third last checkpoint goes when a new one is written: a server that was
\* never restarted keeps the last three at most, if its count of them started
\* at 0 or above (snapshot(), tablet.cc:168-173).
FewFiles ==
    snapCount - taken >= 0 /\ first /\ snap = "free" /\ proc = "up" =>
        DOMAIN files \subseteq (snapCount - 3)..(snapCount - 1)

\* restore() brings back the table the process had when it crashed.
RestoresState == [][Restore => tab' = tab]_vars

=============================================================================
