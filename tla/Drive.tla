------------------------------- MODULE Drive -------------------------------
(***************************************************************************)
(* The drive server (main.cpp, User.cpp): one process, one connection from *)
(* a frontend, one command at a time.  Listings are files of the server,   *)
(* the contents of uploaded files are cells of the key-value store.  Every *)
(* handler that edits a listing reads it, truncates it and writes it again.*)
(* The process may be killed, interrupted (SIGINT) and started again.      *)
(***************************************************************************)
EXTENDS DriveListing, FiniteSets

CONSTANTS User,
          Absent,                   \* no file, no user, no command
          Request,                  \* the commands that users give
          MaxCommands, MaxStarts    \* bounds of the model


\* What frontend/http4.cc sends.  The path, and the new path of a move, need
\* not be those of folders the user (still) has: pages are old, paths are typed.
Command ==
    [op : {"Contents"}, user : User, path : Path]
    \cup [op : {"Upload", "Download", "DeleteFile"}, user : User, path : Path, name : File]
    \cup [op : {"MoveFile"}, user : User, path : Path, newpath : Path, name : File]
    \cup [op : {"AddFolder", "DeleteFolder"}, user : User, name : Folder,
          path : {p \in Path : Len(p) < MaxDepth}]
    \cup [op : {"MoveFolder"}, user : User]

\* Absent is no user, command, listing or tree.
ASSUME DriveAssumption ==
    /\ Absent \notin User \cup Command \cup Seq(Line)
    /\ \A P \in SUBSET Path : Absent \notin [P -> SUBSET Name]
    /\ File \cap Folder = {}
    /\ MaxDepth \in Nat /\ MaxCommands \in Nat /\ MaxStarts \in Nat

ASSUME RequestAssumption == Request \subseteq Command

\* commands[] of main.cpp, with the length of each: "#Upload#" and so on.
Commands == <<"Upload", "Download", "Contents", "AddFolder", "MoveFile", "DeleteFolder", "DeleteFile">>
Sizes    == <<8, 10, 10, 11, 10, 14, 12>>

VARIABLES
    disk,           \* disk[u]: the listing file of u, or Absent
    cells,          \* the files in the store: <<user, path, name>>
    listOfUsers, count, current,    \* of main(); current is currentClient.userName
    pc,             \* where the process is; "off" when there is none
    command,        \* the command being carried out
    filecontents,   \* the lines a handler read before it truncated the file
    answer,         \* the answer to a Contents, until the next command
    received, starts,               \* so far (bound the model)
    moved           \* history: files whose entry a move has written

memVars == <<listOfUsers, count, current>>
vars == <<disk, cells, memVars, pc, command, filecontents, answer, received, starts, moved>>

TypeOK ==
    /\ disk \in [User -> Seq(Line) \cup {Absent}]
    /\ cells \subseteq User \X Path \X File /\ moved \subseteq User \X Path \X File
    /\ listOfUsers \in Seq(User) /\ count \in Nat
    /\ current \in User \cup {Absent}
    /\ pc \in {"ready", "contents", "put", "get", "edit", "write", "hung", "off"}
    /\ command \in Command \cup {Absent}
    /\ command # Absent <=> pc \in {"contents", "put", "get", "edit", "write"}
    /\ command # Absent => current # Absent
    /\ filecontents \in Seq(Line) /\ (pc # "write" => filecontents = <<>>)
    /\ answer = Absent \/ answer \in [user : User, path : Path, names : SUBSET Name]
    /\ received \in 0..MaxCommands /\ starts \in 0..MaxStarts

Init ==
    /\ disk = [u \in User |-> Absent] /\ cells = {}
    /\ listOfUsers = <<>> /\ count = 0 /\ current = Absent
    /\ pc = "ready" /\ command = Absent /\ filecontents = <<>>
    /\ answer = Absent /\ received = 0 /\ starts = 0 /\ moved = {}
-----------------------------------------------------------------------------
(* main(): the next command.                                               *)

\* The server counts the known users that are not the user of the command.  If
\* all are others, he is new: he becomes the current user, and is given a
\* listing unless there is one.  Otherwise count keeps its value and the current
\* user stays, even if he is somebody else.
SelectUser(u) ==
    LET counted == count + Cardinality({i \in DOMAIN listOfUsers : listOfUsers[i] # u})
    IN  IF counted = Len(listOfUsers)
        THEN /\ listOfUsers' = Append(listOfUsers, u)
             /\ count' = 0 /\ current' = u
             /\ disk' = [disk EXCEPT ![u] = IF @ = Absent THEN NewListing ELSE @]
        ELSE count' = counted /\ UNCHANGED <<listOfUsers, current, disk>>

\* One read may return the command together with others, of children of the
\* frontend that share the connection; what follows the first is thrown away.
\* The length of its name is taken from the last of commands[] found anywhere in
\* the input: the name is cut wrongly if that has another length.
Garbled == {Commands[i] : i \in {m \in DOMAIN Commands :
                                    \E n \in DOMAIN Commands : n > m /\ Sizes[n] # Sizes[m]}}

Handler(op) == CASE op = "Contents" -> "contents"
                 [] op = "Upload"   -> "put"
                 [] op = "Download" -> "get"
                 [] OTHER           -> "edit"

\* The server reads a command, selects the user and asks the master for the
\* tablet server of his row.  What is no command (MoveFolder) ends the server; it
\* waits for ever for a master that does not answer.
Receive(c) ==
    /\ pc = "ready" /\ received < MaxCommands
    /\ received' = received + 1
    /\ SelectUser(c.user)
    /\ \/ c.op \in ToSet(Commands) /\ pc' = Handler(c.op) /\ command' = c
       \/ c.op \notin ToSet(Commands) \ Garbled /\ pc' = "off" /\ UNCHANGED command
       \/ pc' = "hung" /\ UNCHANGED command
    /\ answer' = Absent
    /\ UNCHANGED <<cells, filecontents, starts, moved>>

\* The frontend closes the connection: the loop reads nothing, for ever.
Disconnected ==
    /\ pc = "ready" /\ pc' = "hung"
    /\ UNCHANGED <<disk, cells, memVars, command, filecontents, answer, received, starts, moved>>
-----------------------------------------------------------------------------
(* The handlers of User.cpp, for currentClient.                            *)

Key == <<current, command.path, command.name>>

Done == pc' = "ready" /\ command' = Absent

Contents ==
    /\ pc = "contents" /\ Done
    /\ answer' = [user |-> current, path |-> command.path, names |-> Shown(disk[current], command.path)]
    /\ UNCHANGED <<disk, cells, memVars, filecontents, received, starts, moved>>

\* Mutant: any answer of the store is taken for +OK.
Put_AnyAnswer ==
    /\ pc = "put" /\ pc' = "edit"
    /\ cells' \in {cells, cells \cup {Key}}
    /\ UNCHANGED <<disk, memVars, command, filecontents, answer, received, starts, moved>>

\* handleUpload puts the file into the store before it edits the listing.
Put ==
    /\ pc = "put" /\ pc' = "edit"
    /\ cells' = cells \cup {Key}
    /\ UNCHANGED <<disk, memVars, command, filecontents, answer, received, starts, moved>>

\* handleDownload asks the store; the listing plays no part.
Download ==
    /\ pc = "get" /\ Key \in cells /\ Done
    /\ UNCHANGED <<disk, cells, memVars, filecontents, answer, received, starts, moved>>

\* The store answers -ERR (to a get, if there is no such cell), is not heard of
\* again, or cannot be reached.  Only the last is noticed, and ends the server.
\* A put that is not answered with +OK may have been done.
StoreFails ==
    /\ \/ pc \in {"put", "get"}
       \/ pc = "edit" /\ command.op = "DeleteFolder"
    /\ \/ pc' = "hung" /\ cells' \in {cells, cells \cup (IF pc = "put" THEN {Key} ELSE {})}
       \/ pc' = "off" /\ UNCHANGED cells
    /\ command' = Absent
    /\ UNCHANGED <<disk, memVars, filecontents, answer, received, starts, moved>>

Truncate ==
    /\ pc = "edit" /\ pc' = "write"
    /\ filecontents' = disk[current]
    /\ disk' = [disk EXCEPT ![current] = <<>>]
    /\ UNCHANGED <<cells, memVars, command, answer, received, starts, moved>>

Edited(lines, c) ==
    CASE c.op = "Upload"       -> WithEntry(lines, c.path, c.name)
      [] c.op = "AddFolder"    -> WithFolder(lines, c.path, c.name)
      [] c.op = "MoveFile"     -> Moved(lines, c.path, c.newpath, c.name)
      [] c.op = "DeleteFolder" -> WithoutFolder(lines, c.path, c.name)
      [] c.op = "DeleteFile"   -> WithoutEntry(lines, c.path, c.name)

\* Mutant: the lines read are kept for the next command.
Write_KeepsLines ==
    /\ pc = "write" /\ Done
    /\ disk' = [disk EXCEPT ![current] = Edited(filecontents, command)]
    /\ UNCHANGED <<filecontents, cells, memVars, answer, received, starts, moved>>

\* The stream of the handler is closed: a listing that fits its buffer is
\* written at once.
Write ==
    /\ pc = "write" /\ Done
    /\ disk' = [disk EXCEPT ![current] = Edited(filecontents, command)]
    /\ filecontents' = <<>>
    /\ moved' = CASE command.op = "MoveFile" -> moved \cup {<<current, command.newpath, command.name>>}
                  [] command.op = "Upload"   -> moved \ {Key}
                  [] OTHER                   -> moved
    /\ UNCHANGED <<cells, memVars, answer, received, starts>>
-----------------------------------------------------------------------------
(* The end of the process, and the next one.                               *)

Dies == pc' = "off" /\ command' = Absent /\ filecontents' = <<>>

Crash ==
    /\ pc # "off" /\ Dies
    /\ UNCHANGED <<disk, cells, memVars, answer, received, starts, moved>>

\* my_handler opens the listings of the known users for writing, one after the
\* other, and writes nothing; it ends, or gives up, with the first n of them.
Interrupt(n) ==
    /\ pc # "off" /\ Dies
    /\ n \in 1..Len(listOfUsers)
    /\ disk' = [u \in User |-> IF \E i \in 1..n : listOfUsers[i] = u THEN <<>> ELSE disk[u]]
    /\ UNCHANGED <<cells, memVars, answer, received, starts, moved>>

Start ==
    /\ pc = "off" /\ pc' = "ready" /\ starts < MaxStarts
    /\ starts' = starts + 1
    /\ listOfUsers' = <<>> /\ count' = 0 /\ current' = Absent
    /\ UNCHANGED <<disk, cells, command, filecontents, answer, received, moved>>

Next ==
    \/ \E c \in Request : Receive(c)
    \/ Disconnected
    \/ Contents \/ Put \/ Download \/ StoreFails \/ Truncate \/ Write
    \/ Crash \/ \E n \in 1..Len(listOfUsers) : Interrupt(n)
    \/ Start

Spec == Init /\ [][Next]_vars
-----------------------------------------------------------------------------
\* The listing of a user, that a handler has in memory while it writes it.
Listing(u) == IF pc = "write" /\ u = current THEN filecontents ELSE disk[u]

Listed(u) == IF Listing(u) = Absent THEN <<>> ELSE Listing(u)

\* Whatever the order of commands, crashes and interrupts, no handler leaves a
\* listing whose sections overlap or lack their end, and every folder that a
\* listing names has a section, so that it can be opened.
Openable ==
    \A u \in User :
        /\ WellFormed(Listed(u))
        /\ \A p \in Folders(Listed(u)) : \A d \in Folder \cap NamesIn(Listed(u), p) :
               Append(p, d) \in Folders(Listed(u))

\* A file in a listing can be downloaded, because it was put into the store
\* before it was listed, unless its entry was written by a move.
ListedStored ==
    \A u \in User : \A p \in Folders(Listed(u)) : \A f \in File \cap NamesIn(Listed(u), p) :
        <<u, p, f>> \in cells \cup moved

\* The listings keep a tree of folders: an edit of the lines does to the tree
\* what the command says, wherever a folder has several sections, and Contents
\* shows all that is in a folder.
TreeImpl == INSTANCE DriveTree WITH
                tree <- [u \in User |-> IF Listing(u) = Absent THEN Absent ELSE Tree(Listing(u))],
                request <- IF command = Absent THEN Absent ELSE [command EXCEPT !.user = current],
                shown <- answer
KeepsTree == TreeImpl!Spec
=============================================================================
