--------------------------- MODULE DriveListing ---------------------------
(***************************************************************************)
(* The listing file of a drive user, <user>listOfFolders.txt, and what the *)
(* handlers of User.cpp make of it.  The file is a sequence of lines: the  *)
(* path of a folder, the names in that folder, "###", the path of the next *)
(* folder, and so on.  Every handler copies the file line by line, and     *)
(* keeps flags that tell which section it is in.                           *)
(***************************************************************************)
EXTENDS Integers, SequencesExt

CONSTANTS File, Folder,     \* names of files; names of folders ("abc/")
          MaxDepth          \* bound of the model: folders in a path

Name == File \cup Folder
Path == BoundedSeq(Folder, MaxDepth)    \* <<"abc/", "def/">> is /root/abc/def/
Root == <<>>

Section(p) == [is |-> "section", path |-> p]
Entry(n)   == [is |-> "entry", name |-> n]
End        == [is |-> "end"]                    \* "###"
Line == [is : {"section"}, path : Path] \cup [is : {"entry"}, name : Name] \cup {End}

\* What main.cpp writes for a user who has no listing yet.
NewListing == <<Section(Root), End>>

\* The flag of folder p is up at line i: its section began and has not ended.
Inside(lines, i, p) ==
    \E j \in 1..(i - 1) : /\ lines[j] = Section(p)
                          /\ End \notin {lines[m] : m \in (j + 1)..(i - 1)}

\* Every section of p is given the name n as its first entry.
WithEntry(lines, p, n) ==
    FlattenSeq([i \in DOMAIN lines |->
        IF lines[i] = Section(p) THEN <<lines[i], Entry(n)>> ELSE <<lines[i]>>])

\* AddFolder: moreover a section of p/d is inserted behind every section of p.
WithFolder(lines, p, d) ==
    FlattenSeq([i \in DOMAIN lines |->
        IF lines[i] = Section(p) THEN <<lines[i], Entry(d)>>
        ELSE IF lines[i] = End /\ Inside(lines, i, p)
             THEN <<End, Section(Append(p, d)), End>>
             ELSE <<lines[i]>>])

\* DeleteFile: the sections of p lose the entry f.
WithoutEntry(lines, p, f) ==
    FlattenSeq([i \in DOMAIN lines |->
        IF lines[i] = Entry(f) /\ Inside(lines, i, p) THEN <<>> ELSE <<lines[i]>>])

\* Mutant: the entry in the sections of p is forgotten.
WithoutFolder_Entry(lines, p, d) ==
    LET pd == Append(p, d)
    IN  FlattenSeq([i \in DOMAIN lines |->
            IF lines[i] = Section(pd) \/ Inside(lines, i, pd) THEN <<>> ELSE <<lines[i]>>])

\* DeleteFolder: the sections of p lose the entry d, those of p/d are left out.
\* Sections below p/d stay.
WithoutFolder(lines, p, d) ==
    LET pd == Append(p, d)
    IN  FlattenSeq([i \in DOMAIN lines |->
            IF \/ lines[i] = Entry(d) /\ Inside(lines, i, p)
               \/ lines[i] = Section(pd)
               \/ Inside(lines, i, pd)
            THEN <<>> ELSE <<lines[i]>>])

\* MoveFile: the entry f leaves the sections of p; if q is another folder, f is
\* written in front of the line that follows each section head of q, whether or
\* not there was an entry f to move.
Moved(lines, p, q, f) ==
    FlattenSeq([i \in DOMAIN lines |->
        IF lines[i] = Entry(f) /\ Inside(lines, i, p) THEN <<>>
        ELSE IF i > 1 /\ lines[i - 1] = Section(q) /\ q # p
             THEN <<Entry(f), lines[i]>>
             ELSE <<lines[i]>>])

\* Mutant: the first section of p is shown.
Shown_First(lines, p) ==
    LET heads == {i \in DOMAIN lines : lines[i] = Section(p)}
        first == CHOOSE i \in heads : \A j \in heads : i <= j
    IN  IF heads = {} THEN {}
        ELSE {n \in Name : \E i \in DOMAIN lines :
                  /\ i > first /\ lines[i] = Entry(n)
                  /\ End \notin {lines[m] : m \in first..i}}

\* Contents: the names in the last section of p, or none.
Shown(lines, p) ==
    LET heads == {i \in DOMAIN lines : lines[i] = Section(p)}
        last  == CHOOSE i \in heads : \A j \in heads : j <= i
    IN  IF heads = {} THEN {}
        ELSE {n \in Name : \E i \in DOMAIN lines : /\ i > last
                                                   /\ lines[i] = Entry(n)
                                                   /\ Inside(lines, i, p)}
-----------------------------------------------------------------------------
(* What a listing stands for.                                              *)

Folders(lines) == {lines[i].path : i \in {j \in DOMAIN lines : lines[j].is = "section"}}

NamesIn(lines, p) == {n \in Name : \E i \in DOMAIN lines : lines[i] = Entry(n) /\ Inside(lines, i, p)}

Tree(lines) == [p \in Folders(lines) |-> NamesIn(lines, p)]

\* The file is a sequence of sections, each ended before the next one begins.
WellFormed(lines) ==
    /\ lines # <<>> => lines[1].is = "section" /\ lines[Len(lines)] = End
    /\ \A i \in 2..Len(lines) : lines[i].is = "section" <=> lines[i - 1] = End
=============================================================================
