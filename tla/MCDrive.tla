------------------------------ MODULE MCDrive ------------------------------
(* An instance of Drive for TLC: one user who gives all commands, another   *)
(* who comes in between; one folder name, one file name, two levels.        *)
EXTENDS Drive, TLC

CONSTANTS u1, u2

\* The deepest folder is filled, shown and deleted; moves and deletions of
\* files are above it.
MCRequest ==
    {c \in Command :
        \/ c.user = u2 /\ c.op = "Upload" /\ c.path = Root
        \/ /\ c.user = u1
           /\ c.op = "Download" => c.path = Root
           /\ c.op = "DeleteFile" => Len(c.path) < 2
           /\ c.op = "MoveFile" => Len(c.path) + Len(c.newpath) < 2}

=============================================================================
