----------------------------- MODULE DriveTree -----------------------------
(***************************************************************************)
(* What the drive does for its users, whatever the form of the listings:   *)
(* it keeps a tree of folders per user, a function from the paths of       *)
(* folders to the names in them, and serves one request at a time.         *)
(***************************************************************************)
EXTENDS Sequences

CONSTANTS User, Absent

VARIABLES tree,     \* tree[u]: Absent, or the names in each of u's folders
          request,  \* the request being served, or Absent
          shown     \* the names shown to a user who asked, until the next request

NewTree   == [p \in {<<>>} |-> {}]
EmptyTree == [p \in {} |-> {}]

\* Requests about a folder that is not there change nothing.
With(t, p, n) == [r \in DOMAIN t |-> IF r = p THEN t[r] \cup {n} ELSE t[r]]
Without(t, p, n) == [r \in DOMAIN t |-> IF r = p THEN t[r] \ {n} ELSE t[r]]

\* A new folder is empty; one that is there already keeps its names.
WithFolder(t, p, d) ==
    IF p \notin DOMAIN t THEN t
    ELSE LET pd == Append(p, d)
             t1 == With(t, p, d)
         IN  [r \in DOMAIN t \cup {pd} |-> IF r \in DOMAIN t THEN t1[r] ELSE {}]

\* The folders below the deleted one stay, unreachable until it is added again.
WithoutFolder(t, p, d) ==
    LET t1 == Without(t, p, d) IN [r \in DOMAIN t \ {Append(p, d)} |-> t1[r]]

\* A file moved to where there is no folder, or to the folder it is in, is lost;
\* one that is not where it is moved from is made up.
Moved(t, p, q, f) == IF q = p THEN Without(t, p, f) ELSE With(Without(t, p, f), q, f)

\* What a request makes of the tree of its user, and what it shows of it.
Edited(t, r) ==
    CASE r.op = "Upload"       -> With(t, r.path, r.name)
      [] r.op = "AddFolder"    -> WithFolder(t, r.path, r.name)
      [] r.op = "MoveFile"     -> Moved(t, r.path, r.newpath, r.name)
      [] r.op = "DeleteFolder" -> WithoutFolder(t, r.path, r.name)
      [] r.op = "DeleteFile"   -> Without(t, r.path, r.name)
      [] OTHER                 -> t

Names(t, p) == IF p \in DOMAIN t THEN t[p] ELSE {}
-----------------------------------------------------------------------------
Init == /\ tree = [u \in User |-> Absent]
        /\ request = Absent /\ shown = Absent

\* A request comes in.  The first of a user gives him a folder, even if it is
\* then not understood.
Ask == /\ request = Absent /\ shown' = Absent
       /\ \/ UNCHANGED tree
          \/ \E u \in User : tree[u] = Absent /\ tree' = [tree EXCEPT ![u] = NewTree]
       /\ request' # Absent => tree'[request'.user] # Absent

Serve == /\ request # Absent /\ request' = Absent
         /\ LET u == request.user
            IN  /\ tree' = [tree EXCEPT ![u] = Edited(@, request)]
                /\ shown' = IF request.op # "Contents" THEN shown
                            ELSE [user |-> u, path |-> request.path, names |-> Names(tree[u], request.path)]

\* A server that fails gives up its request; it may take trees with it.
Fail == /\ request' = Absent /\ UNCHANGED shown
        /\ \A u \in User : tree'[u] \in {tree[u], EmptyTree}
        /\ DOMAIN tree' = User

Next == Ask \/ Serve \/ Fail

Spec == Init /\ [][Next]_<<tree, request, shown>>
=============================================================================
