------------------------------- MODULE Pages -------------------------------
(***************************************************************************)
(* The pages of mail and drive (http4.cc).  A frontend opens one           *)
(* connection to the mail server and one to the drive when it starts, and  *)
(* all its children inherit them: commands of several children are in one  *)
(* stream, and an answer goes to whichever child reads first.  The servers *)
(* at the other ends are external here (MailServer, Drive): each takes what*)
(* has come as one command.                                                *)
(***************************************************************************)
EXTENDS WebBase

Server == {"mail", "drive"}

VARIABLES
    up, down,   \* per frontend and server: commands and answers nobody has read
    shown,      \* what the page of a child was made of
    accepted,   \* the frontends whose connection the drive has accepted
    drive,      \* the drive reads "command"s or the "data" of a file, or is "gone"
    overlap     \* history: connections with two requests on them at once

pageVars == <<up, down, shown, accepted, drive, overlap>>

Written == [from : Child, what : {"command", "data"}]
Answer == [to : Child, what : {"answer", "rest"}]   \* all of an answer, or its end

PagesTypeOK ==
    /\ \A p \in Port, s \in Server :
         /\ up[p][s] \in Seq(Written)
         /\ down[p][s] \in Seq(Answer)
    /\ \A c \in Child : shown[c] \in Seq(Answer)
    /\ accepted \subseteq Port /\ Cardinality(accepted) <= 1
    /\ drive \in {"command", "data", "gone"}
    /\ overlap \subseteq Port \X Server

PagesInit ==
    /\ up = [p \in Port |-> [s \in Server |-> <<>>]]
    /\ down = [p \in Port |-> [s \in Server |-> <<>>]]
    /\ shown = [c \in Child |-> <<>>]
    /\ accepted = {} /\ drive = "command"
    /\ overlap = {}

-----------------------------------------------------------------------------
(* Writing and reading on a shared connection                              *)

ServerOf(c) == IF req[c].page \in MailPage THEN "mail" ELSE "drive"

\* The children of frontend p that have written to s and not read the answer.
Waiting(p, s) == {c \in Child : c[1] = p /\ pc[c] = "asked" /\ ServerOf(c) = s}

Ask(c, s) ==
    /\ up' = [up EXCEPT ![c[1]][s] = Append(@, [from |-> c, what |-> "command"])]
    /\ overlap' = IF Waiting(c[1], s) = {} THEN overlap ELSE overlap \cup {<<c[1], s>>}
    /\ UNCHANGED <<down, shown, accepted, drive>>

\* The user name is the value of the cookie, and a null pointer without one.
\* A connection whose other end is gone takes one write; the next one kills
\* the child (SIGPIPE).
Send(c, page) ==
    /\ At(c, {page}, "start")
    /\ LET s == ServerOf(c)
           gone == s = "drive" /\ drive = "gone"
       IN \/ req[c].cookie /\ ~gone /\ Ask(c, s) /\ GoTo(c, "asked")
          \/ /\ gone /\ req[c].cookie
             /\ \E to \in {"asked", "crashed"} : GoTo(c, to)
             /\ UNCHANGED pageVars
          \/ ~req[c].cookie /\ GoTo(c, "crashed") /\ UNCHANGED pageVars

There(c) == down[c[1]][ServerOf(c)]

\* What may be left of the answers ds by a read of limited size.
Remains(ds) ==
    {<<>>} \cup {<<[ds[i] EXCEPT !.what = "rest"]>> \o SubSeq(ds, i + 1, Len(ds)) :
                   i \in DOMAIN ds}

\* Mutant of Read: the buffer may be too short for the answer.
Read_Part(c, page, left, to) ==
    /\ At(c, {page}, "asked")
    /\ There(c) # <<>> \/ drive = "gone"
    /\ \E rest \in Remains(There(c)) : down' = [down EXCEPT ![c[1]][ServerOf(c)] = rest]
    /\ shown' = [shown EXCEPT ![c] = There(c)]
    /\ GoTo(c, to)
    /\ UNCHANGED <<up, accepted, drive, overlap>>

\* The child reads what is there, or the end of a stream that is closed, and
\* goes on with its page.
Read(c, page, left, to) ==
    /\ At(c, {page}, "asked")
    /\ There(c) # <<>> \/ (ServerOf(c) = "drive" /\ drive = "gone")
    /\ down' = [down EXCEPT ![c[1]][ServerOf(c)] = left]
    /\ shown' = [shown EXCEPT ![c] = There(c)]
    /\ GoTo(c, to)
    /\ UNCHANGED <<up, accepted, drive, overlap>>

IsOf(a, page) == a.what = "answer" /\ req[a.to].page = page

-----------------------------------------------------------------------------
(* No server is asked                                                      *)

form(c) == At(c, {"form"}, "start") /\ GoTo(c, "done") /\ UNCHANGED pageVars

file(c) == At(c, {"file"}, "start") /\ GoTo(c, "done") /\ UNCHANGED pageVars

(* Mail *)

mail(c)     == Send(c, "mail")     \/ Read(c, "mail", <<>>, "done")
inbox(c)    == Send(c, "inbox")    \/ Read(c, "inbox", <<>>, "done")
viewmail(c) == Send(c, "viewmail") \/ Read(c, "viewmail", <<>>, "done")
sentbox(c)  == Send(c, "sentbox")  \/ Read(c, "sentbox", <<>>, "done")

\* Mutant of newmail: the page does not need the answer, and leaves it unread.
newmail_Unread(c) ==
    \/ Send(c, "newmail")
    \/ At(c, {"newmail"}, "asked") /\ GoTo(c, "done") /\ UNCHANGED pageVars

newmail(c) == Send(c, "newmail") \/ Read(c, "newmail", <<>>, "done")

(* Drive *)

createfolder(c) == Send(c, "createfolder") \/ Read(c, "createfolder", <<>>, "done")
deletefolder(c) == Send(c, "deletefolder") \/ Read(c, "deletefolder", <<>>, "done")
deletefile(c)   == Send(c, "deletefile")   \/ Read(c, "deletefile", <<>>, "done")
movefolder(c)   == Send(c, "movefolder")   \/ Read(c, "movefolder", <<>>, "done")

\* 15 bytes are read, and "#MoveComplete#\r\n" has 16.
movefile(c) ==
    \/ Send(c, "movefile")
    \/ \E left \in Remains(There(c)) :
         /\ left = <<>> => \A i \in DOMAIN There(c) : ~IsOf(There(c)[i], "movefile")
         /\ Read(c, "movefile", left, "done")

\* 100 bytes are read.  Without a listing among them the page is made of a
\* null pointer.
viewfolder(c) ==
    \/ Send(c, "viewfolder")
    \/ LET found == \E i \in DOMAIN There(c) : IsOf(There(c)[i], "viewfolder")
       IN \E left \in Remains(There(c)) :
            Read(c, "viewfolder", left, IF found THEN "done" ELSE "crashed")

\* The child ends with the answer unread if it cannot open the file, and it
\* reads only once.
downloadfile(c) ==
    \/ Send(c, "downloadfile")
    \/ \E left \in Remains(There(c)) : Read(c, "downloadfile", left, "done")
    \/ /\ At(c, {"downloadfile"}, "asked")
       /\ GoTo(c, "crashed") /\ UNCHANGED pageVars

\* Once the drive agrees the file and "<EOB>" are written, and no answer is
\* awaited; the child ends at once if it cannot open the file.
fileupload(c) ==
    \/ Send(c, "fileupload")
    \/ /\ At(c, {"fileupload"}, "asked")
       /\ There(c) # <<>> \/ drive = "gone"
       /\ down' = [down EXCEPT ![c[1]]["drive"] = <<>>]
       /\ shown' = [shown EXCEPT ![c] = There(c)]
       /\ \/ GoTo(c, "crashed") /\ UNCHANGED up
          \/ drive = "gone" /\ GoTo(c, "done") /\ UNCHANGED up
          \/ /\ drive # "gone" /\ GoTo(c, "done")
             /\ up' = [up EXCEPT ![c[1]]["drive"] = Append(@, [from |-> c, what |-> "data"])]
       /\ UNCHANGED <<accepted, drive, overlap>>

Page(c) ==
    \/ form(c) \/ file(c)
    \/ mail(c) \/ inbox(c) \/ viewmail(c) \/ sentbox(c) \/ newmail(c)
    \/ viewfolder(c) \/ createfolder(c) \/ deletefolder(c) \/ deletefile(c)
    \/ movefile(c) \/ movefolder(c) \/ downloadfile(c) \/ fileupload(c)

-----------------------------------------------------------------------------
(* The servers                                                             *)

Reply(p, s) == down' = [down EXCEPT ![p][s] = Append(@, [to |-> up[p][s][1].from, what |-> "answer"])]
TakeAll(p, s) == up' = [up EXCEPT ![p][s] = <<>>]

\* A thread of the mail server reads all there is as one line.
MailAnswers(p) ==
    /\ up[p]["mail"] # <<>>
    /\ Reply(p, "mail") /\ TakeAll(p, "mail")
    /\ UNCHANGED <<shown, accepted, drive, overlap, frontVars>>

\* The drive works for the first connection until it ends.
DriveAccepts(p) ==
    /\ accepted = {} /\ parent[p] # "none" /\ drive # "gone"
    /\ accepted' = {p}
    /\ UNCHANGED <<up, down, shown, drive, overlap, frontVars>>

\* The names in the order in which main.cpp looks for them; the last one found
\* says how many characters the command has.
Commands == <<"fileupload", "downloadfile", "viewfolder", "createfolder", "movefile",
              "deletefolder", "deletefile">>
NameLength == [fileupload |-> 8, downloadfile |-> 10, viewfolder |-> 10,
               createfolder |-> 11, movefile |-> 10, deletefolder |-> 14, deletefile |-> 12]

\* The command at the head of what was read has a known name and is cut after it.
Understood(ws) ==
    LET pages == {req[ws[i].from].page : i \in {j \in DOMAIN ws : ws[j].what = "command"}}
        known == {i \in DOMAIN Commands : Commands[i] \in pages}
        first == req[ws[1].from].page
    IN /\ ws[1].what = "command" /\ first \in Range(Commands)
       /\ \E i \in known : /\ \A j \in known : j <= i
                           /\ NameLength[first] = NameLength[Commands[i]]

\* handleUpload reads to "<EOB>" and drops what follows it; otherwise the
\* drive reads until a command is complete, and ends on one it does not know.
DriveReads(p) ==
    LET ws == up[p]["drive"]
        has(what) == \E i \in DOMAIN ws : ws[i].what = what
    IN /\ p \in accepted
       /\ TakeAll(p, "drive")
       /\ UNCHANGED <<shown, accepted, overlap, frontVars>>
       /\ \/ /\ drive = "data" /\ ws # <<>>
             /\ drive' = IF has("data") THEN "command" ELSE "data"
             /\ UNCHANGED down
          \/ /\ drive = "command" /\ has("command") /\ Understood(ws)
             /\ drive' = IF req[ws[1].from].page = "fileupload" THEN "data" ELSE "command"
             /\ Reply(p, "drive")
          \/ /\ drive = "command" /\ has("command") /\ ~Understood(ws)
             /\ drive' = "gone" /\ UNCHANGED down

PageServers ==
    \E p \in Port : MailAnswers(p) \/ DriveAccepts(p) \/ DriveReads(p)

=============================================================================
