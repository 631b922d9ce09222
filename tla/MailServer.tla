----------------------------- MODULE MailServer -----------------------------
(***************************************************************************)
(* The mail server (mailserver/master.cc): one process, one thread per     *)
(* connection of a frontend, each with one session at the store.  A user's *)
(* inbox and sent box are cells that list headers; the text of a mail is   *)
(* a cell of its own, <user, header>.  A list is read with get, put        *)
(* together in the thread and replaced with CPUT, so that the deliveries   *)
(* of two threads interleave at every command of the store.  What the store*)
(* does with a command is what ClientSession shows; a write may also have  *)
(* no effect there (refused, or dropped as one seen before, which          *)
(* the unsynchronized counter of the threads allows).                      *)
(***************************************************************************)
EXTENDS Naturals, FiniteSets, SequencesExt

CONSTANTS
    NumThreads,     \* threads, one per connection
    User, Header,
    Address,        \* what users write to: <<user, domain>>
    Mail,           \* the mails that are sent: <<sender, receiver, header>>
    Dotted,         \* the headers that begin with "."
    RangeMap,       \* how the users may be spread over the key ranges
    Absent,         \* there is no cell of that key
    MaxCommands,    \* commands of all connections (bounds the model)
    MaxLost         \* keys that lose a write (bounds the model)

Worker == 1..NumThreads
Folder == {"INBOX", "SENT"}
Key == User \X (Folder \cup Header)

\* What lists, texts and answers are made of.
CR == "\r"
LF == "\n"
Dot == "."

\* A header is a line of several words.  A cell that is there is a text.
ASSUME MailAssumption ==
    /\ User # {} /\ Header # {}
    /\ \A a \in Address : a[1] \in User
    /\ Mail \subseteq Address \X Address \X Header
    /\ Dotted \subseteq Header /\ Header \cap (Folder \cup {CR, LF, Dot}) = {}
    /\ Absent \notin User \cup Seq(User \cup Header \cup {CR, LF, Dot, "~"})
    /\ \A r \in RangeMap : DOMAIN r = User
    /\ MaxCommands \in Nat /\ MaxLost \in Nat

VARIABLES
    range,          \* the key range of each user (configured)
    tab,            \* the cells of the store
    user,           \* whose server the session of the thread is with (user, listen_fd2)
    cmd,            \* the command in work
    folder,         \* the box SEND_EMAIL is at
    old,            \* sent_emails, inbox_emails: the list as it was read
    pc, then,       \* where the thread is, and where change_user returns to
    current_folder, \* one for all threads
    exited,         \* the process is gone
    asked,          \* commands so far
    lost,           \* history: keys that lost a write
    contended,      \* history: boxes that two threads were changing at once
    found, acked    \* history: boxes SEND_EMAIL found; mails reported as sent

storeVars == <<range, tab, lost>>
vars == <<range, tab, user, cmd, folder, old, pc, then, current_folder, exited, asked,
          lost, contended, found, acked>>

Command ==
    [name : {"none", "user", "get_inbox", "get_sent", "get_email", "send_email", "quit"},
     user : User, to : User, header : Header]

NoCommand == CHOOSE c \in Command : c.name = "none"

Init ==
    /\ range \in RangeMap
    /\ tab = [k \in Key |-> Absent]
    /\ user = [w \in Worker |-> Absent]
    /\ cmd = [w \in Worker |-> NoCommand]
    /\ folder = [w \in Worker |-> "SENT"]
    /\ old = [w \in Worker |-> <<>>]
    /\ pc = [w \in Worker |-> "none"]
    /\ then = [w \in Worker |-> "ready"]
    /\ current_folder = "INBOX"
    /\ exited = FALSE /\ asked = 0
    /\ lost = {} /\ contended = {}
    /\ found = [w \in Worker |-> {}] /\ acked = {}

-----------------------------------------------------------------------------
(* Lists and answers                                                       *)

\* string_to_binary takes the text apart at '\n' and loses these;
\* binary_to_string writes "\r\n" for each '\r'.
string_to_binary(str) == FlattenSeq([i \in DOMAIN str |-> IF str[i] = LF THEN <<>> ELSE <<str[i]>>])
binary_to_string(b) == FlattenSeq([i \in DOMAIN b |-> IF b[i] = CR THEN <<CR, LF>> ELSE <<b[i]>>])

\* The session is with the server of one range, which has no other keys.
Served(w, u) == range[u] = range[user[w]]

Err == <<"-ERR">>

get(w, u, f) ==
    IF Served(w, u) /\ tab[<<u, f>>] # Absent
    THEN binary_to_string(tab[<<u, f>>]) \o <<CR, LF>>
    ELSE Err

\* Without the line end that get adds.
Popped(list) == SubSeq(list, 1, Len(list) - 2)

\* A list that begins with "." counts as empty.
StartsWithDot(list) == Head(list) \in Dotted \cup {Dot}

\* Mutant of NewList: the new header goes where the last one was.
NewList_Replaces(list, h) ==
    IF StartsWithDot(list) THEN <<h>> ELSE <<h, CR, LF>> \o Tail(Popped(list))

NewList(list, h) ==
    IF StartsWithDot(list) THEN <<h>> ELSE <<h, CR, LF>> \o Popped(list)

-----------------------------------------------------------------------------
(* The writes                                                              *)

\* A write has its effect, or none.
put(k, l) ==
    /\ \/ tab' = [tab EXCEPT ![k] = string_to_binary(l)] /\ lost' = lost
       \/ Cardinality(lost) < MaxLost /\ lost' = lost \cup {k} /\ tab' = tab
    /\ UNCHANGED range

At(w, from) ==
    /\ ~exited /\ pc[w] = from
    /\ UNCHANGED <<asked, exited>>

GoTo(w, to) == pc' = [pc EXCEPT ![w] = to]

\* The command is over, and nothing of it is used again.
Forget(w, to) ==
    /\ GoTo(w, to)
    /\ cmd' = [cmd EXCEPT ![w] = NoCommand]
    /\ folder' = [folder EXCEPT ![w] = "SENT"]
    /\ then' = [then EXCEPT ![w] = "ready"]
    /\ found' = [found EXCEPT ![w] = {}]

\* The answer has gone to the frontend.
Ready(w) == Forget(w, "ready")

\* The whole process ends, and every thread with it.
Exit ==
    /\ exited' = TRUE
    /\ pc' = [w \in Worker |-> "closed"]
    /\ cmd' = [w \in Worker |-> NoCommand]
    /\ folder' = [w \in Worker |-> "SENT"]
    /\ then' = [w \in Worker |-> "ready"]
    /\ found' = [w \in Worker |-> {}]
    /\ old' = [w \in Worker |-> <<>>]
    /\ user' = [w \in Worker |-> Absent]
    /\ UNCHANGED <<storeVars, current_folder, asked, acked>>

-----------------------------------------------------------------------------
(* Connections                                                             *)

\* main: threads start in the order of the connections; each gets the address
\* of an element of comm_fd, a vector that the next accept may move.
Accept(w) ==
    /\ ~exited /\ pc[w] = "none"
    /\ \A x \in 1..(w - 1) : pc[x] # "none"
    /\ pc' = [x \in Worker |-> IF x = w THEN "arg" ELSE IF pc[x] = "arg" THEN "dangling" ELSE pc[x]]
    /\ UNCHANGED <<storeVars, user, cmd, folder, old, then, current_folder, exited, asked, found, acked>>

\* worker: the first line names a user.
Intro(w, u) ==
    /\ At(w, "arg") \/ At(w, "dangling")
    /\ cmd' = [cmd EXCEPT ![w].name = "user", ![w].user = u]
    /\ then' = [then EXCEPT ![w] = "ready"]
    /\ GoTo(w, "probe")
    /\ UNCHANGED <<storeVars, user, folder, old, current_folder, found, acked>>

\* What it reads from memory that is no longer the vector is no descriptor;
\* then the line is empty and user.pop_back() undefined.
BadDescriptor(w) ==
    /\ ~exited /\ pc[w] = "dangling"
    /\ Exit

-----------------------------------------------------------------------------
(* change_user                                                             *)

Owner(w) == IF folder[w] = "SENT" THEN cmd[w].user ELSE cmd[w].to

\* if (user != u) { listen_fd2 = change_user(u); user = u; }, then on at t.
ForUser(w, u, t) ==
    IF user[w] = u
    THEN GoTo(w, t) /\ UNCHANGED then
    ELSE GoTo(w, "probe") /\ then' = [then EXCEPT ![w] = t]

Username(w) == IF then[w] = "cput" THEN Owner(w) ELSE cmd[w].user

\* The server that the master named does not answer: exit(1).
ConnectFails(w) ==
    /\ ~exited /\ pc[w] = "probe"
    /\ Exit

Return(w) ==
    /\ user' = [user EXCEPT ![w] = Username(w)]
    /\ IF then[w] = "ready" THEN Ready(w)
       ELSE /\ GoTo(w, then[w])
            /\ then' = [then EXCEPT ![w] = "ready"]
            /\ UNCHANGED <<cmd, folder, found>>

\* Mutant of Probe: it does not look at the answer of get.
Probe_Always(w) ==
    /\ At(w, "probe")
    /\ GoTo(w, "make_inbox")
    /\ UNCHANGED <<storeVars, user, cmd, folder, then, found, old, current_folder, acked>>

\* Query, connect, "yo", and get INBOX from the server of that user.
Probe(w) ==
    /\ At(w, "probe")
    /\ IF tab[<<Username(w), "INBOX">>] = Absent
       THEN GoTo(w, "make_inbox") /\ UNCHANGED <<user, cmd, folder, then, found>>
       ELSE Return(w)
    /\ UNCHANGED <<storeVars, old, current_folder, acked>>

MakeInbox(w) ==
    /\ At(w, "make_inbox")
    /\ put(<<Username(w), "INBOX">>, <<Dot>>)
    /\ GoTo(w, "make_sent")
    /\ UNCHANGED <<user, cmd, folder, old, then, current_folder, found, acked>>

\* Mutant of MakeSent: the second box is made only if the user is not logged in yet.
MakeSent_Skips(w) ==
    /\ At(w, "make_sent")
    /\ IF user[w] = Absent THEN put(<<Username(w), "SENT">>, <<Dot>>) ELSE UNCHANGED storeVars
    /\ Return(w)
    /\ UNCHANGED <<old, current_folder, acked>>

MakeSent(w) ==
    /\ At(w, "make_sent")
    /\ put(<<Username(w), "SENT">>, <<Dot>>)
    /\ Return(w)
    /\ UNCHANGED <<old, current_folder, acked>>

-----------------------------------------------------------------------------
(* The commands of the frontend                                            *)

Reads(w, c, name) ==
    /\ c.name = name
    /\ ~exited /\ pc[w] = "ready" /\ asked < MaxCommands
    /\ asked' = asked + 1
    /\ UNCHANGED <<storeVars, old, exited, acked>>

Take(w, c) == cmd' = [cmd EXCEPT ![w] = c] /\ UNCHANGED user

GetInbox(w, c) ==
    /\ Reads(w, c, "get_inbox") /\ Take(w, c)
    /\ current_folder' = "INBOX"
    /\ ForUser(w, c.user, "list")
    /\ UNCHANGED <<folder, found>>

GetSent(w, c) ==
    /\ Reads(w, c, "get_sent") /\ Take(w, c)
    /\ current_folder' = "SENT"
    /\ ForUser(w, c.user, "sent_list")
    /\ UNCHANGED <<folder, found>>

GetEmail(w, c) ==
    /\ Reads(w, c, "get_email") /\ Take(w, c)
    /\ ForUser(w, c.user, "mail")
    /\ UNCHANGED <<folder, current_folder, found>>

\* The name before the '@'; nobody looks at the domain.
get_username(a) == a[1]

SendEmail(w, m) ==
    /\ LET c == [name |-> "send_email", user |-> get_username(m[1]),
                 to |-> get_username(m[2]), header |-> m[3]]
       IN Reads(w, c, "send_email") /\ Take(w, c)
    /\ folder' = [folder EXCEPT ![w] = "SENT"]
    /\ found' = [found EXCEPT ![w] = {}]
    /\ GoTo(w, "file")
    /\ UNCHANGED <<then, current_folder>>

\* A line that is no command is a user name.
ChangeUser(w, c) ==
    /\ Reads(w, c, "user")
    /\ IF user[w] = c.user THEN Ready(w) /\ UNCHANGED user
       ELSE Take(w, c) /\ ForUser(w, c.user, "ready") /\ UNCHANGED <<folder, found>>
    /\ UNCHANGED current_folder

Quit(w, c) ==
    /\ Reads(w, c, "quit")
    /\ Forget(w, "closed")
    /\ user' = [user EXCEPT ![w] = Absent]
    /\ UNCHANGED current_folder

\* The answers: a list, a text.
AnswerSent(w) ==
    /\ At(w, "sent_list")
    /\ Ready(w)
    /\ UNCHANGED <<storeVars, user, old, current_folder, acked>>

AnswerList(w) ==
    /\ At(w, "list")
    /\ Ready(w)
    /\ UNCHANGED <<storeVars, user, old, current_folder, acked>>

AnswerEmail(w) ==
    /\ At(w, "mail")
    /\ Ready(w)
    /\ UNCHANGED <<storeVars, user, old, current_folder, acked>>

-----------------------------------------------------------------------------
(* SEND_EMAIL: into the sent box of the sender, then the inbox of the       *)
(* receiver.                                                               *)

Box(w) == <<Owner(w), folder[w]>>

\* After one box the other, after that the answer: "+OK Email Sent", whatever
\* became of it.
EmailSent(w) ==
    /\ acked' = acked \cup {<<IF f = "SENT" THEN cmd[w].user ELSE cmd[w].to, f, cmd[w].header>> :
                               f \in found[w]}
    /\ Ready(w)

NextBox(w) ==
    /\ old' = [old EXCEPT ![w] = <<>>]
    /\ \/ /\ folder[w] = "SENT"
          /\ folder' = [folder EXCEPT ![w] = "INBOX"] /\ GoTo(w, "file")
          /\ UNCHANGED <<cmd, then, found, acked>>
       \/ folder[w] = "INBOX" /\ EmailSent(w)

\* Is there a box, at the server of the session; then the session of its owner.
FileMail(w) ==
    /\ At(w, "file")
    /\ LET list == get(w, Owner(w), folder[w])
       IN IF list = Err
          THEN NextBox(w)
          ELSE /\ old' = [old EXCEPT ![w] = list]
               /\ found' = [found EXCEPT ![w] = @ \cup {folder[w]}]
               /\ ForUser(w, Owner(w), "cput")
               /\ UNCHANGED <<cmd, folder, acked>>
    /\ UNCHANGED <<storeVars, user, current_folder>>

\* Mutant of Cput: after a refusal it tries again with the same old value.
Cput_Retries(w) ==
    /\ At(w, "cput")
    /\ GoTo(w, IF tab[Box(w)] = string_to_binary(Popped(old[w])) THEN "newval" ELSE "cput")
    /\ UNCHANGED <<storeVars, user, cmd, folder, old, then, current_folder, found, acked>>

\* cput and oldval: the cell exists, for nothing deletes it, so the answer that
\* counts is the comparison's; refused or not, put follows.
Cput(w) ==
    /\ At(w, "cput")
    /\ GoTo(w, IF tab[Box(w)] = string_to_binary(Popped(old[w])) THEN "newval" ELSE "text")
    /\ UNCHANGED <<storeVars, user, cmd, folder, old, then, current_folder, found, acked>>

\* The list that replaces the old one; a list that begins with a dotted header
\* is lost with it.
NewVal(w) ==
    /\ At(w, "newval")
    /\ \/ /\ tab' = [tab EXCEPT ![Box(w)] = string_to_binary(NewList(old[w], cmd[w].header))]
          /\ lost' = IF Head(old[w]) \in Dotted THEN lost \cup {Box(w)} ELSE lost
       \/ /\ Cardinality(lost) < MaxLost
          /\ lost' = lost \cup {Box(w)} /\ tab' = tab
    /\ UNCHANGED range
    /\ GoTo(w, "text")
    /\ UNCHANGED <<user, cmd, folder, old, then, current_folder, found, acked>>

\* oldval and newval are followed by their bytes without a wait: a store that
\* reads both at once waits for bytes it has, and the thread for its answer.
\* A newval that a backup cannot forward is not answered either.
Hang(w) ==
    /\ ~exited /\ pc[w] \in {"cput", "newval"}
    /\ Forget(w, "hung")
    /\ old' = [old EXCEPT ![w] = <<>>]
    /\ user' = [user EXCEPT ![w] = Absent]
    /\ UNCHANGED <<storeVars, current_folder, exited, asked, acked>>

\* Mutant of Text: the text goes to the sender both times.
Text_Sender(w) ==
    /\ At(w, "text")
    /\ put(<<cmd[w].user, cmd[w].header>>, <<cmd[w].user, "~", cmd[w].to>>)
    /\ NextBox(w)
    /\ UNCHANGED <<user, current_folder>>

Text(w) ==
    /\ At(w, "text")
    /\ put(<<Owner(w), cmd[w].header>>, <<cmd[w].user, "~", cmd[w].to>>)
    /\ NextBox(w)
    /\ UNCHANGED <<user, current_folder>>

-----------------------------------------------------------------------------
\* The boxes a thread has read and is going to write.
Changing(w) ==
    IF pc[w] \in {"cput", "newval"} THEN {Box(w)}
    ELSE (IF pc[w] \in {"make_inbox", "make_sent"}
          THEN {<<Username(w), f>> : f \in Folder} ELSE {})
         \cup (IF pc[w] \in {"probe", "make_inbox", "make_sent"} /\ then[w] = "cput"
               THEN {Box(w)} ELSE {})

\* What the frontend sends; it never sends QUIT.
Request ==
       [name : {"user", "get_inbox", "get_sent"}, user : User,
        to : {NoCommand.to}, header : {NoCommand.header}]
       \cup [name : {"get_email"}, user : User, to : {NoCommand.to}, header : Header]
       \cup {[NoCommand EXCEPT !.name = "quit"]}

Watch ==
    contended' = contended \cup
      {b \in User \X Folder : \E w, x \in Worker : w # x /\ b \in (Changing(w) \cap Changing(x))'}

\* What happens to a thread from outside.
Event(w) ==
    /\ \/ Accept(w) \/ (\E u \in User : Intro(w, u)) \/ BadDescriptor(w)
       \/ ConnectFails(w) \/ Hang(w)
       \/ \E c \in Request :
            GetInbox(w, c) \/ GetSent(w, c) \/ GetEmail(w, c) \/ ChangeUser(w, c) \/ Quit(w, c)
       \/ \E m \in Mail : SendEmail(w, m)
    /\ Watch

\* SIGINT: the frontends are told "-ERR Server shutting down", the threads cancelled.
event_handler == ~exited /\ Exit /\ Watch

\* What a thread does without anybody's help once it has a command.
Work(w) ==
    /\ \/ Probe(w) \/ MakeInbox(w) \/ MakeSent(w)
       \/ AnswerList(w) \/ AnswerSent(w) \/ AnswerEmail(w)
       \/ FileMail(w) \/ Cput(w) \/ NewVal(w) \/ Text(w)
    /\ Watch

Next == event_handler \/ \E w \in Worker : Event(w) \/ Work(w)

Spec == Init /\ [][Next]_vars

\* The scheduler runs every thread, and the store answers.
FairSpec == Spec /\ \A w \in Worker : WF_vars(Work(w))

-----------------------------------------------------------------------------
(* Properties *)

HeadersIn(l) == ToSet(l) \cap Header

\* Boxes of which nothing is promised: two threads were changing it at once, the
\* store lost a write to it, or to the inbox of its owner (the next log-in finds
\* no inbox and makes both boxes again).
Spoilt == contended \cup {b \in User \X Folder : b \in lost \/ <<b[1], "INBOX">> \in lost}

\* A mail that was reported as sent stays in every box that SEND_EMAIL found,
\* whatever was delivered, read or logged in since, as long as no two threads
\* were changing that box at once and the store lost no write to it
\* (master.cc:699-751: the list is read over one session and replaced over another).
Delivered ==
    \A m \in acked :
        LET b == <<m[1], m[2]>>
        IN b \notin Spoilt => m[3] \in HeadersIn(tab[b])

\* A step takes no mail out of a box that nobody else is changing (nothing of
\* the mail server deletes; logging in makes the boxes of a new user only).
BoxesGrow ==
    [][\A b \in User \X Folder :
         b \notin Spoilt' /\ tab[b] # Absent
            => HeadersIn(tab[b]) \subseteq HeadersIn(tab'[b])]_vars

\* A header that a box lists can be opened by the owner of the box, except while
\* the text is on its way (master.cc:749-750: the list first, then the text).
ListedReadable ==
    \A u \in User, f \in Folder :
        tab[<<u, f>>] # Absent =>
          \A h \in HeadersIn(tab[<<u, f>>]) :
             \/ tab[<<u, h>>] # Absent \/ <<u, h>> \in lost \/ exited
             \/ \E w \in Worker : pc[w] = "text" /\ Owner(w) = u /\ cmd[w].header = h

\* Who has an inbox has a sent box: change_user only looks for the inbox
\* (master.cc:448-455), so one that is missing is never made.
BoxesPaired ==
    \A u \in User :
        tab[<<u, "INBOX">>] # Absent =>
          \/ tab[<<u, "SENT">>] # Absent \/ <<u, "SENT">> \in lost \/ exited
          \/ \E w \in Worker : pc[w] = "make_sent" /\ Username(w) = u

\* A command is answered, whatever the store says, unless the thread hangs with
\* the store or the process ends.
Replies ==
    \A w \in Worker :
        pc[w] \notin {"none", "arg", "dangling", "ready", "closed", "hung"}
          ~> (pc[w] \in {"ready", "hung"} \/ exited)

=============================================================================
