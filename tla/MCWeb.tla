------------------------------- MODULE MCWeb -------------------------------
(* Values of the constants of Web for TLC. *)
EXTENDS Web, TLC

CONSTANTS u1, u2, w1, t1, t2, t3, Near, Far

MCRangeOf == u1 :> Near @@ u2 :> Far
MCRangeServed == t1 :> Near @@ t2 :> Near @@ t3 :> Far

\* The frontends are alike: the second one is asked for less.
Work(first, second, visits, kills, stops) ==
    [requests |-> 0 :> first @@ 1 :> second, visits |-> visits, kills |-> kills, stops |-> stops]

\* Accounts, mail and drive share no state, so each has a workload of its own.
\* The second user has a server of another range, and only comes to disturb.
MCWorkload ==
    {Work([page : {"login"}, user : {u1}, pass : {w1, Blank}]
            \cup [page : {"signup"}, user : {u1}, pass : {Blank}, match : {TRUE}]
            \cup [page : {"signup"}, user : {u2}, pass : {w1}, match : {TRUE}],
          [page : {"signup"}, user : {u1}, pass : {w1}, match : {TRUE}], 0, {}, {t1}),
     Work([page : MailPage, cookie : {TRUE}] \cup [page : {"file", "form", "inbox"}, cookie : {FALSE}],
          [page : {"signup"}, user : {u2}, pass : {w1}, match : {FALSE}], 2, {0}, {t1}),
     Work([page : DrivePage, cookie : {TRUE}], [page : {"viewfolder"}, cookie : {TRUE}], 0, {}, {})}

=============================================================================
