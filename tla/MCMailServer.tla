---------------------------- MODULE MCMailServer ----------------------------
(* Instances of MailServer for TLC. *)
EXTENDS MailServer, TLC

CONSTANTS u1, u2, h1, h2, Near, Far

MCAddress == User \X {"here", "elsewhere"}

\* Two mails to one box, one of them to oneself and with a dotted header.
MCMail ==
    LET here(u) == <<u, "here">>
    IN {<<here(u1), here(u2), h1>>, <<here(u2), <<u2, "elsewhere">>, h2>>}

\* The users share a range, or do not.
MCRanges == {[u \in User |-> Near], [u \in User |-> IF u = u1 THEN Near ELSE Far]}

=============================================================================
