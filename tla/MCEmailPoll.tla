---------------------------- MODULE MCEmailPoll ----------------------------
(* Instances of EmailPoll for TLC.                                         *)
EXTENDS EmailPoll, TLC

CONSTANTS u1, u2, b1, b2, b3

\* u1 has two mailboxes; the server of the other user's cannot be relied on.
MCOwn == [u \in User |-> IF u = u1 THEN {b1, b2} \cap Mailbox ELSE {b3}]

\* One message less for the mailbox an account may be changed to.
MCSize == [b \in Mailbox |-> IF b = b2 THEN MaxUid - 1 ELSE MaxUid]

\* Two PDFs in each message of the other user, one in those of the first.
MCPdfs == [b \in Mailbox |-> [m \in 1..MaxUid |-> IF b = b3 THEN 2 ELSE 1]]

\* Nothing but fairness tells pollers apart.
MCPollers == Permutations(Poller)
=============================================================================
