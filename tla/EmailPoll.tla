----------------------------- MODULE EmailPoll -----------------------------
(***************************************************************************)
(* Importing the receipts that arrive by e-mail: Fetcher.PollAll and       *)
(* pollAccount, the accounts they poll (UpsertEmailAccount,                *)
(* DeleteEmailAccount, UpdateEmailAccountLastUID) and, as environment, the *)
(* IMAP mailboxes.                                                         *)
(*                                                                         *)
(* A poller is the ticker of RunPoller, or the cron endpoint: each runs    *)
(* PollAll again and again, and nothing keeps them from overlapping.       *)
(* PollAll works on the accounts as it read them at its start.             *)
(***************************************************************************)
EXTENDS Naturals

CONSTANTS
  User,       \* users with a session
  Mailbox,    \* addresses (with their host, port and password)
  Own,        \* Own[u]: the mailboxes user u can register
  Poller,     \* what calls PollAll
  Ticker,     \* the pollers that are called for ever: RunPoller, or Vercel
  Reachable,  \* mailboxes whose server answers every now and then
  Pdfs,       \* Pdfs[b][m]: how many PDFs are attached to message m of b
  Size,       \* bound: Size[b] messages b ever receives
  MaxUid,     \* bound: messages any mailbox ever receives
  MaxId       \* bound: rows ever inserted into email_accounts

ASSUME OwnAssumption == Own \in [User -> SUBSET Mailbox]
ASSUME TickerAssumption == Ticker \subseteq Poller
ASSUME BoundsAssumption == MaxUid \in Nat /\ MaxId \in Nat
ASSUME SizeAssumption == Size \in [Mailbox -> 0..MaxUid]
ASSUME PdfsAssumption == Pdfs \in [Mailbox -> [1..MaxUid -> Nat]]

VARIABLES
  accounts,  \* the rows of email_accounts
  nextId,    \* BIGSERIAL of email_accounts
  mail,      \* mail[b]: the UIDs of the messages in INBOX
  uidNext,   \* uidNext[b]: the UID of the next message
  pc,        \* what each poller does
  todo,      \* the accounts it has yet to poll
  acc,       \* the account it polls
  left,      \* the fetched messages it has not looked at
  msg,       \* the message it looks at
  pdfs,      \* how many PDFs of msg it has not imported
  maxUid,    \* greatest UID it has looked at
  tried,     \* history: <<id, mailbox, uid>> whose PDFs were all tried
  imported,  \* history: <<id, mailbox, uid>> with a PDF in the price history
  excused,   \* history: <<id, mailbox, uid>> that may be fetched again
  lost       \* history: <<id, mailbox, uid>> passed by another mailbox's cursor

dbVars   == <<accounts, nextId>>
mailVars == <<mail, uidNext>>
msgVars  == <<left, msg, pdfs, maxUid>>
history  == <<tried, imported, excused, lost>>
vars == <<dbVars, mailVars, pc, todo, acc, msgVars, history>>

Uid == 1..MaxUid
Id  == 1..MaxId
Row == [id : Id, user : User, box : Mailbox, last : 0..MaxUid]

\* What a poll uses of an account once its messages are fetched.
Account == [id : Id, box : Mailbox]

\* acc[p] when p polls no account.
NoRow == [id |-> 0]

TypeOK ==
  /\ accounts \subseteq Row
  /\ \A a, b \in accounts : a.user = b.user => a = b     \* UNIQUE (user_id)
  /\ nextId \in Nat \ {0}
  /\ mail \in [Mailbox -> SUBSET Uid]
  /\ uidNext \in [Mailbox -> Nat \ {0}]
  /\ pc \in [Poller -> {"idle", "accounts", "messages"}]
  /\ todo \in [Poller -> SUBSET Row]
  /\ acc \in [Poller -> Account \cup {NoRow}]
  /\ left \in [Poller -> SUBSET Uid]
  /\ msg \in [Poller -> 0..MaxUid]
  /\ pdfs \in [Poller -> Nat]
  /\ maxUid \in [Poller -> 0..MaxUid]
  /\ tried \subseteq Id \X Mailbox \X Uid
  /\ excused \subseteq Id \X Mailbox \X Uid
  /\ lost \subseteq Id \X Mailbox \X Uid

Init ==
  /\ accounts = {}
  /\ nextId = 1
  /\ mail = [b \in Mailbox |-> {}]
  /\ uidNext = [b \in Mailbox |-> 1]
  /\ pc = [p \in Poller |-> "idle"]
  /\ todo = [p \in Poller |-> {}]
  /\ acc = [p \in Poller |-> NoRow]
  /\ left = [p \in Poller |-> {}]
  /\ msg = [p \in Poller |-> 0]
  /\ pdfs = [p \in Poller |-> 0]
  /\ maxUid = [p \in Poller |-> 0]
  /\ tried = {} /\ imported = {} /\ excused = {} /\ lost = {}

-----------------------------------------------------------------------------
(* The owner of a mailbox and its server. *)

Deliver(b) ==
  /\ uidNext[b] <= Size[b]
  /\ mail' = [mail EXCEPT ![b] = @ \cup {uidNext[b]}]
  /\ uidNext' = [uidNext EXCEPT ![b] = @ + 1]
  /\ UNCHANGED <<dbVars, pc, todo, acc, msgVars, history>>

Remove(b, m) ==
  /\ m \in mail[b]
  /\ mail' = [mail EXCEPT ![b] = @ \ {m}]
  /\ UNCHANGED <<dbVars, uidNext, pc, todo, acc, msgVars, history>>

(* The account of a user. *)

HasAccount(u) == \E a \in accounts : a.user = u

Mails(a, S) == {<<a.id, a.box, m>> : m \in S}

\* The cursors of these rows were counted in another mailbox: the messages up
\* to them will not be looked at, those beyond them may have been.
CursorsOfOther(rows) ==
  /\ lost' = lost \cup UNION {Mails(a, {m \in Uid : m <= a.last}) : a \in rows}
  /\ excused' = excused \cup UNION {Mails(a, {m \in Uid : m > a.last}) : a \in rows}

\* INSERT ... ON CONFLICT (user_id) DO UPDATE: last_uid_seen is kept when the
\* mailbox is another one.
UpsertEmailAccount(u, b) ==
  \/ /\ ~HasAccount(u)
     /\ nextId <= MaxId
     /\ accounts' = accounts \cup
                      {[id |-> nextId, user |-> u, box |-> b, last |-> 0]}
     /\ nextId' = nextId + 1
     /\ UNCHANGED <<lost, excused>>
  \/ \E a \in accounts :
       /\ a.user = u
       /\ accounts' = (accounts \ {a}) \cup {[a EXCEPT !.box = b]}
       /\ CursorsOfOther({c \in {[a EXCEPT !.box = b]} : a.box # b})
       /\ UNCHANGED nextId

\* POST /api/email-account; a request that is refused, whose password cannot
\* be encrypted, or whose statement fails changes nothing.
Register(u, b) ==
  /\ b \in Own[u]
  /\ UpsertEmailAccount(u, b)
  /\ UNCHANGED <<mailVars, pc, todo, acc, msgVars, tried, imported>>

\* DeleteEmailAccount; a poll that has read the account goes on with it.
Delete(u) ==
  /\ HasAccount(u)
  /\ accounts' = {a \in accounts : a.user # u}
  /\ UNCHANGED <<nextId, mailVars, pc, todo, acc, msgVars, history>>

-----------------------------------------------------------------------------
(* PollAll. *)

Others(p) == {q \in Poller \ {p} : pc[q] # "idle"}

\* The messages p may have fetched.
Fetched(p) ==
  IF pc[p] # "messages" THEN {}
  ELSE Mails(acc[p], {m \in Uid : m < uidNext[acc[p].box]})

\* A ticker, or the cron job's request, calls PollAll: GetAllEmailAccounts.
Begin(p) ==
  /\ pc[p] = "idle"
  /\ pc' = [pc EXCEPT ![p] = "accounts"]
  /\ todo' = [todo EXCEPT ![p] = accounts]
  /\ excused' = excused \cup UNION {Fetched(q) : q \in Others(p)}
  /\ UNCHANGED <<dbVars, mailVars, acc, msgVars, tried, imported, lost>>

\* The accounts are polled in the order of their ids.
IsNext(p, a) ==
  /\ pc[p] = "accounts"
  /\ a \in todo[p]
  /\ \A b \in todo[p] : a.id <= b.id

\* The answer to UID FETCH last+1:*.  A range that ends in * holds the last
\* message of the mailbox even when its UID is smaller than last+1.
FetchedUids(b, last) ==
  {m \in mail[b] : m > last \/ \A n \in mail[b] : n <= m}

\* DialTLS, Login, Select and Fetch succeed.
Fetch(p, a) ==
  /\ IsNext(p, a)
  /\ todo' = [todo EXCEPT ![p] = @ \ {a}]
  /\ LET new == FetchedUids(a.box, a.last)
     IN  /\ IF new = {}
            THEN UNCHANGED <<pc, acc>>
            ELSE /\ pc' = [pc EXCEPT ![p] = "messages"]
                 /\ acc' = [acc EXCEPT ![p] = [id |-> a.id, box |-> a.box]]
         /\ left' = [left EXCEPT ![p] = new]
         /\ excused' = excused \cup
              Mails(a, IF Others(p) # {} THEN new ELSE {m \in new : m <= a.last})
  /\ UNCHANGED <<dbVars, mailVars, msg, pdfs, maxUid, tried, imported, lost>>


\* One of them, or the decryption of the password, fails: the account is
\* left for the next poll, and the remaining ones are polled.
FetchFails(p, a) ==
  /\ IsNext(p, a)
  /\ todo' = [todo EXCEPT ![p] = @ \ {a}]
  /\ UNCHANGED <<dbVars, mailVars, pc, acc, msgVars, history>>

Current(p, m) == <<acc[p].id, acc[p].box, m>>

Done(p, m) == tried' = tried \cup {Current(p, m)}

\* The next message; its PDFs are extracted.
Take(p, m) ==
  /\ pc[p] = "messages" /\ pdfs[p] = 0
  /\ m \in left[p]
  /\ left' = [left EXCEPT ![p] = @ \ {m}]
  /\ msg' = [msg EXCEPT ![p] = m]
  /\ pdfs' = [pdfs EXCEPT ![p] = Pdfs[acc[p].box][m]]
  /\ maxUid' = [maxUid EXCEPT ![p] = IF m > @ THEN m ELSE @]
  /\ IF Pdfs[acc[p].box][m] = 0 THEN Done(p, m) ELSE UNCHANGED tried
  /\ UNCHANGED <<dbVars, mailVars, pc, todo, acc, imported, excused, lost>>

\* Importer.Import of one PDF: it is imported, or it is no receipt or the
\* import fails, which is logged and not tried again.
ImportPdf(p) ==
  /\ pc[p] = "messages" /\ pdfs[p] > 0
  /\ pdfs' = [pdfs EXCEPT ![p] = @ - 1]
  /\ IF pdfs[p] = 1 THEN Done(p, msg[p]) ELSE UNCHANGED tried
  /\ \/ imported' = imported \cup {Current(p, msg[p])}
     \/ UNCHANGED imported
  /\ UNCHANGED <<dbVars, mailVars, pc, todo, acc, left, msg, maxUid, excused, lost>>

\* What p knows of an account is dropped.
Forget(p) ==
  /\ acc' = [acc EXCEPT ![p] = NoRow]
  /\ left' = [left EXCEPT ![p] = {}]
  /\ msg' = [msg EXCEPT ![p] = 0]
  /\ pdfs' = [pdfs EXCEPT ![p] = 0]
  /\ maxUid' = [maxUid EXCEPT ![p] = 0]

\* UPDATE email_accounts SET last_uid_seen WHERE id: no row has the id when
\* the account was deleted, and its mailbox may have been changed.
UpdateLastUID(p, uid) ==
  LET rows == {a \in accounts : a.id = acc[p].id}
      new  == {[a EXCEPT !.last = uid] : a \in rows}
  IN  /\ accounts' = (accounts \ rows) \cup new
      /\ CursorsOfOther({a \in new : a.box # acc[p].box})

\* Mutant of Save: one less than the greatest UID.
SavePrevious(p) ==
  /\ pc[p] = "messages" /\ left[p] = {} /\ pdfs[p] = 0
  /\ UpdateLastUID(p, maxUid[p] - 1)
  /\ pc' = [pc EXCEPT ![p] = "accounts"]
  /\ Forget(p)
  /\ UNCHANGED <<nextId, mailVars, todo, tried, imported>>

\* The account is done.  When the update fails it is logged.
Save(p) ==
  /\ pc[p] = "messages" /\ left[p] = {} /\ pdfs[p] = 0
  /\ \/ UpdateLastUID(p, maxUid[p])
     \/ excused' = excused \cup Fetched(p) /\ UNCHANGED <<accounts, lost>>
  /\ pc' = [pc EXCEPT ![p] = "accounts"]
  /\ Forget(p)
  /\ UNCHANGED <<nextId, mailVars, todo, tried, imported>>

\* Mutant of Interrupt: the cursor is saved when the context is cancelled.
InterruptSaves(p) ==
  /\ pc[p] = "messages"
  /\ UpdateLastUID(p, maxUid[p])
  /\ pc' = [pc EXCEPT ![p] = "idle"]
  /\ todo' = [todo EXCEPT ![p] = {}]
  /\ Forget(p)
  /\ UNCHANGED <<nextId, mailVars, tried, imported>>

\* The context is cancelled (looked at between messages and accounts, not while
\* a server is waited for), or the process is stopped, after 30 s on Vercel: no
\* cursor is saved.
Interrupt(p) ==
  /\ pc[p] # "idle"
  /\ excused' = excused \cup Fetched(p)
  /\ pc' = [pc EXCEPT ![p] = "idle"]
  /\ todo' = [todo EXCEPT ![p] = {}]
  /\ Forget(p)
  /\ UNCHANGED <<dbVars, mailVars, tried, imported, lost>>

End(p) ==
  /\ pc[p] = "accounts" /\ todo[p] = {}
  /\ pc' = [pc EXCEPT ![p] = "idle"]
  /\ UNCHANGED <<dbVars, mailVars, todo, acc, msgVars, history>>

\* An IMAP server has to answer: nothing but the end of the process ends a wait
\* for one that does not.
Waiting(p) == pc[p] = "accounts" /\ todo[p] # {}

\* What a poll does by itself.
Work(p) ==
  \/ \E m \in left[p] : Take(p, m)
  \/ ImportPdf(p)
  \/ Save(p)
  \/ End(p)

\* What a poll does when it is not cut off.
Poll(p) ==
  \/ \E a \in todo[p] : Fetch(p, a) \/ FetchFails(p, a)
  \/ Work(p)

Environment ==
  \/ \E b \in Mailbox : Deliver(b) \/ \E m \in Uid : Remove(b, m)
  \/ \E u \in User : Delete(u) \/ \E b \in Mailbox : Register(u, b)

Next ==
  \/ Environment
  \/ \E p \in Poller : Begin(p) \/ Poll(p) \/ Interrupt(p)

FetchFrom(p, b) == \E a \in todo[p] : a.box = b /\ Fetch(p, a)

\* The ticker ticks, a poll runs on while it waits for no server, and a server
\* that can be reached every now and then is.
Fairness ==
  \A p \in Ticker :
    /\ WF_vars(Begin(p) \/ Work(p))
    /\ \A b \in Reachable : SF_vars(FetchFrom(p, b))

Spec == Init /\ [][Next]_vars /\ Fairness

-----------------------------------------------------------------------------
\* No message is skipped: when last_uid_seen has reached a message of the
\* inbox, its PDFs have been tried, whatever polls overlapped, were cut off
\* or read the account before it was changed or registered anew.  Only after
\* a change of the mailbox are messages lost: those of the new one up to the
\* cursor of the old one, which UpsertEmailAccount keeps, or which a poll of
\* the old one saves later.
NoMailSkipped ==
  \A a \in accounts : \A m \in mail[a.box] :
    m <= a.last => <<a.id, a.box, m>> \in tried \cup lost

\* Why: it holds of every copy of a row, in the table or yet to be polled; and
\* while a poll reads an inbox, a message it has not dealt with is greater
\* than all it has fetched.
Rows == accounts \cup UNION {todo[p] : p \in Poller}

RowInv(a) ==
  \A m \in Uid :
    m <= a.last =>
      \/ <<a.id, a.box, m>> \in lost
      \/ m < uidNext[a.box] /\ (m \in mail[a.box] => <<a.id, a.box, m>> \in tried)

Dealt(p, m) ==
  \/ Current(p, m) \in tried \cup lost
  \/ m \in left[p]
  \/ pdfs[p] > 0 /\ m = msg[p]

Reading(p) ==
  /\ maxUid[p] < uidNext[acc[p].box]
  /\ \A m \in left[p] : m < uidNext[acc[p].box]
  /\ \A m \in mail[acc[p].box] :
       Dealt(p, m) \/ (m > maxUid[p] /\ \A n \in left[p] : m > n)

PollInv(p) ==
  IF pc[p] = "messages"
  THEN acc[p] \in Account /\ Reading(p) /\ (pdfs[p] > 0 => msg[p] \in Uid)
  ELSE maxUid[p] = 0 /\ pdfs[p] = 0

IndInv ==
  /\ TypeOK
  /\ \A b \in Mailbox : \A m \in mail[b] : m < uidNext[b]
  /\ \A a \in Rows : RowInv(a)
  /\ \A p \in Poller : PollInv(p)

\* A poll looks again at a message with a PDF in the price history, so that
\* the PDF is counted twice, only if the message was fetched as the last of an
\* inbox without new ones, or by a poll that was cut off, could not save its
\* cursor or overlapped another one; or if it lies beyond the cursor of
\* another mailbox that the account had in between.
AgainIsExcused ==
  \A p \in Poller : pc[p] = "messages" =>
    \A m \in left[p] : Current(p, m) \in imported => Current(p, m) \in excused

\* A poll ends, not having dealt with an account of mailbox b that it has read.
CutBefore(b) ==
  \E p \in Ticker :
    /\ pc'[p] = "idle"
    /\ (\E a \in todo[p] : a.box = b) \/ (pc[p] = "messages" /\ acc[p].box = b)


\* "Fetches messages with UIDs greater than last_uid_seen" (pollAccount).
OnlyNewMail ==
  [][\A p \in Poller : pc[p] = "accounts" /\ pc'[p] = "messages" =>
       \A a \in todo[p] \ todo'[p] : \A m \in left'[p] : m > a.last]_vars
=============================================================================
