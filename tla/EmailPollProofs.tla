--------------------------- MODULE EmailPollProofs ---------------------------
(***************************************************************************)
(* EmailPoll: no message is skipped, and none is looked at again without   *)
(* an excuse, for any users, mailboxes, pollers and bounds.                *)
(***************************************************************************)
EXTENDS EmailPoll, FiniteSetTheorems, TLAPS

\* What a copy of a row knows stays true as long as the inboxes stay and no
\* copy with other contents appears.
LEMMA RowsStay ==
  ASSUME \A a \in Rows : RowInv(a),
         Rows' \subseteq Rows,
         UNCHANGED mailVars,
         tried \subseteq tried', lost \subseteq lost'
  PROVE  \A a \in Rows' : RowInv(a)'
BY DEF RowInv, mailVars

\* What a poll knows of the inbox it reads stays true while only others act.
LEMMA PollStays ==
  ASSUME NEW p \in Poller,
         PollInv(p),
         UNCHANGED mailVars,
         tried \subseteq tried', lost \subseteq lost',
         pc'[p] = pc[p], acc'[p] = acc[p], left'[p] = left[p],
         msg'[p] = msg[p], pdfs'[p] = pdfs[p], maxUid'[p] = maxUid[p]
  PROVE  PollInv(p)'
BY DEF PollInv, Reading, Dealt, Current, mailVars

\* Where cursors of other mailboxes are noted, nothing else is forgotten.
LEMMA CursorsNoted ==
  ASSUME NEW rows \in SUBSET Row, CursorsOfOther(rows),
         lost \subseteq Id \X Mailbox \X Uid, excused \subseteq Id \X Mailbox \X Uid
  PROVE  /\ lost' \subseteq Id \X Mailbox \X Uid
         /\ excused' \subseteq Id \X Mailbox \X Uid
         /\ lost \subseteq lost'
         /\ \A a \in rows : \A m \in Uid : m <= a.last => <<a.id, a.box, m>> \in lost'
<1>1. \A a \in rows : a.id \in Id /\ a.box \in Mailbox
  BY DEF Row
<1> QED
  BY <1>1 DEF CursorsOfOther, Mails

LEMMA InitInv == Init => IndInv
<1> SUFFICES ASSUME Init PROVE IndInv
  OBVIOUS
<1>1. TypeOK
  BY BoundsAssumption DEF Init, TypeOK, Row, Uid, Id, NoRow
<1>2. Rows = {}
  BY DEF Init, Rows
<1>3. \A p \in Poller : PollInv(p)
  BY DEF Init, PollInv
<1> QED
  BY <1>1, <1>2, <1>3 DEF Init, IndInv

-----------------------------------------------------------------------------
(* The owner of a mailbox. *)

LEMMA DeliverStep == ASSUME IndInv, NEW b \in Mailbox, Deliver(b) PROVE IndInv'
<1> USE DEF IndInv
<1>1. TypeOK'
  <2>1. uidNext[b] \in Uid
    <3>1. Size[b] \in 0..MaxUid
      BY SizeAssumption
    <3>2. uidNext[b] \in Nat \ {0} /\ uidNext[b] <= Size[b]
      BY DEF TypeOK, Deliver
    <3> QED
      BY <3>1, <3>2, BoundsAssumption DEF Uid
  <2> QED
    BY <2>1 DEF TypeOK, Deliver, dbVars, msgVars, history
<1>2. \A c \in Mailbox : \A m \in mail'[c] : m < uidNext'[c]
  BY DEF TypeOK, Deliver, Uid
<1>3. Rows' = Rows
  BY DEF Rows, Deliver, dbVars
<1>4. ASSUME NEW a \in Rows PROVE RowInv(a)'
  <2>1. a.box \in Mailbox
    BY DEF Rows, TypeOK, Row
  <2>2. RowInv(a)
    BY <1>4
  <2>3. mail'[a.box] \subseteq mail[a.box] \cup {uidNext[a.box]}
        /\ uidNext[a.box] <= uidNext'[a.box]
        /\ uidNext[a.box] \in Nat /\ uidNext'[a.box] \in Nat
    BY <2>1 DEF Deliver, TypeOK
  <2>4. UNCHANGED <<lost, tried>>
    BY DEF Deliver, history
  <2> QED
    BY <2>2, <2>3, <2>4 DEF RowInv, Uid
<1>5. ASSUME NEW p \in Poller PROVE PollInv(p)'
  <2>1. CASE pc[p] # "messages"
    BY <2>1 DEF PollInv, Deliver, msgVars
  <2>2. CASE pc[p] = "messages"
    <3>1. acc[p].box \in Mailbox
      BY <2>2 DEF PollInv, Account
    <3>2. maxUid[p] \in Nat /\ left[p] \subseteq Nat
      BY BoundsAssumption DEF TypeOK, Uid
    <3> QED
      BY <2>2, <3>1, <3>2 DEF PollInv, Reading, Dealt, Current, Deliver, msgVars,
         history, TypeOK, Uid
  <2> QED
    BY <2>1, <2>2
<1> QED
  BY <1>1, <1>2, <1>3, <1>4, <1>5

LEMMA RemoveStep ==
  ASSUME IndInv, NEW b \in Mailbox, NEW m \in Uid, Remove(b, m)
  PROVE  IndInv'
<1> USE DEF IndInv
<1>1. TypeOK'
  BY DEF TypeOK, Remove, dbVars, msgVars, history
<1>2. \A c \in Mailbox : mail'[c] \subseteq mail[c]
  BY DEF TypeOK, Remove
<1>3. \A c \in Mailbox : \A n \in mail'[c] : n < uidNext'[c]
  BY <1>2 DEF Remove
<1>4. Rows' = Rows
  BY DEF Rows, Remove, dbVars
<1>5. ASSUME NEW a \in Rows PROVE RowInv(a)'
  <2>1. a.box \in Mailbox
    BY DEF Rows, TypeOK, Row
  <2>2. RowInv(a)
    BY <1>5
  <2>3. mail'[a.box] \subseteq mail[a.box]
    BY <1>2, <2>1
  <2> QED
    BY <1>4, <2>2, <2>3 DEF RowInv, Remove, dbVars, history
<1>6. ASSUME NEW p \in Poller PROVE PollInv(p)'
  <2>1. pc[p] = "messages" => acc[p].box \in Mailbox
    BY DEF PollInv, Account
  <2> QED
    BY <1>2, <2>1 DEF PollInv, Reading, Dealt, Current, Remove, msgVars, history
<1> QED
  BY <1>1, <1>3, <1>4, <1>5, <1>6

-----------------------------------------------------------------------------
(* The account of a user. *)

LEMMA RegisterStep ==
  ASSUME IndInv, NEW u \in User, NEW b \in Mailbox, Register(u, b)
  PROVE  IndInv'
<1> USE DEF IndInv
<1>0. /\ UNCHANGED <<mail, uidNext, pc, todo, acc, left, msg, pdfs, maxUid, tried, imported>>
      /\ accounts \subseteq Row
  BY DEF Register, mailVars, msgVars, TypeOK
<1>1. CASE /\ ~HasAccount(u) /\ nextId <= MaxId
           /\ accounts' = accounts \cup
                            {[id |-> nextId, user |-> u, box |-> b, last |-> 0]}
           /\ nextId' = nextId + 1 /\ UNCHANGED <<lost, excused>>
  <2>0. PICK new : new = [id |-> nextId, user |-> u, box |-> b, last |-> 0]
    OBVIOUS
  <2>1. new \in Row /\ new.user = u /\ new.last = 0
    BY <1>1, <2>0, BoundsAssumption DEF TypeOK, Row, Id
  <2>2. TypeOK'
    <3>1. \A a \in accounts : a.user # u
      BY <1>1 DEF HasAccount
    <3> QED
      BY <1>0, <1>1, <2>0, <2>1, <3>1 DEF TypeOK
  <2>3. Rows' \subseteq Rows \cup {new}
    BY <1>0, <1>1, <2>0 DEF Rows
  <2>4. RowInv(new)'
    BY <2>1 DEF RowInv, Uid
  <2>5. ASSUME NEW a \in Rows PROVE RowInv(a)'
    BY <1>0, <1>1, RowInv(a) DEF RowInv
  <2>6. \A p \in Poller : PollInv(p)'
    BY <1>0, <1>1, PollStays DEF mailVars
  <2> QED
    BY <1>0, <2>2, <2>3, <2>4, <2>5, <2>6
<1>2. ASSUME NEW r \in accounts, r.user = u,
             accounts' = (accounts \ {r}) \cup {[r EXCEPT !.box = b]},
             CursorsOfOther({c \in {[r EXCEPT !.box = b]} : r.box # b}),
             UNCHANGED nextId
      PROVE  IndInv'
  <2>0. PICK new : new = [r EXCEPT !.box = b]
    OBVIOUS
  <2>1. /\ r \in Row /\ new \in Row /\ new.user = u
        /\ new.box = b /\ new.last = r.last /\ (r.box = b => new = r)
    BY <1>0, <1>2, <2>0 DEF Row
  <2>2. /\ lost' \subseteq Id \X Mailbox \X Uid
        /\ excused' \subseteq Id \X Mailbox \X Uid
        /\ lost \subseteq lost'
        /\ r.box # b => \A m \in Uid : m <= new.last => <<new.id, new.box, m>> \in lost'
    <3>1. {c \in {new} : r.box # b} \in SUBSET Row
      BY <2>1
    <3>2. CursorsOfOther({c \in {new} : r.box # b})
      BY <1>2, <2>0
    <3> QED
      BY <3>1, <3>2, CursorsNoted DEF TypeOK
  <2>3. TypeOK'
    <3>1. accounts' = (accounts \ {r}) \cup {new} /\ nextId' = nextId
      BY <1>2, <2>0
    <3>2. \A a \in accounts : a # r => a.user # u
      BY <1>2 DEF TypeOK
    <3>3. accounts' \subseteq Row /\ \A a, c \in accounts' : a.user = c.user => a = c
      BY <2>1, <3>1, <3>2 DEF TypeOK
    <3> QED
      BY <1>0, <2>2, <3>1, <3>3 DEF TypeOK
  <2>4. Rows' \subseteq Rows \cup {new} /\ r \in Rows
    BY <1>0, <1>2, <2>0 DEF Rows
  <2>5. ASSUME NEW a \in Rows PROVE RowInv(a)'
    BY <1>0, <2>2, RowInv(a) DEF RowInv
  <2>6. RowInv(new)'
    <3>1. CASE r.box = b
      BY <2>1, <2>4, <2>5, <3>1
    <3>2. CASE r.box # b
      BY <2>2, <3>2 DEF RowInv
    <3> QED
      BY <3>1, <3>2
  <2>7. \A p \in Poller : PollInv(p)'
    BY <1>0, <2>2, PollStays DEF mailVars
  <2> QED
    BY <1>0, <2>3, <2>4, <2>5, <2>6, <2>7
<1>3. \/ /\ ~HasAccount(u) /\ nextId <= MaxId
         /\ accounts' = accounts \cup
                          {[id |-> nextId, user |-> u, box |-> b, last |-> 0]}
         /\ nextId' = nextId + 1 /\ UNCHANGED <<lost, excused>>
      \/ \E r \in accounts :
           /\ r.user = u
           /\ accounts' = (accounts \ {r}) \cup {[r EXCEPT !.box = b]}
           /\ CursorsOfOther({c \in {[r EXCEPT !.box = b]} : r.box # b})
           /\ UNCHANGED nextId
  BY Zenon DEF Register, UpsertEmailAccount
<1> QED
  BY <1>1, <1>2, <1>3, Zenon

\* A step that does not touch the mailboxes, creates no new copy and forgets
\* no message that was tried or lost, needs only the pollers looked at.
LEMMA QuietStep ==
  ASSUME IndInv,
         TypeOK',
         Rows' \subseteq Rows,
         UNCHANGED mailVars,
         tried \subseteq tried', lost \subseteq lost',
         \A p \in Poller : PollInv(p)'
  PROVE  IndInv'
BY RowsStay DEF IndInv, mailVars

LEMMA DeleteStep == ASSUME IndInv, NEW u \in User, Delete(u) PROVE IndInv'
<1>1. TypeOK'
  BY DEF IndInv, TypeOK, Delete, mailVars, msgVars, history
<1>2. Rows' \subseteq Rows
  BY DEF Rows, Delete
<1>3. \A p \in Poller : PollInv(p)'
  BY PollStays DEF IndInv, Delete, msgVars, history
<1> QED
  BY <1>1, <1>2, <1>3, QuietStep DEF Delete, history

-----------------------------------------------------------------------------
(* PollAll. *)

LEMMA BeginStep == ASSUME IndInv, NEW p \in Poller, Begin(p) PROVE IndInv'
<1>1. TypeOK'
  <2>1. \A q \in Poller : Fetched(q) \subseteq Id \X Mailbox \X Uid
    BY DEF IndInv, Fetched, Mails, PollInv, Account
  <2> QED
    BY <2>1 DEF IndInv, TypeOK, Begin, dbVars, mailVars, msgVars, Others
<1>2. Rows' \subseteq Rows
  BY DEF Rows, Begin, dbVars, IndInv, TypeOK
<1>3. ASSUME NEW q \in Poller PROVE PollInv(q)'
  <2>1. CASE q = p
    BY <2>1 DEF IndInv, TypeOK, Begin, PollInv, msgVars
  <2>2. CASE q # p
    BY <2>2, PollStays DEF IndInv, TypeOK, Begin, msgVars
  <2> QED
    BY <2>1, <2>2
<1> QED
  BY <1>1, <1>2, <1>3, QuietStep DEF Begin, dbVars

LEMMA FetchStep ==
  ASSUME IndInv, NEW p \in Poller, NEW a \in todo[p], Fetch(p, a)
  PROVE  IndInv'
<1> DEFINE new == FetchedUids(a.box, a.last)
<1>0. pc[p] = "accounts" /\ a \in Row /\ a \in Rows
  BY DEF IndInv, TypeOK, Fetch, IsNext, Rows
<1>1. a.box \in Mailbox /\ a.id \in Id /\ a.last \in Nat
  BY <1>0, BoundsAssumption DEF Row
<1>2. new \subseteq mail[a.box] /\ new \subseteq Uid
  BY <1>1 DEF FetchedUids, IndInv, TypeOK
<1>3. TypeOK'
  <2>1. excused' \subseteq Id \X Mailbox \X Uid
    BY <1>1, <1>2 DEF IndInv, TypeOK, Fetch, Mails
  <2>2. todo' \in [Poller -> SUBSET Row] /\ left' \in [Poller -> SUBSET Uid]
    BY <1>2 DEF IndInv, TypeOK, Fetch
  <2>3. pc' \in [Poller -> {"idle", "accounts", "messages"}]
        /\ acc' \in [Poller -> Account \cup {NoRow}]
    BY <1>0, <1>1 DEF IndInv, TypeOK, Fetch, Account
  <2> QED
    BY <2>1, <2>2, <2>3 DEF IndInv, TypeOK, Fetch, dbVars, mailVars
<1>4. Rows' \subseteq Rows
  BY DEF Rows, Fetch, dbVars, IndInv, TypeOK
<1>5. ASSUME NEW q \in Poller PROVE PollInv(q)'
  <2>1. CASE q # p
    BY <2>1, PollStays DEF IndInv, TypeOK, Fetch
  <2>2. CASE q = p /\ new = {}
    BY <1>0, <2>2 DEF IndInv, TypeOK, Fetch, PollInv
  <2>3. CASE q = p /\ new # {}
    <3>1. /\ pc'[p] = "messages" /\ acc'[p] = [id |-> a.id, box |-> a.box] /\ left'[p] = new
          /\ maxUid'[p] = 0 /\ pdfs'[p] = 0
      BY <1>0, <2>3 DEF IndInv, TypeOK, Fetch, PollInv
    <3>2. uidNext[a.box] > 0
      BY <1>1 DEF IndInv, TypeOK
    <3>3. \A m \in new : m < uidNext[a.box]
      BY <1>1, <1>2 DEF IndInv
    <3>4. ASSUME NEW m \in mail[a.box]
          PROVE  m \in new \/ <<a.id, a.box, m>> \in tried \cup lost
      <4>1. m \in Nat
        BY <1>1 DEF IndInv, TypeOK, Uid
      <4>2. m > a.last => m \in new
        BY DEF FetchedUids
      <4>3. m <= a.last => <<a.id, a.box, m>> \in tried \cup lost
        BY <1>0, <1>1, <3>4 DEF IndInv, RowInv, TypeOK
      <4> QED
        BY <1>1, <4>1, <4>2, <4>3
    <3>5. UNCHANGED <<mail, uidNext, lost, tried>>
      BY DEF Fetch, mailVars
    <3>6. Reading(p)'
      BY <3>1, <3>2, <3>3, <3>4, <3>5 DEF Reading, Dealt, Current
    <3> QED
      BY <1>1, <2>3, <3>1, <3>6 DEF PollInv, Account
  <2> QED
    BY <2>1, <2>2, <2>3
<1> QED
  BY <1>3, <1>4, <1>5, QuietStep DEF Fetch, dbVars

LEMMA FetchFailsStep ==
  ASSUME IndInv, NEW p \in Poller, NEW a \in todo[p], FetchFails(p, a)
  PROVE  IndInv'
<1>1. TypeOK'
  BY DEF IndInv, TypeOK, FetchFails, dbVars, mailVars, msgVars, history
<1>2. Rows' \subseteq Rows
  BY DEF Rows, FetchFails, dbVars, IndInv, TypeOK
<1>3. \A q \in Poller : PollInv(q)'
  BY PollStays DEF IndInv, FetchFails, msgVars, history
<1> QED
  BY <1>1, <1>2, <1>3, QuietStep DEF FetchFails, dbVars, history

LEMMA TakeStep ==
  ASSUME IndInv, NEW p \in Poller, NEW m \in left[p], Take(p, m)
  PROVE  IndInv'
<1>1. pc[p] = "messages" /\ pdfs[p] = 0 /\ acc[p] \in Account /\ Reading(p)
  BY DEF IndInv, Take, PollInv
<1>2. m \in Uid /\ m \in 0..MaxUid /\ acc[p].box \in Mailbox /\ acc[p].id \in Id
  BY <1>1, BoundsAssumption DEF IndInv, TypeOK, Uid, Account
<1>3. Pdfs[acc[p].box][m] \in Nat
  BY <1>2, PdfsAssumption DEF Uid
<1>4. tried' \subseteq Id \X Mailbox \X Uid /\ tried \subseteq tried'
  BY <1>2 DEF IndInv, TypeOK, Take, Done, Current
<1>5. TypeOK'
  BY <1>2, <1>3, <1>4 DEF IndInv, TypeOK, Take, dbVars, mailVars
<1>6. Rows' \subseteq Rows
  BY DEF Rows, Take, dbVars
<1>7. ASSUME NEW q \in Poller PROVE PollInv(q)'
  <2>1. CASE q # p
    BY <1>4, <2>1, PollStays DEF IndInv, TypeOK, Take
  <2>2. CASE q = p
    <3>1. /\ pc'[p] = "messages" /\ acc'[p] = acc[p]
          /\ left'[p] = left[p] \ {m} /\ msg'[p] = m
          /\ pdfs'[p] = Pdfs[acc[p].box][m]
          /\ maxUid'[p] = IF m > maxUid[p] THEN m ELSE maxUid[p]
          /\ UNCHANGED <<mail, uidNext, lost>>
      BY <1>1 DEF IndInv, TypeOK, Take, mailVars
    <3>2. Dealt(p, m)'
      <4>1. CASE Pdfs[acc[p].box][m] = 0
        BY <3>1, <4>1 DEF Take, Done, Dealt, Current
      <4>2. CASE Pdfs[acc[p].box][m] > 0
        BY <3>1, <4>2 DEF Dealt
      <4> QED
        BY <1>3, <4>1, <4>2
    <3>3. ASSUME NEW n \in Uid, Dealt(p, n) PROVE Dealt(p, n)'
      BY <1>1, <1>4, <3>1, <3>2, <3>3 DEF Dealt, Current
    <3>4. ASSUME NEW n \in mail[acc[p].box],
                 n > maxUid[p], \A k \in left[p] : n > k
          PROVE  n > maxUid'[p] /\ \A k \in left'[p] : n > k
      BY <3>1, <3>4
    <3>5. maxUid'[p] < uidNext[acc[p].box]
      BY <1>1, <3>1 DEF Reading
    <3>6. mail[acc[p].box] \subseteq Uid
      BY <1>2 DEF IndInv, TypeOK
    <3>7. Reading(p)'
      BY <1>1, <3>1, <3>3, <3>4, <3>5, <3>6 DEF Reading
    <3> QED
      BY <1>1, <1>2, <2>2, <3>1, <3>7 DEF PollInv
  <2> QED
    BY <2>1, <2>2
<1> QED
  BY <1>4, <1>5, <1>6, <1>7, QuietStep DEF Take, dbVars

LEMMA ImportPdfStep ==
  ASSUME IndInv, NEW p \in Poller, ImportPdf(p)
  PROVE  IndInv'
<1>1. pc[p] = "messages" /\ pdfs[p] > 0 /\ acc[p] \in Account /\ Reading(p)
  BY DEF IndInv, ImportPdf, PollInv
<1>2. acc[p].box \in Mailbox /\ acc[p].id \in Id /\ pdfs[p] \in Nat
  BY <1>1 DEF IndInv, TypeOK, Account
<1>3. tried' \subseteq Id \X Mailbox \X Uid /\ tried \subseteq tried'
  <2>1. pdfs[p] = 1 => msg[p] \in Uid
    BY <1>1 DEF IndInv, PollInv
  <2> QED
    BY <1>2, <2>1 DEF IndInv, TypeOK, ImportPdf, Done, Current
<1>4. TypeOK'
  BY <1>1, <1>2, <1>3 DEF IndInv, TypeOK, ImportPdf, dbVars, mailVars
<1>5. Rows' \subseteq Rows
  BY DEF Rows, ImportPdf, dbVars
<1>6. ASSUME NEW q \in Poller PROVE PollInv(q)'
  <2>1. CASE q # p
    BY <1>3, <2>1, PollStays DEF IndInv, TypeOK, ImportPdf
  <2>2. CASE q = p
    <3>1. /\ pdfs'[p] = pdfs[p] - 1
          /\ UNCHANGED <<pc, acc, left, msg, maxUid, mail, uidNext, lost>>
      BY DEF IndInv, TypeOK, ImportPdf, mailVars
    <3>2. Dealt(p, msg[p])'
      <4>1. CASE pdfs[p] = 1
        BY <3>1, <4>1 DEF ImportPdf, Done, Dealt, Current
      <4>2. CASE pdfs[p] # 1
        BY <1>1, <1>2, <3>1, <4>2 DEF Dealt
      <4> QED
        BY <4>1, <4>2
    <3>3. ASSUME NEW n, Dealt(p, n) PROVE Dealt(p, n)'
      BY <1>3, <3>1, <3>2, <3>3 DEF Dealt, Current
    <3>4. Reading(p)'
      BY <1>1, <3>1, <3>3 DEF Reading
    <3> QED
      BY <1>1, <2>2, <3>1, <3>4 DEF PollInv, IndInv
  <2> QED
    BY <2>1, <2>2
<1> QED
  BY <1>3, <1>4, <1>5, <1>6, QuietStep DEF ImportPdf, dbVars

\* A poll that leaves an account keeps nothing of it.
LEMMA ForgetLeaves ==
  ASSUME IndInv, NEW p \in Poller, Forget(p),
         pc' \in [Poller -> {"idle", "accounts", "messages"}],
         pc'[p] # "messages",
         \A q \in Poller \ {p} : pc'[q] = pc[q],
         UNCHANGED <<mailVars, tried>>, lost \subseteq lost'
  PROVE  /\ acc' \in [Poller -> Account \cup {NoRow}]
         /\ left' \in [Poller -> SUBSET Uid]
         /\ msg' \in [Poller -> 0..MaxUid]
         /\ pdfs' \in [Poller -> Nat]
         /\ maxUid' \in [Poller -> 0..MaxUid]
         /\ \A q \in Poller : PollInv(q)'
<1>1. /\ acc' \in [Poller -> Account \cup {NoRow}]
      /\ left' \in [Poller -> SUBSET Uid]
      /\ msg' \in [Poller -> 0..MaxUid]
      /\ pdfs' \in [Poller -> Nat]
      /\ maxUid' \in [Poller -> 0..MaxUid]
  BY BoundsAssumption DEF IndInv, TypeOK, Forget
<1>2. PollInv(p)'
  BY DEF IndInv, TypeOK, Forget, PollInv
<1>3. ASSUME NEW q \in Poller, q # p PROVE PollInv(q)'
  BY <1>3, PollStays DEF IndInv, TypeOK, Forget
<1> QED
  BY <1>1, <1>2, <1>3

LEMMA SaveStep == ASSUME IndInv, NEW p \in Poller, Save(p) PROVE IndInv'
<1>1. /\ pc[p] = "messages" /\ left[p] = {} /\ pdfs[p] = 0
      /\ acc[p] \in Account /\ Reading(p)
  BY DEF IndInv, Save, PollInv
<1>2. /\ pc' = [pc EXCEPT ![p] = "accounts"]
      /\ UNCHANGED <<mail, uidNext, nextId, todo, tried, imported>>
  BY DEF Save, mailVars
<1>3. maxUid[p] \in 0..MaxUid
  BY DEF IndInv, TypeOK
<1>4. ASSUME lost \subseteq lost'
      PROVE  /\ acc' \in [Poller -> Account \cup {NoRow}]
             /\ left' \in [Poller -> SUBSET Uid]
             /\ msg' \in [Poller -> 0..MaxUid]
             /\ pdfs' \in [Poller -> Nat]
             /\ maxUid' \in [Poller -> 0..MaxUid]
             /\ \A q \in Poller : PollInv(q)'
  BY <1>2, <1>4, ForgetLeaves DEF IndInv, TypeOK, Save, mailVars
<1>5. CASE excused' = excused \cup Fetched(p) /\ UNCHANGED <<accounts, lost>>
  <2>1. excused' \subseteq Id \X Mailbox \X Uid
    BY <1>1, <1>5 DEF IndInv, TypeOK, Fetched, Mails, Account
  <2>2. TypeOK'
    BY <1>2, <1>4, <1>5, <2>1 DEF IndInv, TypeOK
  <2>3. Rows' \subseteq Rows
    BY <1>2, <1>5 DEF Rows
  <2> QED
    BY <1>2, <1>4, <1>5, <2>2, <2>3, QuietStep DEF mailVars
<1>6. CASE UpdateLastUID(p, maxUid[p])
  <2>0. PICK top : top = maxUid[p]
    OBVIOUS
  <2> DEFINE rows == {a \in accounts : a.id = acc[p].id}
             Saved(a) == [a EXCEPT !.last = top]
             new == {Saved(a) : a \in rows}
             other == {a \in new : a.box # acc[p].box}
  <2>1. \A a \in accounts :
          /\ a \in Row /\ Saved(a) \in Row /\ Saved(a).id = a.id
          /\ Saved(a).user = a.user /\ Saved(a).box = a.box /\ Saved(a).last = top
    BY <1>3, <2>0 DEF IndInv, TypeOK, Row
  <2>2. accounts' = (accounts \ rows) \cup new /\ CursorsOfOther(other)
    BY <1>6, <2>0 DEF UpdateLastUID
  <2>3. \A a \in new : a \in Row /\ a.id = acc[p].id /\ a.last = top
    BY <2>1
  <2>4. /\ lost' \subseteq Id \X Mailbox \X Uid
        /\ excused' \subseteq Id \X Mailbox \X Uid
        /\ lost \subseteq lost'
        /\ \A a \in other : \A m \in Uid : m <= a.last => <<a.id, a.box, m>> \in lost'
    <3>1. other \in SUBSET Row
      BY <2>3
    <3> HIDE DEF other
    <3> QED
      BY <2>2, <3>1, CursorsNoted DEF IndInv, TypeOK
  <2>5. \A a, b \in accounts' : a.user = b.user => a = b
    <3> SUFFICES ASSUME NEW a \in accounts', NEW b \in accounts', a.user = b.user
                 PROVE  a = b
      OBVIOUS
    <3>1. PICK c \in accounts : a = IF c.id = acc[p].id THEN Saved(c) ELSE c
      BY <2>2
    <3>2. PICK d \in accounts : b = IF d.id = acc[p].id THEN Saved(d) ELSE d
      BY <2>2
    <3>3. c.user = d.user
      BY <2>1, <3>1, <3>2
    <3>4. c = d
      BY <3>3 DEF IndInv, TypeOK
    <3> QED
      BY <3>1, <3>2, <3>4
  <2>6. TypeOK'
    BY <1>2, <1>4, <2>1, <2>2, <2>3, <2>4, <2>5 DEF IndInv, TypeOK
  <2>7. ASSUME NEW a \in Rows PROVE RowInv(a)'
    BY <1>2, <2>4, RowInv(a) DEF IndInv, RowInv
  <2>8. ASSUME NEW a \in new PROVE RowInv(a)'
    <3>1. CASE a.box # acc[p].box
      BY <2>4, <3>1 DEF RowInv
    <3>2. CASE a.box = acc[p].box
      <4>1. ASSUME NEW m \in Uid, m <= top
            PROVE  \/ <<a.id, a.box, m>> \in lost
                   \/ /\ m < uidNext[a.box]
                      /\ m \in mail[a.box] => <<a.id, a.box, m>> \in tried
        <5>1. top < uidNext[a.box] /\ uidNext[a.box] \in Nat
          BY <1>1, <2>0, <3>2 DEF Reading, IndInv, TypeOK, Account
        <5>2. m \in Nat /\ top \in Nat
          BY <1>3, <2>0 DEF Uid
        <5>3. m \in mail[a.box] => Dealt(p, m)
          BY <1>1, <2>0, <3>2, <4>1, <5>2 DEF Reading
        <5> QED
          BY <1>1, <2>3, <3>2, <4>1, <5>1, <5>2, <5>3 DEF Dealt, Current
      <4> QED
        BY <1>2, <2>3, <2>4, <4>1 DEF RowInv
    <3> QED
      BY <3>1, <3>2
  <2>9. \A a \in Rows' : RowInv(a)'
    <3>1. \A a \in Rows' : a \in Rows \/ a \in new
      BY <1>2, <2>2 DEF Rows
    <3> QED
      BY <2>7, <2>8, <3>1
  <2> QED
    BY <1>2, <1>4, <2>4, <2>6, <2>9 DEF IndInv
<1> QED
  BY <1>5, <1>6 DEF Save

LEMMA InterruptStep ==
  ASSUME IndInv, NEW p \in Poller, Interrupt(p)
  PROVE  IndInv'
<1>1. pc' = [pc EXCEPT ![p] = "idle"] /\ UNCHANGED <<mailVars, tried, lost>>
  BY DEF Interrupt
<1>2. /\ acc' \in [Poller -> Account \cup {NoRow}]
      /\ left' \in [Poller -> SUBSET Uid]
      /\ msg' \in [Poller -> 0..MaxUid]
      /\ pdfs' \in [Poller -> Nat]
      /\ maxUid' \in [Poller -> 0..MaxUid]
      /\ \A q \in Poller : PollInv(q)'
  BY <1>1, ForgetLeaves DEF IndInv, TypeOK, Interrupt
<1>3. excused' \subseteq Id \X Mailbox \X Uid
  BY DEF IndInv, TypeOK, Interrupt, Fetched, Mails, PollInv, Account
<1>4. TypeOK'
  BY <1>1, <1>2, <1>3 DEF IndInv, TypeOK, Interrupt, dbVars, mailVars
<1>5. Rows' \subseteq Rows
  BY <1>2 DEF Rows, Interrupt, dbVars, IndInv, TypeOK
<1> QED
  BY <1>2, <1>4, <1>5, QuietStep DEF Interrupt, dbVars

LEMMA EndStep == ASSUME IndInv, NEW p \in Poller, End(p) PROVE IndInv'
<1>1. TypeOK'
  BY DEF IndInv, TypeOK, End, dbVars, mailVars, msgVars, history
<1>2. Rows' \subseteq Rows
  BY DEF Rows, End, dbVars, IndInv, TypeOK
<1>3. ASSUME NEW q \in Poller PROVE PollInv(q)'
  <2>1. CASE q = p
    BY <2>1 DEF IndInv, TypeOK, End, PollInv, msgVars
  <2>2. CASE q # p
    BY <2>2, PollStays DEF IndInv, TypeOK, End, msgVars, history
  <2> QED
    BY <2>1, <2>2
<1> QED
  BY <1>1, <1>2, <1>3, QuietStep DEF End, dbVars, history

-----------------------------------------------------------------------------
LEMMA InductiveStep == IndInv /\ [Next]_vars => IndInv'
<1> SUFFICES ASSUME IndInv, [Next]_vars PROVE IndInv'
  OBVIOUS
<1>1. CASE Environment
  BY <1>1, DeliverStep, RemoveStep, RegisterStep, DeleteStep DEF Environment
<1>2. ASSUME NEW p \in Poller, Poll(p) PROVE IndInv'
  BY <1>2, FetchStep, FetchFailsStep, TakeStep, ImportPdfStep, SaveStep, EndStep
     DEF Poll, Work
<1>3. CASE UNCHANGED vars
  BY <1>3 DEF vars, dbVars, mailVars, msgVars, history, IndInv, TypeOK, Rows,
     RowInv, PollInv, Reading, Dealt, Current
<1> QED
  BY <1>1, <1>2, <1>3, BeginStep, InterruptStep DEF Next

\* The inductive invariant of EmailPoll.
THEOREM InvariantHolds == Spec => []IndInv
<1>1. Init => IndInv
  BY InitInv
<1>2. IndInv /\ [Next]_vars => IndInv'
  BY InductiveStep
<1> QED
  BY <1>1, <1>2, PTL DEF Spec

\* Type correctness, with one account for each user.
THEOREM TypeCorrect == Spec => []TypeOK
<1>1. IndInv => TypeOK
  BY DEF IndInv
<1> QED
  BY <1>1, InvariantHolds, PTL

\* last_uid_seen never passes a message whose PDFs were not tried, however
\* many pollers overlap and whenever they are cut off; after a change of the
\* mailbox, none but those the other mailbox's cursor passed.
THEOREM NothingSkipped == Spec => []NoMailSkipped
<1>1. IndInv => NoMailSkipped
  <2> SUFFICES ASSUME IndInv, NEW a \in accounts,
                      NEW m \in mail[a.box], m <= a.last
               PROVE  <<a.id, a.box, m>> \in tried \cup lost
    BY DEF NoMailSkipped
  <2>1. RowInv(a) /\ m \in Uid
    BY DEF IndInv, Rows, TypeOK, Row
  <2> QED
    BY <2>1 DEF RowInv
<1> QED
  BY <1>1, InvariantHolds, PTL

-----------------------------------------------------------------------------
(* What a poll may look at again.                                          *)

\* Message m of the account of row a counts as imported, and nothing excuses
\* that a poll looks at it again.
Settled(a, m) == <<a.id, a.box, m>> \in imported \ excused

\* The cursor of a copy has passed all settled messages of the inbox.
CursorOf(a) == \A m \in mail[a.box] : Settled(a, m) => m <= a.last

\* Poll p is alone and has yet to save a cursor that passes m.
WillCover(p, a, m) ==
  /\ pc[p] = "messages" /\ Others(p) = {}
  /\ acc[p].id = a.id /\ acc[p].box = a.box /\ m <= maxUid[p]

\* So has the cursor in the table, or the poll that works on it will save one
\* that has.
CursorOfTable(a) ==
  \A m \in mail[a.box] :
    Settled(a, m) => m <= a.last \/ \E p \in Poller : WillCover(p, a, m)

\* What a poll that is not alone imports is excused; what a poll has not
\* fetched is less than what it has, or not settled.
MessagesInv(p) ==
  /\ \A a \in todo[p] : a.id # acc[p].id
  /\ pdfs[p] > 0 => msg[p] \notin left[p] /\ msg[p] <= maxUid[p]
  /\ \A m \in left[p] : ~Settled(acc[p], m)
  /\ \A m \in mail[acc[p].box] :
       Settled(acc[p], m) => m <= maxUid[p] \/ \E n \in left[p] : m <= n
  /\ Others(p) # {} =>
       /\ \A m \in left[p] : Current(p, m) \in excused
       /\ pdfs[p] > 0 => Current(p, msg[p]) \in excused

\* Ids name rows for ever, and UIDs messages.
IdsInv ==
  /\ \A a, b \in accounts : a.id = b.id => a = b
  /\ \A a \in accounts : a.id < nextId
  /\ \A p \in Poller : \A a, b \in todo[p] : a.id = b.id => a = b
  /\ \A p \in Poller : \A a \in todo[p] : a.id < nextId
  /\ \A p \in Poller : pc[p] = "idle" => todo[p] = {}
  /\ \A p \in Poller : pc[p] = "messages" => acc[p].id < nextId
  /\ imported \subseteq Id \X Mailbox \X Uid
  /\ \A t \in imported : t[1] < nextId /\ t[3] < uidNext[t[2]]

AgainInv ==
  /\ IdsInv
  /\ \A a \in accounts : CursorOfTable(a)
  /\ \A p \in Poller : \A a \in todo[p] : CursorOf(a)
  /\ \A p \in Poller : pc[p] = "messages" => MessagesInv(p)

\* A step settles nothing of the account of a, nor brings settled mail back.
NothingNew(a) ==
  /\ \A m : Settled(a, m)' => Settled(a, m)
  /\ \A m \in mail'[a.box] : Settled(a, m)' => m \in mail[a.box]

LEMMA QuietIsNothingNew ==
  ASSUME imported' = imported, excused \subseteq excused', mail' = mail, NEW a
  PROVE  NothingNew(a)
BY DEF NothingNew, Settled

LEMMA CursorStays ==
  ASSUME NEW a, CursorOf(a), NothingNew(a)
  PROVE  CursorOf(a)'
BY DEF CursorOf, NothingNew

LEMMA TableStays ==
  ASSUME NEW a, CursorOfTable(a), NothingNew(a),
         \A m \in mail[a.box], p \in Poller :
           WillCover(p, a, m) /\ Settled(a, m)' => \E q \in Poller : WillCover(q, a, m)'
  PROVE  CursorOfTable(a)'
BY DEF CursorOfTable, NothingNew

LEMMA MessagesStay ==
  ASSUME NEW p \in Poller, MessagesInv(p), NothingNew(acc[p]),
         todo'[p] \subseteq todo[p], acc'[p] = acc[p], left'[p] = left[p],
         msg'[p] = msg[p], pdfs'[p] = pdfs[p], maxUid'[p] = maxUid[p],
         Others(p)' # {} => Others(p) # {},
         excused \subseteq excused'
  PROVE  MessagesInv(p)'
<1>1. \A m : Current(p, m)' = Current(p, m)
  BY DEF Current
<1> QED
  BY <1>1 DEF MessagesInv, NothingNew, Settled

LEMMA AgainInit == Init => AgainInv
<1> SUFFICES ASSUME Init PROVE AgainInv
  OBVIOUS
<1>1. \A p \in Poller : pc[p] = "idle" /\ todo[p] = {}
  BY DEF Init
<1>2. IdsInv
  BY <1>1 DEF Init, IdsInv
<1> QED
  BY <1>1, <1>2 DEF Init, AgainInv

LEMMA AgainDeliver ==
  ASSUME IndInv, AgainInv, NEW b \in Mailbox, Deliver(b)
  PROVE  AgainInv'
<1>1. /\ UNCHANGED <<accounts, nextId, pc, todo, acc, left, msg, pdfs, maxUid,
                    imported, excused>>
      /\ uidNext[b] \in Nat
      /\ mail' = [mail EXCEPT ![b] = @ \cup {uidNext[b]}]
      /\ uidNext' = [uidNext EXCEPT ![b] = @ + 1]
  BY DEF Deliver, dbVars, msgVars, history, IndInv, TypeOK
<1>2. IdsInv'
  BY <1>1 DEF IdsInv, AgainInv, IndInv, TypeOK, Uid
<1>3. ASSUME NEW a, a.box \in Mailbox PROVE NothingNew(a)
  <2>1. \A m : Settled(a, m)' => Settled(a, m)
    BY <1>1 DEF Settled
  <2>2. ~Settled(a, uidNext[b]) \/ a.box # b
    BY <1>1 DEF Settled, AgainInv, IdsInv
  <2> QED
    BY <1>1, <2>1, <2>2, <1>3 DEF NothingNew, IndInv, TypeOK
<1>4. \A a \in accounts' : CursorOfTable(a)'
  <2> SUFFICES ASSUME NEW a \in accounts PROVE CursorOfTable(a)'
    BY <1>1
  <2>1. NothingNew(a)
    BY <1>3 DEF IndInv, TypeOK, Row
  <2>2. \A m, p : WillCover(p, a, m)' = WillCover(p, a, m)
    BY <1>1 DEF WillCover, Others
  <2> QED
    BY <2>1, <2>2, TableStays DEF AgainInv
<1>5. ASSUME NEW p \in Poller PROVE \A a \in todo'[p] : CursorOf(a)'
  <2> SUFFICES ASSUME NEW a \in todo[p] PROVE CursorOf(a)'
    BY <1>1
  <2>1. NothingNew(a)
    BY <1>3 DEF IndInv, TypeOK, Row
  <2> QED
    BY <2>1, CursorStays DEF AgainInv
<1>6. ASSUME NEW p \in Poller, pc[p] = "messages" PROVE MessagesInv(p)'
  <2>1. NothingNew(acc[p])
    BY <1>3, <1>6 DEF IndInv, PollInv, Account
  <2>2. Others(p)' = Others(p)
    BY <1>1 DEF Others
  <2> QED
    BY <1>1, <1>6, <2>1, <2>2, MessagesStay DEF AgainInv
<1> QED
  BY <1>1, <1>2, <1>4, <1>5, <1>6 DEF AgainInv

LEMMA AgainRemove ==
  ASSUME IndInv, AgainInv, NEW b \in Mailbox, NEW k \in Uid, Remove(b, k)
  PROVE  AgainInv'
<1>1. /\ UNCHANGED <<accounts, nextId, uidNext, pc, todo, acc, left, msg, pdfs,
                    maxUid, imported, excused>>
      /\ \A c \in Mailbox : mail'[c] \subseteq mail[c]
  BY DEF Remove, dbVars, msgVars, history, IndInv, TypeOK
<1>2. IdsInv'
  BY <1>1 DEF IdsInv, AgainInv
<1>3. ASSUME NEW a, a.box \in Mailbox PROVE NothingNew(a)
  BY <1>1, <1>3 DEF NothingNew, Settled
<1>4. ASSUME NEW a \in accounts PROVE CursorOfTable(a)'
  <2>1. NothingNew(a)
    BY <1>3 DEF IndInv, TypeOK, Row
  <2>2. \A m, p : WillCover(p, a, m)' = WillCover(p, a, m)
    BY <1>1 DEF WillCover, Others
  <2> QED
    BY <2>1, <2>2, TableStays DEF AgainInv
<1>5. ASSUME NEW p \in Poller, NEW a \in todo[p] PROVE CursorOf(a)'
  <2>1. NothingNew(a)
    BY <1>3 DEF IndInv, TypeOK, Row
  <2> QED
    BY <2>1, CursorStays DEF AgainInv
<1>6. ASSUME NEW p \in Poller, pc[p] = "messages" PROVE MessagesInv(p)'
  <2>1. NothingNew(acc[p])
    BY <1>3, <1>6 DEF IndInv, PollInv, Account
  <2>2. Others(p)' = Others(p)
    BY <1>1 DEF Others
  <2> QED
    BY <1>1, <1>6, <2>1, <2>2, MessagesStay DEF AgainInv
<1> QED
  BY <1>1, <1>2, <1>4, <1>5, <1>6 DEF AgainInv

\* A step that changes neither inboxes nor what is imported, and no poller,
\* needs only the table looked at.
LEMMA PollersStay ==
  ASSUME AgainInv,
         UNCHANGED <<mail, imported, pc, todo, acc, left, msg, pdfs, maxUid>>,
         excused \subseteq excused'
  PROVE  /\ \A p \in Poller : \A a \in todo'[p] : CursorOf(a)'
         /\ \A p \in Poller : pc'[p] = "messages" => MessagesInv(p)'
<1>1. \A a : NothingNew(a)
  BY QuietIsNothingNew
<1>2. ASSUME NEW p \in Poller, NEW a \in todo[p] PROVE CursorOf(a)'
  BY <1>1, CursorStays DEF AgainInv
<1>3. ASSUME NEW p \in Poller, pc[p] = "messages" PROVE MessagesInv(p)'
  <2>1. Others(p)' = Others(p)
    BY DEF Others
  <2> QED
    BY <1>1, <1>3, <2>1, MessagesStay DEF AgainInv
<1> QED
  BY <1>2, <1>3

LEMMA AgainRegister ==
  ASSUME IndInv, AgainInv, NEW u \in User, NEW b \in Mailbox, Register(u, b)
  PROVE  AgainInv'
<1>0. UNCHANGED <<mail, uidNext, pc, todo, acc, left, msg, pdfs, maxUid, imported>>
  BY DEF Register, mailVars, msgVars
<1>1. ASSUME excused \subseteq excused',
             NEW a \in accounts, CursorOfTable(a)
      PROVE  CursorOfTable(a)'
  <2>1. NothingNew(a)
    BY <1>0, <1>1, QuietIsNothingNew
  <2>2. \A m, p : WillCover(p, a, m)' = WillCover(p, a, m)
    BY <1>0 DEF WillCover, Others
  <2> QED
    BY <1>1, <2>1, <2>2, TableStays
<1>2. CASE /\ ~HasAccount(u) /\ nextId <= MaxId
           /\ accounts' = accounts \cup
                            {[id |-> nextId, user |-> u, box |-> b, last |-> 0]}
           /\ nextId' = nextId + 1 /\ UNCHANGED <<lost, excused>>
  <2>0. PICK new : new = [id |-> nextId, user |-> u, box |-> b, last |-> 0]
    OBVIOUS
  <2>1. new.id = nextId /\ new.box = b /\ nextId \in Nat
    BY <2>0 DEF IndInv, TypeOK
  <2>2. /\ \A a \in accounts : a.id \in Nat /\ a.id < nextId
        /\ \A p \in Poller : \A a \in todo[p] : a.id \in Nat /\ a.id < nextId
        /\ \A p \in Poller : pc[p] = "messages" => acc[p].id \in Nat /\ acc[p].id < nextId
        /\ \A t \in imported : t[1] \in Nat /\ t[1] < nextId /\ t[3] < uidNext[t[2]]
    BY DEF IndInv, TypeOK, PollInv, Account, Row, Id, AgainInv, IdsInv
  <2>3. IdsInv'
    BY <1>0, <1>2, <2>0, <2>1, <2>2 DEF AgainInv, IdsInv
  <2>4. CursorOfTable(new)'
    BY <1>0, <1>2, <2>1, <2>2 DEF CursorOfTable, Settled
  <2> QED
    BY <1>0, <1>1, <1>2, <2>0, <2>3, <2>4, PollersStay DEF AgainInv
<1>3. ASSUME NEW r \in accounts, r.user = u,
             accounts' = (accounts \ {r}) \cup {[r EXCEPT !.box = b]},
             CursorsOfOther({c \in {[r EXCEPT !.box = b]} : r.box # b}),
             UNCHANGED nextId
      PROVE  AgainInv'
  <2>0. PICK new : new = [r EXCEPT !.box = b]
    OBVIOUS
  <2>1. r \in Row /\ new.id = r.id /\ new.box = b /\ new.last = r.last /\ (r.box = b => new = r)
    BY <2>0 DEF IndInv, TypeOK, Row
  <2>2. accounts' = (accounts \ {r}) \cup {new}
    BY <1>3, <2>0
  <2>3. /\ excused \subseteq excused'
        /\ r.box # b => \A m \in Uid : m > r.last => <<r.id, b, m>> \in excused'
    <3>1. excused' = excused \cup
                UNION {Mails(a, {m \in Uid : m > a.last}) : a \in {c \in {new} : r.box # b}}
      BY <1>3, <2>0 DEF CursorsOfOther
    <3> QED
      BY <2>1, <3>1 DEF Mails
  <2>4. IdsInv'
    BY <1>0, <1>3, <2>1, <2>2 DEF AgainInv, IdsInv
  <2>5. CursorOfTable(new)'
    <3>1. CASE r.box = b
      BY <1>1, <2>1, <2>3, <3>1 DEF AgainInv
    <3>2. CASE r.box # b
      <4>1. \A m \in mail[b] : m \in Nat /\ m \in Uid
        BY DEF IndInv, TypeOK, Uid
      <4>2. r.last \in Nat
        BY <2>1 DEF Row
      <4>3. \A m \in mail[b] : m <= r.last \/ m > r.last
        BY <4>1, <4>2
      <4> QED
        BY <1>0, <2>1, <2>3, <3>2, <4>1, <4>3 DEF CursorOfTable, Settled
    <3> QED
      BY <3>1, <3>2
  <2> QED
    BY <1>0, <1>1, <2>2, <2>3, <2>4, <2>5, PollersStay DEF AgainInv
<1>4. \/ /\ ~HasAccount(u) /\ nextId <= MaxId
         /\ accounts' = accounts \cup
                          {[id |-> nextId, user |-> u, box |-> b, last |-> 0]}
         /\ nextId' = nextId + 1 /\ UNCHANGED <<lost, excused>>
      \/ \E r \in accounts :
           /\ r.user = u
           /\ accounts' = (accounts \ {r}) \cup {[r EXCEPT !.box = b]}
           /\ CursorsOfOther({c \in {[r EXCEPT !.box = b]} : r.box # b})
           /\ UNCHANGED nextId
  BY Zenon DEF Register, UpsertEmailAccount
<1> QED
  BY <1>2, <1>3, <1>4, Zenon

LEMMA AgainDelete ==
  ASSUME IndInv, AgainInv, NEW u \in User, Delete(u)
  PROVE  AgainInv'
<1>1. /\ UNCHANGED <<mail, uidNext, nextId, pc, todo, acc, left, msg, pdfs, maxUid,
                    imported, excused>>
      /\ accounts' \subseteq accounts
  BY DEF Delete, mailVars, msgVars, history
<1>2. IdsInv'
  BY <1>1 DEF AgainInv, IdsInv
<1>3. ASSUME NEW a \in accounts PROVE CursorOfTable(a)'
  <2>1. NothingNew(a)
    BY <1>1, QuietIsNothingNew
  <2>2. \A m, p : WillCover(p, a, m)' = WillCover(p, a, m)
    BY <1>1 DEF WillCover, Others
  <2> QED
    BY <2>1, <2>2, TableStays DEF AgainInv
<1> QED
  BY <1>1, <1>2, <1>3, PollersStay DEF AgainInv
-----------------------------------------------------------------------------
(* PollAll, once more.                                                     *)

\* What the polls that are under way have fetched is what Fetched says.
LEMMA FetchedBound ==
  ASSUME IndInv, AgainInv, NEW p \in Poller, pc[p] = "messages"
  PROVE  /\ acc[p].id \in Id /\ acc[p].box \in Mailbox /\ left[p] \subseteq Uid
         /\ maxUid[p] \in Nat /\ uidNext[acc[p].box] \in Nat
         /\ pdfs[p] > 0 => msg[p] \in Uid
         /\ \A m \in Uid : m <= maxUid[p] \/ m \in left[p] =>
              m < uidNext[acc[p].box] /\ Current(p, m) \in Fetched(p)
<1>1. acc[p] \in Account /\ Reading(p) /\ (pdfs[p] > 0 => msg[p] \in Uid)
  BY DEF IndInv, PollInv
<1>2. /\ acc[p].id \in Id /\ acc[p].box \in Mailbox /\ left[p] \subseteq Uid
      /\ maxUid[p] \in Nat /\ uidNext[acc[p].box] \in Nat
  BY <1>1, BoundsAssumption DEF Account, IndInv, TypeOK
<1>3. ASSUME NEW m \in Uid, m <= maxUid[p] \/ m \in left[p]
      PROVE  m < uidNext[acc[p].box] /\ Current(p, m) \in Fetched(p)
  <2>1. m \in Nat /\ m < uidNext[acc[p].box]
    BY <1>1, <1>2, <1>3 DEF Reading, Uid
  <2> QED
    BY <2>1 DEF Fetched, Mails, Current
<1> QED
  BY <1>1, <1>2, <1>3

LEMMA AgainBegin ==
  ASSUME IndInv, AgainInv, NEW p \in Poller, Begin(p)
  PROVE  AgainInv'
<1>1. /\ UNCHANGED <<accounts, nextId, mail, uidNext, acc, left, msg, pdfs, maxUid, imported>>
      /\ pc[p] = "idle" /\ pc' = [pc EXCEPT ![p] = "accounts"]
      /\ todo' = [todo EXCEPT ![p] = accounts]
      /\ excused' = excused \cup UNION {Fetched(q) : q \in Others(p)}
  BY DEF Begin, dbVars, mailVars, msgVars
<1>2. IdsInv'
  BY <1>1 DEF AgainInv, IdsInv, IndInv, TypeOK
<1>3. \A a : NothingNew(a)
  BY <1>1, QuietIsNothingNew
<1>4. ASSUME NEW q \in Poller, pc[q] = "messages"
      PROVE  \A m \in Uid : m <= maxUid[q] \/ m \in left[q] => Current(q, m) \in excused'
  <2>1. q \in Others(p)
    BY <1>1, <1>4 DEF Others
  <2> QED
    BY <1>1, <1>4, <2>1, FetchedBound
<1>5. ASSUME NEW a \in accounts PROVE CursorOf(a)' /\ CursorOfTable(a)'
  <2>1. a.id \in Id /\ a.box \in Mailbox /\ mail[a.box] \subseteq Uid
    BY DEF IndInv, TypeOK, Row
  <2>2. \A m \in mail[a.box] : Settled(a, m)' => m <= a.last
    <3> SUFFICES ASSUME NEW m \in mail[a.box], Settled(a, m)' PROVE m <= a.last
      OBVIOUS
    <3>1. Settled(a, m)
      BY <1>3 DEF NothingNew
    <3>2. ASSUME NEW q \in Poller, WillCover(q, a, m) PROVE FALSE
      <4>1. Current(q, m) \in excused'
        BY <1>4, <2>1, <3>2 DEF WillCover
      <4> QED
        BY <3>2, <4>1 DEF WillCover, Current, Settled
    <3> QED
      BY <3>1, <3>2 DEF AgainInv, CursorOfTable
  <2> QED
    BY <1>1, <2>2 DEF CursorOf, CursorOfTable
<1>6. ASSUME NEW q \in Poller, NEW a \in todo'[q] PROVE CursorOf(a)'
  <2>1. CASE q = p
    BY <1>1, <1>5, <2>1 DEF IndInv, TypeOK
  <2>2. CASE q # p
    BY <1>1, <1>3, <1>6, <2>2, CursorStays DEF IndInv, TypeOK, AgainInv
  <2> QED
    BY <2>1, <2>2
<1>7. ASSUME NEW q \in Poller, pc'[q] = "messages" PROVE MessagesInv(q)'
  <2>1. q # p /\ pc[q] = "messages" /\ todo'[q] = todo[q]
    BY <1>1, <1>7 DEF IndInv, TypeOK
  <2>2. \A m \in left[q] : Current(q, m)' \in excused'
    BY <1>1, <1>4, <2>1, FetchedBound DEF Current
  <2>3. pdfs[q] > 0 => Current(q, msg[q])' \in excused'
    BY <1>1, <1>4, <2>1, FetchedBound DEF Current, AgainInv, MessagesInv
  <2> QED
    BY <1>1, <1>3, <2>1, <2>2, <2>3 DEF AgainInv, MessagesInv, NothingNew
<1> QED
  BY <1>1, <1>2, <1>5, <1>6, <1>7 DEF AgainInv

\* A step of a poll that leaves the table, the inboxes and what is imported
\* alone, needs only the poll itself looked at.
LEMMA OthersStay ==
  ASSUME AgainInv, NEW p \in Poller, pc[p] # "idle", pc'[p] # "idle",
         UNCHANGED <<mail, imported>>,
         pc' \in [Poller -> {"idle", "accounts", "messages"}],
         excused \subseteq excused',
         todo'[p] \subseteq todo[p],
         \A q \in Poller \ {p} :
           /\ pc'[q] = pc[q] /\ todo'[q] = todo[q] /\ acc'[q] = acc[q]
           /\ left'[q] = left[q] /\ msg'[q] = msg[q] /\ pdfs'[q] = pdfs[q]
           /\ maxUid'[q] = maxUid[q],
         pc'[p] = "messages" => MessagesInv(p)'
  PROVE  /\ \A q \in Poller : Others(q)' = Others(q)
         /\ \A q \in Poller : \A a \in todo'[q] : CursorOf(a)'
         /\ \A q \in Poller : pc'[q] = "messages" => MessagesInv(q)'
<1>1. \A a : NothingNew(a)
  BY QuietIsNothingNew
<1>2. \A q \in Poller : Others(q)' = Others(q)
  BY DEF Others
<1>3. ASSUME NEW q \in Poller, NEW a \in todo'[q] PROVE CursorOf(a)'
  BY <1>1, <1>3, CursorStays DEF AgainInv
<1>4. ASSUME NEW q \in Poller \ {p}, pc'[q] = "messages" PROVE MessagesInv(q)'
  BY <1>1, <1>2, <1>4, MessagesStay DEF AgainInv
<1> QED
  BY <1>2, <1>3, <1>4

\* A set of numbers with an upper bound has a greatest one.
LEMMA GreatestNat ==
  ASSUME NEW N \in Nat, NEW S, S \subseteq 1..N, S # {}
  PROVE  \E top \in S : \A k \in S : k <= top
<1> DEFINE From(n) == {k \in S : n <= k}
           T == {From(n) : n \in S}
<1>1. IsFiniteSet(S)
  <2>1. IsFiniteSet(1..N)
    BY FS_Interval
  <2> QED
    BY <2>1, FS_Subset
<1>2. \A k \in S : k \in Nat
  OBVIOUS
<1>3. T \subseteq SUBSET S /\ T # {}
  <2>1. T \subseteq SUBSET S
    OBVIOUS
  <2>2. PICK n : n \in S
    OBVIOUS
  <2>3. From(n) \in T
    BY <2>2
  <2> QED
    BY <2>1, <2>3
<1>4. \E A \in T : \A B \in T : ~(<<B, A>> \in StrictSubsetOrdering(S))
  <2>1. FiniteSubsetsOf(S) = SUBSET S
    BY <1>1, FS_FiniteSubsetsOfFinite
  <2>2. IsWellFoundedOn(StrictSubsetOrdering(S), FiniteSubsetsOf(S))
    BY FS_StrictSubsetOrderingWellFounded
  <2> HIDE DEF T
  <2> QED
    BY <1>3, <2>1, <2>2, WFMin
<1>5. PICK top \in S : \A B \in T : ~(<<B, From(top)>> \in StrictSubsetOrdering(S))
  BY <1>4
<1>6. ASSUME NEW k \in S, ~(k <= top) PROVE FALSE
  <2>1. From(k) \subseteq From(top)
    <3>1. k \in Nat /\ top \in Nat /\ top < k
      BY <1>2, <1>6
    <3>2. \A x \in S : k <= x => top <= x
      BY <1>2, <3>1
    <3> QED
      BY <3>2
  <2>2. top \in From(top) /\ top \notin From(k)
    BY <1>2, <1>6
  <2>3. From(k) \in T /\ From(k) \in SUBSET S /\ From(top) \in SUBSET S
    OBVIOUS
  <2> HIDE DEF From, T
  <2>4. From(k) # From(top)
    BY <2>2
  <2> QED
    BY <1>5, <2>1, <2>3, <2>4 DEF StrictSubsetOrdering
<1> QED
  BY <1>6

LEMMA AgainFetch ==
  ASSUME IndInv, AgainInv, NEW p \in Poller, NEW a \in todo[p], Fetch(p, a)
  PROVE  AgainInv'
<1> DEFINE new == FetchedUids(a.box, a.last)
<1>1. /\ UNCHANGED <<accounts, nextId, mail, uidNext, msg, pdfs, maxUid, imported>>
      /\ pc[p] = "accounts" /\ pc' \in [Poller -> {"idle", "accounts", "messages"}]
      /\ pc'[p] \in {"accounts", "messages"}
      /\ todo' = [todo EXCEPT ![p] = @ \ {a}]
      /\ left' = [left EXCEPT ![p] = new]
      /\ excused' = excused \cup
                      Mails(a, IF Others(p) # {} THEN new ELSE {m \in new : m <= a.last})
      /\ \A q \in Poller \ {p} : pc'[q] = pc[q] /\ acc'[q] = acc[q]
      /\ pc'[p] = "messages" => acc'[p] = [id |-> a.id, box |-> a.box]
      /\ maxUid[p] = 0 /\ pdfs[p] = 0
  BY DEF Fetch, IsNext, dbVars, mailVars, IndInv, TypeOK, PollInv
<1>2. /\ a.id \in Id /\ a.box \in Mailbox /\ a.last \in Nat /\ a.id < nextId
      /\ mail[a.box] \subseteq Uid /\ new \subseteq mail[a.box] /\ Uid \subseteq Nat
      /\ \A c \in todo[p] : c.id = a.id => c = a
      /\ CursorOf(a)
  BY BoundsAssumption DEF IndInv, TypeOK, Row, FetchedUids, Uid, AgainInv, IdsInv
<1>3. IdsInv'
  BY <1>1, <1>2 DEF AgainInv, IdsInv, IndInv, TypeOK
<1>4. ASSUME NEW m \in new PROVE ~Settled(a, m)'
  <2>1. <<a.id, a.box, m>> \in imported \ excused => m <= a.last
    BY <1>2 DEF CursorOf, Settled
  <2> QED
    BY <1>1, <2>1 DEF Settled, Mails
<1>5. ASSUME NEW m \in mail[a.box], Settled(a, m)' PROVE \E n \in new : m <= n
  <2>1. m <= a.last /\ m \notin new
    BY <1>1, <1>2, <1>4, <1>5 DEF CursorOf, Settled
  <2>2. PICK top \in mail[a.box] : \A k \in mail[a.box] : k <= top
    BY <1>2, <1>5, GreatestNat, BoundsAssumption DEF Uid
  <2> QED
    BY <1>2, <2>1, <2>2 DEF FetchedUids
<1>6. Others(p)' = Others(p)
  BY <1>1 DEF Others
<1>7. ASSUME pc'[p] = "messages" PROVE MessagesInv(p)'
  <2>1. \A m : Current(p, m)' = <<a.id, a.box, m>>
    BY <1>1, <1>7 DEF Current
  <2>2. Others(p) # {} => \A m \in new : <<a.id, a.box, m>> \in excused'
    BY <1>1 DEF Mails
  <2>3. /\ left'[p] = new /\ acc'[p].id = a.id /\ acc'[p].box = a.box
        /\ pdfs'[p] = 0 /\ mail' = mail /\ \A c \in todo'[p] : c.id # a.id
    BY <1>1, <1>2, <1>7 DEF IndInv, TypeOK
  <2>4. \A m : Settled(acc[p], m)' <=> Settled(a, m)'
    BY <2>3 DEF Settled
  <2> QED
    BY <1>4, <1>5, <1>6, <2>1, <2>2, <2>3, <2>4 DEF MessagesInv
<1>8. /\ \A q \in Poller : Others(q)' = Others(q)
      /\ \A q \in Poller : \A c \in todo'[q] : CursorOf(c)'
      /\ \A q \in Poller : pc'[q] = "messages" => MessagesInv(q)'
  <2>1. excused \subseteq excused' /\ todo'[p] \subseteq todo[p] /\ UNCHANGED <<mail, imported>>
    BY <1>1 DEF IndInv, TypeOK
  <2>2. \A q \in Poller \ {p} : 
           /\ pc'[q] = pc[q] /\ todo'[q] = todo[q] /\ acc'[q] = acc[q]
           /\ left'[q] = left[q] /\ msg'[q] = msg[q] /\ pdfs'[q] = pdfs[q]
           /\ maxUid'[q] = maxUid[q]
    BY <1>1 DEF IndInv, TypeOK
  <2>3. pc[p] # "idle" /\ pc'[p] # "idle"
    BY <1>1
  <2> QED
    BY <1>1, <1>7, <2>1, <2>2, <2>3, OthersStay
<1>9. ASSUME NEW c \in accounts PROVE CursorOfTable(c)'
  <2>1. NothingNew(c)
    BY <1>1, QuietIsNothingNew
  <2>2. \A q \in Poller : \A m : WillCover(q, c, m) => WillCover(q, c, m)'
    BY <1>1, <1>8 DEF WillCover
  <2> QED
    BY <2>1, <2>2, TableStays DEF AgainInv, IndInv, TypeOK, Row
<1> QED
  BY <1>1, <1>3, <1>8, <1>9 DEF AgainInv

LEMMA AgainFetchFails ==
  ASSUME IndInv, AgainInv, NEW p \in Poller, NEW a \in todo[p], FetchFails(p, a)
  PROVE  AgainInv'
<1>1. /\ UNCHANGED <<accounts, nextId, mail, uidNext, pc, acc, left, msg, pdfs, maxUid,
                    imported, excused>>
      /\ pc[p] = "accounts"
      /\ todo' = [todo EXCEPT ![p] = @ \ {a}]
  BY DEF FetchFails, IsNext, dbVars, mailVars, msgVars, history
<1>2. IdsInv'
  BY <1>1 DEF AgainInv, IdsInv, IndInv, TypeOK
<1>3. /\ \A q \in Poller : Others(q)' = Others(q)
      /\ \A q \in Poller : \A c \in todo'[q] : CursorOf(c)'
      /\ \A q \in Poller : pc'[q] = "messages" => MessagesInv(q)'
  BY <1>1, OthersStay DEF IndInv, TypeOK
<1>4. ASSUME NEW c \in accounts PROVE CursorOfTable(c)'
  <2>1. NothingNew(c)
    BY <1>1, QuietIsNothingNew
  <2>2. \A q \in Poller : \A m : WillCover(q, c, m) => WillCover(q, c, m)'
    BY <1>1, <1>3 DEF WillCover
  <2> QED
    BY <2>1, <2>2, TableStays DEF AgainInv, IndInv, TypeOK, Row
<1> QED
  BY <1>1, <1>2, <1>3, <1>4 DEF AgainInv

LEMMA AgainTake ==
  ASSUME IndInv, AgainInv, NEW p \in Poller, NEW k \in left[p], Take(p, k)
  PROVE  AgainInv'
<1>1. /\ UNCHANGED <<accounts, nextId, mail, uidNext, pc, todo, acc, imported, excused>>
      /\ pc[p] = "messages" /\ pdfs[p] = 0
      /\ left' = [left EXCEPT ![p] = @ \ {k}]
      /\ msg' = [msg EXCEPT ![p] = k]
      /\ maxUid' = [maxUid EXCEPT ![p] = IF k > @ THEN k ELSE @]
      /\ \A q \in Poller \ {p} : pdfs'[q] = pdfs[q]
  BY DEF Take, dbVars, mailVars, IndInv, TypeOK
<1>2. /\ k \in Nat /\ maxUid[p] \in Nat /\ left[p] \subseteq Nat
      /\ maxUid'[p] \in Nat /\ maxUid[p] <= maxUid'[p] /\ k <= maxUid'[p]
  BY <1>1, FetchedBound DEF IndInv, TypeOK, Uid
<1>3. IdsInv'
  BY <1>1 DEF AgainInv, IdsInv
<1>4. Others(p)' = Others(p)
  BY <1>1 DEF Others
<1>5. MessagesInv(p)'
  <2>1. left'[p] = left[p] \ {k} /\ msg'[p] = k /\ MessagesInv(p)
    BY <1>1 DEF AgainInv, IndInv, TypeOK
  <2>2. /\ \A m : Current(p, m)' = Current(p, m)
        /\ \A m : Settled(acc[p], m)' = Settled(acc[p], m)
    BY <1>1 DEF Current, Settled
  <2>3. ASSUME NEW m \in mail[acc[p].box], Settled(acc[p], m)
        PROVE  m <= maxUid'[p] \/ \E n \in left'[p] : m <= n
    <3>1. m \in Nat
      BY <1>1, FetchedBound DEF IndInv, TypeOK, Uid
    <3>2. m <= maxUid[p] \/ \E n \in left[p] : m <= n
      BY <2>1, <2>3 DEF MessagesInv
    <3> QED
      BY <1>2, <2>1, <3>1, <3>2
  <2> QED
    BY <1>1, <1>2, <1>4, <2>1, <2>2, <2>3 DEF MessagesInv
<1>6. /\ \A q \in Poller : Others(q)' = Others(q)
      /\ \A q \in Poller : \A c \in todo'[q] : CursorOf(c)'
      /\ \A q \in Poller : pc'[q] = "messages" => MessagesInv(q)'
  BY <1>1, <1>5, OthersStay DEF IndInv, TypeOK
<1>7. ASSUME NEW c \in accounts PROVE CursorOfTable(c)'
  <2>1. NothingNew(c)
    BY <1>1, QuietIsNothingNew
  <2>2. ASSUME NEW q \in Poller, NEW m \in mail[c.box], WillCover(q, c, m)
        PROVE  WillCover(q, c, m)'
    <3>1. m \in Nat
      BY DEF IndInv, TypeOK, Row, Uid
    <3>2. maxUid[q] \in Nat /\ maxUid'[q] \in Nat /\ maxUid[q] <= maxUid'[q]
      BY <1>1, <1>2, BoundsAssumption DEF IndInv, TypeOK
    <3> QED
      BY <1>1, <1>6, <2>2, <3>1, <3>2 DEF WillCover
  <2> QED
    BY <2>1, <2>2, TableStays DEF AgainInv, IndInv, TypeOK, Row
<1> QED
  BY <1>1, <1>3, <1>6, <1>7 DEF AgainInv

\* What a poll imports is settled only if it is alone.
LEMMA AgainImportPdf ==
  ASSUME IndInv, AgainInv, NEW p \in Poller, ImportPdf(p)
  PROVE  AgainInv'
<1>1. /\ UNCHANGED <<accounts, nextId, mail, uidNext, pc, todo, acc, left, msg, maxUid, excused>>
      /\ pc[p] = "messages" /\ pdfs[p] > 0 /\ pdfs[p] \in Nat
      /\ pdfs' = [pdfs EXCEPT ![p] = @ - 1]
      /\ imported' = imported \/ imported' = imported \cup {Current(p, msg[p])}
  BY DEF ImportPdf, dbVars, mailVars, IndInv, TypeOK
<1>2. /\ acc[p].id \in Id /\ acc[p].box \in Mailbox /\ msg[p] \in Uid
      /\ msg[p] <= maxUid[p] /\ msg[p] \notin left[p] /\ msg[p] < uidNext[acc[p].box]
      /\ acc[p].id < nextId
  BY <1>1, FetchedBound DEF AgainInv, MessagesInv, IdsInv
<1>3. IdsInv'
  BY <1>1, <1>2 DEF AgainInv, IdsInv, Current
<1>4. ASSUME NEW a, \A m : Settled(a, m)' => Settled(a, m) PROVE NothingNew(a)
  BY <1>1, <1>4 DEF NothingNew
<1>5. \A a, m : Settled(a, m)' =>
        \/ Settled(a, m)
        \/ /\ a.id = acc[p].id /\ a.box = acc[p].box /\ m = msg[p]
           /\ Current(p, msg[p]) \notin excused
  BY <1>1 DEF Settled, Current
<1>6. Others(p) # {} => Current(p, msg[p]) \in excused
  BY <1>1 DEF AgainInv, MessagesInv
<1>7. \A q \in Poller : Others(q)' = Others(q)
  BY <1>1 DEF Others
<1>8. ASSUME NEW c \in accounts PROVE CursorOfTable(c)'
  <2> SUFFICES ASSUME NEW m \in mail[c.box], Settled(c, m)'
               PROVE  m <= c.last \/ \E q \in Poller : WillCover(q, c, m)
    BY <1>1, <1>7 DEF CursorOfTable, WillCover
  <2>1. CASE Settled(c, m)
    BY <2>1 DEF AgainInv, CursorOfTable
  <2>2. CASE ~Settled(c, m)
    <3>1. WillCover(p, c, m)
      BY <1>1, <1>2, <1>5, <1>6, <2>2 DEF WillCover
    <3> QED
      BY <3>1
  <2> QED
    BY <2>1, <2>2
<1>9. ASSUME NEW q \in Poller, NEW c \in todo[q] PROVE CursorOf(c)'
  <2>1. \A m : Settled(c, m)' => Settled(c, m)
    <3>1. CASE q = p
      BY <1>1, <1>5, <3>1 DEF AgainInv, MessagesInv
    <3>2. CASE q # p
      <4>1. q \in Others(p)
        BY <3>2 DEF Others, AgainInv, IdsInv
      <4> QED
        BY <1>5, <1>6, <4>1
    <3> QED
      BY <3>1, <3>2
  <2> QED
    BY <1>4, <2>1, CursorStays DEF AgainInv
<1>10. ASSUME NEW q \in Poller, pc[q] = "messages" PROVE MessagesInv(q)'
  <2>1. CASE q # p
    <3>1. q \in Others(p)
      BY <1>10, <2>1 DEF Others
    <3>2. NothingNew(acc[q])
      BY <1>4, <1>5, <1>6, <3>1
    <3> QED
      BY <1>1, <1>7, <1>10, <2>1, <3>2, MessagesStay DEF AgainInv, IndInv, TypeOK
  <2>2. CASE q = p
    <3>1. pdfs'[p] > 0 => pdfs[p] > 0
      BY <1>1
    <3>2. MessagesInv(p)
      BY <1>1 DEF AgainInv
    <3>3. /\ \A m : Current(p, m)' = Current(p, m)
          /\ \A m : Settled(acc[p], m)' => Settled(acc[p], m) \/ m = msg[p]
      BY <1>1, <1>5 DEF Current
    <3>4. \A m \in left[p] : ~Settled(acc[p], m)'
      BY <1>2, <3>2, <3>3 DEF MessagesInv
    <3>5. \A m \in mail[acc[p].box] : Settled(acc[p], m)' =>
            m <= maxUid[p] \/ \E n \in left[p] : m <= n
      BY <1>2, <3>2, <3>3 DEF MessagesInv
    <3> QED
      BY <1>1, <1>7, <2>2, <3>1, <3>2, <3>3, <3>4, <3>5 DEF MessagesInv, Settled
  <2> QED
    BY <2>1, <2>2
<1> QED
  BY <1>1, <1>3, <1>8, <1>9, <1>10 DEF AgainInv

\* When a poll that has settled messages no cursor has passed stops without
\* saving one, they are excused.
LEMMA NoneWillCover ==
  ASSUME IndInv, AgainInv, NEW p \in Poller, pc[p] # "idle",
         UNCHANGED <<accounts, mail, imported>>,
         excused' = excused \cup Fetched(p)
  PROVE  \A a \in accounts : CursorOfTable(a)'
<1> SUFFICES ASSUME NEW a \in accounts, NEW m \in mail[a.box], Settled(a, m)'
             PROVE  m <= a.last
  BY DEF CursorOfTable
<1>1. Settled(a, m) /\ m \in Uid
  BY DEF Settled, IndInv, TypeOK, Row
<1>2. ASSUME NEW q \in Poller, WillCover(q, a, m) PROVE FALSE
  <2>1. q = p
    BY <1>2 DEF WillCover, Others
  <2>2. Current(p, m) \in Fetched(p)
    BY <1>1, <1>2, <2>1, FetchedBound DEF WillCover
  <2> QED
    BY <1>2, <2>1, <2>2 DEF WillCover, Current, Settled
<1> QED
  BY <1>1, <1>2 DEF AgainInv, CursorOfTable

\* A poll that leaves the messages leaves nothing behind.
LEMMA LeaveMessages ==
  ASSUME AgainInv, NEW p \in Poller, pc[p] # "idle",
         pc' \in [Poller -> {"idle", "accounts", "messages"}], pc'[p] # "messages",
         UNCHANGED <<mail, imported>>,
         excused \subseteq excused',
         todo'[p] \subseteq todo[p],
         \A q \in Poller \ {p} :
           /\ pc'[q] = pc[q] /\ todo'[q] = todo[q] /\ acc'[q] = acc[q]
           /\ left'[q] = left[q] /\ msg'[q] = msg[q] /\ pdfs'[q] = pdfs[q]
           /\ maxUid'[q] = maxUid[q]
  PROVE  /\ \A q \in Poller : \A c \in todo'[q] : CursorOf(c)'
         /\ \A q \in Poller : pc'[q] = "messages" => MessagesInv(q)'
<1>1. \A a : NothingNew(a)
  BY QuietIsNothingNew
<1>2. ASSUME NEW q \in Poller, NEW c \in todo'[q] PROVE CursorOf(c)'
  BY <1>1, <1>2, CursorStays DEF AgainInv
<1>3. ASSUME NEW q \in Poller, pc'[q] = "messages" PROVE MessagesInv(q)'
  <2>1. q # p /\ pc[q] = "messages"
    BY <1>3
  <2>2. Others(q) # {}
    BY <2>1 DEF Others
  <2> QED
    BY <1>1, <2>1, <2>2, MessagesStay DEF AgainInv
<1> QED
  BY <1>2, <1>3

LEMMA AgainSave ==
  ASSUME IndInv, AgainInv, NEW p \in Poller, Save(p)
  PROVE  AgainInv'
<1>1. /\ UNCHANGED <<nextId, mail, uidNext, todo, imported>>
      /\ pc[p] = "messages" /\ left[p] = {} /\ pdfs[p] = 0
      /\ pc' = [pc EXCEPT ![p] = "accounts"]
      /\ pc' \in [Poller -> {"idle", "accounts", "messages"}]
      /\ \A q \in Poller \ {p} :
           /\ acc'[q] = acc[q] /\ left'[q] = left[q] /\ msg'[q] = msg[q]
           /\ pdfs'[q] = pdfs[q] /\ maxUid'[q] = maxUid[q]
  BY DEF Save, Forget, mailVars, IndInv, TypeOK
<1>2. ASSUME excused \subseteq excused'
      PROVE  /\ \A q \in Poller : \A c \in todo'[q] : CursorOf(c)'
             /\ \A q \in Poller : pc'[q] = "messages" => MessagesInv(q)'
  BY <1>1, <1>2, LeaveMessages DEF IndInv, TypeOK
<1>3. CASE excused' = excused \cup Fetched(p) /\ UNCHANGED <<accounts, lost>>
  <2>1. IdsInv'
    BY <1>1, <1>3 DEF AgainInv, IdsInv, IndInv, TypeOK
  <2>2. \A a \in accounts' : CursorOfTable(a)'
    BY <1>1, <1>3, NoneWillCover
  <2> QED
    BY <1>2, <1>3, <2>1, <2>2 DEF AgainInv
<1>4. CASE UpdateLastUID(p, maxUid[p])
  <2>0. PICK top : top = maxUid[p]
    OBVIOUS
  <2> DEFINE rows == {a \in accounts : a.id = acc[p].id}
             Saved(a) == [a EXCEPT !.last = top]
             new == {Saved(a) : a \in rows}
             other == {a \in new : a.box # acc[p].box}
  <2>1. \A a \in accounts :
          /\ a \in Row /\ Saved(a).id = a.id
          /\ Saved(a).box = a.box /\ Saved(a).last = top
    BY DEF IndInv, TypeOK, Row
  <2>2. accounts' = (accounts \ rows) \cup new /\ CursorsOfOther(other)
    BY <1>4, <2>0 DEF UpdateLastUID
  <2>3. /\ excused \subseteq excused'
        /\ \A a \in other : \A m \in Uid : m > a.last => <<a.id, a.box, m>> \in excused'
    <3> HIDE DEF other
    <3> QED
      BY <2>2 DEF CursorsOfOther, Mails
  <2>4. IdsInv'
    <3>1. \A a \in accounts' : \E c \in accounts : c.id = a.id /\ (a = c \/ a = Saved(c))
      BY <2>1, <2>2
    <3>2. \A a, b \in accounts' : a.id = b.id => a = b
      <4> SUFFICES ASSUME NEW a \in accounts', NEW b \in accounts', a.id = b.id
                   PROVE  a = b
        OBVIOUS
      <4>1. PICK c \in accounts : a = IF c.id = acc[p].id THEN Saved(c) ELSE c
        BY <2>2
      <4>2. PICK d \in accounts : b = IF d.id = acc[p].id THEN Saved(d) ELSE d
        BY <2>2
      <4>3. c = d
        BY <2>1, <4>1, <4>2 DEF AgainInv, IdsInv
      <4> QED
        BY <4>1, <4>2, <4>3
    <3>3. \A a \in accounts' : a.id < nextId
      BY <3>1 DEF AgainInv, IdsInv
    <3> QED
      BY <1>1, <3>2, <3>3 DEF AgainInv, IdsInv, IndInv, TypeOK
  <2>5. ASSUME NEW a \in accounts, a \notin rows PROVE CursorOfTable(a)'
    <3>1. NothingNew(a)
      BY <1>1, <2>3, QuietIsNothingNew
    <3>2. \A q \in Poller : \A m : ~WillCover(q, a, m)
      <4>1. \A q \in Poller : q # p => p \in Others(q)
        BY <1>1 DEF Others
      <4> QED
        BY <2>5, <4>1 DEF WillCover
    <3> QED
      BY <3>1, <3>2, TableStays DEF AgainInv
  <2>6. ASSUME NEW c \in rows PROVE CursorOfTable(Saved(c))'
    <3>1. Saved(c).box = c.box /\ Saved(c).last = top /\ Saved(c).id = c.id
          /\ c \in accounts /\ c.id = acc[p].id /\ Saved(c) \in new
      BY <2>1
    <3> SUFFICES ASSUME NEW m \in mail[c.box], <<c.id, c.box, m>> \in imported,
                        <<c.id, c.box, m>> \notin excused'
                 PROVE  m <= top
      BY <1>1, <3>1 DEF CursorOfTable, Settled
    <3>2. m \in Uid /\ m \in Nat /\ top \in Nat
      BY <1>1, <2>0, <2>1, <3>1, FetchedBound DEF IndInv, TypeOK, Row, Uid
    <3>3. CASE c.box # acc[p].box
      <4>1. Saved(c) \in other
        BY <3>1, <3>3
      <4>2. ~(m > top)
        BY <2>3, <3>1, <3>2, <4>1
      <4> QED
        BY <3>2, <4>2
    <3>4. CASE c.box = acc[p].box
      <4>1. Settled(acc[p], m)
        BY <2>3, <3>1, <3>4 DEF Settled
      <4> QED
        BY <1>1, <2>0, <3>4, <4>1 DEF AgainInv, MessagesInv
    <3> QED
      BY <3>3, <3>4
  <2>7. \A a \in accounts' : CursorOfTable(a)'
    <3>1. \A a \in accounts' : (a \in accounts /\ a \notin rows) \/ \E c \in rows : a = Saved(c)
      BY <2>2
    <3> HIDE DEF Saved, rows
    <3> QED
      BY <2>5, <2>6, <3>1
  <2> QED
    BY <1>2, <2>3, <2>4, <2>7 DEF AgainInv
<1> QED
  BY <1>3, <1>4 DEF Save

LEMMA AgainInterrupt ==
  ASSUME IndInv, AgainInv, NEW p \in Poller, Interrupt(p)
  PROVE  AgainInv'
<1>1. /\ UNCHANGED <<accounts, nextId, mail, uidNext, imported>>
      /\ pc[p] # "idle" /\ pc' = [pc EXCEPT ![p] = "idle"]
      /\ pc' \in [Poller -> {"idle", "accounts", "messages"}]
      /\ todo' = [todo EXCEPT ![p] = {}]
      /\ excused' = excused \cup Fetched(p)
      /\ \A q \in Poller \ {p} :
           /\ acc'[q] = acc[q] /\ left'[q] = left[q] /\ msg'[q] = msg[q]
           /\ pdfs'[q] = pdfs[q] /\ maxUid'[q] = maxUid[q]
  BY DEF Interrupt, Forget, dbVars, mailVars, IndInv, TypeOK
<1>2. IdsInv'
  BY <1>1 DEF AgainInv, IdsInv, IndInv, TypeOK
<1>3. /\ \A q \in Poller : \A c \in todo'[q] : CursorOf(c)'
      /\ \A q \in Poller : pc'[q] = "messages" => MessagesInv(q)'
  BY <1>1, LeaveMessages DEF IndInv, TypeOK
<1>4. \A a \in accounts : CursorOfTable(a)'
  BY <1>1, NoneWillCover
<1> QED
  BY <1>1, <1>2, <1>3, <1>4 DEF AgainInv

LEMMA AgainEnd ==
  ASSUME IndInv, AgainInv, NEW p \in Poller, End(p)
  PROVE  AgainInv'
<1>1. /\ UNCHANGED <<accounts, nextId, mail, uidNext, todo, acc, left, msg, pdfs, maxUid,
                    imported, excused>>
      /\ pc[p] = "accounts" /\ todo[p] = {} /\ pc' = [pc EXCEPT ![p] = "idle"]
      /\ pc' \in [Poller -> {"idle", "accounts", "messages"}]
  BY DEF End, dbVars, mailVars, msgVars, history, IndInv, TypeOK
<1>2. IdsInv'
  BY <1>1 DEF AgainInv, IdsInv, IndInv, TypeOK
<1>3. /\ \A q \in Poller : \A c \in todo'[q] : CursorOf(c)'
      /\ \A q \in Poller : pc'[q] = "messages" => MessagesInv(q)'
  BY <1>1, LeaveMessages DEF IndInv, TypeOK
<1>4. ASSUME NEW a \in accounts PROVE CursorOfTable(a)'
  <2>1. NothingNew(a)
    BY <1>1, QuietIsNothingNew
  <2>2. \A q \in Poller : \A m : ~WillCover(q, a, m)
    <3>1. \A q \in Poller : q # p => p \in Others(q)
      BY <1>1 DEF Others
    <3> QED
      BY <1>1, <3>1 DEF WillCover
  <2> QED
    BY <2>1, <2>2, TableStays DEF AgainInv
<1> QED
  BY <1>1, <1>2, <1>3, <1>4 DEF AgainInv

LEMMA AgainStep == IndInv /\ AgainInv /\ [Next]_vars => AgainInv'
<1> SUFFICES ASSUME IndInv, AgainInv, [Next]_vars PROVE AgainInv'
  OBVIOUS
<1>1. CASE Environment
  BY <1>1, AgainDeliver, AgainRemove, AgainRegister, AgainDelete DEF Environment
<1>2. ASSUME NEW p \in Poller, Poll(p) PROVE AgainInv'
  BY <1>2, AgainFetch, AgainFetchFails, AgainTake, AgainImportPdf, AgainSave, AgainEnd
     DEF Poll, Work
<1>3. CASE UNCHANGED vars
  <2>1. UNCHANGED <<accounts, nextId, mail, uidNext, pc, todo, acc, left, msg, pdfs,
                    maxUid, imported, excused>>
    BY <1>3 DEF vars, dbVars, mailVars, msgVars, history
  <2>2. /\ \A p \in Poller : \A a \in todo'[p] : CursorOf(a)'
        /\ \A p \in Poller : pc'[p] = "messages" => MessagesInv(p)'
    BY <2>1, PollersStay
  <2>3. \A a \in accounts' : CursorOfTable(a)'
    BY <2>1 DEF CursorOfTable, WillCover, Others, Settled, AgainInv
  <2> QED
    BY <2>1, <2>2, <2>3 DEF AgainInv, IdsInv
<1> QED
  BY <1>1, <1>2, <1>3, AgainBegin, AgainInterrupt DEF Next

\* A PDF in the price history is looked at again only where the mail server,
\* a failure, another poll or another mailbox of the account explains it.
THEOREM AgainHolds == Spec => []AgainIsExcused
<1>1. AgainInv => AgainIsExcused
  BY DEF AgainInv, MessagesInv, AgainIsExcused, Settled, Current
<1> QED
  BY <1>1, AgainInit, AgainStep, InvariantHolds, PTL DEF Spec
=============================================================================
