----------------------------- MODULE Household -----------------------------
(***************************************************************************)
(* Household membership and invitations: the handlers of /api/household*,  *)
(* the methods of PostgresStore they call, and householdUserIDs, which     *)
(* every data query uses to find whose records the caller may see.         *)
(*                                                                         *)
(* A request (one member of Req, made by the user Caller[r]) runs one SQL  *)
(* statement per step, so that the statements of concurrent requests       *)
(* interleave as they do under PostgreSQL's default READ COMMITTED level:  *)
(* a statement sees what is committed, and what its own transaction wrote. *)
(* The writes of a transaction are kept in its locals (target, drop) and   *)
(* reach hh, households and invs at the commit.  What makes a statement    *)
(* wait or fail is PostgreSQL's: row locks, foreign keys, the deadlock     *)
(* detector.                                                               *)
(***************************************************************************)
EXTENDS Naturals, FiniteSets

CONSTANTS
  User,         \* registered users
  Req,          \* slots for requests in flight (browser tabs)
  Caller,       \* Caller[r]: the user whose token request r carries
  Token,        \* invitation tokens; bounds how many invitations are asked for
  NoToken,      \* not a token
  MaxInFlight,  \* bound: how many requests are served at a time
  Events        \* what else may happen: "crash", "delete_fails", "expiry"

ASSUME CallerAssumption == Caller \in [Req -> User]
ASSUME NoTokenAssumption == NoToken \notin Token
ASSUME EventsAssumption == Events \subseteq {"crash", "delete_fails", "expiry"}

\* household_id IS NULL; BIGSERIAL identifiers start at 1.
Null == 0

VARIABLES
  hh,          \* users.household_id, committed
  households,  \* the rows of households, committed
  hidSeq,      \* last identifier drawn from the BIGSERIAL of households
  invs,        \* the rows of household_invitations, committed
  issued,      \* tokens ever drawn by generateToken
  expired,     \* tokens whose expires_at is past
  joined,      \* history: the tokens by which somebody has joined, but
               \* those whose deletion failed or was cut off
  orphans,     \* history: households left by members who all counted one
               \* another, or whom another tab had moved there meanwhile
  crossed,     \* history: households two invitations to which overlap
  strayed,     \* history: requests whose caller has moved since they read
               \* the caller's household
  pc,          \* the next statement of each request
  old,         \* household_id as the request read it
  target,      \* the household the request moves to, or invites to
  tok,         \* the token the request accepts or issues
  share,       \* household on which the transaction holds FOR KEY SHARE
  drop,        \* household the transaction has deleted and not yet committed
  scope        \* user ids householdUserIDs returned, while the caller uses them

dbVars  == <<hh, households, hidSeq, invs>>
logVars == <<issued, expired, joined, orphans, crossed, strayed>>
locVars == <<pc, old, target, tok, share, drop, scope>>
vars    == <<dbVars, logVars, locVars>>

Invitation == [token : Token, hid : Nat, inviter : User]

PC == {"idle", "move_begin", "move_update", "move_count", "move_delete",
       "move_commit", "accept_consume", "invite_create", "invite_clear",
       "invite_insert", "scope_members", "scope_use"}

TypeOK ==
  /\ hh \in [User -> Nat]
  /\ households \subseteq Nat \ {Null}
  /\ hidSeq \in Nat
  /\ invs \subseteq Invitation
  /\ issued \subseteq Token
  /\ expired \subseteq Token
  /\ joined \subseteq Token
  /\ orphans \subseteq Nat
  /\ crossed \subseteq Nat
  /\ strayed \subseteq Req
  /\ pc \in [Req -> PC]
  /\ old \in [Req -> Nat]
  /\ target \in [Req -> Nat]
  /\ tok \in [Req -> Token \cup {NoToken}]
  /\ share \in [Req -> Nat]
  /\ drop \in [Req -> Nat]
  /\ scope \in [Req -> SUBSET User]
  /\ \A r \in Req : pc[r] \in {"invite_create", "invite_clear", "invite_insert"}
                  => tok[r] \in Token

Init ==
  /\ hh = [u \in User |-> Null]
  /\ households = {}
  /\ hidSeq = 0
  /\ invs = {}
  /\ issued = {}
  /\ expired = {}
  /\ joined = {}
  /\ orphans = {}
  /\ crossed = {}
  /\ strayed = {}
  /\ pc = [r \in Req |-> "idle"]
  /\ old = [r \in Req |-> Null]
  /\ target = [r \in Req |-> Null]
  /\ tok = [r \in Req |-> NoToken]
  /\ share = [r \in Req |-> Null]
  /\ drop = [r \in Req |-> Null]
  /\ scope = [r \in Req |-> {}]

-----------------------------------------------------------------------------
(* Requests and locks.                                                     *)

Busy == {r \in Req : pc[r] # "idle"}

CanStart(r) == pc[r] = "idle" /\ Cardinality(Busy) < MaxInFlight

Goto(r, label) == pc' = [pc EXCEPT ![r] = label]

\* Mutant of Finish: the handler returns without ending its transaction.
FinishWithoutRollback(r) ==
  /\ Goto(r, "idle")
  /\ old' = [old EXCEPT ![r] = Null]
  /\ target' = [target EXCEPT ![r] = Null]
  /\ tok' = [tok EXCEPT ![r] = NoToken]
  /\ drop' = [drop EXCEPT ![r] = Null]
  /\ scope' = [scope EXCEPT ![r] = {}]
  /\ UNCHANGED share

\* The request is answered; its locals, its transaction and its locks go.
Finish(r) ==
  /\ Goto(r, "idle")
  /\ old' = [old EXCEPT ![r] = Null]
  /\ target' = [target EXCEPT ![r] = Null]
  /\ tok' = [tok EXCEPT ![r] = NoToken]
  /\ share' = [share EXCEPT ![r] = Null]
  /\ drop' = [drop EXCEPT ![r] = Null]
  /\ scope' = [scope EXCEPT ![r] = {}]

Others(r) == Req \ {r}

\* r's transaction has updated its caller's row of users and not committed.
HoldsUserRow(r) == pc[r] \in {"move_count", "move_delete", "move_commit"}

\* Another tab of the same user holds the row lock r's UPDATE needs.
RowWaits(r, s) == s # r /\ Caller[s] = Caller[r] /\ HoldsUserRow(s)

\* The foreign key of users.household_id is looked up when it changes.
ChecksTarget(r) == target[r] \notin {Null, hh[Caller[r]]}

\* The next statement of r waits for a lock that the transaction of s holds.
WaitsFor(r, s) ==
  \/ /\ pc[r] = "move_update"
     /\ \/ RowWaits(r, s)
        \/ ChecksTarget(r) /\ s # r /\ drop[s] = target[r]
  \/ /\ pc[r] = "move_delete" /\ s # r
     /\ old[r] \in {share[s], drop[s]}
  \/ /\ pc[r] = "invite_create"
     /\ RowWaits(r, s)
  \/ /\ pc[r] \in {"invite_clear", "invite_insert"} /\ s # r
     /\ target[r] = drop[s]
  \/ /\ pc[r] = "accept_consume" /\ s # r
     /\ \E i \in invs : i.token = tok[r] /\ i.hid = drop[s]

Blocked(r) == \E s \in Req : WaitsFor(r, s)

\* The statement of r can run now.
At(r, label) == pc[r] = label /\ ~Blocked(r)

-----------------------------------------------------------------------------
(* Moving between households: RemoveUserFromHousehold (DELETE              *)
(* /api/household) and AddUserToHousehold (POST /api/household/accept).    *)

\* leaveHousehold: RemoveUserFromHousehold begins and reads household_id.
StartLeave(r) ==
  /\ CanStart(r)
  /\ Goto(r, "move_update")
  /\ old' = [old EXCEPT ![r] = hh[Caller[r]]]
  /\ target' = [target EXCEPT ![r] = Null]
  /\ UNCHANGED <<dbVars, logVars, tok, share, drop, scope>>

\* HouseholdAcceptHandler finds the invitation, not expired and not the
\* caller's own.  (Every other request for a token is answered 404 or 400
\* and changes nothing.)
StartAccept(r, i) ==
  /\ CanStart(r)
  /\ i.token \notin expired
  /\ i.inviter # Caller[r]
  /\ Goto(r, "move_begin")
  /\ target' = [target EXCEPT ![r] = i.hid]
  /\ tok' = [tok EXCEPT ![r] = i.token]
  /\ UNCHANGED <<dbVars, logVars, old, share, drop, scope>>

\* AddUserToHousehold begins and reads the caller's present household.
MoveBegin(r) ==
  /\ pc[r] = "move_begin"
  /\ Goto(r, "move_update")
  /\ old' = [old EXCEPT ![r] = hh[Caller[r]]]
  /\ UNCHANGED <<dbVars, logVars, target, tok, share, drop, scope>>

\* Mutant of MoveUpdate: users.household_id is no foreign key, so that the
\* target is neither looked up nor locked.
MoveUpdateUnchecked(r) ==
  /\ At(r, "move_update")
  /\ Goto(r, IF old[r] \notin {Null, target[r]}
             THEN "move_count" ELSE "move_commit")
  /\ UNCHANGED <<dbVars, logVars, old, target, tok, share, drop, scope>>

\* UPDATE users SET household_id, with its foreign key check: the household
\* is locked FOR KEY SHARE until the commit, or is gone and the request
\* fails with 500.
MoveUpdate(r) ==
  /\ At(r, "move_update")
  /\ IF ChecksTarget(r) /\ target[r] \notin households
     THEN Finish(r)
     ELSE /\ Goto(r, IF old[r] \notin {Null, target[r]}
                     THEN "move_count" ELSE "move_commit")
          /\ share' = [share EXCEPT ![r] =
                         IF ChecksTarget(r) THEN target[r] ELSE Null]
          /\ UNCHANGED <<old, target, tok, drop, scope>>
  /\ UNCHANGED <<dbVars, logVars>>

\* The other members of the household r's caller leaves, as the transaction
\* of r sees them.
Remaining(r) == {v \in User \ {Caller[r]} : hh[v] = old[r]}

\* A transaction of v's has counted others in the household h and leaves it.
Leaving(v, h) ==
  \E s \in Req : /\ Caller[s] = v /\ pc[s] = "move_commit"
                 /\ old[s] = h /\ target[s] # h

\* Mutant of MoveCount: the count comes before the UPDATE, and so counts the
\* caller too.
MoveCountBeforeUpdate(r) ==
  /\ pc[r] = "move_count"
  /\ Goto(r, IF \E v \in User : hh[v] = old[r]
             THEN "move_commit" ELSE "move_delete")
  /\ UNCHANGED <<dbVars, logVars, old, target, tok, share, drop, scope>>

\* SELECT COUNT(*) of the old household: the caller's own row has moved.
\* Members who are leaving, and have not committed, count.
MoveCount(r) ==
  /\ pc[r] = "move_count"
  /\ Goto(r, IF Remaining(r) # {} THEN "move_commit" ELSE "move_delete")
  /\ orphans' =
       IF Remaining(r) # {} /\ \A v \in Remaining(r) : Leaving(v, old[r])
       THEN orphans \cup {old[r]} ELSE orphans
  /\ UNCHANGED <<dbVars, issued, expired, joined, crossed, strayed,
                 old, target, tok, share, drop, scope>>

\* Mutant of MoveDelete: the count is trusted, nothing is checked again.
MoveDeleteUnchecked(r) ==
  /\ At(r, "move_delete")
  /\ Goto(r, "move_commit")
  /\ drop' = [drop EXCEPT ![r] = IF old[r] \in households THEN old[r] ELSE Null]
  /\ UNCHANGED <<dbVars, logVars, old, target, tok, share, scope>>

\* DELETE FROM households, with the check that no row of users refers to it
\* (500 when somebody joined since the count).  Nothing is deleted when the
\* household is already gone.
MoveDelete(r) ==
  /\ At(r, "move_delete")
  /\ IF \E v \in User \ {Caller[r]} : hh[v] = old[r]
     THEN Finish(r)
     ELSE /\ Goto(r, "move_commit")
          /\ drop' = [drop EXCEPT ![r] =
                        IF old[r] \in households THEN old[r] ELSE Null]
          /\ UNCHANGED <<old, target, tok, share, scope>>
  /\ UNCHANGED <<dbVars, logVars>>

\* Requests of v's that have read v's household and not yet its members.
Reading(v) == {s \in Req : Caller[s] = v /\ pc[s] = "scope_members"}

\* COMMIT.  Deleting a household cascades to its invitations.  An accepted
\* invitation is then deleted by the handler.  The household the caller is in
\* may not be the one that was counted.
MoveCommit(r) ==
  /\ pc[r] = "move_commit"
  /\ hh' = [hh EXCEPT ![Caller[r]] = target[r]]
  /\ households' = households \ {drop[r]}
  /\ invs' = {i \in invs : i.hid # drop[r]}
  /\ orphans' = (orphans \cup ({hh[Caller[r]]} \ {old[r], Null})) \ {target[r], drop[r]}
  /\ strayed' = strayed \cup Reading(Caller[r])
  /\ UNCHANGED <<hidSeq, issued, expired, crossed>>
  /\ IF tok[r] = NoToken
     THEN Finish(r) /\ UNCHANGED joined
     ELSE /\ Goto(r, "accept_consume")
          /\ joined' = joined \cup {tok[r]}
          /\ share' = [share EXCEPT ![r] = Null]
          /\ drop' = [drop EXCEPT ![r] = Null]
          /\ UNCHANGED <<old, target, tok, scope>>

\* Mutant of Consume: the accepted invitation is not deleted.
ConsumeNothing(r) ==
  /\ At(r, "accept_consume")
  /\ Finish(r)
  /\ UNCHANGED <<dbVars, logVars>>

\* DeleteHouseholdInvitation; its error is logged and the answer is 200.
Consume(r) ==
  /\ At(r, "accept_consume")
  /\ \/ /\ invs' = {i \in invs : i.token # tok[r]}
        /\ UNCHANGED joined
     \/ /\ "delete_fails" \in Events
        /\ joined' = joined \ {tok[r]}
        /\ UNCHANGED invs
  /\ Finish(r)
  /\ UNCHANGED <<hh, households, hidSeq, issued, expired, orphans, crossed, strayed>>

-----------------------------------------------------------------------------
(* Inviting: CreateHouseholdInvitation, whose statements are not one       *)
(* transaction.                                                            *)

\* HouseholdInviteHandler reads the caller's household.  The token, which
\* generateToken draws later, is fixed here: it is random, and never that of
\* another invitation.
StartInvite(r, t) ==
  /\ CanStart(r)
  /\ t \notin issued
  /\ issued' = issued \cup {t}
  /\ tok' = [tok EXCEPT ![r] = t]
  /\ target' = [target EXCEPT ![r] = hh[Caller[r]]]
  /\ Goto(r, IF hh[Caller[r]] = Null THEN "invite_create" ELSE "invite_clear")
  /\ UNCHANGED <<dbVars, expired, joined, orphans, crossed, strayed,
                 old, share, drop, scope>>

\* CreateHousehold, a transaction of its own: it locks nothing another
\* request waits for before its UPDATE of users.  Another tab may have put
\* the caller in a household since.
InviteCreate(r) ==
  /\ At(r, "invite_create")
  /\ hidSeq' = hidSeq + 1
  /\ households' = households \cup {hidSeq + 1}
  /\ hh' = [hh EXCEPT ![Caller[r]] = hidSeq + 1]
  /\ target' = [target EXCEPT ![r] = hidSeq + 1]
  /\ orphans' = orphans \cup ({hh[Caller[r]]} \ {Null})
  /\ strayed' = strayed \cup Reading(Caller[r])
  /\ Goto(r, "invite_clear")
  /\ UNCHANGED <<invs, issued, expired, joined, crossed, old, tok, share, drop, scope>>

\* Mutant of InviteClear: earlier invitations stay.
InviteClearNothing(r) ==
  /\ At(r, "invite_clear")
  /\ Goto(r, "invite_insert")
  /\ UNCHANGED <<dbVars, logVars, old, target, tok, share, drop, scope>>

\* DELETE the household's earlier invitations: not one that another request
\* is about to insert.
InviteClear(r) ==
  /\ At(r, "invite_clear")
  /\ invs' = {i \in invs : i.hid # target[r]}
  /\ crossed' =
       IF \E s \in Others(r) : pc[s] = "invite_insert" /\ target[s] = target[r]
       THEN crossed \cup {target[r]} ELSE crossed \ {target[r]}
  /\ Goto(r, "invite_insert")
  /\ UNCHANGED <<hh, households, hidSeq, issued, expired, joined, orphans, strayed,
                 old, target, tok, share, drop, scope>>

\* INSERT the invitation; 500 when its household is gone.
InviteInsert(r) ==
  /\ At(r, "invite_insert")
  /\ IF target[r] \in households
     THEN invs' = invs \cup {[token |-> tok[r], hid |-> target[r],
                              inviter |-> Caller[r]]}
     ELSE UNCHANGED invs
  /\ Finish(r)
  /\ UNCHANGED <<hh, households, hidSeq, logVars>>

-----------------------------------------------------------------------------
(* Reading: householdUserIDs, two queries and then their use.              *)

\* The first query: a user without a household is alone in the scope.
StartScope(r) ==
  /\ CanStart(r)
  /\ old' = [old EXCEPT ![r] = hh[Caller[r]]]
  /\ IF hh[Caller[r]] = Null
     THEN /\ scope' = [scope EXCEPT ![r] = {Caller[r]}]
          /\ Goto(r, "scope_use")
     ELSE /\ UNCHANGED scope
          /\ Goto(r, "scope_members")
  /\ strayed' = strayed \ {r}
  /\ UNCHANGED <<dbVars, issued, expired, joined, orphans, crossed,
                 target, tok, share, drop>>

\* Mutant of ScopeMembers: the caller's own row is filtered out.
ScopeMembersButSelf(r) ==
  /\ pc[r] = "scope_members"
  /\ scope' = [scope EXCEPT ![r] = {u \in User \ {Caller[r]} : hh[u] = old[r]}]
  /\ Goto(r, "scope_use")
  /\ UNCHANGED <<dbVars, logVars, old, target, tok, share, drop>>

\* The second query: who is now in the household read before; the caller
\* alone when nobody is.
ScopeMembers(r) ==
  /\ pc[r] = "scope_members"
  /\ LET ids == {u \in User : hh[u] = old[r]}
     IN  scope' = [scope EXCEPT ![r] = IF ids = {} THEN {Caller[r]} ELSE ids]
  /\ Goto(r, "scope_use")
  /\ UNCHANGED <<dbVars, logVars, old, target, tok, share, drop>>

\* The query that used the scope has answered.
ScopeUse(r) ==
  /\ pc[r] = "scope_use"
  /\ Finish(r)
  /\ strayed' = strayed \ {r}
  /\ UNCHANGED <<dbVars, issued, expired, joined, orphans, crossed>>

-----------------------------------------------------------------------------
(* Time and failure.                                                       *)

\* Twenty-four hours have passed since the invitation was issued.
Expire(i) ==
  /\ "expiry" \in Events
  /\ expired' = expired \cup {i.token}
  /\ UNCHANGED <<dbVars, issued, joined, orphans, crossed, strayed, locVars>>

\* The process is killed (Vercel stops a function after 30 s) or loses its
\* connection: the open transaction rolls back, what is committed stays.
Crash(r) ==
  /\ "crash" \in Events
  /\ pc[r] # "idle"
  /\ joined' = IF pc[r] = "accept_consume" THEN joined \ {tok[r]} ELSE joined
  /\ Finish(r)
  /\ UNCHANGED <<dbVars, issued, expired, orphans, crossed, strayed>>

\* r waits, directly or through others, for itself: it is in every set of
\* waiting requests that holds all that r waits for and all that the set's
\* members wait for.
InWaitCycle(r) ==
  LET waiting == {s \in Req : Blocked(s)}
  IN  /\ r \in waiting
      /\ \A S \in SUBSET waiting :
           (\A s \in S \cup {r}, n \in waiting : WaitsFor(s, n) => n \in S)
           => r \in S

\* PostgreSQL's deadlock detector aborts one transaction of a cycle.
DeadlockAbort(r) ==
  /\ InWaitCycle(r)
  /\ Finish(r)
  /\ UNCHANGED <<dbVars, logVars>>

-----------------------------------------------------------------------------
Start(r) ==
  \/ StartLeave(r)
  \/ StartScope(r)
  \/ \E i \in invs : StartAccept(r, i)
  \/ \E t \in Token : StartInvite(r, t)

\* What a request does once it has started.
Proceed(r) ==
  \/ MoveBegin(r)
  \/ MoveUpdate(r)
  \/ MoveCount(r)
  \/ MoveDelete(r)
  \/ MoveCommit(r)
  \/ Consume(r)
  \/ InviteCreate(r)
  \/ InviteClear(r)
  \/ InviteInsert(r)
  \/ ScopeMembers(r)
  \/ ScopeUse(r)
  \/ DeadlockAbort(r)

Next ==
  \/ \E r \in Req : Start(r) \/ Proceed(r) \/ Crash(r)
  \/ \E i \in invs : Expire(i)

Spec == Init /\ [][Next]_vars

\* A handler runs to its end, and PostgreSQL grants a lock in the order it
\* was asked for, so that a request is not passed over for ever.
Fairness == \A r \in Req : SF_vars(Proceed(r))

FairSpec == Spec /\ Fairness

-----------------------------------------------------------------------------
(* What holds of every interleaving.                                       *)

\* Whoever is in a household is in one that exists, and so is every
\* invitation: no sequence of concurrent moves dissolves the household
\* somebody has just joined (AddUserToHousehold counts before it deletes,
\* and the count may be out of date).
ReferentialIntegrity ==
  /\ \A u \in User : hh[u] \in households \cup {Null}
  /\ \A i \in invs : i.hid \in households

\* Two tabs of a user are never both between their UPDATE of the user's row
\* and their commit.
UserRowExclusive ==
  \A r, s \in Req : HoldsUserRow(r) /\ HoldsUserRow(s) /\ Caller[r] = Caller[s]
                    => r = s

\* A household that a transaction is moving its caller into exists and is
\* not being deleted by another transaction.
ShareProtects ==
  \A r \in Req : share[r] # Null =>
    /\ HoldsUserRow(r)
    /\ share[r] = target[r]
    /\ share[r] \in households
    /\ \A s \in Req : drop[s] # share[r]

\* A transaction that moves its caller into a household holds its lock,
\* unless the caller was committed in it all along.
MoveIsProtected ==
  \A r \in Req : HoldsUserRow(r) =>
    target[r] \in {Null, share[r], hh[Caller[r]]}

\* The household that may be deleted is not the one the caller moves to.
OldIsLeft ==
  \A r \in Req : pc[r] \in {"move_count", "move_delete"} =>
    old[r] \notin {Null, target[r]}

\* A household a transaction has deleted has no member but that
\* transaction's own caller, who leaves it at the commit, and no other
\* transaction has deleted it.
DropIsEmpty ==
  \A r \in Req : drop[r] # Null =>
    /\ pc[r] = "move_commit"
    /\ drop[r] \in households \ {target[r]}
    /\ \A v \in User \ {Caller[r]} : hh[v] # drop[r]
    /\ \A s \in Others(r) : drop[s] # drop[r]

LockDiscipline ==
  /\ households \subseteq 1..hidSeq
  /\ UserRowExclusive
  /\ ShareProtects
  /\ MoveIsProtected
  /\ OldIsLeft
  /\ DropIsEmpty

\* The inductive invariant of the proofs.
IndInv == TypeOK /\ ReferentialIntegrity /\ LockDiscipline

\* The handlers and their transactions, interleaved and crashing anywhere,
\* implement the contract: users found, join and leave households one at a
\* time, and only an empty household is ever dissolved.
Contract == INSTANCE HouseholdContract
              WITH member <- hh, alive <- households, founded <- hidSeq

ImplementsContract == Contract!Spec

\* Every request is answered: two people who accept each other's invitation
\* at once, and wait for each other's lock, do not wait for ever.
EveryRequestEnds == \A r \in Req : pc[r] # "idle" ~> pc[r] = "idle"

\* An invitation somebody has joined by is out of the table once the
\* requests that accepted it are over ("invitation was consumed regardless",
\* HouseholdAcceptHandler), but when its deletion fails or is cut off.
JoinedTokenIsConsumed ==
  \A i \in invs : i.token \in joined => \E r \in Req : tok[r] = i.token

-----------------------------------------------------------------------------
(* What the comments of the code promise, and which overlaps of requests,  *)
(* and no others, break it.                                                *)

\* "Removes userID from their household, deleting it if empty": a household
\* has members, unless the last of them counted one another as they left, or
\* had another tab that moved them into it meanwhile.
EmptyOnlyByOverlap ==
  \A h \in households \ orphans : \E u \in User : hh[u] = h

\* "So there is only one active token" (CreateHouseholdInvitation): unless
\* the earlier invitations were deleted while another one was about to be
\* inserted, until the next one is asked for.
OneActiveToken ==
  \A i, j \in invs : i.hid = j.hid => i = j \/ i.hid \in crossed

\* householdUserIDs returns "all users sharing a household with userID,
\* including userID itself", unless another tab of theirs has moved them
\* between its two queries.
ScopeIncludesSelf ==
  \A r \in Req : pc[r] = "scope_use" => Caller[r] \in scope[r] \/ r \in strayed
=============================================================================
