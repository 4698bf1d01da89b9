-------------------------- MODULE HouseholdProofs --------------------------
(***************************************************************************)
(* Proofs about Household, for any users, tabs, tokens and failures.       *)
(***************************************************************************)
EXTENDS Household, TLAPS

\* The initial state satisfies the inductive invariant.
LEMMA InitInv == Init => IndInv
<1> SUFFICES ASSUME Init PROVE IndInv
  OBVIOUS
<1> USE DEF Init
<1>1. TypeOK
  BY DEF TypeOK, Null, PC
<1>2. ReferentialIntegrity
  BY DEF ReferentialIntegrity
<1>3. LockDiscipline
  BY DEF LockDiscipline, UserRowExclusive, ShareProtects, MoveIsProtected,
         OldIsLeft, DropIsEmpty, HoldsUserRow
<1> QED
  BY <1>1, <1>2, <1>3 DEF IndInv

\* Every step, of whatever request, keeps every variable in its type.
LEMMA TypeStep == TypeOK /\ [Next]_vars => TypeOK'
<1> SUFFICES ASSUME TypeOK, [Next]_vars PROVE TypeOK'
  OBVIOUS
<1> USE CallerAssumption DEF TypeOK, Null, PC, Goto, Finish,
    dbVars, logVars, locVars
<1>1. ASSUME NEW r \in Req, StartLeave(r) PROVE TypeOK'
  BY <1>1 DEF StartLeave
<1>2. ASSUME NEW r \in Req, NEW i \in invs, StartAccept(r, i) PROVE TypeOK'
  BY <1>2 DEF StartAccept, Invitation
<1>3. ASSUME NEW r \in Req, NEW t \in Token, StartInvite(r, t) PROVE TypeOK'
  BY <1>3 DEF StartInvite
<1>4. ASSUME NEW r \in Req, StartScope(r) PROVE TypeOK'
  BY <1>4 DEF StartScope
<1>5. ASSUME NEW r \in Req, MoveBegin(r) PROVE TypeOK'
  BY <1>5 DEF MoveBegin
<1>6. ASSUME NEW r \in Req, MoveUpdate(r) PROVE TypeOK'
  BY <1>6 DEF MoveUpdate
<1>7. ASSUME NEW r \in Req, MoveCount(r) PROVE TypeOK'
  BY <1>7 DEF MoveCount
<1>8. ASSUME NEW r \in Req, MoveDelete(r) PROVE TypeOK'
  BY <1>8 DEF MoveDelete
<1>9. ASSUME NEW r \in Req, MoveCommit(r) PROVE TypeOK'
  <2>1. hh' \in [User -> Nat] /\ households' \subseteq Nat \ {Null}
    <3>1. /\ hh' = [hh EXCEPT ![Caller[r]] = target[r]]
          /\ households' = households \ {drop[r]}
      BY <1>9 DEF MoveCommit
    <3>2. target[r] \in Nat
      OBVIOUS
    <3> QED
      BY <3>1, <3>2
  <2>2. invs' \subseteq invs /\ joined' \subseteq Token
    BY <1>9 DEF MoveCommit
  <2>3. UNCHANGED <<hidSeq, issued, expired, crossed>>
    BY <1>9 DEF MoveCommit
  <2>7. orphans' \subseteq Nat /\ strayed' \subseteq Req
    <3>1. orphans' \subseteq orphans \cup {hh[Caller[r]]}
      BY <1>9 DEF MoveCommit
    <3>2. strayed' = strayed \cup Reading(Caller[r])
      BY <1>9 DEF MoveCommit
    <3>3. hh[Caller[r]] \in Nat
      OBVIOUS
    <3> QED
      BY <3>1, <3>2, <3>3 DEF Reading
  <2>4. pc' \in [Req -> PC] /\ old' \in [Req -> Nat] /\ target' \in [Req -> Nat]
    BY <1>9 DEF MoveCommit
  <2>5. /\ tok' \in [Req -> Token \cup {NoToken}]
        /\ share' \in [Req -> Nat]
        /\ drop' \in [Req -> Nat]
        /\ scope' \in [Req -> SUBSET User]
    BY <1>9 DEF MoveCommit
  <2>6. ASSUME NEW q \in Req,
               pc'[q] \in {"invite_create", "invite_clear", "invite_insert"}
        PROVE  tok'[q] \in Token
    BY <1>9, <2>6 DEF MoveCommit
  <2> QED
    BY <2>1, <2>2, <2>3, <2>4, <2>5, <2>6, <2>7
<1>10. ASSUME NEW r \in Req, Consume(r) PROVE TypeOK'
  BY <1>10 DEF Consume
<1>11. ASSUME NEW r \in Req, InviteCreate(r) PROVE TypeOK'
  <2>1. /\ hidSeq' \in Nat
        /\ households' \subseteq Nat \ {Null}
        /\ hh' \in [User -> Nat]
        /\ target' \in [Req -> Nat]
    BY <1>11 DEF InviteCreate
  <2>2. orphans' \subseteq Nat /\ strayed' \subseteq Req
    BY <1>11 DEF InviteCreate, Reading
  <2>3. pc[r] = "invite_create" /\ pc' = [pc EXCEPT ![r] = "invite_clear"]
    BY <1>11 DEF InviteCreate, At
  <2>4. UNCHANGED <<invs, issued, expired, joined, crossed, old, tok, share, drop, scope>>
    BY <1>11 DEF InviteCreate
  <2> QED
    BY <2>1, <2>2, <2>3, <2>4
<1>12. ASSUME NEW r \in Req, InviteClear(r) PROVE TypeOK'
  BY <1>12 DEF InviteClear, At
<1>13. ASSUME NEW r \in Req, InviteInsert(r) PROVE TypeOK'
  <2>1. pc[r] = "invite_insert"
    BY <1>13 DEF InviteInsert, At
  <2>2. [token |-> tok[r], hid |-> target[r], inviter |-> Caller[r]] \in Invitation
    BY <2>1 DEF Invitation
  <2>3. invs' \subseteq Invitation
    BY <1>13, <2>2 DEF InviteInsert
  <2>4. Finish(r) /\ UNCHANGED <<hh, households, hidSeq, logVars>>
    BY <1>13 DEF InviteInsert
  <2> QED
    BY <2>3, <2>4
<1>14. ASSUME NEW r \in Req, ScopeMembers(r) PROVE TypeOK'
  BY <1>14 DEF ScopeMembers
<1>15. ASSUME NEW r \in Req, ScopeUse(r) PROVE TypeOK'
  BY <1>15 DEF ScopeUse
<1>16. ASSUME NEW r \in Req, DeadlockAbort(r) PROVE TypeOK'
  BY <1>16 DEF DeadlockAbort
<1>17. ASSUME NEW r \in Req, Crash(r) PROVE TypeOK'
  BY <1>17 DEF Crash
<1>18. ASSUME NEW i \in invs, Expire(i) PROVE TypeOK'
  BY <1>18 DEF Expire, Invitation
<1>19. CASE UNCHANGED vars
  BY <1>19 DEF vars
<1> QED
  BY <1>1, <1>2, <1>3, <1>4, <1>5, <1>6, <1>7, <1>8, <1>9, <1>10, <1>11, <1>12,
     <1>13, <1>14, <1>15, <1>16, <1>17, <1>18, <1>19 DEF Next, Start, Proceed

\* A request that holds no row of users before or after a step, and changes
\* neither memberships, households nor locks, leaves the lock discipline.
LEMMA QuietStep ==
  ASSUME TypeOK, LockDiscipline, NEW r \in Req,
         ~HoldsUserRow(r), ~HoldsUserRow(r)',
         pc' = [pc EXCEPT ![r] = pc'[r]],
         \A s \in Others(r) : old'[s] = old[s] /\ target'[s] = target[s],
         UNCHANGED <<hh, households, hidSeq, share, drop>>
  PROVE  LockDiscipline'
<1> USE DEF LockDiscipline, HoldsUserRow, Others, TypeOK, Null
<1>1. UserRowExclusive'
  BY DEF UserRowExclusive
<1>2. ShareProtects'
  BY DEF ShareProtects
<1>3. MoveIsProtected'
  BY DEF MoveIsProtected
<1>4. OldIsLeft'
  BY DEF OldIsLeft
<1>5. DropIsEmpty'
  BY DEF DropIsEmpty
<1> QED
  BY <1>1, <1>2, <1>3, <1>4, <1>5

\* So does a request that ends, which gives up its locks.
LEMMA FinishStep ==
  ASSUME TypeOK, LockDiscipline, NEW r \in Req, Finish(r),
         UNCHANGED <<hh, households, hidSeq>>
  PROVE  LockDiscipline'
<1> USE DEF LockDiscipline, HoldsUserRow, Others, TypeOK, Null, Finish, Goto
<1>1. UserRowExclusive'
  BY DEF UserRowExclusive
<1>2. ShareProtects'
  BY DEF ShareProtects
<1>3. MoveIsProtected'
  BY DEF MoveIsProtected
<1>4. OldIsLeft'
  BY DEF OldIsLeft
<1>5. DropIsEmpty'
  BY DEF DropIsEmpty
<1> QED
  BY <1>1, <1>2, <1>3, <1>4, <1>5

\* Every step keeps the lock discipline.
LEMMA LockStep == IndInv /\ [Next]_vars => LockDiscipline'
<1> SUFFICES ASSUME IndInv, [Next]_vars PROVE LockDiscipline'
  OBVIOUS
<1> USE CallerAssumption DEF IndInv, dbVars, logVars, locVars
<1>1. ASSUME NEW r \in Req, MoveUpdate(r) PROVE LockDiscipline'
  <2>1. CASE ChecksTarget(r) /\ target[r] \notin households
    BY <1>1, <2>1, FinishStep DEF MoveUpdate
  <2>2. CASE ~(ChecksTarget(r) /\ target[r] \notin households)
    <3>1. /\ pc[r] = "move_update"
          /\ pc' = [pc EXCEPT ![r] = IF old[r] \notin {Null, target[r]}
                                    THEN "move_count" ELSE "move_commit"]
          /\ share' = [share EXCEPT ![r] =
                         IF ChecksTarget(r) THEN target[r] ELSE Null]
          /\ UNCHANGED <<hh, households, hidSeq, old, target, drop>>
      BY <1>1, <2>2 DEF MoveUpdate, At, Goto
    <3>2. \A s \in Others(r) : Caller[s] = Caller[r] => ~HoldsUserRow(s)
      BY <1>1, <3>1 DEF MoveUpdate, At, Blocked, WaitsFor, RowWaits, Others
    <3>3. ChecksTarget(r) => \A s \in Others(r) : drop[s] # target[r]
      BY <1>1, <3>1 DEF MoveUpdate, At, Blocked, WaitsFor, Others
    <3>4. share[r] = Null /\ drop[r] = Null
      BY <3>1 DEF LockDiscipline, ShareProtects, DropIsEmpty, HoldsUserRow, TypeOK
    <3> USE DEF LockDiscipline, HoldsUserRow, Others, TypeOK, Null
    <3>5. UserRowExclusive'
      BY <3>1, <3>2 DEF UserRowExclusive
    <3>6. ShareProtects'
      BY <2>2, <3>1, <3>3, <3>4 DEF ShareProtects, ChecksTarget
    <3>7. MoveIsProtected'
      BY <3>1 DEF MoveIsProtected, ChecksTarget
    <3>8. OldIsLeft'
      BY <3>1 DEF OldIsLeft
    <3>9. DropIsEmpty'
      BY <3>1, <3>4 DEF DropIsEmpty
    <3> QED
      BY <3>1, <3>5, <3>6, <3>7, <3>8, <3>9
  <2> QED
    BY <2>1, <2>2
<1>2. ASSUME NEW r \in Req, MoveCount(r) PROVE LockDiscipline'
  <2> USE <1>2 DEF MoveCount, LockDiscipline, HoldsUserRow, Others, TypeOK, Null, Goto, Finish
  <2>1. UserRowExclusive'
    BY DEF UserRowExclusive
  <2>2. ShareProtects'
    BY DEF ShareProtects
  <2>3. MoveIsProtected'
    BY DEF MoveIsProtected
  <2>4. OldIsLeft'
    BY DEF OldIsLeft
  <2>5. DropIsEmpty'
    BY DEF DropIsEmpty
  <2>6. households' \subseteq 1..hidSeq'
    OBVIOUS
  <2> QED
    BY <2>1, <2>2, <2>3, <2>4, <2>5, <2>6
<1>3. ASSUME NEW r \in Req, MoveDelete(r) PROVE LockDiscipline'
  <2>1. CASE \E v \in User \ {Caller[r]} : hh[v] = old[r]
    BY <1>3, <2>1, FinishStep DEF MoveDelete
  <2>2. CASE ~\E v \in User \ {Caller[r]} : hh[v] = old[r]
    <3>1. /\ pc[r] = "move_delete"
          /\ pc' = [pc EXCEPT ![r] = "move_commit"]
          /\ drop' = [drop EXCEPT ![r] =
                        IF old[r] \in households THEN old[r] ELSE Null]
          /\ UNCHANGED <<hh, households, hidSeq, old, target, share>>
      BY <1>3, <2>2 DEF MoveDelete, At, Goto
    <3>2. \A s \in Others(r) : old[r] # share[s] /\ old[r] # drop[s]
      BY <1>3, <3>1 DEF MoveDelete, At, Blocked, WaitsFor, Others
    <3>3. old[r] # Null /\ old[r] # target[r] /\ drop[r] = Null
      BY <3>1 DEF LockDiscipline, OldIsLeft, DropIsEmpty, TypeOK
    <3>4. share[r] \in {Null, target[r]}
      BY DEF LockDiscipline, ShareProtects
    <3> USE DEF LockDiscipline, HoldsUserRow, Others, TypeOK, Null
    <3>5. UserRowExclusive'
      BY <3>1 DEF UserRowExclusive
    <3>6. ShareProtects'
      BY <3>1, <3>2, <3>3, <3>4 DEF ShareProtects
    <3>7. MoveIsProtected'
      BY <3>1 DEF MoveIsProtected
    <3>8. OldIsLeft'
      BY <3>1 DEF OldIsLeft
    <3>9. DropIsEmpty'
      BY <2>2, <3>1, <3>2, <3>3 DEF DropIsEmpty
    <3> QED
      BY <3>1, <3>5, <3>6, <3>7, <3>8, <3>9
  <2> QED
    BY <2>1, <2>2
<1>4. ASSUME NEW r \in Req, MoveCommit(r) PROVE LockDiscipline'
  <2>1. /\ pc[r] = "move_commit"
        /\ pc' = [pc EXCEPT ![r] = pc'[r]]
        /\ pc'[r] \in {"idle", "accept_consume"}
        /\ hh' = [hh EXCEPT ![Caller[r]] = target[r]]
        /\ households' = households \ {drop[r]}
        /\ share' = [share EXCEPT ![r] = Null]
        /\ drop' = [drop EXCEPT ![r] = Null]
        /\ \A s \in Others(r) : old'[s] = old[s] /\ target'[s] = target[s]
        /\ UNCHANGED hidSeq
    BY <1>4 DEF MoveCommit, Finish, Goto, Others, TypeOK
  <2>2. \A s \in Others(r) : HoldsUserRow(s) => Caller[s] # Caller[r]
    BY <2>1 DEF LockDiscipline, UserRowExclusive, HoldsUserRow, Others
  <2>3. \A s \in Req : drop[s] # Null => drop[s] # target[r] \/ s = r
    <3> SUFFICES ASSUME NEW s \in Others(r), drop[s] # Null PROVE drop[s] # target[r]
      BY DEF Others
    <3>1. target[r] \in {Null, share[r], hh[Caller[r]]}
      BY <2>1 DEF LockDiscipline, MoveIsProtected, HoldsUserRow
    <3>2. HoldsUserRow(s) /\ hh[Caller[r]] # drop[s]
      BY <2>2 DEF LockDiscipline, DropIsEmpty, HoldsUserRow, Others
    <3>3. share[r] # drop[s]
      BY DEF LockDiscipline, ShareProtects, Others
    <3> QED
      BY <3>1, <3>2, <3>3
  <2> USE DEF LockDiscipline, HoldsUserRow, Others, TypeOK, Null
  <2>4. UserRowExclusive'
    BY <2>1 DEF UserRowExclusive
  <2>5. ShareProtects'
    BY <2>1 DEF ShareProtects
  <2>6. MoveIsProtected'
    BY <2>1, <2>2 DEF MoveIsProtected
  <2>7. OldIsLeft'
    BY <2>1 DEF OldIsLeft
  <2>8. DropIsEmpty'
    BY <2>1, <2>2, <2>3 DEF DropIsEmpty
  <2> QED
    BY <2>1, <2>4, <2>5, <2>6, <2>7, <2>8
<1>5. ASSUME NEW r \in Req, InviteCreate(r) PROVE LockDiscipline'
  <2> USE <1>5 DEF InviteCreate, At, Blocked, WaitsFor, RowWaits, LockDiscipline, HoldsUserRow, Others, TypeOK, Null, Goto, Finish
  <2>1. UserRowExclusive'
    BY DEF UserRowExclusive
  <2>2. ShareProtects'
    BY DEF ShareProtects
  <2>3. MoveIsProtected'
    BY DEF MoveIsProtected
  <2>4. OldIsLeft'
    BY DEF OldIsLeft
  <2>5. DropIsEmpty'
    BY DEF DropIsEmpty
  <2>6. households' \subseteq 1..hidSeq'
    OBVIOUS
  <2> QED
    BY <2>1, <2>2, <2>3, <2>4, <2>5, <2>6
<1>6. ASSUME NEW r \in Req, StartLeave(r) PROVE LockDiscipline'
  BY <1>6, QuietStep DEF StartLeave, HoldsUserRow, Others, TypeOK, Goto, PC, CanStart, At
<1>7. ASSUME NEW r \in Req, StartScope(r) PROVE LockDiscipline'
  BY <1>7, QuietStep DEF StartScope, HoldsUserRow, Others, TypeOK, Goto, PC, CanStart, At
<1>8. ASSUME NEW r \in Req, MoveBegin(r) PROVE LockDiscipline'
  BY <1>8, QuietStep DEF MoveBegin, HoldsUserRow, Others, TypeOK, Goto, PC, CanStart, At
<1>9. ASSUME NEW r \in Req, InviteClear(r) PROVE LockDiscipline'
  BY <1>9, QuietStep DEF InviteClear, HoldsUserRow, Others, TypeOK, Goto, PC, CanStart, At
<1>10. ASSUME NEW r \in Req, ScopeMembers(r) PROVE LockDiscipline'
  BY <1>10, QuietStep DEF ScopeMembers, HoldsUserRow, Others, TypeOK, Goto, PC, CanStart, At
<1>11. ASSUME NEW r \in Req, NEW i \in invs, StartAccept(r, i) PROVE LockDiscipline'
  BY <1>11, QuietStep DEF StartAccept, HoldsUserRow, Others, TypeOK, Goto, PC, CanStart, Invitation
<1>12. ASSUME NEW r \in Req, NEW t \in Token, StartInvite(r, t) PROVE LockDiscipline'
  BY <1>12, QuietStep DEF StartInvite, HoldsUserRow, Others, TypeOK, Goto, PC, CanStart
<1>13. ASSUME NEW r \in Req, Consume(r) PROVE LockDiscipline'
  BY <1>13, FinishStep DEF Consume
<1>14. ASSUME NEW r \in Req, InviteInsert(r) PROVE LockDiscipline'
  BY <1>14, FinishStep DEF InviteInsert
<1>15. ASSUME NEW r \in Req, ScopeUse(r) PROVE LockDiscipline'
  BY <1>15, FinishStep DEF ScopeUse
<1>16. ASSUME NEW r \in Req, DeadlockAbort(r) PROVE LockDiscipline'
  BY <1>16, FinishStep DEF DeadlockAbort
<1>17. ASSUME NEW r \in Req, Crash(r) PROVE LockDiscipline'
  BY <1>17, FinishStep DEF Crash
<1>18. CASE (\E i \in invs : Expire(i)) \/ UNCHANGED vars
  <2>1. UNCHANGED <<hh, households, hidSeq, pc, old, target, share, drop>>
    BY <1>18 DEF Expire, vars
  <2> QED
    BY <2>1 DEF LockDiscipline, HoldsUserRow, UserRowExclusive, ShareProtects,
       MoveIsProtected, OldIsLeft, DropIsEmpty
<1> QED
  BY <1>1, <1>2, <1>3, <1>4, <1>5, <1>6, <1>7, <1>8, <1>9, <1>10, <1>11, <1>12, <1>13, <1>14, <1>15, <1>16, <1>17, <1>18 DEF Next, Start, Proceed

\* Every step keeps memberships and invitations in households that exist.
LEMMA IntegrityStep == IndInv /\ [Next]_vars => ReferentialIntegrity'
<1> SUFFICES ASSUME IndInv, [Next]_vars PROVE ReferentialIntegrity'
  OBVIOUS
<1> USE CallerAssumption DEF IndInv, ReferentialIntegrity, TypeOK, Null,
    dbVars, logVars, locVars
<1>1. ASSUME NEW r \in Req, MoveCommit(r) PROVE ReferentialIntegrity'
  <2>1. /\ pc[r] = "move_commit"
        /\ hh' = [hh EXCEPT ![Caller[r]] = target[r]]
        /\ households' = households \ {drop[r]}
        /\ invs' = {i \in invs : i.hid # drop[r]}
    BY <1>1 DEF MoveCommit
  <2>2. target[r] \in {Null} \cup households /\ (drop[r] = Null \/ drop[r] # target[r])
    BY <2>1 DEF LockDiscipline, MoveIsProtected, ShareProtects, DropIsEmpty,
       HoldsUserRow
  <2>3. \A v \in User \ {Caller[r]} : hh[v] = Null \/ hh[v] \in households \ {drop[r]}
    <3>1. CASE drop[r] = Null
      BY <3>1
    <3>2. CASE drop[r] # Null
      BY <3>2 DEF LockDiscipline, DropIsEmpty
    <3> QED
      BY <3>1, <3>2
  <2>4. \A u \in User : hh'[u] \in households' \cup {Null}
    BY <2>1, <2>2, <2>3
  <2>5. \A i \in invs' : i.hid \in households'
    BY <2>1
  <2> QED
    BY <2>4, <2>5
<1>2. ASSUME NEW r \in Req, InviteCreate(r) PROVE ReferentialIntegrity'
  BY <1>2 DEF InviteCreate
<1>3. ASSUME NEW r \in Req, Consume(r) PROVE ReferentialIntegrity'
  BY <1>3 DEF Consume
<1>4. ASSUME NEW r \in Req, InviteClear(r) PROVE ReferentialIntegrity'
  BY <1>4 DEF InviteClear
<1>5. ASSUME NEW r \in Req, InviteInsert(r) PROVE ReferentialIntegrity'
  BY <1>5 DEF InviteInsert
<1>6. CASE UNCHANGED dbVars
  BY <1>6
<1> QED
  BY <1>1, <1>2, <1>3, <1>4, <1>5, <1>6
  DEF Next, Start, Proceed, vars, StartLeave, StartScope, StartAccept, StartInvite,
      MoveBegin, MoveUpdate, MoveCount, MoveDelete, ScopeMembers, ScopeUse,
      DeadlockAbort, Crash, Expire

-----------------------------------------------------------------------------
\* IndInv holds in every reachable state.
THEOREM InvariantHolds == Spec => []IndInv
<1>1. IndInv /\ [Next]_vars => IndInv'
  BY TypeStep, LockStep, IntegrityStep DEF IndInv
<1> QED
  BY InitInv, <1>1, PTL DEF Spec

\* Every variable has its type, whatever the users do.
THEOREM TypeCorrect == Spec => []TypeOK
<1>1. IndInv => TypeOK
  BY DEF IndInv
<1> QED
  BY InvariantHolds, <1>1, PTL

\* Nobody is ever a member of a household that does not exist, and no
\* invitation leads to one, however the requests interleave and crash.
THEOREM IntegrityHolds == Spec => []ReferentialIntegrity
<1>1. IndInv => ReferentialIntegrity
  BY DEF IndInv
<1> QED
  BY InvariantHolds, <1>1, PTL

\* The transactions' locks protect what they have read.
THEOREM LockDisciplineHolds == Spec => []LockDiscipline
<1>1. IndInv => LockDiscipline
  BY DEF IndInv
<1> QED
  BY InvariantHolds, <1>1, PTL

-----------------------------------------------------------------------------
(* Household implements HouseholdContract.                                 *)

\* A commit is a move of the contract, into a household that exists, and
\* dissolves only a household left empty.
LEMMA CommitIsMove ==
  ASSUME IndInv, NEW r \in Req, MoveCommit(r)
  PROVE  Contract!Move(Caller[r], target[r]) /\ target[r] \in households \cup {Null}
<1> USE CallerAssumption DEF IndInv, TypeOK
<1>1. /\ pc[r] = "move_commit"
      /\ hh' = [hh EXCEPT ![Caller[r]] = target[r]]
      /\ households' = households \ {drop[r]}
      /\ hidSeq' = hidSeq
  BY DEF MoveCommit
<1>2. target[r] \in households \cup {Null}
  BY <1>1 DEF LockDiscipline, MoveIsProtected, ShareProtects, HoldsUserRow,
     ReferentialIntegrity
<1>3. CASE drop[r] = Null
  <2>1. households' = households
    BY <1>1, <1>3
  <2> QED
    BY <1>1, <1>2, <2>1 DEF Contract!Move, Contract!Null, Null
<1>4. CASE drop[r] # Null
  <2>1. drop[r] \in households /\ drop[r] # target[r]
    BY <1>4 DEF LockDiscipline, DropIsEmpty
  <2>2. \A u \in User : hh'[u] # drop[r]
    BY <1>1, <1>4, <2>1 DEF LockDiscipline, DropIsEmpty
  <2> QED
    BY <1>1, <1>2, <2>1, <2>2 DEF Contract!Move, Contract!Empty, Contract!Null, Null
<1> QED
  BY <1>2, <1>3, <1>4

\* Every step of the requests is a step of the contract or leaves it alone.
LEMMA StepIsContractStep ==
  IndInv /\ [Next]_vars => [Contract!Next]_<<hh, households, hidSeq>>
<1> SUFFICES ASSUME IndInv, [Next]_vars
             PROVE  [Contract!Next]_<<hh, households, hidSeq>>
  OBVIOUS
<1> USE CallerAssumption DEF dbVars, logVars, locVars
<1>1. ASSUME NEW r \in Req, MoveCommit(r) PROVE Contract!Next
  <2>1. Caller[r] \in User
    OBVIOUS
  <2> QED
    BY <1>1, <2>1, CommitIsMove DEF Contract!Next, Contract!Null, Null
<1>2. ASSUME NEW r \in Req, InviteCreate(r) PROVE Contract!Next
  <2>1. Contract!Found(Caller[r])
    BY <1>2 DEF InviteCreate, Contract!Found
  <2> QED
    BY <2>1 DEF Contract!Next
<1>3. CASE UNCHANGED <<hh, households, hidSeq>>
  BY <1>3
<1> QED
  BY <1>1, <1>2, <1>3
  DEF Next, Start, Proceed, vars, StartLeave, StartScope, StartAccept, StartInvite,
      MoveBegin, MoveUpdate, MoveCount, MoveDelete, Consume, InviteClear,
      InviteInsert, ScopeMembers, ScopeUse, DeadlockAbort, Crash, Expire

\* Whatever the requests do, one at a time or interleaved statement by
\* statement, is something the contract allows.
THEOREM Implementation == Spec => ImplementsContract
<1>1. Init => Contract!Init
  BY DEF Init, Contract!Init, Contract!Null, Null
<1>2. IndInv /\ [Next]_vars => [Contract!Next]_<<hh, households, hidSeq>>
  BY StepIsContractStep
<1> QED
  BY InvariantHolds, <1>1, <1>2, PTL
  DEF Spec, ImplementsContract, Contract!Spec, Contract!cvars

-----------------------------------------------------------------------------
(* What the comments of the code promise, but in the overlaps the history  *)
(* variables record.                                                       *)

\* A request of a user who has not moved since it read their household will
\* find them in it.
ScopeInv ==
  \A r \in Req :
    /\ pc[r] = "scope_members" => hh[Caller[r]] = old[r] \/ r \in strayed
    /\ pc[r] = "scope_use" => Caller[r] \in scope[r] \/ r \in strayed

\* Of two invitations to a household, in the table or about to be inserted,
\* one was not there for the other's request to delete.
ActiveInv ==
  /\ OneActiveToken
  /\ \A r \in Req, i \in invs :
       pc[r] = "invite_insert" /\ i.hid = target[r] => i.hid \in crossed
  /\ \A r, s \in Req :
       pc[r] = "invite_insert" /\ pc[s] = "invite_insert" /\ target[r] = target[s]
         => r = s \/ target[r] \in crossed

\* Requests that issue an invitation.
Inviting(r) == pc[r] \in {"invite_create", "invite_clear", "invite_insert"}

\* The token of a request that issues it is nobody else's, and one by which
\* somebody has joined is in the table only while they are about to delete it.
TokenInv ==
  /\ joined \subseteq issued
  /\ \A i \in invs : i.token \in issued
  /\ \A r \in Req : tok[r] \in issued \cup {NoToken}
  /\ \A r \in Req : Inviting(r) =>
       /\ tok[r] \in issued \ joined
       /\ \A i \in invs : i.token # tok[r]
       /\ \A s \in Others(r) : tok[s] # tok[r]
       /\ pc[r] # "invite_create" => target[r] # Null
  /\ \A i \in invs : i.token \in joined =>
       \E r \in Req : pc[r] = "accept_consume" /\ tok[r] = i.token

\* v is a member of h and no request of v's is past counting the others.
Stays(v, h) == hh[v] = h /\ ~Leaving(v, h)

\* A household has a member who stays, or is being deleted by its last one.
MemberInv ==
  /\ \A h \in households :
       \/ h \in orphans
       \/ \E s \in Req : drop[s] = h
       \/ \E v \in User : Stays(v, h)
  /\ \A s \in Req : drop[s] # Null => drop[s] \in orphans \/ hh[Caller[s]] = drop[s]

\* A request changes no locals but its own.
LEMMA OwnLocals ==
  ASSUME TypeOK, NEW r \in Req, Start(r) \/ Proceed(r) \/ Crash(r), NEW s \in Others(r)
  PROVE  /\ pc'[s] = pc[s] /\ old'[s] = old[s] /\ target'[s] = target[s]
         /\ tok'[s] = tok[s] /\ share'[s] = share[s] /\ drop'[s] = drop[s]
         /\ scope'[s] = scope[s]
<1> USE DEF TypeOK, Others, Goto, Finish, locVars
<1>1. ASSUME Start(r)
      PROVE  /\ pc'[s] = pc[s] /\ old'[s] = old[s] /\ target'[s] = target[s]
             /\ tok'[s] = tok[s] /\ share'[s] = share[s] /\ drop'[s] = drop[s]
             /\ scope'[s] = scope[s]
  BY <1>1 DEF Start, StartLeave, StartScope, StartAccept, StartInvite
<1>2. CASE MoveBegin(r)
  BY <1>2 DEF MoveBegin
<1>3. CASE MoveUpdate(r)
  BY <1>3 DEF MoveUpdate
<1>4. CASE MoveCount(r)
  BY <1>4 DEF MoveCount
<1>5. CASE MoveDelete(r)
  BY <1>5 DEF MoveDelete
<1>6. CASE MoveCommit(r)
  BY <1>6 DEF MoveCommit
<1>7. CASE Consume(r)
  BY <1>7 DEF Consume
<1>8. CASE InviteCreate(r) \/ InviteClear(r)
  BY <1>8 DEF InviteCreate, InviteClear
<1>9. CASE InviteInsert(r)
  BY <1>9 DEF InviteInsert
<1>10. CASE ScopeMembers(r)
  BY <1>10 DEF ScopeMembers
<1>11. CASE ScopeUse(r) \/ DeadlockAbort(r) \/ Crash(r)
  BY <1>11 DEF ScopeUse, DeadlockAbort, Crash
<1> QED
  BY <1>1, <1>2, <1>3, <1>4, <1>5, <1>6, <1>7, <1>8, <1>9, <1>10, <1>11 DEF Proceed

\* Every step keeps ScopeInv: who moves a user marks their reading requests.
LEMMA ScopeStep == TypeOK /\ ScopeInv /\ [Next]_vars => ScopeInv'
<1> SUFFICES ASSUME TypeOK, ScopeInv, [Next]_vars PROVE ScopeInv'
  OBVIOUS
<1> USE CallerAssumption DEF TypeOK, PC
<1>1. ASSUME NEW r \in Req, Start(r) \/ Proceed(r) \/ Crash(r) PROVE ScopeInv'
  <2> DEFINE Moves == MoveCommit(r) \/ InviteCreate(r)
             Scopes == StartScope(r) \/ ScopeMembers(r) \/ ScopeUse(r)
  <2>1. \A s \in Others(r) : pc'[s] = pc[s] /\ old'[s] = old[s] /\ scope'[s] = scope[s]
    BY <1>1, OwnLocals
  <2>2. CASE Moves
    <3>1. /\ \A u \in User : u # Caller[r] => hh'[u] = hh[u]
          /\ strayed' = strayed \cup Reading(Caller[r])
      BY <2>2 DEF MoveCommit, InviteCreate
    <3>2. pc'[r] \notin {"scope_members", "scope_use"}
      BY <2>2 DEF MoveCommit, InviteCreate, Goto, Finish
    <3> QED
      BY <2>1, <3>1, <3>2 DEF ScopeInv, Others, Reading
  <2>3. CASE StartScope(r)
    BY <2>1, <2>3 DEF StartScope, ScopeInv, Others, Goto, dbVars
  <2>4. CASE ScopeMembers(r)
    <3>1. /\ hh' = hh /\ strayed' = strayed /\ pc[r] = "scope_members"
          /\ pc'[r] = "scope_use"
      BY <2>4 DEF ScopeMembers, Goto, dbVars, logVars
    <3>2. hh[Caller[r]] = old[r] => Caller[r] \in scope'[r]
      BY <2>4 DEF ScopeMembers
    <3> QED
      BY <2>1, <3>1, <3>2 DEF ScopeInv, Others
  <2>5. CASE ScopeUse(r)
    BY <2>1, <2>5 DEF ScopeUse, ScopeInv, Others, Goto, Finish, dbVars
  <2>6. CASE ~Moves /\ ~Scopes
    <3>1. hh' = hh /\ strayed' = strayed
      BY <1>1, <2>6 DEF Start, Proceed, StartLeave, StartAccept, StartInvite, MoveBegin,
         MoveUpdate, MoveCount, MoveDelete, Consume, InviteClear, InviteInsert,
         DeadlockAbort, Crash, dbVars, logVars
    <3>2. pc'[r] \notin {"scope_members", "scope_use"}
      BY <1>1, <2>6 DEF Start, Proceed, StartLeave, StartAccept, StartInvite, MoveBegin,
         MoveUpdate, MoveCount, MoveDelete, Consume, InviteClear, InviteInsert,
         DeadlockAbort, Crash, Goto, Finish
    <3> QED
      BY <2>1, <3>1, <3>2 DEF ScopeInv, Others
  <2> QED
    BY <2>2, <2>3, <2>4, <2>5, <2>6
<1>2. CASE (\E i \in invs : Expire(i)) \/ UNCHANGED vars
  BY <1>2 DEF Expire, vars, dbVars, logVars, locVars, ScopeInv
<1> QED
  BY <1>1, <1>2 DEF Next

\* Every step keeps ActiveInv.
LEMMA ActiveStep == TypeOK /\ ActiveInv /\ [Next]_vars => ActiveInv'
<1> SUFFICES ASSUME TypeOK, ActiveInv, [Next]_vars PROVE ActiveInv'
  OBVIOUS
<1> USE CallerAssumption DEF TypeOK, PC, ActiveInv, OneActiveToken
<1>1. ASSUME NEW r \in Req, Start(r) \/ Proceed(r) \/ Crash(r) PROVE ActiveInv'
  <2>1. \A s \in Others(r) : pc'[s] = pc[s] /\ target'[s] = target[s]
    BY <1>1, OwnLocals
  <2>2. CASE InviteClear(r)
    <3>1. /\ pc'[r] = "invite_insert" /\ target' = target
          /\ invs' = {i \in invs : i.hid # target[r]}
      BY <2>2 DEF InviteClear, Goto
    <3>2. CASE \E s \in Others(r) : pc[s] = "invite_insert" /\ target[s] = target[r]
      <4>1. crossed' = crossed \cup {target[r]}
        BY <2>2, <3>2 DEF InviteClear
      <4> QED
        BY <2>1, <3>1, <4>1 DEF Others
    <3>3. CASE ~\E s \in Others(r) : pc[s] = "invite_insert" /\ target[s] = target[r]
      <4>1. crossed' = crossed \ {target[r]}
        BY <2>2, <3>3 DEF InviteClear
      <4> QED
        BY <2>1, <3>1, <3>3, <4>1 DEF Others
    <3> QED
      BY <3>2, <3>3
  <2>3. CASE InviteInsert(r)
    <3>1. /\ pc[r] = "invite_insert" /\ pc'[r] = "idle" /\ crossed' = crossed
      BY <2>3 DEF InviteInsert, At, Finish, Goto, logVars
    <3> DEFINE new == [token |-> tok[r], hid |-> target[r], inviter |-> Caller[r]]
    <3>2. invs' \subseteq invs \cup {new} /\ new.hid = target[r]
      BY <2>3 DEF InviteInsert
    <3> HIDE DEF new
    <3> QED
      BY <2>1, <3>1, <3>2 DEF Others
  <2>4. CASE ~InviteClear(r) /\ ~InviteInsert(r)
    <3>1. invs' \subseteq invs /\ crossed' = crossed
      BY <1>1, <2>4 DEF Start, Proceed, StartLeave, StartScope, StartAccept, StartInvite,
         MoveBegin, MoveUpdate, MoveCount, MoveDelete, MoveCommit, Consume, InviteCreate,
         ScopeMembers, ScopeUse, DeadlockAbort, Crash, dbVars, logVars
    <3>2. pc'[r] # "invite_insert"
      BY <1>1, <2>4 DEF Start, Proceed, StartLeave, StartScope, StartAccept, StartInvite,
         MoveBegin, MoveUpdate, MoveCount, MoveDelete, MoveCommit, Consume, InviteCreate,
         ScopeMembers, ScopeUse, DeadlockAbort, Crash, Goto, Finish
    <3> QED
      BY <2>1, <3>1, <3>2 DEF Others
  <2> QED
    BY <2>2, <2>3, <2>4
<1>2. CASE (\E i \in invs : Expire(i)) \/ UNCHANGED vars
  BY <1>2 DEF Expire, vars, dbVars, logVars, locVars
<1> QED
  BY <1>1, <1>2 DEF Next

\* Only a transaction others wait for is aborted: one that has written.
LEMMA AbortedHoldsRow ==
  ASSUME IndInv, TokenInv, NEW r \in Req, DeadlockAbort(r)
  PROVE  HoldsUserRow(r)
<1> DEFINE waiting == {s \in Req : Blocked(s)}
<1>1. PICK s \in Req : WaitsFor(s, r)
  <2> SUFFICES ASSUME \A s \in Req : ~WaitsFor(s, r) PROVE FALSE
    OBVIOUS
  <2>1. \A S \in SUBSET waiting :
           (\A s \in S \cup {r}, n \in waiting : WaitsFor(s, n) => n \in S) => r \in S
    BY DEF DeadlockAbort, InWaitCycle
  <2>2. \A s \in (waiting \ {r}) \cup {r}, n \in waiting :
           WaitsFor(s, n) => n \in waiting \ {r}
    OBVIOUS
  <2>3. waiting \ {r} \in SUBSET waiting
    OBVIOUS
  <2> HIDE DEF waiting
  <2>4. r \in waiting \ {r}
    BY <2>1, <2>2, <2>3
  <2> QED
    BY <2>4
<1> USE DEF IndInv, LockDiscipline
<1>2. share[r] # Null => HoldsUserRow(r)
  BY DEF ShareProtects
<1>3. drop[r] # Null => HoldsUserRow(r)
  BY DEF DropIsEmpty, HoldsUserRow
<1>4. CASE pc[s] \in {"move_update", "invite_create"}
  BY <1>1, <1>3, <1>4 DEF WaitsFor, RowWaits, ChecksTarget
<1>5. CASE pc[s] = "move_delete"
  <2>1. old[s] # Null
    BY <1>5 DEF OldIsLeft
  <2> QED
    BY <1>1, <1>2, <1>3, <1>5, <2>1 DEF WaitsFor
<1>6. CASE pc[s] \in {"invite_clear", "invite_insert"}
  <2>1. target[s] # Null
    BY <1>6 DEF TokenInv, Inviting
  <2> QED
    BY <1>1, <1>3, <1>6, <2>1 DEF WaitsFor
<1>7. CASE pc[s] = "accept_consume"
  <2>1. \A i \in invs : i.hid # Null
    BY DEF ReferentialIntegrity, TypeOK
  <2> QED
    BY <1>1, <1>3, <1>7, <2>1 DEF WaitsFor
<1> QED
  BY <1>1, <1>4, <1>5, <1>6, <1>7 DEF WaitsFor

\* Every step keeps TokenInv.
LEMMA TokenStep == IndInv /\ TokenInv /\ [Next]_vars => TokenInv'
<1> SUFFICES ASSUME IndInv, TokenInv, [Next]_vars PROVE TokenInv'
  OBVIOUS
<1> USE CallerAssumption, NoTokenAssumption
<1>1. ASSUME NEW r \in Req, Start(r) \/ Proceed(r) \/ Crash(r) PROVE TokenInv'
  <2>1. \A s \in Others(r) : pc'[s] = pc[s] /\ tok'[s] = tok[s] /\ target'[s] = target[s]
    BY <1>1, OwnLocals DEF IndInv
  <2>12. NoToken \notin issued
    BY DEF IndInv, TypeOK
  <2> USE DEF TypeOK, PC, Inviting, Null
  <2>2. CASE \E t \in Token : StartInvite(r, t)
    <3>1. PICK t \in Token : StartInvite(r, t)
      BY <2>2
    <3>2. /\ t \notin issued /\ issued' = issued \cup {t} /\ t # NoToken
          /\ tok'[r] = t /\ pc'[r] \in {"invite_create", "invite_clear"}
          /\ pc'[r] = "invite_clear" => target'[r] # Null
          /\ joined' = joined /\ invs' = invs /\ pc[r] = "idle"
      BY <3>1 DEF StartInvite, IndInv, Goto, dbVars, CanStart
    <3> QED
      BY <2>1, <3>2 DEF TokenInv, Others
  <2>3. CASE \E i \in invs : StartAccept(r, i)
    <3>1. PICK i \in invs : StartAccept(r, i)
      BY <2>3
    <3>2. /\ tok'[r] = i.token /\ pc'[r] = "move_begin" /\ pc[r] = "idle"
          /\ issued' = issued /\ joined' = joined /\ invs' = invs
      BY <3>1 DEF StartAccept, IndInv, Goto, dbVars, logVars, CanStart
    <3> QED
      BY <2>1, <3>2 DEF TokenInv, Others
  <2>4. CASE MoveCommit(r)
    <3>1. /\ pc[r] = "move_commit" /\ issued' = issued
          /\ invs' \subseteq invs /\ pc'[r] \in {"idle", "accept_consume"}
      BY <2>4 DEF MoveCommit, IndInv, Finish, Goto
    <3>2. CASE tok[r] = NoToken
      <4>1. joined' = joined /\ tok'[r] = NoToken
        BY <2>4, <3>2 DEF MoveCommit, IndInv, Finish
      <4> QED
        BY <2>1, <2>12, <3>1, <4>1 DEF TokenInv, Others
    <3>3. CASE tok[r] # NoToken
      <4>1. /\ joined' = joined \cup {tok[r]} /\ tok'[r] = tok[r]
            /\ pc'[r] = "accept_consume"
        BY <2>4, <3>3 DEF MoveCommit, IndInv, Goto
      <4> QED
        BY <2>1, <3>1, <3>3, <4>1 DEF TokenInv, Others
    <3> QED
      BY <3>2, <3>3
  <2>5. CASE Consume(r)
    <3>1. /\ pc[r] = "accept_consume" /\ issued' = issued
          /\ pc'[r] = "idle" /\ tok'[r] = NoToken
          /\ \/ invs' = {i \in invs : i.token # tok[r]} /\ joined' = joined
             \/ joined' = joined \ {tok[r]} /\ invs' = invs
      BY <2>5 DEF Consume, IndInv, Finish, Goto, At
    <3> QED
      BY <2>1, <2>12, <3>1 DEF TokenInv, Others
  <2>6. CASE InviteCreate(r)
    <3>1. /\ pc[r] = "invite_create" /\ pc'[r] = "invite_clear"
          /\ issued' = issued /\ joined' = joined /\ invs' = invs /\ tok' = tok
          /\ target'[r] # Null
      BY <2>6 DEF InviteCreate, IndInv, Goto, At
    <3> QED
      BY <2>1, <2>12, <3>1 DEF TokenInv, Others
  <2>7. CASE InviteClear(r)
    <3>1. /\ pc[r] = "invite_clear" /\ pc'[r] = "invite_insert"
          /\ issued' = issued /\ joined' = joined /\ invs' \subseteq invs
          /\ tok' = tok /\ target' = target
      BY <2>7 DEF InviteClear, IndInv, Goto, At
    <3> QED
      BY <2>1, <2>12, <3>1 DEF TokenInv, Others
  <2>8. CASE InviteInsert(r)
    <3> DEFINE new == [token |-> tok[r], hid |-> target[r], inviter |-> Caller[r]]
    <3>1. /\ pc[r] = "invite_insert" /\ pc'[r] = "idle" /\ tok'[r] = NoToken
          /\ issued' = issued /\ joined' = joined
      BY <2>8 DEF InviteInsert, IndInv, Finish, Goto, At, logVars
    <3>2. invs' \subseteq invs \cup {new} /\ new.token = tok[r]
      BY <2>8 DEF InviteInsert
    <3> HIDE DEF new
    <3> QED
      BY <2>1, <2>12, <3>1, <3>2 DEF TokenInv, Others
  <2>9. CASE Crash(r)
    <3>1. /\ issued' = issued /\ invs' = invs
          /\ pc'[r] = "idle" /\ tok'[r] = NoToken
          /\ joined' = IF pc[r] = "accept_consume" THEN joined \ {tok[r]} ELSE joined
      BY <2>9 DEF Crash, IndInv, Finish, Goto, dbVars
    <3> QED
      BY <2>1, <2>12, <3>1 DEF TokenInv, Others
  <2>10. CASE DeadlockAbort(r)
    <3>1. pc[r] # "accept_consume"
      BY <2>10, AbortedHoldsRow DEF HoldsUserRow
    <3>2. /\ issued' = issued /\ joined' = joined /\ invs' = invs
          /\ pc'[r] = "idle" /\ tok'[r] = NoToken
      BY <2>10 DEF DeadlockAbort, IndInv, Finish, Goto, dbVars, logVars
    <3> QED
      BY <2>1, <2>12, <3>1, <3>2 DEF TokenInv, Others
  <2>11. CASE \/ StartLeave(r) \/ StartScope(r) \/ MoveBegin(r) \/ MoveUpdate(r)
              \/ MoveCount(r) \/ MoveDelete(r) \/ ScopeMembers(r) \/ ScopeUse(r)
    <3>1. /\ pc[r] # "accept_consume" /\ ~Inviting(r)'
          /\ issued' = issued /\ joined' = joined /\ invs' = invs
      BY <2>11 DEF StartLeave, StartScope, MoveBegin, MoveUpdate, MoveCount, MoveDelete,
         ScopeMembers, ScopeUse, CanStart, At, IndInv, Finish, Goto, dbVars, logVars
    <3>2. tok'[r] \in {tok[r], NoToken}
      BY <2>11 DEF StartLeave, StartScope, MoveBegin, MoveUpdate, MoveCount, MoveDelete,
         ScopeMembers, ScopeUse, IndInv, Finish
    <3> QED
      BY <2>1, <2>12, <3>1, <3>2 DEF TokenInv, Others
  <2> QED
    BY <1>1, <2>2, <2>3, <2>4, <2>5, <2>6, <2>7, <2>8, <2>9, <2>10, <2>11
    DEF Start, Proceed
<1>2. CASE (\E i \in invs : Expire(i)) \/ UNCHANGED vars
  BY <1>2 DEF Expire, vars, dbVars, logVars, locVars, TokenInv, Inviting, Others
<1> QED
  BY <1>1, <1>2 DEF Next

\* What becomes of MemberInv when a request ends without a commit: the caller
\* of one that was deleting their household is in it still, and stays.
LEMMA MemberFinish ==
  ASSUME IndInv, MemberInv, NEW r \in Req, Finish(r),
         UNCHANGED <<hh, households, orphans>>
  PROVE  MemberInv'
<1> USE CallerAssumption DEF IndInv, TypeOK, Finish, Goto, Null
<1>1. \A s \in Others(r) : /\ pc'[s] = pc[s] /\ old'[s] = old[s]
                           /\ target'[s] = target[s] /\ drop'[s] = drop[s]
  BY DEF Others
<1>2. pc'[r] = "idle" /\ drop'[r] = Null
  OBVIOUS
<1>3. \A v \in User, h \in households : Stays(v, h) => Stays(v, h)'
  BY <1>1, <1>2 DEF Stays, Leaving, Others
<1>4. ASSUME NEW h \in households, drop[r] = h
      PROVE  h \in orphans \/ Stays(Caller[r], h)'
  <2>1. HoldsUserRow(r)
    BY <1>4 DEF LockDiscipline, DropIsEmpty, HoldsUserRow
  <2>2. \A s \in Others(r) : Caller[s] = Caller[r] => pc[s] # "move_commit"
    BY <2>1 DEF LockDiscipline, UserRowExclusive, HoldsUserRow, Others
  <2>3. ~Leaving(Caller[r], h)'
    BY <1>1, <1>2, <2>2 DEF Leaving, Others
  <2> QED
    BY <1>4, <2>3 DEF MemberInv, Stays
<1>5. ASSUME NEW h \in households
      PROVE  h \in orphans \/ (\E s \in Req : drop'[s] = h) \/ \E v \in User : Stays(v, h)'
  <2>1. CASE h \in orphans
    BY <2>1
  <2>2. CASE \E s \in Req : drop[s] = h
    BY <1>1, <1>4, <2>2 DEF Others
  <2>3. CASE \E v \in User : Stays(v, h)
    BY <1>3, <2>3
  <2> QED
    BY <2>1, <2>2, <2>3 DEF MemberInv
<1> QED
  BY <1>1, <1>2, <1>5 DEF MemberInv, Others

\* So does a step of a request that changes neither membership nor orphans,
\* is not about to commit and has deleted nothing.
LEMMA MemberQuiet ==
  ASSUME IndInv, MemberInv, NEW r \in Req, Start(r) \/ Proceed(r),
         pc[r] # "move_commit", drop'[r] = drop[r],
         pc'[r] = "move_commit" => old'[r] \in {Null, target'[r]},
         UNCHANGED <<hh, households, orphans>>
  PROVE  MemberInv'
<1>1. \A s \in Others(r) : /\ pc'[s] = pc[s] /\ old'[s] = old[s]
                           /\ target'[s] = target[s] /\ drop'[s] = drop[s]
  BY OwnLocals DEF IndInv
<1>2. \A s \in Req : drop'[s] = drop[s]
  BY <1>1 DEF Others
<1>3. \A v \in User, h \in households : Stays(v, h) => Stays(v, h)'
  BY <1>1 DEF Stays, Leaving, Others, IndInv, TypeOK
<1> QED
  BY <1>2, <1>3 DEF MemberInv

\* Every step keeps MemberInv.
LEMMA MemberStep == IndInv /\ MemberInv /\ [Next]_vars => MemberInv'
<1> SUFFICES ASSUME IndInv, MemberInv, [Next]_vars PROVE MemberInv'
  OBVIOUS
<1> USE CallerAssumption DEF dbVars, logVars
<1>1. ASSUME NEW r \in Req, MoveCount(r) PROVE MemberInv'
  <2>1. \A s \in Others(r) : /\ pc'[s] = pc[s] /\ old'[s] = old[s]
                             /\ target'[s] = target[s]
    BY <1>1, OwnLocals DEF IndInv, Proceed
  <2>2. /\ pc[r] = "move_count" /\ UNCHANGED <<hh, households, old, target, drop>>
        /\ orphans \subseteq orphans'
    BY <1>1 DEF MoveCount
  <2>3. \A v \in User \ {Caller[r]}, h \in households : Stays(v, h) => Stays(v, h)'
    BY <2>1, <2>2 DEF Stays, Leaving, Others
  <2>4. \A h \in households \ {old[r]} : Stays(Caller[r], h) => Stays(Caller[r], h)'
    BY <2>1, <2>2 DEF Stays, Leaving, Others
  <2>5. CASE Remaining(r) = {}
    <3>1. pc'[r] = "move_delete"
      BY <1>1, <2>5 DEF MoveCount, Goto, IndInv, TypeOK
    <3>2. \A h \in households : Stays(Caller[r], h) => Stays(Caller[r], h)'
      BY <2>1, <2>2, <3>1 DEF Stays, Leaving, Others
    <3> QED
      BY <2>2, <2>3, <3>2 DEF MemberInv
  <2>6. CASE Remaining(r) # {}
    <3>1. old[r] \in orphans' \/ \E v \in Remaining(r) : ~Leaving(v, old[r])
      BY <1>1, <2>6 DEF MoveCount
    <3>2. \A v \in Remaining(r) : ~Leaving(v, old[r]) => Stays(v, old[r])
      BY DEF Remaining, Stays
    <3>3. old[r] \in households =>
            old[r] \in orphans' \/ \E v \in User : Stays(v, old[r])'
      BY <2>2, <2>3, <3>1, <3>2 DEF Remaining
    <3> QED
      BY <2>2, <2>3, <2>4, <3>3 DEF MemberInv
  <2> QED
    BY <2>5, <2>6
<1>2. ASSUME NEW r \in Req, MoveDelete(r) PROVE MemberInv'
  <2>1. CASE \E v \in User \ {Caller[r]} : hh[v] = old[r]
    BY <1>2, <2>1, MemberFinish DEF MoveDelete
  <2>2. CASE ~\E v \in User \ {Caller[r]} : hh[v] = old[r]
    <3>1. \A s \in Others(r) : /\ pc'[s] = pc[s] /\ old'[s] = old[s]
                               /\ target'[s] = target[s] /\ drop'[s] = drop[s]
      BY <1>2, OwnLocals DEF IndInv, Proceed
    <3>2. /\ pc[r] = "move_delete" /\ UNCHANGED <<hh, households, orphans, old, target>>
          /\ drop'[r] = IF old[r] \in households THEN old[r] ELSE Null
      BY <1>2, <2>2 DEF MoveDelete, At, IndInv, TypeOK
    <3>3. old[r] # Null /\ drop[r] = Null /\ \A s \in Others(r) : old[r] # drop[s]
      BY <1>2, <3>2 DEF MoveDelete, At, Blocked, WaitsFor, Others, IndInv,
         LockDiscipline, OldIsLeft, DropIsEmpty
    <3>4. \A v \in User, h \in households : Stays(v, h) => h = old[r] \/ Stays(v, h)'
      BY <3>1, <3>2 DEF Stays, Leaving, Others
    <3>5. \A h \in households :
             \/ h \in orphans
             \/ \E s \in Req : drop'[s] = h
             \/ \E v \in User : Stays(v, h)'
      <4> SUFFICES ASSUME NEW h \in households, h \notin orphans
                   PROVE  (\E s \in Req : drop'[s] = h) \/ \E v \in User : Stays(v, h)'
        OBVIOUS
      <4>1. CASE h = old[r]
        BY <3>2, <4>1
      <4>2. CASE h # old[r] /\ \E s \in Req : drop[s] = h
        BY <3>1, <3>3, <4>2 DEF Others, IndInv, TypeOK, Null
      <4>3. CASE h # old[r] /\ \E v \in User : Stays(v, h)
        BY <3>4, <4>3
      <4> QED
        BY <4>1, <4>2, <4>3 DEF MemberInv
    <3>6. old[r] \in households => old[r] \in orphans \/ hh[Caller[r]] = old[r]
      BY <2>2, <3>3 DEF MemberInv, Stays, Others, IndInv, TypeOK
    <3> QED
      BY <3>1, <3>2, <3>5, <3>6 DEF MemberInv, Others
  <2> QED
    BY <2>1, <2>2
<1>3. ASSUME NEW r \in Req, MoveCommit(r) PROVE MemberInv'
  <2>9. PICK c \in User : c = Caller[r]
    BY DEF IndInv
  <2>1. \A s \in Others(r) : /\ pc'[s] = pc[s] /\ old'[s] = old[s]
                             /\ target'[s] = target[s] /\ drop'[s] = drop[s]
    BY <1>3, OwnLocals DEF IndInv, Proceed
  <2>2. /\ pc[r] = "move_commit" /\ pc'[r] # "move_commit" /\ drop'[r] = Null
        /\ \A u \in User : hh'[u] = IF u = c THEN target[r] ELSE hh[u]
        /\ households' = households \ {drop[r]}
        /\ orphans' = (orphans \cup ({hh[c]} \ {old[r], Null})) \ {target[r], drop[r]}
    BY <2>9, <1>3 DEF MoveCommit, Finish, Goto, IndInv, TypeOK
  <2>3. c \in User /\ \A h \in households : h # Null
    BY DEF IndInv, TypeOK
  <2>4. \A s \in Others(r) : HoldsUserRow(s) => Caller[s] # c
    BY <2>9, <2>2 DEF IndInv, LockDiscipline, UserRowExclusive, HoldsUserRow, Others
  <2>5. \A h \in Nat : ~Leaving(c, h)'
    BY <2>1, <2>2, <2>4 DEF Leaving, HoldsUserRow, Others
  <2>6. ASSUME NEW s \in Others(r), drop[s] # Null
        PROVE  Caller[s] # c /\ drop[s] \notin {target[r], drop[r]}
    <3>1. HoldsUserRow(s) /\ hh[c] # drop[s] /\ drop[s] # drop[r]
      BY <2>3, <2>4, <2>6 DEF IndInv, LockDiscipline, DropIsEmpty, HoldsUserRow, Others
    <3>2. target[r] \in {Null, share[r], hh[c]}
      BY <2>9, <2>2 DEF IndInv, LockDiscipline, MoveIsProtected, HoldsUserRow
    <3>3. share[r] # drop[s]
      BY <2>6 DEF IndInv, LockDiscipline, ShareProtects, Others
    <3> QED
      BY <2>4, <2>6, <3>1, <3>2, <3>3
  <2>7. ASSUME NEW h \in households'
        PROVE  h \in orphans' \/ (\E s \in Req : drop'[s] = h) \/ \E v \in User : Stays(v, h)'
    <3>1. CASE h = target[r]
      <4>1. h \in Nat
        BY <2>2 DEF IndInv, TypeOK
      <4>2. Stays(c, h)'
        <5>1. hh'[c] = h
          BY <2>2, <3>1
        <5>2. ~Leaving(c, h)'
          BY <2>5, <4>1
        <5> QED
          BY <5>1, <5>2 DEF Stays
      <4> QED
        BY <2>3, <4>2
    <3>2. CASE h # target[r] /\ h \in orphans
      BY <2>2, <3>2
    <3>3. CASE \E s \in Req : drop[s] = h
      BY <2>1, <2>2, <3>3 DEF Others
    <3>4. CASE h # target[r] /\ \E v \in User \ {c} : Stays(v, h)
      <4>1. PICK v \in User \ {c} : Stays(v, h)
        BY <3>4
      <4>2. Stays(v, h)'
        BY <2>1, <2>2, <4>1 DEF Stays, Leaving, Others
      <4> QED
        BY <4>2
    <3>5. CASE h # target[r] /\ Stays(c, h)
      <4>1. hh[c] = h /\ old[r] # h
        BY <2>9, <2>2, <3>5 DEF Stays, Leaving
      <4> QED
        BY <2>2, <2>3, <3>5, <4>1
    <3> QED
      BY <2>2, <3>1, <3>2, <3>3, <3>4, <3>5 DEF MemberInv
  <2>8. ASSUME NEW s \in Req, drop'[s] # Null
        PROVE  drop'[s] \in orphans' \/ hh'[Caller[s]] = drop'[s]
    <3>1. s \in Others(r) /\ drop'[s] = drop[s]
      BY <2>1, <2>2, <2>8 DEF Others
    <3>2. Caller[s] \in User /\ hh'[Caller[s]] = hh[Caller[s]]
      BY <2>2, <2>6, <2>8, <3>1
    <3>3. drop[s] \in orphans => drop[s] \in orphans'
      BY <2>2, <2>6, <2>8, <3>1
    <3> QED
      BY <2>8, <3>1, <3>2, <3>3 DEF MemberInv, Others
  <2> QED
    BY <2>7, <2>8 DEF MemberInv
<1>4. ASSUME NEW r \in Req, InviteCreate(r) PROVE MemberInv'
  <2>10. PICK c \in User : c = Caller[r]
    OBVIOUS
  <2>11. PICK new \in Nat : new = hidSeq + 1
    BY DEF IndInv, TypeOK
  <2>1. \A s \in Others(r) : /\ pc'[s] = pc[s] /\ old'[s] = old[s]
                             /\ target'[s] = target[s] /\ drop'[s] = drop[s]
    BY <1>4, OwnLocals DEF IndInv, Proceed
  <2>2. /\ pc[r] = "invite_create" /\ pc'[r] # "move_commit" /\ drop' = drop
        /\ \A u \in User : hh'[u] = IF u = c THEN new ELSE hh[u]
        /\ households' = households \cup {new}
        /\ orphans' = orphans \cup ({hh[c]} \ {Null})
    BY <2>10, <2>11, <1>4 DEF InviteCreate, At, Goto, IndInv, TypeOK
  <2>3. c \in User /\ new \in Nat /\ \A h \in households : h # Null
    BY DEF IndInv, TypeOK
  <2>4. \A s \in Others(r) : HoldsUserRow(s) => Caller[s] # c
    BY <2>10, <2>11, <1>4, <2>2 DEF InviteCreate, At, Blocked, WaitsFor, RowWaits, Others
  <2>5. Stays(c, new)'
    <3>1. hh'[c] = new
      BY <2>2, <2>3
    <3>2. ~Leaving(c, new)'
      BY <2>1, <2>2, <2>4 DEF Leaving, HoldsUserRow, Others
    <3> QED
      BY <3>1, <3>2 DEF Stays
  <2>6. \A v \in User \ {c}, h \in households : Stays(v, h) => Stays(v, h)'
    BY <2>1, <2>2 DEF Stays, Leaving, Others
  <2>7. \A h \in households : Stays(c, h) => h \in orphans'
    BY <2>2, <2>3 DEF Stays
  <2>8. ASSUME NEW s \in Req, drop[s] # Null
        PROVE  drop[s] \in orphans' \/ hh'[Caller[s]] = drop[s]
    <3>1. HoldsUserRow(s) /\ s \in Others(r)
      BY <2>2, <2>8 DEF IndInv, LockDiscipline, DropIsEmpty, HoldsUserRow, Others
    <3>2. hh'[Caller[s]] = hh[Caller[s]]
      BY <2>2, <2>4, <3>1
    <3> QED
      BY <2>2, <2>8, <3>2 DEF MemberInv
  <2>9. \A h \in households' :
           h \in orphans' \/ (\E s \in Req : drop'[s] = h) \/ \E v \in User : Stays(v, h)'
    BY <2>2, <2>3, <2>5, <2>6, <2>7 DEF MemberInv
  <2> QED
    BY <2>2, <2>8, <2>9 DEF MemberInv
<1>5. ASSUME NEW r \in Req, MoveUpdate(r) PROVE MemberInv'
  <2>1. CASE ChecksTarget(r) /\ target[r] \notin households
    BY <1>5, <2>1, MemberFinish DEF MoveUpdate
  <2>2. CASE ~(ChecksTarget(r) /\ target[r] \notin households)
    <3>1. /\ pc[r] # "move_commit" /\ drop'[r] = drop[r]
          /\ pc'[r] = "move_commit" => old'[r] \in {Null, target'[r]}
          /\ UNCHANGED <<hh, households, orphans>>
      BY <1>5, <2>2 DEF MoveUpdate, At, Goto, IndInv, TypeOK
    <3> QED
      BY <1>5, <3>1, MemberQuiet DEF Proceed
  <2> QED
    BY <2>1, <2>2
<1>6. ASSUME NEW r \in Req,
             Start(r) \/ MoveBegin(r) \/ InviteClear(r) \/ ScopeMembers(r)
      PROVE  MemberInv'
  <2>1. /\ pc[r] # "move_commit" /\ pc'[r] # "move_commit" /\ drop'[r] = drop[r]
        /\ UNCHANGED <<hh, households, orphans>>
    BY <1>6 DEF Start, StartLeave, StartScope, StartAccept, StartInvite, CanStart, At,
       MoveBegin, InviteClear, ScopeMembers, Goto, IndInv, TypeOK
  <2> QED
    BY <1>6, <2>1, MemberQuiet DEF Proceed
<1>7. ASSUME NEW r \in Req,
             \/ Consume(r) \/ InviteInsert(r) \/ ScopeUse(r)
             \/ DeadlockAbort(r) \/ Crash(r)
      PROVE  MemberInv'
  BY <1>7, MemberFinish DEF Consume, InviteInsert, ScopeUse, DeadlockAbort, Crash
<1>8. CASE (\E i \in invs : Expire(i)) \/ UNCHANGED vars
  BY <1>8 DEF Expire, vars, locVars, MemberInv, Stays, Leaving
<1> QED
  BY <1>1, <1>2, <1>3, <1>4, <1>5, <1>6, <1>7, <1>8 DEF Next, Proceed

\* The inductive invariant of what the comments promise.
PromiseInv == IndInv /\ ScopeInv /\ ActiveInv /\ TokenInv /\ MemberInv

\* PromiseInv holds in every reachable state.
THEOREM PromisesHold == Spec => []PromiseInv
<1>1. Init => PromiseInv
  <2> SUFFICES ASSUME Init PROVE ScopeInv /\ ActiveInv /\ TokenInv /\ MemberInv
    BY InitInv DEF PromiseInv
  <2> USE DEF Init
  <2>1. ScopeInv
    BY DEF ScopeInv
  <2>2. ActiveInv
    BY DEF ActiveInv, OneActiveToken
  <2>3. TokenInv
    BY DEF TokenInv, Inviting
  <2>4. MemberInv
    BY DEF MemberInv
  <2> QED
    BY <2>1, <2>2, <2>3, <2>4
<1>2. PromiseInv /\ [Next]_vars => PromiseInv'
  <2> SUFFICES ASSUME PromiseInv, [Next]_vars PROVE PromiseInv'
    OBVIOUS
  <2>1. IndInv'
    BY TypeStep, LockStep, IntegrityStep DEF PromiseInv, IndInv
  <2>2. ScopeInv' /\ ActiveInv'
    BY ScopeStep, ActiveStep DEF PromiseInv, IndInv
  <2>3. TokenInv' /\ MemberInv'
    BY TokenStep, MemberStep DEF PromiseInv
  <2> QED
    BY <2>1, <2>2, <2>3 DEF PromiseInv
<1> QED
  BY <1>1, <1>2, PTL DEF Spec

\* A household without members is one whose last members counted one another
\* as they left, or were moved into it meanwhile by another tab.
THEOREM EmptyOnlyByOverlapHolds == Spec => []EmptyOnlyByOverlap
<1>1. PromiseInv => EmptyOnlyByOverlap
  BY CallerAssumption
  DEF PromiseInv, MemberInv, Stays, EmptyOnlyByOverlap, IndInv, TypeOK, Null
<1> QED
  BY PromisesHold, <1>1, PTL

\* A household has one active invitation, unless two requests for one overlap.
THEOREM OneActiveTokenHolds == Spec => []OneActiveToken
<1>1. PromiseInv => OneActiveToken
  BY DEF PromiseInv, ActiveInv
<1> QED
  BY PromisesHold, <1>1, PTL

\* A user is among those whose records they are shown, unless another tab of
\* theirs moves them between the two queries.
THEOREM ScopeIncludesSelfHolds == Spec => []ScopeIncludesSelf
<1>1. PromiseInv => ScopeIncludesSelf
  BY DEF PromiseInv, ScopeInv, ScopeIncludesSelf
<1> QED
  BY PromisesHold, <1>1, PTL

\* An invitation somebody has joined by is deleted by the requests that
\* accepted it, unless that deletion fails.
THEOREM JoinedTokenIsConsumedHolds == Spec => []JoinedTokenIsConsumed
<1>1. PromiseInv => JoinedTokenIsConsumed
  BY DEF PromiseInv, TokenInv, JoinedTokenIsConsumed
<1> QED
  BY PromisesHold, <1>1, PTL
=============================================================================
