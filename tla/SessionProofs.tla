--------------------------- MODULE SessionProofs ---------------------------
(***************************************************************************)
(* A session that was reported ended stays ended, and an upload belongs to *)
(* its user, for any users, browsers, tabs and number of handlers.         *)
(***************************************************************************)
EXTENDS Session, TLAPS

LEMMA InitInv == Init => IndInv
<1> SUFFICES ASSUME Init PROVE IndInv
  OBVIOUS
<1> USE DEF Init
<1>1. TypeOK
  <2>1. issued \in [Tokens -> [user : User, exp : 0..(MaxTime + TTL)]]
    BY DEF Tokens
  <2> QED
    BY <2>1, NatAssumption, InAssumption DEF TypeOK, Tokens, Idle
<1>2. EndedIsOut /\ UploadOwner /\ RevokedWasAsked
  BY DEF EndedIsOut, UploadOwner, RevokedWasAsked
<1>3. EndWasAsked /\ AdmittedOwner /\ NewSessionHasUser
  BY DEF EndWasAsked, AdmittedOwner, NewSessionHasUser, At
<1> QED
  BY <1>1, <1>2, <1>3 DEF IndInv

-----------------------------------------------------------------------------
(* Handlers and pages.                                                     *)

\* A handler at its next step is a handler.
LEMMA HandlerMoves ==
  ASSUME NEW h \in Handler,
         NEW pc \in {"register", "login", "admit_change", "admit_upload", "verify",
                     "update", "revoke", "logout", "store"},
         NEW u \in User \cup {None}
  PROVE  /\ [h EXCEPT !.pc = pc] \in Handler
         /\ [h EXCEPT !.pc = pc, !.user = u] \in Handler
         /\ [h EXCEPT !.page = None] \in Handler
BY DEF Handler

LEMMA HandlerOf ==
  ASSUME TypeOK, NEW r \in Req, req[r] # Idle
  PROVE  /\ req[r] \in Handler
         /\ req[r].token \in Nat
         /\ req[r].token <= count
<1>1. req \in [Req -> Handler \cup {Idle}] /\ req[r].token <= count
  BY DEF TypeOK
<1>2. req[r] \in Handler
  BY <1>1
<1>3. req[r].token \in Nat
  <2>1. req[r].token \in 0..MaxToken
    BY <1>2 DEF Handler
  <2> QED
    BY <2>1, NatAssumption
<1> QED
  BY <1>1, <1>2, <1>3

\* The tokens of the pages and the handlers have been issued.
Holders ==
  /\ held \in [Page -> 0..count]
  /\ stored \in [Browser -> 0..count]
  /\ req \in [Req -> Handler \cup {Idle}]
  /\ \A r \in Req : req[r] # Idle => req[r].token <= count

LEMMA HeldWidens ==
  ASSUME NEW S, NEW f, NEW m \in Nat, NEW n \in Nat, m <= n, f \in [S -> 0..m]
  PROVE  f \in [S -> 0..n]
OBVIOUS

LEMMA KeepTypes ==
  ASSUME NEW n \in Nat, held \in [Page -> 0..n], stored \in [Browser -> 0..n],
         NEW p \in Page, NEW t \in 0..n, Keep(p, t)
  PROVE  held' \in [Page -> 0..n] /\ stored' \in [Browser -> 0..n]
<1>1. In[p] \in Browser
  BY InAssumption
<1> QED
  BY <1>1 DEF Keep

LEMMA AnswerKeepsHolders ==
  ASSUME TypeOK, NEW r \in Req, req[r] # Idle, Answer(r), count' = count
  PROVE  Holders'
<1>1. req[r] \in Handler
  BY DEF TypeOK
<1>2. req[r].page # None => req[r].page \in Page
  BY <1>1 DEF Handler
<1>3. count \in Nat /\ held \in [Page -> 0..count] /\ stored \in [Browser -> 0..count]
  BY NatAssumption DEF TypeOK
<1>4. held' \in [Page -> 0..count] /\ stored' \in [Browser -> 0..count]
  <2>1. CASE Keep(req[r].page, 0) /\ req[r].page # None
    BY <1>2, <1>3, <2>1, KeepTypes
  <2>2. CASE UNCHANGED pageVars
    BY <1>3, <2>2 DEF pageVars
  <2> QED
    BY <2>1, <2>2 DEF Answer
<1>5. req' = [req EXCEPT ![r] = Idle] /\ req \in [Req -> Handler \cup {Idle}]
  BY DEF Answer, TypeOK
<1>6. \A s \in Req : req'[s] # Idle => req'[s].token <= count
  BY <1>5, HandlerOf
<1> QED
  BY <1>4, <1>5, <1>6 DEF Holders

\* A handler that goes on keeps its token.
LEMMA GoOnKeepsHolders ==
  ASSUME TypeOK, NEW r \in Req, NEW h \in Handler, h.token <= count,
         req' = [req EXCEPT ![r] = h],
         UNCHANGED <<pageVars, count>>
  PROVE  Holders'
BY DEF TypeOK, Holders, pageVars

LEMMA IssueTypes ==
  ASSUME TypeOK, NEW r \in Req, req[r] # Idle, req[r].user \in User, Issue(r),
         UNCHANGED now
  PROVE  /\ Holders'
         /\ count' = count + 1
         /\ count' \in 0..MaxToken
         /\ issued' \in [Tokens' -> [user : User, exp : 0..(MaxTime + TTL)]]
         /\ \A t \in Tokens : issued'[t] = issued[t]
<1> USE NatAssumption
<1>1. count' = count + 1 /\ count' \in 0..MaxToken /\ count \in Nat
  BY DEF TypeOK, Issue
<1>2. req[r] \in Handler
  BY DEF TypeOK
<1>3. req[r].page # None => req[r].page \in Page
  BY <1>2 DEF Handler
<1>4. held' \in [Page -> 0..count'] /\ stored' \in [Browser -> 0..count']
  <2>1. held \in [Page -> 0..count'] /\ stored \in [Browser -> 0..count']
    <3>1. held \in [Page -> 0..count] /\ stored \in [Browser -> 0..count] /\ count <= count'
      BY <1>1 DEF TypeOK
    <3> QED
      BY <1>1, <3>1, HeldWidens
  <2>2. CASE UNCHANGED pageVars
    BY <2>1, <2>2 DEF pageVars
  <2>3. CASE Keep(req[r].page, count') /\ req[r].page # None
    <3>1. count' \in 0..count' /\ count' \in Nat
      BY <1>1
    <3> QED
      BY <1>3, <2>1, <2>3, <3>1, KeepTypes
  <2> QED
    BY <2>2, <2>3 DEF Issue
<1>5. /\ req' \in [Req -> Handler \cup {Idle}]
      /\ \A s \in Req : req'[s] # Idle => req'[s].token <= count'
  <2>1. req' = [req EXCEPT ![r] = Idle]
    BY DEF Issue
  <2>2. \A s \in Req : req'[s] # Idle => req'[s] = req[s] /\ req[s] # Idle
    BY <2>1 DEF TypeOK
  <2>3. \A s \in Req : req[s] # Idle => req[s].token \in Nat /\ req[s].token <= count
    BY HandlerOf
  <2>4. req \in [Req -> Handler \cup {Idle}]
    BY DEF TypeOK
  <2> QED
    BY <1>1, <2>1, <2>2, <2>3, <2>4
<1>6. \A t \in Tokens' :
        issued'[t] = IF t = count' THEN [user |-> req[r].user, exp |-> now + TTL]
                                   ELSE issued[t]
  BY DEF Issue, Tokens
<1>7. \A t \in Tokens' : t = count' \/ t \in Tokens
  BY <1>1 DEF Tokens
<1>8. now + TTL \in 0..(MaxTime + TTL)
  BY DEF TypeOK
<1>9. DOMAIN issued' = Tokens' /\ issued' = [t \in Tokens' |-> issued'[t]]
  BY DEF Issue, Tokens
<1>10. \A t \in Tokens' : issued'[t] \in [user : User, exp : 0..(MaxTime + TTL)]
  <2>1. \A t \in Tokens : issued[t] \in [user : User, exp : 0..(MaxTime + TTL)]
    BY DEF TypeOK
  <2> QED
    BY <1>6, <1>7, <1>8, <2>1
<1>11. \A t \in Tokens : issued'[t] = issued[t]
  BY <1>1, <1>6 DEF Tokens
<1> QED
  BY <1>1, <1>4, <1>5, <1>9, <1>10, <1>11 DEF Holders

-----------------------------------------------------------------------------
(* Types.                                                                  *)

\* TypeOK without Holders.
ServerTypes ==
  /\ now \in 0..MaxTime
  /\ password \in [User -> Password \cup {None}]
  /\ count \in 0..MaxToken
  /\ issued \in [Tokens -> [user : User, exp : 0..(MaxTime + TTL)]]
  /\ revoked \subseteq Tokens
  /\ upload \in [owner : User \cup {None}, token : 0..count] \cup {None}
  /\ faults \in 0..MaxFaults
  /\ asked \subseteq Tokens
  /\ ended \subseteq asked

LEMMA TypeParts == TypeOK <=> ServerTypes /\ Holders
BY DEF TypeOK, ServerTypes, Holders

LEMMA SameServerTypes ==
  ASSUME ServerTypes, UNCHANGED <<now, serverVars, faults, asked, ended>>
  PROVE  ServerTypes'
BY DEF ServerTypes, serverVars, Tokens

\* What the users send.
LEMMA SendTypes ==
  ASSUME TypeOK, NEW r \in Req, NEW p \in Page,
         NEW pc \in {"register", "login", "admit_change", "admit_upload", "logout"},
         NEW t \in 0..count, NEW u \in User \cup {None},
         NEW pw \in Password \cup {None}, NEW new \in Password \cup {None},
         Send(r, p, pc, t, u, pw, new),
         \/ asked' = asked
         \/ t # 0 /\ asked' = asked \cup {t}
  PROVE  TypeOK'
<1>1. count \in Nat /\ t \in 0..MaxToken /\ t \in Nat /\ t <= count
  <2>1. count \in 0..MaxToken
    BY DEF TypeOK
  <2>2. count \in Nat /\ count <= MaxToken
    BY <2>1, NatAssumption
  <2>3. t \in 0..count
    OBVIOUS
  <2> QED
    BY <2>2, <2>3, NatAssumption
<1> DEFINE h == [pc |-> pc, page |-> p, token |-> t, user |-> u, pw |-> pw, new |-> new]
<1>3. h \in Handler
  BY <1>1 DEF Handler
<1>4. req' = [req EXCEPT ![r] = h] /\ UNCHANGED <<pageVars, count>>
  BY DEF Send, serverVars
<1>5. h.token <= count
  BY <1>1
<1> HIDE DEF h
<1>6. Holders'
  BY <1>3, <1>4, <1>5, GoOnKeepsHolders
<1>7. ServerTypes'
  <2>1. ServerTypes
    BY TypeParts
  <2>2. asked' \subseteq Tokens /\ asked \subseteq asked'
    <3>1. t # 0 => t \in Tokens
      BY <1>1 DEF Tokens
    <3> QED
      BY <2>1, <3>1 DEF ServerTypes
  <2>3. UNCHANGED <<now, serverVars, faults, ended>>
    BY DEF Send
  <2> QED
    BY <2>1, <2>2, <2>3 DEF ServerTypes, serverVars, Tokens
<1> QED
  BY <1>6, <1>7 DEF TypeOK, ServerTypes, Holders

LEMMA AskTypes == TypeOK /\ AskServer => TypeOK'
<1> SUFFICES ASSUME TypeOK, AskServer PROVE TypeOK'
  OBVIOUS
<1>1. PICK r \in Req, p \in Page :
        \/ SendLogout(r, p)
        \/ SendUpload(r, p)
        \/ \E u \in User, new \in Password : SendRegister(r, p, u, new)
        \/ \E pw \in Password \cup {None} :
             \/ \E u \in User : SendLogin(r, p, u, pw)
             \/ \E new \in Password : SendChange(r, p, pw, new)
  BY DEF AskServer
<1>2. held[p] \in 0..count /\ stored[In[p]] \in 0..count /\ 0 \in 0..count
  BY InAssumption, NatAssumption DEF TypeOK
<1>3. CASE SendLogout(r, p)
  BY <1>2, <1>3, SendTypes DEF SendLogout
<1>4. CASE SendUpload(r, p)
  BY <1>2, <1>4, SendTypes DEF SendUpload
<1>5. ASSUME NEW u \in User, NEW new \in Password, SendRegister(r, p, u, new)
      PROVE  TypeOK'
  BY <1>2, <1>5, SendTypes DEF SendRegister
<1>6. ASSUME NEW pw \in Password \cup {None}, NEW u \in User, SendLogin(r, p, u, pw)
      PROVE  TypeOK'
  BY <1>2, <1>6, SendTypes DEF SendLogin
<1>7. ASSUME NEW pw \in Password \cup {None}, NEW new \in Password,
             SendChange(r, p, pw, new)
      PROVE  TypeOK'
  BY <1>2, <1>7, SendTypes DEF SendChange
<1> QED
  BY <1>1, <1>3, <1>4, <1>5, <1>6, <1>7

\* Handlers that answer, or go to their next step.
LEMMA AnswerTypes ==
  ASSUME TypeOK, NEW r \in Req, req[r] # Idle, Answer(r), ServerTypes', count' = count
  PROVE  TypeOK'
BY AnswerKeepsHolders DEF TypeOK, ServerTypes, Holders

LEMMA GoOnTypes ==
  ASSUME TypeOK, NEW r \in Req, NEW h \in Handler, h.token <= count,
         req' = [req EXCEPT ![r] = h], UNCHANGED pageVars, ServerTypes', count' = count
  PROVE  TypeOK'
<1>1. Holders'
  BY GoOnKeepsHolders
<1> QED
  BY <1>1 DEF TypeOK, ServerTypes, Holders

LEMMA GotoTypes ==
  ASSUME TypeOK, NEW r \in Req, req[r] # Idle,
         NEW pc \in {"update", "revoke"},
         Goto(r, pc), ServerTypes', count' = count
  PROVE  TypeOK'
<1>1. req[r] \in Handler /\ req[r].token <= count
  BY HandlerOf
<1> DEFINE h == [req[r] EXCEPT !.pc = pc]
<1>2. h \in Handler /\ h.token = req[r].token
  BY <1>1 DEF Handler
<1>3. req' = [req EXCEPT ![r] = h] /\ UNCHANGED pageVars
  BY DEF Goto
<1> HIDE DEF h
<1> QED
  BY <1>1, <1>2, <1>3, GoOnTypes

\* OptionalAuth puts a user in the context, or none.
LEMMA AdmitTypes ==
  ASSUME TypeOK, NEW r \in Req, req[r] # Idle, NEW u \in User \cup {None},
         NEW pc \in {"verify", "store"},
         req' = [req EXCEPT ![r].pc = pc, ![r].user = u],
         UNCHANGED pageVars, ServerTypes', count' = count
  PROVE  TypeOK'
<1>1. req[r] \in Handler /\ req[r].token <= count
  BY HandlerOf
<1> DEFINE h == [req[r] EXCEPT !.pc = pc, !.user = u]
<1>2. h \in Handler /\ h.token = req[r].token
  BY <1>1 DEF Handler
<1>3. req' = [req EXCEPT ![r] = h]
  BY DEF TypeOK
<1> HIDE DEF h
<1> QED
  BY <1>1, <1>2, <1>3, GoOnTypes

LEMMA FaultTypes ==
  ASSUME ServerTypes, faults < MaxFaults, faults' = faults + 1
  PROVE  faults' \in 0..MaxFaults
BY NatAssumption DEF ServerTypes

LEMMA NewSessionTypes ==
  ASSUME TypeOK, NEW r \in Req, req[r] # Idle, req[r].user \in User, Issue(r),
         password' \in [User -> Password \cup {None}],
         UNCHANGED <<now, revoked, upload, faults, asked, ended>>
  PROVE  TypeOK'
<1>1. /\ Holders'
      /\ count' = count + 1 /\ count' \in 0..MaxToken
      /\ issued' \in [Tokens' -> [user : User, exp : 0..(MaxTime + TTL)]]
  BY IssueTypes
<1>2. ServerTypes /\ count \in Nat
  BY TypeParts, NatAssumption DEF ServerTypes
<1>3. Tokens \subseteq Tokens' /\ 0..count \subseteq 0..count'
  BY <1>1, <1>2 DEF Tokens
<1>4. upload' \in [owner : User \cup {None}, token : 0..count'] \cup {None}
  <2>1. upload \in [owner : User \cup {None}, token : 0..count] \cup {None}
    BY <1>2 DEF ServerTypes
  <2> QED
    BY <1>3, <2>1
<1>5. ServerTypes'
  BY <1>1, <1>2, <1>3, <1>4 DEF ServerTypes
<1> QED
  BY <1>1, <1>5 DEF TypeOK, ServerTypes, Holders
\* A token that is ended was asked for, and is one that was issued.
LEMMA EndTypes ==
  ASSUME TypeOK, EndWasAsked, NEW r \in Req, req[r] # Idle,
         req[r].pc \in {"revoke", "logout"}, End(r),
         UNCHANGED <<now, password, issued, count, upload, faults, asked>>
  PROVE  TypeOK'
<1>1. req[r].token \in asked
  BY DEF EndWasAsked
<1>2. Answer(r) /\ ended' = ended \cup {req[r].token}
  BY DEF End
<1>3. revoked' \subseteq Tokens
  BY DEF End, RevokeToken, Valid, TypeOK
<1>4. ServerTypes'
  BY <1>1, <1>2, <1>3, TypeParts DEF ServerTypes, Tokens
<1> QED
  BY <1>2, <1>4, AnswerTypes

LEMMA ServeTypes ==
  ASSUME TypeOK, EndWasAsked, NewSessionHasUser, NEW r \in Req, req[r] # Idle,
         \/ Register(r) \/ Login(r)
         \/ AdmitChange(r) \/ Verify(r) \/ Update(r) \/ RevokeChanger(r)
         \/ Logout(r)
         \/ AdmitUpload(r) \/ StoreUpload(r)
         \/ Fails(r)
         \/ GiveUp(r)
  PROVE  TypeOK'
<1>1. ServerTypes
  BY TypeParts
<1>2. req[r] \in Handler /\ req[r].token <= count /\ req[r].token \in Nat
  BY HandlerOf
<1>3. req[r].page # None => req[r].page \in Page
  BY <1>2 DEF Handler
<1>4. CASE Register(r)
  <2>1. req[r].user \in User
    BY <1>4 DEF Register, NewSessionHasUser
  <2>2. CASE Answer(r) /\ UNCHANGED <<password, issued, count>>
    <3>1. ServerTypes'
      BY <1>1, <1>4, <2>2, SameServerTypes DEF Register, serverVars
    <3> QED
      BY <2>2, <3>1, AnswerTypes
  <2>3. CASE password' = [password EXCEPT ![req[r].user] = req[r].new] /\ Issue(r)
    <3>1. req[r].new \in Password \cup {None}
      BY <1>2 DEF Handler
    <3>2. password' \in [User -> Password \cup {None}]
      BY <1>1, <2>1, <2>3, <3>1 DEF ServerTypes
    <3> QED
      BY <1>4, <2>1, <2>3, <3>2, NewSessionTypes DEF Register
  <2> QED
    BY <1>4, <2>2, <2>3 DEF Register
<1>5. CASE Login(r)
  <2>1. req[r].user \in User
    BY <1>5 DEF Login, NewSessionHasUser
  <2>2. CASE Answer(r) /\ UNCHANGED <<issued, count>>
    <3>1. ServerTypes'
      BY <1>1, <1>5, <2>2, SameServerTypes DEF Login, serverVars
    <3> QED
      BY <2>2, <3>1, AnswerTypes
  <2>3. CASE Issue(r)
    BY <1>1, <1>5, <2>1, <2>3, NewSessionTypes DEF Login, ServerTypes
  <2> QED
    BY <1>5, <2>2, <2>3 DEF Login
<1>6. ASSUME NEW u \in User \cup {None}, AdmitAs(r, u),
             UNCHANGED <<now, serverVars, asked, ended>>
      PROVE  ServerTypes' /\ count' = count
  <2>1. faults' \in 0..MaxFaults
    BY <1>1, <1>6, FaultTypes DEF AdmitAs, ServerTypes
  <2> QED
    BY <1>1, <1>6, <2>1 DEF ServerTypes, serverVars, Tokens
<1>7. CASE AdmitChange(r)
  <2>1. PICK u \in User \cup {None} :
          /\ AdmitAs(r, u)
          /\ IF u = None THEN Answer(r)
             ELSE req' = [req EXCEPT ![r].pc = "verify", ![r].user = u] /\ UNCHANGED pageVars
    BY <1>7 DEF AdmitChange
  <2>2. ServerTypes' /\ count' = count
    BY <1>6, <1>7, <2>1 DEF AdmitChange
  <2> QED
    BY <2>1, <2>2, AnswerTypes, AdmitTypes
<1>8. CASE AdmitUpload(r)
  <2>1. PICK u \in User \cup {None} :
          /\ AdmitAs(r, u)
          /\ req' = [req EXCEPT ![r].pc = "store", ![r].user = u]
    BY <1>8 DEF AdmitUpload
  <2>2. ServerTypes' /\ count' = count /\ UNCHANGED pageVars
    BY <1>6, <1>8, <2>1 DEF AdmitUpload
  <2> QED
    BY <2>1, <2>2, AdmitTypes
<1>9. CASE StoreUpload(r)
  <2>1. upload' \in [owner : User \cup {None}, token : 0..count]
    <3>1. req[r].token \in 0..count /\ req[r].user \in User \cup {None}
      <4>1. count \in Nat
        BY <1>1, NatAssumption DEF ServerTypes
      <4> QED
        BY <1>2, <4>1 DEF Handler
    <3> QED
      BY <1>9, <3>1 DEF StoreUpload
  <2>2. ServerTypes' /\ count' = count
    BY <1>1, <1>9, <2>1 DEF StoreUpload, ServerTypes, Tokens
  <2> QED
    BY <1>9, <2>2, AnswerTypes DEF StoreUpload
<1>10. CASE Verify(r)
  <2>1. ServerTypes' /\ count' = count
    BY <1>1, <1>10, SameServerTypes DEF Verify, serverVars
  <2> QED
    BY <1>10, <2>1, GotoTypes, AnswerTypes DEF Verify
<1>11. CASE Update(r)
  <2>1. req[r].new \in Password \cup {None}
    BY <1>2 DEF Handler
  <2>2. ServerTypes' /\ count' = count
    BY <1>1, <1>11, <2>1 DEF Update, ServerTypes, Tokens
  <2> QED
    BY <1>11, <2>2, GotoTypes DEF Update
<1>12. CASE RevokeChanger(r)
  <2>1. CASE End(r) /\ UNCHANGED faults
    BY <1>12, <2>1, EndTypes DEF RevokeChanger, At
  <2>2. CASE faults < MaxFaults /\ faults' = faults + 1 /\ Answer(r) /\ UNCHANGED <<revoked, ended>>
    <3>1. faults' \in 0..MaxFaults
      BY <1>1, <2>2, FaultTypes
    <3>2. ServerTypes' /\ count' = count
      BY <1>1, <1>12, <2>2, <3>1 DEF RevokeChanger, ServerTypes, Tokens
    <3> QED
      BY <2>2, <3>2, AnswerTypes
  <2> QED
    BY <1>12, <2>1, <2>2 DEF RevokeChanger
<1>13. CASE Logout(r)
  BY <1>13, EndTypes DEF Logout, At
<1>14. CASE Fails(r)
  <2>1. faults' \in 0..MaxFaults
    BY <1>1, <1>14, FaultTypes DEF Fails
  <2>2. ServerTypes' /\ count' = count
    BY <1>1, <1>14, <2>1 DEF Fails, ServerTypes, serverVars, Tokens
  <2> QED
    BY <1>14, <2>2, AnswerTypes DEF Fails
<1>15. CASE GiveUp(r)
  <2>1. ServerTypes' /\ count' = count
    BY <1>1, <1>15, SameServerTypes DEF GiveUp, serverVars
  <2> DEFINE h == [req[r] EXCEPT !.page = None]
  <2>2. h \in Handler /\ h.token = req[r].token
    BY <1>2 DEF Handler
  <2>3. req' = [req EXCEPT ![r] = h]
    BY <1>15 DEF GiveUp, TypeOK
  <2> HIDE DEF h
  <2>4. count \in Nat /\ held \in [Page -> 0..count] /\ stored \in [Browser -> 0..count]
    BY NatAssumption DEF TypeOK
  <2>5. held' \in [Page -> 0..count] /\ stored' \in [Browser -> 0..count]
    <3>1. CASE Keep(req[r].page, 0)
      BY <1>3, <1>15, <2>4, <3>1, KeepTypes DEF GiveUp
    <3>2. CASE UNCHANGED pageVars
      BY <2>4, <3>2 DEF pageVars
    <3> QED
      BY <1>15, <3>1, <3>2 DEF GiveUp
  <2>6. Holders'
    BY <1>2, <2>1, <2>2, <2>3, <2>5 DEF TypeOK, Holders
  <2> QED
    BY <2>1, <2>6 DEF TypeOK, ServerTypes, Holders
<1> QED
  BY <1>4, <1>5, <1>7, <1>8, <1>9, <1>10, <1>11, <1>12, <1>13, <1>14, <1>15
ServeStep(r) ==
  \/ Register(r) \/ Login(r)
  \/ AdmitChange(r) \/ Verify(r) \/ Update(r) \/ RevokeChanger(r)
  \/ Logout(r)
  \/ AdmitUpload(r) \/ StoreUpload(r)
  \/ Fails(r)
  \/ GiveUp(r)

LEMMA ServeIsBusy ==
  ASSUME NEW r \in Req, ServeStep(r)
  PROVE  req[r] # Idle
BY DEF ServeStep, Register, Login, AdmitChange, Verify, Update, RevokeChanger, Logout,
       AdmitUpload, StoreUpload, Fails, GiveUp, At

\* Page p is loaded anew: its handlers work on without it.
LEMMA ReloadStep ==
  ASSUME TypeOK, NEW p \in Page, Reload(p), NEW r \in Req
  PROVE  \/ req'[r] = req[r]
         \/ /\ req[r] # Idle
            /\ req'[r] = [req[r] EXCEPT !.page = None]
BY DEF Reload, TypeOK

LEMMA ReloadTypes ==
  ASSUME TypeOK, NEW p \in Page, Reload(p)
  PROVE  TypeOK'
<1>1. ServerTypes' /\ count' = count
  BY TypeParts, SameServerTypes DEF Reload, serverVars
<1>2. held' \in [Page -> 0..count] /\ stored' \in [Browser -> 0..count]
  BY InAssumption DEF Reload, TypeOK
<1>3. ASSUME NEW r \in Req
      PROVE  /\ req'[r] \in Handler \cup {Idle}
             /\ req'[r] # Idle => req'[r].token <= count
  <2>1. CASE req'[r] = req[r]
    BY <2>1, HandlerOf
  <2>2. CASE req[r] # Idle /\ req'[r] = [req[r] EXCEPT !.page = None]
    <3>1. req[r] \in Handler /\ req[r].token <= count
      BY <2>2, HandlerOf
    <3>2. req'[r] \in Handler /\ req'[r].token = req[r].token
      BY <2>2, <3>1 DEF Handler
    <3> QED
      BY <3>1, <3>2
  <2> QED
    BY <2>1, <2>2, ReloadStep
<1>4. req' \in [Req -> Handler \cup {Idle}]
  <2>1. req' = [r \in Req |-> req'[r]]
    BY DEF Reload
  <2> QED
    BY <1>3, <2>1
<1> QED
  BY <1>1, <1>2, <1>3, <1>4 DEF TypeOK, ServerTypes, Holders

LEMMA TypeStep == IndInv /\ [Next]_vars => TypeOK'
<1> SUFFICES ASSUME IndInv, [Next]_vars PROVE TypeOK'
  OBVIOUS
<1>1. TypeOK /\ ServerTypes
  BY TypeParts DEF IndInv
<1>2. CASE AskServer
  BY <1>1, <1>2, AskTypes
<1>3. ASSUME NEW r \in Req, ServeStep(r) PROVE TypeOK'
  BY <1>1, <1>3, ServeIsBusy, ServeTypes DEF ServeStep, IndInv
<1>4. CASE Cleanup
  BY <1>1, <1>4 DEF Cleanup, TypeOK, Tokens, pageVars
<1>5. CASE Tick
  <2>1. now' \in 0..MaxTime
    BY <1>1, <1>5, NatAssumption DEF Tick, ServerTypes
  <2> QED
    BY <1>1, <1>5, <2>1 DEF Tick, TypeOK, Tokens, serverVars, pageVars
<1>6. ASSUME NEW p \in Page, Reload(p) PROVE TypeOK'
  BY <1>1, <1>6, ReloadTypes
<1>7. CASE UNCHANGED vars
  BY <1>1, <1>7 DEF vars, TypeOK, Tokens, serverVars, pageVars
<1> QED
  BY <1>2, <1>3, <1>4, <1>5, <1>6, <1>7 DEF Next, Serve, ServeStep

-----------------------------------------------------------------------------
(* What any step may do.                                                   *)

\* Time goes on; no token, request to end or fault is forgotten.
Grows ==
  /\ now <= now'
  /\ Tokens \subseteq Tokens'
  /\ \A t \in Tokens : issued'[t] = issued[t]
  /\ asked \subseteq asked'
  /\ faults <= faults'

LEMMA StepGrows == IndInv /\ [Next]_vars => Grows
<1> SUFFICES ASSUME IndInv, [Next]_vars PROVE Grows
  OBVIOUS
<1>1. TypeOK /\ ServerTypes
  BY TypeParts DEF IndInv
<1>2. now \in Nat /\ faults \in Nat /\ count \in Nat
  BY <1>1, NatAssumption DEF ServerTypes
<1> USE DEF Grows
<1>3. CASE AskServer
  BY <1>2, <1>3 DEF AskServer, SendRegister, SendLogin, SendChange, SendLogout,
     SendUpload, Send, serverVars, Tokens
<1>4. ASSUME NEW r \in Req, Register(r) \/ Login(r) PROVE Grows
  <2>1. req[r] # Idle /\ req[r].user \in User
    BY <1>4 DEF IndInv, NewSessionHasUser, Register, Login, At
  <2>2. CASE Issue(r)
    <3>1. count' = count + 1 /\ \A t \in Tokens : issued'[t] = issued[t]
      BY <1>1, <1>4, <2>1, <2>2, IssueTypes DEF Register, Login
    <3> QED
      BY <1>2, <1>4, <3>1 DEF Register, Login, Tokens
  <2>3. CASE UNCHANGED <<issued, count>>
    BY <1>2, <1>4, <2>3 DEF Register, Login, Tokens
  <2> QED
    BY <1>4, <2>2, <2>3 DEF Register, Login
<1>5. ASSUME NEW r \in Req, AdmitChange(r) \/ AdmitUpload(r) PROVE Grows
  BY <1>2, <1>5 DEF AdmitChange, AdmitUpload, AdmitAs, serverVars, Tokens
<1>6. ASSUME NEW r \in Req,
             \/ Verify(r) \/ Update(r) \/ RevokeChanger(r) \/ Logout(r)
             \/ StoreUpload(r) \/ Fails(r) \/ GiveUp(r)
      PROVE  Grows
  BY <1>2, <1>6 DEF Verify, Update, RevokeChanger, Logout, StoreUpload, Fails, GiveUp,
     serverVars, Tokens
<1>7. CASE Cleanup \/ Tick \/ (\E p \in Page : Reload(p)) \/ UNCHANGED vars
  BY <1>2, <1>7 DEF Cleanup, Tick, Reload, vars, serverVars, Tokens
<1> QED
  BY <1>3, <1>4, <1>5, <1>6, <1>7 DEF Next, Serve

\* Whose an upload is does not change.
LEMMA OwnsStays ==
  ASSUME Grows, TypeOK, TypeOK', NEW u, NEW t, t \in 0..count, Owns(u, t)
  PROVE  Owns(u, t)'
<1>1. /\ now \in Nat /\ now' \in Nat
      /\ faults \in Nat /\ faults' \in Nat
      /\ count \in Nat /\ count' \in Nat
  BY NatAssumption DEF TypeOK
<1>2. t # 0 => t \in Tokens
  BY <1>1 DEF Tokens
<1>3. CASE t # 0 /\ u = issued[t].user
  BY <1>2, <1>3 DEF Grows, Owns
<1>4. CASE u = None /\ faults > 0
  BY <1>1, <1>4 DEF Grows, Owns
<1>5. CASE u = None /\ MayBeAnonymous(t)
  <2>1. CASE t = 0 \/ t \in asked
    BY <1>5, <2>1 DEF Grows, Owns, MayBeAnonymous
  <2>2. CASE t \in Tokens /\ ~Valid(t)
    <3>1. issued[t].exp \in Nat
      <4>1. issued[t] \in [user : User, exp : 0..(MaxTime + TTL)]
        BY <2>2 DEF TypeOK
      <4> QED
        BY <4>1, NatAssumption
    <3>2. ~(now' < issued'[t].exp)
      BY <1>1, <2>2, <3>1 DEF Grows, Valid
    <3> QED
      BY <1>5, <3>2 DEF Owns, MayBeAnonymous, Valid
  <2> QED
    BY <1>2, <1>5, <2>1, <2>2 DEF MayBeAnonymous
<1> QED
  BY <1>3, <1>4, <1>5 DEF Owns

\* Where a handler may come from.
LEMMA HandlerStep ==
  ASSUME IndInv, [Next]_vars, NEW r \in Req, req'[r] # Idle
  PROVE  \/ /\ req[r] # Idle
            /\ req'[r].pc = req[r].pc
            /\ req'[r].token = req[r].token
            /\ req'[r].user = req[r].user
         \/ req'[r].pc \in {"register", "login"} /\ req'[r].user \in User
         \/ req'[r].pc \in {"admit_change", "logout"} /\ req'[r].token \in asked'
         \/ req'[r].pc = "admit_upload"
         \/ /\ req[r] # Idle
            /\ req'[r].pc = "store"
            /\ req'[r].token = req[r].token
            /\ AdmitAs(r, req'[r].user)
         \/ /\ req[r] # Idle
            /\ req[r].pc \in {"admit_change", "verify", "update"}
            /\ req'[r].pc \in {"verify", "update", "revoke"}
            /\ req'[r].token = req[r].token
<1> DEFINE G == \/ /\ req[r] # Idle
                   /\ req'[r].pc = req[r].pc
                   /\ req'[r].token = req[r].token
                   /\ req'[r].user = req[r].user
                \/ req'[r].pc \in {"register", "login"} /\ req'[r].user \in User
                \/ req'[r].pc \in {"admit_change", "logout"} /\ req'[r].token \in asked'
                \/ req'[r].pc = "admit_upload"
                \/ /\ req[r] # Idle
                   /\ req'[r].pc = "store"
                   /\ req'[r].token = req[r].token
                   /\ AdmitAs(r, req'[r].user)
                \/ /\ req[r] # Idle
                   /\ req[r].pc \in {"admit_change", "verify", "update"}
                   /\ req'[r].pc \in {"verify", "update", "revoke"}
                   /\ req'[r].token = req[r].token
<1>1. TypeOK /\ req \in [Req -> Handler \cup {Idle}]
  BY DEF IndInv, TypeOK
<1>2. req[r] # Idle => req[r] \in Handler
  BY <1>1
<1>3. CASE req'[r] = req[r]
  BY <1>3
<1>4. ASSUME NEW s \in Req, NEW h, req' = [req EXCEPT ![s] = h], r # s PROVE G
  <2>1. req'[r] = req[r]
    BY <1>1, <1>4
  <2> QED
    BY <1>3, <2>1
<1>5. ASSUME NEW s \in Req, Answer(s) \/ Issue(s) PROVE G
  <2>1. req' = [req EXCEPT ![s] = Idle]
    BY <1>5 DEF Answer, Issue
  <2>2. r # s
    BY <1>1, <2>1
  <2> QED
    BY <1>4, <2>1, <2>2
<1>6. CASE AskServer
  <2>1. PICK s \in Req, p \in Page :
          \/ SendLogout(s, p)
          \/ SendUpload(s, p)
          \/ \E u \in User, new \in Password : SendRegister(s, p, u, new)
          \/ \E pw \in Password \cup {None} :
               \/ \E u \in User : SendLogin(s, p, u, pw)
               \/ \E new \in Password : SendChange(s, p, pw, new)
    BY <1>6 DEF AskServer
  <2>2. CASE SendLogout(s, p)
    BY <1>1, <1>4, <2>2 DEF SendLogout, Send
  <2>3. CASE SendUpload(s, p)
    BY <1>1, <1>4, <2>3 DEF SendUpload, Send
  <2>4. ASSUME NEW u \in User, NEW new \in Password, SendRegister(s, p, u, new)
        PROVE  G
    BY <1>1, <1>4, <2>4 DEF SendRegister, Send
  <2>5. ASSUME NEW pw \in Password \cup {None}, NEW u \in User, SendLogin(s, p, u, pw)
        PROVE  G
    BY <1>1, <1>4, <2>5 DEF SendLogin, Send
  <2>6. ASSUME NEW pw \in Password \cup {None}, NEW new \in Password,
               SendChange(s, p, pw, new)
        PROVE  G
    BY <1>1, <1>4, <2>6 DEF SendChange, Send
  <2> QED
    BY <2>1, <2>2, <2>3, <2>4, <2>5, <2>6
<1>7. ASSUME NEW s \in Req, ServeStep(s) PROVE G
  <2>1. req[s] # Idle
    BY <1>7, ServeIsBusy
  <2>2. CASE Answer(s) \/ Issue(s)
    BY <1>5, <2>2
  <2>3. ASSUME NEW pc, Goto(s, pc), pc \in {"update", "revoke"},
               req[s].pc \in {"verify", "update"}
        PROVE  G
    BY <1>1, <1>2, <1>4, <2>1, <2>3 DEF Goto, Handler
  <2>4. CASE AdmitChange(s)
    <3>1. PICK u \in User \cup {None} :
            \/ Answer(s)
            \/ req' = [req EXCEPT ![s].pc = "verify", ![s].user = u]
      BY <2>4 DEF AdmitChange
    <3> QED
      BY <1>1, <1>2, <1>4, <2>1, <2>2, <2>4, <3>1 DEF AdmitChange, At, Handler
  <2>5. CASE AdmitUpload(s)
    <3>1. PICK u \in User \cup {None} :
            AdmitAs(s, u) /\ req' = [req EXCEPT ![s].pc = "store", ![s].user = u]
      BY <2>5 DEF AdmitUpload
    <3> QED
      BY <1>1, <1>2, <1>4, <2>1, <3>1 DEF Handler
  <2>6. CASE GiveUp(s)
    BY <1>1, <1>2, <1>4, <2>1, <2>6 DEF GiveUp, Handler
  <2> QED
    BY <1>7, <2>2, <2>3, <2>4, <2>5, <2>6
    DEF ServeStep, Register, Login, Verify, Update, RevokeChanger, Logout, End,
        StoreUpload, Fails, At
<1>8. ASSUME NEW p \in Page, Reload(p) PROVE G
  <2>1. CASE req[r] # Idle /\ req'[r] = [req[r] EXCEPT !.page = None]
    BY <1>2, <2>1 DEF Handler
  <2> QED
    BY <1>1, <1>3, <1>8, <2>1, ReloadStep
<1>9. CASE Cleanup \/ Tick \/ UNCHANGED vars
  BY <1>3, <1>9 DEF Cleanup, Tick, vars
<1> QED
  BY <1>6, <1>7, <1>8, <1>9 DEF Next, Serve, ServeStep
-----------------------------------------------------------------------------
(* The invariant.                                                          *)

LEMMA AskedStep == IndInv /\ [Next]_vars => EndWasAsked' /\ NewSessionHasUser'
<1> SUFFICES ASSUME IndInv, [Next]_vars PROVE EndWasAsked' /\ NewSessionHasUser'
  OBVIOUS
<1>1. asked \subseteq asked'
  BY StepGrows DEF Grows
<1>2. EndWasAsked /\ NewSessionHasUser
  BY DEF IndInv
<1>3. ASSUME NEW r \in Req, req'[r] # Idle,
             req'[r].pc \in {"admit_change", "verify", "update", "revoke", "logout"}
      PROVE  req'[r].token \in asked'
  BY <1>1, <1>2, <1>3, HandlerStep DEF EndWasAsked
<1>4. ASSUME NEW r \in Req, req'[r] # Idle, req'[r].pc \in {"register", "login"}
      PROVE  req'[r].user \in User
  BY <1>2, <1>4, HandlerStep DEF NewSessionHasUser, At
<1> QED
  BY <1>3, <1>4 DEF EndWasAsked, NewSessionHasUser, At

\* Only the handlers of a logout and of a password change revoke.
LEMMA RevokedStep == IndInv /\ [Next]_vars => RevokedWasAsked'
<1> SUFFICES ASSUME IndInv, [Next]_vars PROVE RevokedWasAsked'
  OBVIOUS
<1>1. asked \subseteq asked' /\ revoked \subseteq asked
  BY StepGrows DEF Grows, IndInv, RevokedWasAsked
<1> USE DEF RevokedWasAsked
<1>2. CASE revoked' \subseteq revoked
  BY <1>1, <1>2
<1>3. ASSUME NEW r \in Req, RevokeChanger(r) \/ Logout(r) PROVE RevokedWasAsked'
  <2>1. req[r].token \in asked
    BY <1>3 DEF RevokeChanger, Logout, At, IndInv, EndWasAsked
  <2>2. revoked' \subseteq revoked \cup {req[r].token}
    BY <1>3 DEF RevokeChanger, Logout, End, RevokeToken
  <2> QED
    BY <1>1, <2>1, <2>2
<1>4. CASE AskServer
  BY <1>2, <1>4 DEF AskServer, SendRegister, SendLogin, SendChange, SendLogout,
     SendUpload, Send, serverVars
<1>5. ASSUME NEW r \in Req, ServeStep(r) PROVE RevokedWasAsked'
  BY <1>2, <1>3, <1>5 DEF ServeStep, Register, Login, AdmitChange, AdmitUpload, Verify,
     Update, StoreUpload, Fails, GiveUp, serverVars
<1>6. CASE Cleanup \/ Tick \/ (\E p \in Page : Reload(p)) \/ UNCHANGED vars
  BY <1>2, <1>6 DEF Cleanup, Tick, Reload, vars, serverVars
<1> QED
  BY <1>4, <1>5, <1>6 DEF Next, Serve, ServeStep

\* A token that is over stays over: it has expired, or its row is kept until
\* it has.
LEMMA EndedStep == IndInv /\ [Next]_vars => EndedIsOut'
<1> SUFFICES ASSUME IndInv, [Next]_vars PROVE EndedIsOut'
  OBVIOUS
<1>1. TypeOK /\ TypeOK' /\ Grows /\ EndedIsOut
  BY TypeStep, StepGrows DEF IndInv
<1>2. now \in Nat /\ now' \in Nat /\ now <= now'
  BY <1>1, NatAssumption DEF TypeOK, Grows
<1>3. ASSUME NEW t \in Tokens
      PROVE  issued[t].exp \in Nat /\ issued'[t] = issued[t] /\ t \in Tokens'
  <2>1. issued[t] \in [user : User, exp : 0..(MaxTime + TTL)]
    BY <1>1 DEF TypeOK
  <2> QED
    BY <1>1, <2>1, NatAssumption DEF Grows
<1>4. ASSUME NEW t \in Tokens, Valid(t)' PROVE Valid(t) /\ ~(issued[t].exp < now)
  BY <1>2, <1>3, <1>4 DEF Valid
<1>5. ended \subseteq Tokens
  BY <1>1 DEF TypeOK
<1> USE DEF EndedIsOut
<1>6. CASE ended' = ended /\ revoked \subseteq revoked'
  BY <1>1, <1>4, <1>5, <1>6
<1>7. ASSUME NEW r \in Req, RevokeChanger(r) \/ Logout(r) PROVE EndedIsOut'
  <2>1. CASE End(r)
    <3>1. ended' = ended \cup {req[r].token}
      BY <2>1 DEF End
    <3>2. revoked \subseteq revoked' /\ (Valid(req[r].token) => req[r].token \in revoked')
      BY <2>1 DEF End, RevokeToken
    <3>3. req[r].token \in Tokens
      BY <1>1, <1>7 DEF RevokeChanger, Logout, At, IndInv, EndWasAsked, TypeOK
    <3> QED
      BY <1>1, <1>4, <1>5, <3>1, <3>2, <3>3
  <2>2. CASE UNCHANGED <<revoked, ended>>
    BY <1>6, <2>2
  <2> QED
    BY <1>7, <2>1, <2>2 DEF RevokeChanger, Logout
<1>8. CASE AskServer
  BY <1>6, <1>8 DEF AskServer, SendRegister, SendLogin, SendChange, SendLogout,
     SendUpload, Send, serverVars
<1>9. ASSUME NEW r \in Req, ServeStep(r) PROVE EndedIsOut'
  BY <1>6, <1>7, <1>9 DEF ServeStep, Register, Login, AdmitChange, AdmitUpload, Verify,
     Update, StoreUpload, Fails, GiveUp, serverVars
<1>10. CASE Cleanup
  <2>1. ended' = ended /\ revoked' = {t \in revoked : ~(issued[t].exp < now)}
    BY <1>10 DEF Cleanup
  <2> QED
    BY <1>1, <1>4, <1>5, <2>1
<1>11. CASE Tick \/ (\E p \in Page : Reload(p)) \/ UNCHANGED vars
  BY <1>6, <1>11 DEF Tick, Reload, vars, serverVars
<1> QED
  BY <1>8, <1>9, <1>10, <1>11 DEF Next, Serve, ServeStep

\* The user OptionalAuth admits is the token's, or nobody for a reason.
LEMMA AdmitOwns ==
  ASSUME IndInv, NEW r \in Req, req[r] # Idle, NEW u, AdmitAs(r, u), Grows
  PROVE  Owns(u, req[r].token) \/ (u = None /\ faults' > 0)
<1>1. req[r].token \in Nat /\ faults \in Nat /\ revoked \subseteq asked
  BY HandlerOf, NatAssumption DEF IndInv, TypeOK, RevokedWasAsked
<1>2. CASE u = Recognised(r) /\ Valid(req[r].token) /\ req[r].token \notin revoked
  <2>1. count \in Nat /\ req[r].token # 0
    BY <1>2, NatAssumption DEF Valid, Tokens, IndInv, TypeOK
  <2> QED
    BY <1>2, <2>1 DEF Recognised, Owns
<1>3. CASE u = Recognised(r) /\ ~(Valid(req[r].token) /\ req[r].token \notin revoked)
  BY <1>1, <1>3 DEF Recognised, Owns, MayBeAnonymous
<1>4. CASE u = None /\ faults' = faults + 1
  BY <1>1, <1>4
<1> QED
  BY <1>2, <1>3, <1>4 DEF AdmitAs

LEMMA OwnerStep == IndInv /\ [Next]_vars => AdmittedOwner' /\ UploadOwner'
<1> SUFFICES ASSUME IndInv, [Next]_vars PROVE AdmittedOwner' /\ UploadOwner'
  OBVIOUS
<1>1. TypeOK /\ TypeOK' /\ Grows /\ AdmittedOwner /\ UploadOwner
  BY TypeStep, StepGrows DEF IndInv
<1>2. ASSUME NEW r \in Req, req[r] # Idle PROVE req[r].token \in 0..count
  <2>1. req[r].token \in Nat /\ req[r].token <= count /\ count \in Nat
    BY <1>1, <1>2, HandlerOf, NatAssumption DEF TypeOK
  <2> QED
    BY <2>1
<1>3. ASSUME NEW r \in Req, req'[r] # Idle, req'[r].pc = "store"
      PROVE  Owns(req[r].user, req[r].token)'
  <2>1. CASE /\ req[r] # Idle /\ req[r].pc = "store"
             /\ req'[r].token = req[r].token /\ req'[r].user = req[r].user
    <3>1. PICK u, t : u = req[r].user /\ t = req[r].token
      OBVIOUS
    <3>2. Owns(u, t)'
      BY <1>1, <1>2, <2>1, <3>1, OwnsStays DEF AdmittedOwner, At
    <3> QED
      BY <2>1, <3>1, <3>2 DEF Owns, MayBeAnonymous, Valid
  <2>2. CASE /\ req[r] # Idle /\ req'[r].token = req[r].token
             /\ AdmitAs(r, req'[r].user)
    <3>1. PICK u, t : u = req'[r].user /\ t = req[r].token
      OBVIOUS
    <3>2. Owns(u, t) \/ (u = None /\ faults' > 0)
      BY <1>1, <2>2, <3>1, AdmitOwns
    <3>3. Owns(u, t)'
      <4>1. CASE Owns(u, t)
        BY <1>1, <1>2, <2>2, <3>1, <4>1, OwnsStays
      <4>2. CASE u = None /\ faults' > 0
        BY <4>2 DEF Owns
      <4> QED
        BY <3>2, <4>1, <4>2
    <3> QED
      BY <2>2, <3>1, <3>3 DEF Owns, MayBeAnonymous, Valid
  <2> QED
    BY <1>3, <2>1, <2>2, HandlerStep
<1>4. AdmittedOwner'
  BY <1>3 DEF AdmittedOwner, At
<1>5. CASE upload' = upload
  <2>1. CASE upload = None
    BY <1>4, <1>5, <2>1 DEF UploadOwner
  <2>2. CASE upload # None
    <3>1. PICK u, t : u = upload.owner /\ t = upload.token
      OBVIOUS
    <3>2. t \in 0..count /\ Owns(u, t)
      BY <1>1, <2>2, <3>1 DEF UploadOwner, TypeOK
    <3>3. Owns(u, t)'
      BY <1>1, <3>2, OwnsStays
    <3> QED
      BY <1>4, <1>5, <3>1, <3>3 DEF UploadOwner, Owns, MayBeAnonymous, Valid
  <2> QED
    BY <2>1, <2>2
<1>6. ASSUME NEW r \in Req, StoreUpload(r) PROVE UploadOwner'
  <2>1. PICK u, t : u = req[r].user /\ t = req[r].token
    OBVIOUS
  <2>2. t \in 0..count /\ Owns(u, t)
    BY <1>1, <1>2, <1>6, <2>1 DEF StoreUpload, At, AdmittedOwner
  <2>3. Owns(u, t)'
    BY <1>1, <2>2, OwnsStays
  <2>4. upload' = [owner |-> u, token |-> t]
    BY <1>6, <2>1 DEF StoreUpload
  <2> QED
    BY <2>3, <2>4 DEF UploadOwner, Owns, MayBeAnonymous, Valid
<1>7. CASE AskServer
  BY <1>5, <1>7 DEF AskServer, SendRegister, SendLogin, SendChange, SendLogout,
     SendUpload, Send, serverVars
<1>8. ASSUME NEW r \in Req, ServeStep(r) PROVE UploadOwner'
  BY <1>5, <1>6, <1>8 DEF ServeStep, Register, Login, AdmitChange, AdmitUpload, Verify,
     Update, RevokeChanger, Logout, Fails, GiveUp, serverVars
<1>9. CASE Cleanup \/ Tick \/ (\E p \in Page : Reload(p)) \/ UNCHANGED vars
  BY <1>5, <1>9 DEF Cleanup, Tick, Reload, vars, serverVars
<1> QED
  BY <1>4, <1>7, <1>8, <1>9 DEF Next, Serve, ServeStep

LEMMA InductiveStep == IndInv /\ [Next]_vars => IndInv'
BY TypeStep, EndedStep, OwnerStep, RevokedStep, AskedStep DEF IndInv

\* The inductive invariant holds in every state.
THEOREM InvariantHolds == Spec => []IndInv
<1>1. Init => IndInv
  BY InitInv
<1>2. IndInv /\ [Next]_vars => IndInv'
  BY InductiveStep
<1> QED
  BY <1>1, <1>2, PTL DEF Spec

\* Every variable keeps its type: no page and no handler holds a token that
\* was not issued.
THEOREM TypeCorrect == Spec => []TypeOK
<1>1. IndInv => TypeOK
  BY DEF IndInv
<1> QED
  BY <1>1, InvariantHolds, PTL

\* A session that a logout or a password change reported ended is over for
\* every later request, whatever is cleaned up (LogoutHandler,
\* CleanupExpiredTokens).
THEOREM EndedHolds == Spec => []EndedIsOut
<1>1. IndInv => EndedIsOut
  BY DEF IndInv
<1> QED
  BY <1>1, InvariantHolds, PTL

\* An upload belongs to the user of the token it came with, or to nobody when
\* that session was over or a statement failed (OptionalAuth, TicketHandler).
THEOREM OwnerHolds == Spec => []UploadOwner
<1>1. IndInv => UploadOwner
  BY DEF IndInv
<1> QED
  BY <1>1, InvariantHolds, PTL
=============================================================================
