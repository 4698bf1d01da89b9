------------------------------ MODULE Session ------------------------------
(***************************************************************************)
(* Accounts and sessions: RegisterHandler, LoginHandler, LogoutHandler,    *)
(* ChangePasswordHandler, the middleware OptionalAuth, the table           *)
(* revoked_tokens, and the pages that hold the tokens (App.tsx).           *)
(*                                                                         *)
(* A page keeps its token twice: in its state, which it sends to log out   *)
(* or to change the password, and in the localStorage it shares with the   *)
(* other tabs of the browser, which it reads for every upload.  A handler  *)
(* works in steps, one for each SQL statement and what follows it; the     *)
(* page may have given up on it, or be gone, when it finishes.             *)
(***************************************************************************)
EXTENDS Naturals, FiniteSets

CONSTANTS
  User,      \* user names
  Password,  \* what people choose and type
  Page,      \* open tabs
  Browser,   \* browsers
  In,        \* In[p]: the browser of page p
  Req,       \* handlers that may run at once
  TTL,       \* ticks a token is valid: tokenTTL
  MaxTime,   \* bound: ticks
  MaxToken,  \* bound: tokens issued
  MaxFaults, \* bound: failing statements and dying handlers
  None       \* no user, password, page

ASSUME InAssumption == In \in [Page -> Browser]
ASSUME NatAssumption ==
  TTL \in Nat \ {0} /\ MaxTime \in Nat /\ MaxToken \in Nat /\ MaxFaults \in Nat
ASSUME NoneAssumption ==
  None \notin User /\ None \notin Password /\ None \notin Page

VARIABLES
  now,      \* the clock
  password, \* users.password_hash; None if there is no such user
  issued,   \* the tokens: issued[t] is the user and the expiry of token t
  count,    \* how many there are
  revoked,  \* the table revoked_tokens
  held,     \* held[p]: auth.token of page p, 0 for the guest screen
  stored,   \* stored[b]: the token in localStorage, 0 if there is none
  req,      \* the handlers
  upload,   \* the last upload: whose its prices are, and the token it came with
  faults,   \* how many statements failed and handlers died
  asked,    \* history: tokens someone asked to end, by logout or password change
  ended     \* history: tokens that were reported ended

serverVars == <<password, issued, count, revoked, upload>>
pageVars   == <<held, stored>>
vars == <<now, serverVars, pageVars, req, faults, asked, ended>>

Tokens == 1..count

Idle == [pc |-> "idle"]

\* page is None when the page no longer waits; user is the one who logs in,
\* or the one OptionalAuth put in the context (None for anonymous); pw is the
\* password typed and new the one to set.
Handler ==
  [pc : {"register", "login", "admit_change", "admit_upload", "verify",
         "update", "revoke", "logout", "store"},
   page : Page \cup {None}, token : 0..MaxToken, user : User \cup {None},
   pw : Password \cup {None}, new : Password \cup {None}]

TypeOK ==
  /\ now \in 0..MaxTime
  /\ password \in [User -> Password \cup {None}]
  /\ count \in 0..MaxToken
  /\ issued \in [Tokens -> [user : User, exp : 0..(MaxTime + TTL)]]
  /\ revoked \subseteq Tokens
  /\ held \in [Page -> 0..count]
  /\ stored \in [Browser -> 0..count]
  /\ req \in [Req -> Handler \cup {Idle}]
  /\ \A r \in Req : req[r] # Idle => req[r].token <= count
  /\ upload \in [owner : User \cup {None}, token : 0..count] \cup {None}
  /\ faults \in 0..MaxFaults
  /\ asked \subseteq Tokens
  /\ ended \subseteq asked

Init ==
  /\ now = 0
  /\ password = [u \in User |-> None]
  /\ count = 0
  /\ issued = [t \in {} |-> None]
  /\ revoked = {}
  /\ held = [p \in Page |-> 0]
  /\ stored = [b \in Browser |-> 0]
  /\ req = [r \in Req |-> Idle]
  /\ upload = None
  /\ faults = 0
  /\ asked = {}
  /\ ended = {}

-----------------------------------------------------------------------------
\* auth.ValidateToken
Valid(t) == t \in Tokens /\ now < issued[t].exp

Waits(p) == \E r \in Req : req[r] # Idle /\ req[r].page = p

\* Page p sends a request; r is the handler that will serve it.
Send(r, p, pc, t, u, pw, new) ==
  /\ req[r] = Idle
  /\ ~Waits(p)
  /\ req' = [req EXCEPT ![r] =
       [pc |-> pc, page |-> p, token |-> t, user |-> u, pw |-> pw, new |-> new]]
  /\ UNCHANGED <<now, serverVars, pageVars, faults, ended>>

SendRegister(r, p, u, pw) ==
  /\ held[p] = 0
  /\ Send(r, p, "register", 0, u, None, pw)
  /\ UNCHANGED asked

SendLogin(r, p, u, pw) ==
  /\ held[p] = 0
  /\ Send(r, p, "login", 0, u, pw, None)
  /\ UNCHANGED asked

SendChange(r, p, pw, new) ==
  /\ held[p] # 0
  /\ Send(r, p, "admit_change", held[p], None, pw, new)
  /\ asked' = asked \cup {held[p]}

SendLogout(r, p) ==
  /\ held[p] # 0
  /\ Send(r, p, "logout", held[p], None, None, None)
  /\ asked' = asked \cup {held[p]}

\* Only a page that shows a user offers to upload; the token is the one in
\* localStorage by then (authHeaders).
SendUpload(r, p) ==
  /\ held[p] # 0
  /\ Send(r, p, "admit_upload", stored[In[p]], None, None, None)
  /\ UNCHANGED asked

\* handleAuth: the page and its browser have token t; handleLogout: 0.
Keep(p, t) ==
  /\ held' = [held EXCEPT ![p] = t]
  /\ stored' = [stored EXCEPT ![In[p]] = t]

\* Handler r has answered.  A page that waits for the end of its logout clears
\* its token whatever the answer is.
Answer(r) ==
  /\ req' = [req EXCEPT ![r] = Idle]
  /\ IF req[r].pc = "logout" /\ req[r].page # None THEN Keep(req[r].page, 0)
                                                   ELSE UNCHANGED pageVars

Goto(r, pc) ==
  /\ req' = [req EXCEPT ![r].pc = pc]
  /\ UNCHANGED pageVars

At(r, pc) == req[r] # Idle /\ req[r].pc = pc

\* Statement or handler r fails: an answer of 500 or none.
Fails(r) ==
  /\ req[r] # Idle
  /\ faults < MaxFaults
  /\ faults' = faults + 1
  /\ Answer(r)
  /\ UNCHANGED <<now, serverVars, asked, ended>>

-----------------------------------------------------------------------------
\* GenerateToken, and the page that logged in keeps the token.
Issue(r) ==
  /\ count < MaxToken
  /\ count' = count + 1
  /\ issued' = [t \in 1..count' |->
       IF t = count' THEN [user |-> req[r].user, exp |-> now + TTL] ELSE issued[t]]
  /\ req' = [req EXCEPT ![r] = Idle]
  /\ IF req[r].page # None THEN Keep(req[r].page, count') ELSE UNCHANGED pageVars

\* RegisterHandler: CreateUser, refused for a name that is taken.  Its INSERT
\* is the only statement, so the token is issued in the same step.
Register(r) ==
  /\ At(r, "register")
  /\ LET u == req[r].user IN
       \/ /\ password[u] # None
          /\ Answer(r)
          /\ UNCHANGED <<password, issued, count>>
       \/ /\ password[u] = None
          /\ password' = [password EXCEPT ![u] = req[r].new]
          /\ Issue(r)
  /\ UNCHANGED <<now, revoked, upload, faults, asked, ended>>

\* LoginHandler: GetUserByUsername, its only statement, and CheckPassword.
Login(r) ==
  /\ At(r, "login")
  /\ LET right == req[r].pw # None /\ password[req[r].user] = req[r].pw IN
       \/ ~right /\ Answer(r) /\ UNCHANGED <<issued, count>>
       \/ right /\ Issue(r)
  /\ UNCHANGED <<now, password, revoked, upload, faults, asked, ended>>

\* OptionalAuth: whom it takes the sender of handler r for.
Recognised(r) ==
  LET t == req[r].token IN
  IF Valid(t) /\ t \notin revoked THEN issued[t].user ELSE None

\* If revoked_tokens cannot be read the request goes on without a user.
AdmitAs(r, u) ==
  \/ u = Recognised(r) /\ UNCHANGED faults
  \/ u = None /\ faults < MaxFaults /\ faults' = faults + 1

AdmitChange(r) ==
  /\ At(r, "admit_change")
  /\ \E u \in User \cup {None} :
       /\ AdmitAs(r, u)
       /\ IF u = None THEN Answer(r)
          ELSE req' = [req EXCEPT ![r].pc = "verify", ![r].user = u] /\ UNCHANGED pageVars
  /\ UNCHANGED <<now, serverVars, asked, ended>>

\* TicketHandler asks for no user: an upload without one is anonymous.
AdmitUpload(r) ==
  /\ At(r, "admit_upload")
  /\ \E u \in User \cup {None} :
       /\ AdmitAs(r, u)
       /\ req' = [req EXCEPT ![r].pc = "store", ![r].user = u]
  /\ UNCHANGED <<now, serverVars, pageVars, asked, ended>>

\* The import: TicketImport models its steps.
StoreUpload(r) ==
  /\ At(r, "store")
  /\ upload' = [owner |-> req[r].user, token |-> req[r].token]
  /\ Answer(r)
  /\ UNCHANGED <<now, password, issued, count, revoked, faults, asked, ended>>

\* ChangePasswordHandler: GetUserByID and CheckPassword, ...
Verify(r) ==
  /\ At(r, "verify")
  /\ IF password[req[r].user] = req[r].pw THEN Goto(r, "update") ELSE Answer(r)
  /\ UNCHANGED <<now, serverVars, faults, asked, ended>>

\* ... UpdateUserPassword, ...
Update(r) ==
  /\ At(r, "update")
  /\ password' = [password EXCEPT ![req[r].user] = req[r].new]
  /\ Goto(r, "revoke")
  /\ UNCHANGED <<now, issued, count, revoked, upload, faults, asked, ended>>

\* Mutant of RevokeToken: all sessions of the user are revoked.
RevokeAllOfUser(t) ==
  revoked' = revoked \cup {x \in Tokens : issued[x].user = issued[t].user}

\* INSERT ... ON CONFLICT DO NOTHING
RevokeToken(t) == revoked' = revoked \cup {t}

\* The token is revoked, and whoever asked is told so.  One that has expired
\* needs no row.
End(r) ==
  LET t == req[r].token IN
  /\ IF Valid(t) THEN RevokeToken(t) ELSE UNCHANGED revoked
  /\ ended' = ended \cup {t}
  /\ Answer(r)

\* ... and RevokeToken, whose failure is only logged: the answer is ok.
RevokeChanger(r) ==
  /\ At(r, "revoke")
  /\ \/ End(r) /\ UNCHANGED faults
     \/ /\ faults < MaxFaults /\ faults' = faults + 1
        /\ Answer(r)
        /\ UNCHANGED <<revoked, ended>>
  /\ UNCHANGED <<now, password, issued, count, upload, asked>>

\* LogoutHandler, which looks at the token itself and not at the context.
Logout(r) ==
  /\ At(r, "logout")
  /\ End(r)
  /\ UNCHANGED <<now, password, issued, count, upload, faults, asked>>

-----------------------------------------------------------------------------
\* The page stops waiting (TIMEOUT_MS); the handler goes on.
GiveUp(r) ==
  /\ req[r] # Idle /\ req[r].page # None
  /\ req' = [req EXCEPT ![r].page = None]
  /\ IF req[r].pc = "logout" THEN Keep(req[r].page, 0) ELSE UNCHANGED pageVars
  /\ UNCHANGED <<now, serverVars, faults, asked, ended>>

\* Page p is loaded anew: loadAuth.
Reload(p) ==
  /\ held' = [held EXCEPT ![p] = stored[In[p]]]
  /\ req' = [r \in Req |-> IF req[r] # Idle /\ req[r].page = p
                           THEN [req[r] EXCEPT !.page = None] ELSE req[r]]
  /\ UNCHANGED <<now, serverVars, stored, faults, asked, ended>>

\* Mutant of Cleanup: the tokens that have not expired are deleted.
CleanupFresh ==
  /\ revoked' = {t \in revoked : issued[t].exp < now}
  /\ UNCHANGED <<now, password, issued, count, upload, pageVars, req, faults, asked, ended>>

\* CleanupExpiredTokens, which nothing calls yet.
Cleanup ==
  /\ revoked' = {t \in revoked : ~(issued[t].exp < now)}
  /\ UNCHANGED <<now, password, issued, count, upload, pageVars, req, faults, asked, ended>>

Tick ==
  /\ now < MaxTime
  /\ now' = now + 1
  /\ UNCHANGED <<serverVars, pageVars, req, faults, asked, ended>>

AskServer ==
  \E r \in Req, p \in Page :
    \/ SendLogout(r, p)
    \/ SendUpload(r, p)
    \/ \E u \in User, new \in Password : SendRegister(r, p, u, new)
    \/ \E pw \in Password \cup {None} :  \* None: one that is nobody's
         \/ \E u \in User : SendLogin(r, p, u, pw)
         \/ \E new \in Password : SendChange(r, p, pw, new)

Serve ==
  \E r \in Req :
    \/ Register(r) \/ Login(r)
    \/ AdmitChange(r) \/ Verify(r) \/ Update(r) \/ RevokeChanger(r)
    \/ Logout(r)
    \/ AdmitUpload(r) \/ StoreUpload(r)
    \/ Fails(r)
    \/ GiveUp(r)

Next == AskServer \/ Serve \/ Cleanup \/ Tick \/ \E p \in Page : Reload(p)

Spec == Init /\ [][Next]_vars

-----------------------------------------------------------------------------
\* A token that was reported ended, by a logout or a password change whose
\* revocation did not fail, is recognised by no request from then on: not
\* when its row is cleaned up, nor when it was ended twice.
EndedIsOut == \A t \in ended : ~(Valid(t) /\ t \notin revoked)

\* What an upload may have instead of its owner: no token, because another tab
\* logged out; one that someone asked to end; an expired one.
MayBeAnonymous(t) == t = 0 \/ t \in asked \/ ~Valid(t)

\* u is whose token t is; or nobody, and that session was over or is about to
\* be, or a statement failed.
Owns(u, t) ==
  \/ u = None /\ (MayBeAnonymous(t) \/ faults > 0)
  \/ t # 0 /\ u = issued[t].user

\* An upload belongs to the user whose token it came with, and is anonymous
\* only for a reason: no one else's logout or password change ends a session.
UploadOwner == upload # None => Owns(upload.owner, upload.token)

\* Why: only tokens that someone asked to end are revoked, and an upload keeps
\* the user it was admitted with.
RevokedWasAsked == revoked \subseteq asked

EndWasAsked ==
  \A r \in Req :
    req[r] # Idle /\ req[r].pc \in {"admit_change", "verify", "update", "revoke", "logout"}
      => req[r].token \in asked

AdmittedOwner == \A r \in Req : At(r, "store") => Owns(req[r].user, req[r].token)

NewSessionHasUser ==
  \A r \in Req : At(r, "register") \/ At(r, "login") => req[r].user \in User

\* The inductive invariant of the proofs.
IndInv ==
  /\ TypeOK
  /\ EndedIsOut
  /\ UploadOwner
  /\ RevokedWasAsked
  /\ EndWasAsked
  /\ AdmittedOwner
  /\ NewSessionHasUser
=============================================================================
