----------------------------- MODULE RateLimit -----------------------------
(***************************************************************************)
(* The limiter in front of login and register: IPLimiter of package        *)
(* ratelimit.  A bucket is kept only for addresses seen lately, filled     *)
(* when it is looked at, and removed by cleanupLoop.  One process is       *)
(* modelled; on Vercel each instance of the function has its own.          *)
(***************************************************************************)
EXTENDS Integers, Sequences

CONSTANTS
  Ip,       \* client addresses
  Burst,    \* New(rate.Every(10 s), 10)
  Period,   \* ticks in which one token is filled
  MaxIdle,  \* ticks without a request after which an entry is removed: 10 min
  MaxTime   \* bound: ticks

ASSUME BurstAssumption == Burst \in Nat \ {0}
ASSUME PeriodAssumption == Period \in Nat \ {0}
\* 10 minutes fill 60 tokens, the bucket holds 10.
ASSUME IdleAssumption == MaxIdle \in Nat /\ MaxIdle >= Burst * Period
ASSUME TimeAssumption == MaxTime \in Nat

VARIABLES
  now,       \* time.Now(), in ticks
  visitors,  \* il.visitors: NoEntry for addresses that are not in the map
  decision,  \* the last request: its address, and what allow returned
  passed     \* history: when each address passed, since the process started

vars == <<now, visitors, decision, passed>>

Full == Burst * Period

\* tokens: of the rate.Limiter when it last let a request pass or was made,
\* times Period; at: when that was; lastSeen: the last request.
Entry == [tokens : 0..Full, at : 0..MaxTime, lastSeen : 0..MaxTime]

NoEntry == [lastSeen |-> -1]

Capped(t) == IF t > Full THEN Full ELSE t

TypeOK ==
  /\ now \in 0..MaxTime
  /\ visitors \in [Ip -> Entry \cup {NoEntry}]
  /\ \A i \in Ip : visitors[i] # NoEntry =>
       visitors[i].at <= visitors[i].lastSeen /\ visitors[i].lastSeen <= now
  /\ decision \in Ip \X BOOLEAN \cup {<<>>}
  /\ passed \in [Ip -> Seq(0..MaxTime)]

Init ==
  /\ now = 0
  /\ visitors = [i \in Ip |-> NoEntry]
  /\ decision = <<>>
  /\ passed = [i \in Ip |-> <<>>]

-----------------------------------------------------------------------------
Tick ==
  /\ now < MaxTime
  /\ now' = now + 1
  /\ UNCHANGED <<visitors, decision, passed>>

\* The entry allow works on: the one in the map, or a new one.
Lookup(i) ==
  IF visitors[i] # NoEntry THEN visitors[i]
  ELSE [tokens |-> Full, at |-> now, lastSeen |-> now]

\* rate.Limiter.advance: the tokens filled since the last update.
Filled(e) == Capped(e.tokens + (now - e.at))

\* Mutant of Allow: filled tokens are not capped at the burst.
AllowUncapped(i) ==
  /\ LET e == Lookup(i)
         t == e.tokens + (now - e.at)
         ok == t >= Period
     IN  /\ visitors' = [visitors EXCEPT ![i] =
              [tokens |-> IF ok THEN t - Period ELSE t,
               at |-> now, lastSeen |-> now]]
         /\ decision' = <<i, ok>>
         /\ passed' = IF ok THEN [passed EXCEPT ![i] = Append(@, now)] ELSE passed
  /\ UNCHANGED now

\* Middleware and allow, under il.mu: a request passes (and goes on to the
\* handler) or is answered 429.
Allow(i) ==
  /\ LET e == Lookup(i)
         ok == Filled(e) >= Period
     IN  /\ visitors' = [visitors EXCEPT ![i] =
              IF ok THEN [tokens |-> Filled(e) - Period, at |-> now, lastSeen |-> now]
                    ELSE [e EXCEPT !.lastSeen = now]]
         /\ decision' = <<i, ok>>
         /\ passed' = IF ok THEN [passed EXCEPT ![i] = Append(@, now)] ELSE passed
  /\ UNCHANGED now

\* Mutant of Cleanup: entries that have been idle for one token are removed.
CleanupEarly ==
  /\ \E i \in Ip : visitors[i] # NoEntry
  /\ visitors' = [i \in Ip |->
       IF visitors[i] # NoEntry /\ now - visitors[i].lastSeen > Period
       THEN NoEntry ELSE visitors[i]]
  /\ UNCHANGED <<now, decision, passed>>

\* cleanupLoop, under il.mu.  Its ticks are every 5 minutes; here they may
\* come at any time.
Cleanup ==
  /\ visitors' = [i \in Ip |->
       IF visitors[i] # NoEntry /\ now - visitors[i].lastSeen > MaxIdle
       THEN NoEntry ELSE visitors[i]]
  /\ UNCHANGED <<now, decision, passed>>

\* The process, or the instance of the function, starts anew.
Restart ==
  /\ visitors' = [i \in Ip |-> NoEntry]
  /\ passed' = [i \in Ip |-> <<>>]
  /\ UNCHANGED <<now, decision>>

Next ==
  \/ Tick
  \/ Cleanup
  \/ Restart
  \/ \E i \in Ip : Allow(i)

Spec == Init /\ [][Next]_vars

-----------------------------------------------------------------------------
\* The tokens of i, in the map or not.
Available(i) == IF visitors[i] = NoEntry THEN Full ELSE Filled(visitors[i])

\* The limiter is a token bucket for each address: pruning the map is never
\* noticed, a request is refused only when its bucket is empty and passes
\* only when it is not.
Bucket == INSTANCE TokenBucket WITH credit <- [i \in Ip |-> Available(i)]

ImplementsBucket == Bucket!Spec

\* Between any two requests that passed, no more passed than the burst and
\* what was filled meanwhile: pruning gives no one a second burst.
WithinRate ==
  \A i \in Ip : \A j, k \in DOMAIN passed[i] :
    j <= k => (k - j + 1) * Period <= Full + (passed[i][k] - passed[i][j])

\* Why: it holds up to now, less the tokens that are left.
Spent ==
  \A i \in Ip : \A j \in DOMAIN passed[i] :
    /\ passed[i][j] <= now
    /\ (Len(passed[i]) - j + 1) * Period + Available(i)
         <= Full + (now - passed[i][j])
=============================================================================
