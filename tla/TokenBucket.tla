---------------------------- MODULE TokenBucket ----------------------------
(***************************************************************************)
(* What a per-IP token-bucket limiter promises (package ratelimit, and     *)
(* golang.org/x/time/rate): every address has a bucket from the start, it  *)
(* fills by one token every Period ticks up to Burst tokens, and a request *)
(* passes exactly when a whole token is there, which it takes.  Tokens are *)
(* counted in fractions of 1/Period.                                       *)
(***************************************************************************)
EXTENDS Naturals

CONSTANTS Ip, Burst, Period

VARIABLES
  credit,   \* credit[i]: the tokens of i, times Period
  decision  \* the last request: whose, and whether it passed

Full == Burst * Period

Init ==
  /\ credit = [i \in Ip |-> Full]
  /\ decision = <<>>

Tick ==
  /\ credit' = [i \in Ip |-> IF credit[i] < Full THEN credit[i] + 1 ELSE Full]
  /\ UNCHANGED decision

Allow(i) ==
  /\ decision' = <<i, credit[i] >= Period>>
  /\ credit' = IF credit[i] >= Period THEN [credit EXCEPT ![i] = @ - Period]
                                      ELSE credit

\* The process starts anew with all buckets full.
Restart ==
  /\ credit' = [i \in Ip |-> Full]
  /\ UNCHANGED decision

Next == Tick \/ Restart \/ \E i \in Ip : Allow(i)

Spec == Init /\ [][Next]_<<credit, decision>>
=============================================================================
