---------------------------- MODULE MCHousehold ----------------------------
(* Instances of Household for TLC: who the requests in flight belong to.   *)
EXTENDS Household, TLC

CONSTANTS u1, u2, r1, r2, r3

\* One tab each for two users, and a second tab for the first.
TwoTabs == (r1 :> u1) @@ (r2 :> u2) @@ (r3 :> u1)

\* Tokens are alike, and so are the two tabs of one user.
Alike == Permutations(Token) \cup Permutations({r1, r3})
=============================================================================
