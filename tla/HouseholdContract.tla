------------------------- MODULE HouseholdContract -------------------------
(***************************************************************************)
(* What households promise, with every HTTP request, SQL statement and     *)
(* lock abstracted away: who shares a household with whom, and which       *)
(* households exist.  Household.tla is shown to implement this module.     *)
(*                                                                         *)
(*  - member[u] is the household of user u, or Null;                       *)
(*  - alive is the set of households that exist;                           *)
(*  - founded is how many households were ever created: identifiers are    *)
(*    drawn from a BIGSERIAL and are never used twice.                     *)
(***************************************************************************)
EXTENDS Naturals

CONSTANT User

VARIABLES member, alive, founded

cvars == <<member, alive, founded>>

\* household_id IS NULL; BIGSERIAL identifiers start at 1.
Null == 0

Empty(h) == \A u \in User : member[u] # h

Init ==
  /\ member = [u \in User |-> Null]
  /\ alive = {}
  /\ founded = 0

\* A user founds a household and is its first member.
Found(u) ==
  /\ founded' = founded + 1
  /\ alive' = alive \cup {founded + 1}
  /\ member' = [member EXCEPT ![u] = founded + 1]

\* A user moves into a household that exists, or out of any household.  In
\* the same step at most one household may be dissolved, and only one that
\* is left without members.
Move(u, h) ==
  /\ h \in alive \cup {Null}
  /\ member' = [member EXCEPT ![u] = h]
  /\ \/ alive' = alive
     \/ \E d \in alive : Empty(d)' /\ alive' = alive \ {d}
  /\ UNCHANGED founded

Next == \E u \in User : Found(u) \/ \E h \in alive \cup {Null} : Move(u, h)

Spec == Init /\ [][Next]_cvars

-----------------------------------------------------------------------------
\* Every household that exists was founded.
AliveFounded == alive \subseteq 1..founded

\* Nobody is a member of a household that does not exist.
NoDangling == \A u \in User : member[u] \in alive \cup {Null}
=============================================================================
