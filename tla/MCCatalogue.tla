---------------------------- MODULE MCCatalogue ----------------------------
(* An instance of Catalogue for TLC.                                       *)
EXTENDS Catalogue

CONSTANTS u1, u2

\* Product 1 may have been free at first; from 32 to 37 its change is half way
\* between two hundredths.  Product 2 always costs the same.
MCLine ==
  {[product |-> 1, price |-> c] : c \in {0, 32, 37}} \cup {[product |-> 2, price |-> 32]}

\* u1 shops on any day; one receipt is nobody's.
MCReceipt ==
  [owner : {u1}, day : Day, lines : {<<a>> : a \in MCLine} \cup (MCLine \X MCLine)]
  \cup {[owner |-> Nobody, day |-> 1, lines |-> <<[product |-> 2, price |-> 32]>>]}
=============================================================================
