------------------------------- MODULE MCPages -------------------------------
(* Instances of Pages for TLC.                                             *)
EXTENDS Pages, TLC

CONSTANTS a, b, r1, r2, r3, u1, u2, p1

\* The year of the first record is not one that IPCHandler takes; inflation
\* is known from 2000 to 2003.
MCYear  == (r1 :> 1999) @@ (r2 :> 2001) @@ (r3 :> 2003)
MCValid == 2000..2004
MCRated == 2000..2003
MCRate  == [y \in MCRated |-> y - 1998]

\* The thumbnail of the product page.
MCThumb == p1 :> u2
=============================================================================
