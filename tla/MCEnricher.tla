----------------------------- MODULE MCEnricher -----------------------------
(* Instances of Enricher for TLC: products, and a catalogue.               *)
EXTENDS Enricher, TLC

CONSTANTS bags, oil, t1, t2, t3, own, j1

E(url, keywords) == [thumb |-> url, keywords |-> keywords]

\* The name of bags has stop words only; of oil the dictionary keeps a word
\* in Catalan.
MCLocal ==
  (bags :> [tr \in BOOLEAN |-> <<>>]) @@
  (oil  :> [tr \in BOOLEAN |-> IF tr THEN <<"aceite", "oliva">>
                                ELSE <<"aceite", "oliva", "verge">>])

\* Nobody enters an image of bags.
MCByHand == (oil :> {own}) @@ (bags :> {})

\* A score of exactly 1/2, equal scores, a single shared word, and better
\* entries in the subcategory that comes last.
MCEntries ==
  << <<E(t1, <<"aceite">>),
       E(t2, <<"aceite", "oliva", "virgen", "extra", "suave", "garrafa">>)>>,
     <<E(t1, <<"aceite", "girasol">>),
       E(t3, <<"aceite", "oliva", "suave">>),
       E(t1, <<"aceite", "oliva", "brik">>)>> >>
=============================================================================
