------------------------------ MODULE Matching ------------------------------
(***************************************************************************)
(* bestMatch: which entry of Mercadona's catalogue is the product that a   *)
(* receipt prints, going by their keywords.                                *)
(*                                                                         *)
(* A list of keywords is a sequence of words, in which a word may occur    *)
(* more than once; an entry of the index is a thumbnail with its list.     *)
(* Scores are fractions and are compared by cross-multiplication.          *)
(***************************************************************************)
EXTENDS Naturals, Sequences, FiniteSets

CONSTANT NoImage  \* no URL

Words(keywords) == {keywords[i] : i \in DOMAIN keywords}

\* Mutant of MinMatched: one shared keyword is enough.
MinMatchedOne(local) == 1

MinMatched(local) == IF Len(local) >= 2 THEN 2 ELSE 1

\* How many keywords of the entry are keywords of the product.
Matched(local, entry) ==
  Cardinality({i \in DOMAIN entry.keywords : entry.keywords[i] \in Words(local)})

\* The score, Dice's coefficient, is 2 * Matched / Total.
Total(local, entry) == Len(local) + Len(entry.keywords)

Better(local, a, b) ==
  Matched(local, a) * Total(local, b) > Matched(local, b) * Total(local, a)

\* Enough shared keywords, and a score of at least minMatchScore = 1/2.
Accepted(local, entry) ==
  /\ Matched(local, entry) >= MinMatched(local)
  /\ 4 * Matched(local, entry) >= Total(local, entry)

\* The loop replaces its candidate only by an entry with a higher score: of
\* entries with one score it keeps the first.
IsBest(local, index, i) ==
  /\ i \in DOMAIN index
  /\ Accepted(local, index[i])
  /\ \A j \in DOMAIN index :
       j # i /\ Accepted(local, index[j]) =>
         /\ ~Better(local, index[j], index[i])
         /\ j < i => Better(local, index[i], index[j])

BestMatch(local, index) ==
  IF \E i \in DOMAIN index : IsBest(local, index, i)
  THEN index[CHOOSE i \in DOMAIN index : IsBest(local, index, i)].thumb
  ELSE NoImage

-----------------------------------------------------------------------------
(* What a match is to be, said of sets of words.                           *)

\* No word occurs twice.
Plain(keywords) == Cardinality(Words(keywords)) = Len(keywords)

Shared(a, b) == Cardinality(Words(a) \cap Words(b))

AllWords(a, b) == Cardinality(Words(a) \cup Words(b))

\* The entry is the product, as far as words can tell: a third of all the
\* words of both is shared, and two if the product has two.
Alike(a, b) ==
  /\ 3 * Shared(a, b) >= AllWords(a, b)
  /\ Shared(a, b) >= 1
  /\ Cardinality(Words(a)) >= 2 => Shared(a, b) >= 2

\* a has more of its words in common with the product than b.
Closer(local, a, b) ==
  Shared(local, a) * AllWords(local, b) > Shared(local, b) * AllWords(local, a)

\* url is the thumbnail of the first of the closest entries that are alike;
\* NoImage if there are none.  Lists with repeated words are left out: in
\* them bestMatch counts a shared word as often as the entry has it.
RightImage(local, index, url) ==
  LET alike == {i \in DOMAIN index : Alike(local, index[i].keywords)}
      Beats(i, j) ==
        \/ Closer(local, index[i].keywords, index[j].keywords)
        \/ /\ ~Closer(local, index[j].keywords, index[i].keywords)
           /\ i < j
  IN  Plain(local) /\ (\A i \in DOMAIN index : Plain(index[i].keywords)) =>
        \/ alike = {} /\ url = NoImage
        \/ \E i \in alike : /\ url = index[i].thumb
                            /\ \A j \in alike \ {i} : Beats(i, j)
=============================================================================
