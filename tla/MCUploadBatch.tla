--------------------------- MODULE MCUploadBatch ---------------------------
(* Instances of UploadBatch for TLC.                                       *)
EXTENDS UploadBatch

CONSTANTS c1, c2, f1, f2, f3, f4, bread, milk,
          MaxRounds  \* bound: how often each user selects files

MCRounds == [c \in Client |-> MaxRounds]

\* Three files that are sent make two batches; a receipt of the second lists
\* the products of one of the first, in the other order.
MCSelections == [c \in Client |-> IF c = c1 THEN {<<f1, f4, f3, f2>>} ELSE {<<f1>>}]

MCUpload ==
  UNION {{c} \X (UNION {ToSet(sel) : sel \in Selections[c]} \ ClientRejects)
             \X (1..MCRounds[c]) : c \in Client}

MCFileOf == [r \in MCUpload |-> r[2]]
MCUploader == [r \in MCUpload |-> r[1]]

\* Both users live together.
MCHome == [u \in User |-> "home"]

\* Two receipts that list the same new products in opposite orders, and a
\* PDF that is no receipt.
MCLines ==
  [f \in File |-> CASE f = f1 -> <<bread, milk>>
                    [] f = f2 -> <<milk, bread>>
                    [] OTHER  -> Unreadable]
=============================================================================
