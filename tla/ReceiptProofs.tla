--------------------------- MODULE ReceiptProofs ---------------------------
(***************************************************************************)
(* Receipts, from their text to a household's history.                     *)
(*                                                                         *)
(* UploadBatch: a receipt enters the history whole, once unless its        *)
(* uploads raced, and is marked, or called imported by the page, only      *)
(* then; page and server keep to their types; for any users, files,        *)
(* receipts and number of overlapping uploads.                             *)
(*                                                                         *)
(* TicketParser: what is printed is recorded, and what is lost of it, or   *)
(* put between, does not spread; for any number of items and of lines lost *)
(* or inserted, in both layouts.                                           *)
(***************************************************************************)
EXTENDS UploadBatch, TicketParser, FiniteSetTheorems, TLAPS

-----------------------------------------------------------------------------
\* Uploads.

\* The initial state satisfies OnceInv.
LEMMA OnceInit == Init => OnceInv
BY DEF Init, OnceInv, PC, OneImporter, ImportingIsUnknown, ImportedIsKnown,
       OnceUnlessRaced, Importing, IsFileProcessed, Imported

\* Uploads of one household and file agree on whether the file is known.
LEMMA SameKeySameAnswer ==
  ASSUME NEW r \in Upload, NEW s \in Upload, Key(r) = Key(s)
  PROVE  IsFileProcessed(r) <=> IsFileProcessed(s)
BY DEF Key, IsFileProcessed

\* A step of r that neither imports nor marks, and after which r imports only
\* if it did before.
LEMMA QuietStep ==
  ASSUME OnceInv, NEW r \in Upload,
         pc' \in [Upload -> PC],
         \A s \in Others(r) : pc'[s] = pc[s],
         Importing(r)' => Importing(r),
         Imported(r) => pc'[r] \in {"mark", "over"},
         Imported(r) /\ pc[r] = "mark" /\ pc'[r] # "mark"
           => Key(r) \in raced' \/ IsFileProcessed(r),
         raced \subseteq raced',
         UNCHANGED <<records, processed>>
  PROVE  OnceInv'
<1> USE DEF OnceInv, Importing, Imported, IsFileProcessed, Key, Others
<1>1. OneImporter'
  BY DEF OneImporter
<1>2. ImportingIsUnknown'
  BY DEF ImportingIsUnknown
<1>3. ImportedIsKnown'
  BY DEF ImportedIsKnown
<1>4. OnceUnlessRaced'
  BY DEF OnceUnlessRaced
<1> QED
  BY <1>1, <1>2, <1>3, <1>4

\* Every step of the handlers keeps OnceInv.
LEMMA OnceStep == OnceInv /\ [Next]_vars => OnceInv'
<1> SUFFICES ASSUME OnceInv, [Next]_vars PROVE OnceInv'
  OBVIOUS
<1> USE FileOfAssumption, UploaderAssumption DEF dbVars, reqVars
<1>1. ASSUME NEW r \in Upload, Check(r) PROVE OnceInv'
  <2>1. CASE pc'[r] = "over"
    BY <1>1, <2>1, QuietStep DEF Check, Answer, OnceInv, PC, Others, Importing,
       ImportedIsKnown
  <2>2. CASE pc'[r] # "over"
    <3>1. /\ pc[r] = "unsent" /\ pc' = [pc EXCEPT ![r] = "insert"]
          /\ ~IsFileProcessed(r)
          /\ raced' = IF Overlaps(r) THEN raced \cup {Key(r)} ELSE raced
          /\ UNCHANGED <<records, processed>>
      BY <1>1, <2>2 DEF Check, Answer, OnceInv
    <3>2. ~Imported(r)
      BY <3>1 DEF OnceInv, ImportedIsKnown
    <3> USE DEF OnceInv, Importing, Imported, IsFileProcessed, Others, PC
    <3>3. OneImporter'
      BY <3>1 DEF OneImporter, Overlaps, Key
    <3>4. ImportingIsUnknown'
      BY <3>1 DEF ImportingIsUnknown, Key
    <3>5. ImportedIsKnown'
      BY <3>1, <3>2 DEF ImportedIsKnown, Key
    <3>6. OnceUnlessRaced'
      BY <3>1 DEF OnceUnlessRaced, Key
    <3> QED
      BY <3>1, <3>3, <3>4, <3>5, <3>6
  <2> QED
    BY <2>1, <2>2
<1>2. ASSUME NEW r \in Upload, InsertLine(r) PROVE OnceInv'
  BY <1>2, QuietStep DEF InsertLine, OnceInv, ImportedIsKnown, Others, Importing
<1>3. ASSUME NEW r \in Upload, LineFails(r) \/ DeadlockAbort(r) PROVE OnceInv'
  <2>1. pc[r] = "insert"
    BY <1>3 DEF LineFails, DeadlockAbort, InWaitCycle, Blocked, WaitsFor
  <2> QED
    BY <1>3, <2>1, QuietStep DEF LineFails, DeadlockAbort, Answer, OnceInv, PC,
       Others, Importing, ImportedIsKnown
<1>4. ASSUME NEW r \in Upload, Commit(r) PROVE OnceInv'
  <2>1. /\ pc[r] = "insert" /\ pc' = [pc EXCEPT ![r] = "mark"]
        /\ \A s \in Others(r) : Imported(s)' <=> Imported(s)
        /\ UNCHANGED <<processed, raced>>
    BY <1>4 DEF Commit, Imported, Others
  <2>2. \A s \in Others(r) : Imported(s) /\ Key(s) = Key(r) => Key(r) \in raced
    BY <2>1, SameKeySameAnswer
    DEF OnceInv, ImportedIsKnown, OneImporter, ImportingIsUnknown, Importing, Others
  <2> USE DEF OnceInv, Importing, IsFileProcessed, Others, PC
  <2>3. OneImporter'
    BY <2>1 DEF OneImporter, Key
  <2>4. ImportingIsUnknown'
    BY <2>1 DEF ImportingIsUnknown, Key
  <2>5. ImportedIsKnown'
    BY <2>1 DEF ImportedIsKnown, Key
  <2>6. OnceUnlessRaced'
    BY <2>1, <2>2 DEF OnceUnlessRaced, Key
  <2> QED
    BY <2>1, <2>3, <2>4, <2>5, <2>6
<1>5. ASSUME NEW r \in Upload, Mark(r) PROVE OnceInv'
  <2>1. CASE processed' = processed
    <3>1. /\ pc[r] = "mark" /\ pc' = [pc EXCEPT ![r] = "over"]
          /\ UNCHANGED <<records, processed>>
      BY <1>5, <2>1 DEF Mark, Answer
    <3>2. raced \subseteq raced' /\ (Key(r) \in raced' \/ IsFileProcessed(r))
      BY <1>5, <2>1 DEF Mark, IsFileProcessed
    <3> QED
      BY <3>1, <3>2, QuietStep DEF OnceInv, PC, Others, Importing
  <2>2. CASE processed' # processed
    <3>1. /\ pc[r] = "mark" /\ pc' = [pc EXCEPT ![r] = "over"]
          /\ processed' = processed \cup {<<Uploader[r], FileOf[r]>>}
          /\ UNCHANGED <<records, raced>>
      BY <1>5, <2>2 DEF Mark, Answer
    <3>2. \A s \in Upload : IsFileProcessed(s)' <=> IsFileProcessed(s) \/ Key(s) = Key(r)
      BY <3>1 DEF IsFileProcessed, Key
    <3> USE DEF OnceInv, Importing, Imported, Others, PC
    <3>3. OneImporter'
      BY <3>1 DEF OneImporter, Key
    <3>4. ImportingIsUnknown'
      BY <3>1, <3>2 DEF ImportingIsUnknown, OneImporter, Key
    <3>5. ImportedIsKnown'
      BY <3>1, <3>2 DEF ImportedIsKnown, Key
    <3>6. OnceUnlessRaced'
      BY <3>1 DEF OnceUnlessRaced, Key
    <3> QED
      BY <3>1, <3>3, <3>4, <3>5, <3>6
  <2> QED
    BY <2>1, <2>2
<1>6. ASSUME NEW r \in Upload, Crash(r) PROVE OnceInv'
  BY <1>6, QuietStep DEF Crash, Answer, OnceInv, PC, Others, Importing
<1>7. CASE UNCHANGED vars
  BY <1>7 DEF vars, OnceInv, OneImporter, ImportingIsUnknown, ImportedIsKnown,
     OnceUnlessRaced, Importing, Imported, IsFileProcessed, Key
<1> QED
  BY <1>1, <1>2, <1>3, <1>4, <1>5, <1>6, <1>7 DEF Next, Proceed, Fault

\* The household's price history has every receipt once, unless two of its
\* uploads overlapped or one was cut off between its import and its mark.
THEOREM OnceHolds == Spec => []OnceUnlessRaced
<1>1. OnceInv => OnceUnlessRaced
  BY DEF OnceInv
<1> QED
  BY OnceInit, OnceStep, <1>1, PTL DEF Spec

-----------------------------------------------------------------------------
(* All or nothing.                                                         *)

\* All lines of the receipt of upload r are in the price history.
Whole(r) == {r} \X DOMAIN Lines[FileOf[r]] \subseteq records

\* An upload that is about to mark its file, or has answered 201, has put
\* its receipt into the history.
WholeInv ==
  /\ pc \in [Upload -> PC] /\ answer \in [Upload -> Nat]
  /\ \A r \in Upload : pc[r] = "mark" \/ answer[r] = 201 => Whole(r)
  /\ TicketAllOrNothing
  /\ MarkedWasImported

\* Every step of the handlers keeps WholeInv.
LEMMA WholeStep == WholeInv /\ [Next]_vars => WholeInv'
<1> SUFFICES ASSUME WholeInv, [Next]_vars PROVE WholeInv'
  OBVIOUS
<1> USE FileOfAssumption, UploaderAssumption DEF dbVars, reqVars, WholeInv, PC, Whole
<1>1. ASSUME NEW r \in Upload, Commit(r) PROVE WholeInv'
  <2>1. /\ pc' = [pc EXCEPT ![r] = "mark"] /\ UNCHANGED <<answer, processed>>
        /\ records' = records \cup ({r} \X DOMAIN Lines[FileOf[r]])
    BY <1>1 DEF Commit
  <2>2. TicketAllOrNothing'
    <3> SUFFICES ASSUME NEW s \in Upload
                 PROVE  LET in == {x \in records' : x[1] = s}
                        IN  in = {} \/ in = {s} \X DOMAIN Lines[FileOf[s]]
      BY DEF TicketAllOrNothing
    <3> DEFINE in == {x \in records : x[1] = s}
    <3>1. in = {} \/ in = {s} \X DOMAIN Lines[FileOf[s]]
      BY DEF TicketAllOrNothing
    <3>2. CASE s = r
      BY <2>1, <3>1, <3>2
    <3>3. CASE s # r
      <4>1. {x \in records' : x[1] = s} = in
        BY <2>1, <3>3
      <4> QED
        BY <3>1, <4>1
    <3> QED
      BY <3>2, <3>3
  <2>3. MarkedWasImported'
    BY <2>1 DEF MarkedWasImported
  <2>4. \A s \in Upload : pc'[s] = "mark" \/ answer'[s] = 201 => Whole(s)'
    BY <2>1
  <2> QED
    BY <2>1, <2>2, <2>3, <2>4
<1>2. ASSUME NEW r \in Upload, Mark(r) PROVE WholeInv'
  <2>1. /\ pc[r] = "mark" /\ pc' = [pc EXCEPT ![r] = "over"]
        /\ answer' = [answer EXCEPT ![r] = 201] /\ records' = records
        /\ processed' \subseteq processed \cup {<<Uploader[r], FileOf[r]>>}
    BY <1>2 DEF Mark, Answer
  <2>2. TicketAllOrNothing'
    BY <2>1 DEF TicketAllOrNothing
  <2>3. MarkedWasImported'
    BY <2>1 DEF MarkedWasImported
  <2> QED
    BY <2>1, <2>2, <2>3
<1>3. ASSUME NEW r \in Upload, Check(r) \/ InsertLine(r) \/ DeadlockAbort(r) \/ Fault(r)
      PROVE  WholeInv'
  <2>1. /\ UNCHANGED <<records, processed>>
        /\ \/ pc' = [pc EXCEPT ![r] = "insert"] /\ answer' = answer
           \/ pc' = pc /\ answer' = answer
           \/ \E status \in {409, 422, 500, 504} :
                pc' = [pc EXCEPT ![r] = "over"] /\ answer' = [answer EXCEPT ![r] = status]
    BY <1>3 DEF Check, InsertLine, DeadlockAbort, Fault, LineFails, Crash, Answer
  <2>2. TicketAllOrNothing'
    BY <2>1 DEF TicketAllOrNothing
  <2>3. MarkedWasImported'
    BY <2>1 DEF MarkedWasImported
  <2>4. \A s \in Upload : pc'[s] = "mark" \/ answer'[s] = 201 => Whole(s)'
    BY <2>1
  <2>5. pc' \in [Upload -> PC] /\ answer' \in [Upload -> Nat]
    BY <2>1
  <2> QED
    BY <2>1, <2>2, <2>3, <2>4, <2>5
<1>4. CASE UNCHANGED vars
  BY <1>4 DEF vars, TicketAllOrNothing, MarkedWasImported
<1> QED
  BY <1>1, <1>2, <1>3, <1>4 DEF Next, Proceed

\* The initial state satisfies WholeInv.
LEMMA WholeInit == Init => WholeInv
  BY DEF Init, WholeInv, PC, TicketAllOrNothing, MarkedWasImported

-----------------------------------------------------------------------------
(* The page and the server together.                                       *)

\* Whatever the page does, its requests are requests of TicketImport: what
\* holds of the handlers holds of the two together.
THEOREM PageUsesServer == ClientSpec => Spec
<1>1. ClientInit => Init
  BY DEF ClientInit
<1>2. [ClientNext]_allVars => [Next]_vars
  BY DEF ClientNext, allVars, Select, NextBatch, Leave, Arrive, Answered, BodyEnds,
         GiveUp, Server, ServerFault, Next
<1> QED
  BY <1>1, <1>2, PTL DEF ClientSpec, Spec

\* The lines of a receipt are in the price history all or not at all.
THEOREM AllOrNothingHolds == Spec => []TicketAllOrNothing
<1>1. WholeInv => TicketAllOrNothing
  BY DEF WholeInv
<1> QED
  BY WholeInit, WholeStep, <1>1, PTL DEF Spec

\* A file is marked as processed only when its receipt is in the history.
THEOREM MarkedHolds == Spec => []MarkedWasImported
<1>1. WholeInv => MarkedWasImported
  BY DEF WholeInv
<1> QED
  BY WholeInit, WholeStep, <1>1, PTL DEF Spec

\* What makes OkMeansImported inductive: a 201 that has begun means as much.
BegunMeansImported ==
  \A c \in Client, f \in File :
    outcome[c][f] \in {"reading", "ok"} =>
      {<<c, f, round[c]>>} \X DOMAIN Lines[f] \subseteq records

OkInv ==
  /\ WholeInv
  /\ round \in [Client -> Nat]
  /\ outcome \in [Client -> [File -> {"none", "reading", "ok", "failed"}]]
  /\ BegunMeansImported

\* Every step of the page and the server keeps OkInv.
LEMMA OkStep == OkInv /\ [ClientNext]_allVars => OkInv'
<1> SUFFICES ASSUME OkInv, [ClientNext]_allVars PROVE OkInv'
  OBVIOUS
<1> USE RequestAssumption DEF OkInv, clientVars
<1>1. WholeInv'
  <2>1. [Next]_vars
    BY DEF ClientNext, allVars, Select, NextBatch, Leave, Arrive, Answered, BodyEnds,
           GiveUp, Server, ServerFault, Next
  <2> QED
    BY <2>1, WholeStep
<1>2. ASSUME NEW c \in Client, NEW sel \in Selections[c], Select(c, sel) PROVE OkInv'
  <2>1. /\ round' = [round EXCEPT ![c] = @ + 1] /\ records' = records
        /\ \A d \in Client \ {c} : outcome'[d] = outcome[d]
        /\ outcome'[c] \in [File -> {"none", "failed"}]
        /\ outcome' \in [Client -> [File -> {"none", "reading", "ok", "failed"}]]
    BY <1>2 DEF Select, vars, dbVars
  <2> QED
    BY <1>1, <2>1 DEF BegunMeansImported
<1>3. ASSUME NEW c \in Client, Leave(c) PROVE OkInv'
  <2>1. /\ outcome' = [outcome EXCEPT ![c] = [f \in File |-> "none"]]
        /\ UNCHANGED <<records, round>>
    BY <1>3 DEF Leave, vars, dbVars
  <2> QED
    BY <1>1, <2>1 DEF BegunMeansImported
<1>4. ASSUME NEW r \in Upload, Answered(r) PROVE OkInv'
  <2>1. /\ UNCHANGED <<records, round>> /\ round[r[1]] = r[3]
        /\ outcome' = [outcome EXCEPT ![r[1]][r[2]] =
                         IF answer[r] = 201 THEN "reading" ELSE "failed"]
    BY <1>4 DEF Answered, Awaits, InBatch, Ends, vars, dbVars
  <2>2. r = <<r[1], r[2], r[3]>> /\ r[1] \in Client /\ r[2] \in File /\ FileOf[r] = r[2]
    OBVIOUS
  <2>3. answer[r] = 201 => {r} \X DOMAIN Lines[r[2]] \subseteq records
    BY <2>2 DEF WholeInv, Whole
  <2>4. outcome' \in [Client -> [File -> {"none", "reading", "ok", "failed"}]]
    BY <2>1, <2>2
  <2>5. ASSUME NEW d \in Client, NEW f \in File, outcome'[d][f] \in {"reading", "ok"}
        PROVE  {<<d, f, round[d]>>} \X DOMAIN Lines[f] \subseteq records
    <3>1. CASE d = r[1] /\ f = r[2]
      BY <2>1, <2>2, <2>3, <2>5, <3>1
    <3>2. CASE ~(d = r[1] /\ f = r[2])
      <4>1. outcome[d][f] \in {"reading", "ok"}
        BY <2>1, <2>2, <2>5, <3>2
      <4> QED
        BY <4>1 DEF BegunMeansImported
    <3> QED
      BY <3>1, <3>2
  <2> QED
    BY <1>1, <2>1, <2>4, <2>5 DEF BegunMeansImported
<1>5. ASSUME NEW r \in Upload, GiveUp(r) PROVE OkInv'
  <2>1. /\ UNCHANGED <<records, round>>
        /\ outcome' = [outcome EXCEPT ![r[1]][r[2]] = "failed"]
    BY <1>5 DEF GiveUp, Ends, vars, dbVars
  <2>2. r[1] \in Client /\ r[2] \in File
    OBVIOUS
  <2> QED
    BY <1>1, <2>1, <2>2 DEF BegunMeansImported
<1>10. ASSUME NEW r \in Upload, BodyEnds(r) PROVE OkInv'
  <2>1. /\ UNCHANGED <<records, round>> /\ outcome[r[1]][r[2]] = "reading"
        /\ \E how \in {"ok", "failed"} :
             outcome' = [outcome EXCEPT ![r[1]][r[2]] = how]
    BY <1>10 DEF BodyEnds, InBatch, Ends, vars, dbVars
  <2>2. r[1] \in Client /\ r[2] \in File
    OBVIOUS
  <2>3. outcome' \in [Client -> [File -> {"none", "reading", "ok", "failed"}]]
    BY <2>1, <2>2
  <2>4. ASSUME NEW d \in Client, NEW f \in File, outcome'[d][f] \in {"reading", "ok"}
        PROVE  outcome[d][f] \in {"reading", "ok"}
    BY <2>1, <2>2, <2>4
  <2> QED
    BY <1>1, <2>1, <2>3, <2>4 DEF BegunMeansImported
<1>6. CASE UNCHANGED clientVars /\ records \subseteq records'
  BY <1>1, <1>6 DEF BegunMeansImported
<1>7. ASSUME NEW r \in Upload, Arrive(r) \/ Server(r) \/ ServerFault(r)
      PROVE  UNCHANGED clientVars /\ records \subseteq records'
  BY <1>7 DEF Arrive, Server, ServerFault, Check, Proceed, Fault, InsertLine, Commit,
     Mark, DeadlockAbort, LineFails, Crash, dbVars
<1>8. ASSUME NEW c \in Client, NextBatch(c) PROVE OkInv'
  <2>1. UNCHANGED <<records, round, outcome>>
    BY <1>8 DEF NextBatch, vars, dbVars
  <2> QED
    BY <1>1, <2>1 DEF BegunMeansImported
<1>9. CASE UNCHANGED allVars
  BY <1>6, <1>9 DEF allVars, vars, dbVars
<1> QED
  BY <1>2, <1>3, <1>4, <1>5, <1>6, <1>7, <1>8, <1>9, <1>10 DEF ClientNext

\* What the page calls imported is in the price history with all its lines.
THEOREM OkHolds == ClientSpec => []OkMeansImported
<1>1. ClientInit => OkInv
  BY WholeInit DEF ClientInit, OkInv, BegunMeansImported
<1>2. OkInv => OkMeansImported
  BY DEF OkInv, BegunMeansImported, OkMeansImported
<1> QED
  BY <1>1, <1>2, OkStep, PTL DEF ClientSpec
-----------------------------------------------------------------------------
(* The files that are sent.                                                *)

\* A set of subsets of a finite set has one that no other is within.
HasLeast(T) == \E A \in T : \A B \in T : B \subseteq A => B = A

LEMMA MinimalSet ==
  ASSUME NEW S, IsFiniteSet(S), NEW T \in SUBSET SUBSET S, T # {}
  PROVE  HasLeast(T)
<1>1. FiniteSubsetsOf(S) = SUBSET S
  BY FS_FiniteSubsetsOfFinite
<1>2. IsWellFoundedOn(StrictSubsetOrdering(S), FiniteSubsetsOf(S))
  BY FS_StrictSubsetOrderingWellFounded
<1>3. PICK A \in T : \A B \in T : ~(<<B, A>> \in StrictSubsetOrdering(S))
  BY <1>1, <1>2, WFMin
<1> QED
  BY <1>3 DEF StrictSubsetOrdering, HasLeast

\* The last of the positions s.
LastOf(s) == CHOOSE x \in s : \A y \in s : x >= y

\* The files kept of a selection whose positions s have been looked at.
Kept(sel, k, kept) == IF sel[k] \in ClientRejects THEN kept ELSE Append(kept, sel[k])

\* iter is the recursive function the fold is made of, on the positions S.
Folds(iter, sel, S) ==
  iter = [s \in SUBSET S |->
            IF s = {} THEN <<>> ELSE Kept(sel, LastOf(s), iter[s \ {LastOf(s)}])]

LEMMA AcceptedIsFold ==
  ASSUME NEW sel
  PROVE  Accepted(sel) = (CHOOSE iter : Folds(iter, sel, DOMAIN sel))[DOMAIN sel]
BY DEF Accepted, FoldLeft, MapThenFoldSet, Max, Folds, LastOf, Kept

\* A set of positions that is not empty has a last one.
LEMMA LastExists ==
  ASSUME NEW s \in SUBSET Nat, IsFiniteSet(s), s # {}
  PROVE  LastOf(s) \in s
<1> DEFINE From(x) == {y \in s : x <= y}
           T == {From(x) : x \in s}
<1>1. PICK A \in T : \A B \in T : B \subseteq A => B = A
  <2>1. T \in SUBSET SUBSET s
    OBVIOUS
  <2>2. T # {}
    <3>1. PICK x : x \in s
      OBVIOUS
    <3>2. From(x) \in T
      BY <3>1
    <3> QED
      BY <3>2
  <2> HIDE DEF T
  <2>3. HasLeast(T)
    BY <2>1, <2>2, MinimalSet
  <2> QED
    BY <2>3 DEF HasLeast
<1>2. PICK x \in s : A = From(x)
  OBVIOUS
<1>3. ASSUME NEW y \in s, ~(x >= y) PROVE FALSE
  <2>1. \A z \in s : z \in Nat
    OBVIOUS
  <2>2. From(y) \in T
    OBVIOUS
  <2>3. From(y) \subseteq From(x) /\ x \in From(x) /\ x \notin From(y)
    <3>1. x < y
      BY <1>3, <2>1
    <3>2. x \in From(x) /\ x \notin From(y)
      BY <2>1, <3>1
    <3>3. \A z \in s : y <= z => x <= z
      BY <2>1, <3>1
    <3> HIDE DEF T
    <3> QED
      BY <3>2, <3>3
  <2> HIDE DEF From, T
  <2> QED
    BY <1>1, <1>2, <2>2, <2>3
<1> QED
  BY <1>3 DEF LastOf

\* The fold's functions agree where both are defined.
LEMMA FoldsAgree ==
  ASSUME NEW S \in SUBSET Nat, IsFiniteSet(S), NEW sel,
         NEW A \in SUBSET S, NEW B \in SUBSET S, NEW i, NEW j, Folds(i, sel, A),
           Folds(j, sel, B),
         NEW U \in SUBSET A, U \in SUBSET B
  PROVE  i[U] = j[U]
<1> DEFINE T == {s \in SUBSET S : s \subseteq A /\ s \subseteq B /\ i[s] # j[s]}
<1> SUFFICES ASSUME T # {} PROVE FALSE
  OBVIOUS
<1>1. PICK s \in T : \A r \in T : r \subseteq s => r = s
  <2>1. T \in SUBSET SUBSET S
    OBVIOUS
  <2> HIDE DEF T
  <2>2. HasLeast(T)
    BY <2>1, MinimalSet
  <2> QED
    BY <2>2 DEF HasLeast
<1>2. s \in SUBSET S /\ s \in SUBSET A /\ s \in SUBSET B /\ i[s] # j[s]
  OBVIOUS
<1> DEFINE c == LastOf(s)
<1>3. /\ i[s] = IF s = {} THEN <<>> ELSE Kept(sel, c, i[s \ {c}])
      /\ j[s] = IF s = {} THEN <<>> ELSE Kept(sel, c, j[s \ {c}])
  BY <1>2 DEF Folds
<1>4. s # {} /\ c \in s
  BY <1>2, <1>3, LastExists, FS_Subset
<1> HIDE DEF c
<1>5. s \ {c} \notin T
  BY <1>1, <1>4
<1>6. i[s \ {c}] = j[s \ {c}]
  BY <1>2, <1>5
<1> QED
  BY <1>2, <1>3, <1>4, <1>6

\* The fold's function exists.
LEMMA FoldsExist ==
  ASSUME NEW S \in SUBSET Nat, IsFiniteSet(S), NEW sel
  PROVE  \E iter : Folds(iter, sel, S)
<1> DEFINE T == {A \in SUBSET S : ~\E iter : Folds(iter, sel, A)}
<1> SUFFICES ASSUME T # {} PROVE FALSE
  OBVIOUS
<1>1. PICK A \in T : \A B \in T : B \subseteq A => B = A
  <2>1. T \in SUBSET SUBSET S
    OBVIOUS
  <2> HIDE DEF T
  <2>2. HasLeast(T)
    BY <2>1, MinimalSet
  <2> QED
    BY <2>2 DEF HasLeast
<1>2. A \in SUBSET S /\ ~\E iter : Folds(iter, sel, A)
  OBVIOUS
<1> DEFINE part(B) == CHOOSE iter : Folds(iter, sel, B)
           below(s) == part(s)[s]
           value(s) == IF s = {} THEN <<>>
                       ELSE Kept(sel, LastOf(s), below(s \ {LastOf(s)}))
           all == [s \in SUBSET A |-> value(s)]
<1>3. \A B \in SUBSET A : B # A => Folds(part(B), sel, B)
  <2> TAKE B \in SUBSET A
  <2> HAVE B # A
  <2>1. \E iter : Folds(iter, sel, B)
    BY <1>1, <1>2
  <2> QED
    BY <2>1
<1> HIDE DEF part
<1>4. \A s \in SUBSET A : s # {} => LastOf(s) \in s
  BY <1>2, LastExists, FS_Subset
<1>5. \A B \in SUBSET A : B # A => below(B) = value(B)
  <2> TAKE B \in SUBSET A
  <2> HAVE B # A
  <2>1. Folds(part(B), sel, B)
    BY <1>3
  <2>2. part(B)[B] = IF B = {} THEN <<>>
                     ELSE Kept(sel, LastOf(B), part(B)[B \ {LastOf(B)}])
    BY <2>1 DEF Folds
  <2>3. CASE B = {}
    BY <2>2, <2>3
  <2>4. CASE B # {}
    <3> DEFINE C == B \ {LastOf(B)}
    <3>1. C \in SUBSET A /\ C # A /\ C \in SUBSET B
      BY <1>4, <2>4
    <3>2. Folds(part(C), sel, C)
      BY <1>3, <3>1
    <3>3. part(B)[C] = part(C)[C]
      <4>1. B \in SUBSET S /\ C \in SUBSET S /\ C \in SUBSET C
        BY <1>2, <3>1
      <4> HIDE DEF C
      <4> QED
        BY <2>1, <3>1, <3>2, <4>1, FoldsAgree
    <3> QED
      BY <2>2, <2>4, <3>3
  <2> QED
    BY <2>3, <2>4
<1>6. \A s \in SUBSET A : s # {} => below(s \ {LastOf(s)}) = all[s \ {LastOf(s)}]
  <2> TAKE s \in SUBSET A
  <2> HAVE s # {}
  <2>1. s \ {LastOf(s)} \in SUBSET A /\ s \ {LastOf(s)} # A
    BY <1>4
  <2> HIDE DEF below, value
  <2> QED
    BY <1>5, <2>1
<1>7. \A s \in SUBSET A :
        all[s] = IF s = {} THEN <<>> ELSE Kept(sel, LastOf(s), all[s \ {LastOf(s)}])
  <2> TAKE s \in SUBSET A
  <2>1. all[s] = IF s = {} THEN <<>>
                 ELSE Kept(sel, LastOf(s), below(s \ {LastOf(s)}))
    OBVIOUS
  <2> HIDE DEF below, all
  <2> QED
    BY <1>6, <2>1
<1>8. all = [s \in SUBSET A |->
               IF s = {} THEN <<>> ELSE Kept(sel, LastOf(s), all[s \ {LastOf(s)}])]
  <2>1. all = [s \in SUBSET A |-> all[s]]
    OBVIOUS
  <2> HIDE DEF all
  <2> QED
    BY <1>7, <2>1
<1>9. Folds(all, sel, A)
  <2> HIDE DEF all
  <2> QED
    BY <1>8 DEF Folds
<1> QED
  BY <1>2, <1>9

\* What is sent of a selection of files is a sequence of files.
LEMMA AcceptedType ==
  ASSUME NEW sel \in Seq(File)
  PROVE  Accepted(sel) \in Seq(File)
<1> DEFINE S == DOMAIN sel
           i == CHOOSE iter : Folds(iter, sel, S)
           T == {s \in SUBSET S : i[s] \notin Seq(File)}
<1>1. S \in SUBSET Nat /\ IsFiniteSet(S) /\ \A k \in S : sel[k] \in File
  <2>1. S = 1..Len(sel) /\ Len(sel) \in Nat
    OBVIOUS
  <2>2. IsFiniteSet(1..Len(sel))
    BY <2>1, FS_Interval
  <2> QED
    BY <2>1, <2>2
<1>2. Accepted(sel) = i[S]
  BY AcceptedIsFold
<1> SUFFICES ASSUME T # {} PROVE FALSE
  BY <1>2
<1> HIDE DEF S
<1>3. Folds(i, sel, S)
  <2>1. \E iter : Folds(iter, sel, S)
    BY <1>1, FoldsExist
  <2> QED
    BY <2>1
<1> HIDE DEF i
<1>4. PICK s \in T : \A r \in T : r \subseteq s => r = s
  <2>1. T \in SUBSET SUBSET S
    OBVIOUS
  <2> HIDE DEF T
  <2>2. HasLeast(T)
    BY <1>1, <2>1, MinimalSet
  <2> QED
    BY <2>2 DEF HasLeast
<1>5. s \in SUBSET S /\ i[s] \notin Seq(File)
  OBVIOUS
<1> DEFINE c == LastOf(s)
<1>6. i[s] = IF s = {} THEN <<>> ELSE Kept(sel, c, i[s \ {c}])
  BY <1>3, <1>5 DEF Folds
<1>7. s # {} /\ c \in s
  <2>1. s # {}
    BY <1>5, <1>6
  <2> QED
    BY <1>1, <1>5, <2>1, LastExists, FS_Subset
<1> HIDE DEF c
<1>8. i[s \ {c}] \in Seq(File)
  BY <1>4, <1>5, <1>7
<1>9. sel[c] \in File
  BY <1>1, <1>5, <1>7
<1> QED
  BY <1>5, <1>6, <1>7, <1>8, <1>9 DEF Kept

-----------------------------------------------------------------------------
(* Type correctness of the page and the server together.                   *)

\* What makes TypeOK inductive: only receipts are imported.
TypeInv ==
  /\ TypeOK
  /\ \A r \in Upload : pc[r] = "insert" => Readable(r)

LEMMA AnswerTypes ==
  ASSUME TypeInv, NEW r \in Upload, NEW status \in {201, 409, 422, 500, 504},
         Answer(r, status)
  PROVE  /\ pc' \in [Upload -> PC] /\ line' \in [Upload -> Nat]
         /\ fresh' \in [Upload -> SUBSET AllProducts]
         /\ answer' \in [Upload -> {0, 201, 409, 422, 500, 504}]
         /\ \A s \in Upload : pc'[s] = "insert" => pc[s] = "insert"
BY DEF TypeInv, TypeOK, Answer, PC

LEMMA LineProduct ==
  ASSUME NEW r \in Upload, Readable(r), NEW k \in DOMAIN Lines[FileOf[r]]
  PROVE  Lines[FileOf[r]][k] \in AllProducts
BY FileOfAssumption DEF Readable, AllProducts, Products

\* Every step of the handlers keeps TypeInv.
LEMMA TypeStep == TypeInv /\ [Next]_vars => TypeInv'
<1> SUFFICES ASSUME TypeInv, [Next]_vars PROVE TypeInv'
  OBVIOUS
<1> USE FileOfAssumption, UploaderAssumption DEF dbVars, reqVars
<1>1. ASSUME NEW r \in Upload, Check(r) PROVE TypeInv'
  <2>1. CASE \E status \in {409, 422, 500} : Answer(r, status) /\ UNCHANGED raced
    <3>1. UNCHANGED dbVars
      BY <1>1 DEF Check
    <3> QED
      BY <2>1, <3>1, AnswerTypes DEF TypeInv, TypeOK, Readable
  <2>2. CASE /\ Readable(r) /\ pc' = [pc EXCEPT ![r] = "insert"]
             /\ raced' = IF Overlaps(r) THEN raced \cup {Key(r)} ELSE raced
             /\ UNCHANGED <<line, fresh, answer>>
    <3>1. UNCHANGED dbVars
      BY <1>1 DEF Check
    <3> QED
      BY <2>2, <3>1 DEF TypeInv, TypeOK, Readable, PC
  <2> QED
    BY <1>1, <2>1, <2>2 DEF Check
<1>2. ASSUME NEW r \in Upload, InsertLine(r) PROVE TypeInv'
  <2>1. Lines[FileOf[r]][line[r]] \in AllProducts
    BY <1>2, LineProduct DEF InsertLine, TypeInv
  <2>2. UNCHANGED <<products, records, processed, pc, answer, raced>>
    BY <1>2 DEF InsertLine
  <2>3. line' \in [Upload -> Nat] /\ fresh' \in [Upload -> SUBSET AllProducts]
    BY <1>2, <2>1 DEF InsertLine, TypeInv, TypeOK
  <2> QED
    BY <2>2, <2>3 DEF TypeInv, TypeOK, Readable
<1>3. ASSUME NEW r \in Upload, Commit(r) PROVE TypeInv'
  <2>1. products' \subseteq AllProducts /\ fresh' \in [Upload -> SUBSET AllProducts]
    BY <1>3 DEF Commit, TypeInv, TypeOK
  <2>2. \A x \in records' : x[1] \in Upload /\ x[2] \in DOMAIN Lines[FileOf[x[1]]]
    BY <1>3 DEF Commit, TypeInv, TypeOK
  <2>3. /\ pc' \in [Upload -> PC] /\ UNCHANGED <<processed, line, answer, raced>>
        /\ \A s \in Upload : pc'[s] = "insert" => pc[s] = "insert"
    BY <1>3 DEF Commit, TypeInv, TypeOK, PC
  <2> QED
    BY <2>1, <2>2, <2>3 DEF TypeInv, TypeOK, Readable
<1>4. ASSUME NEW r \in Upload, Mark(r) PROVE TypeInv'
  <2>1. processed' \subseteq User \X File /\ raced' \subseteq {Key(s) : s \in Upload}
    BY <1>4 DEF Mark, TypeInv, TypeOK
  <2>2. Answer(r, 201) /\ UNCHANGED <<products, records>>
    BY <1>4 DEF Mark
  <2> QED
    BY <2>1, <2>2, AnswerTypes DEF TypeInv, TypeOK, Readable, Key
<1>5. ASSUME NEW r \in Upload, DeadlockAbort(r) \/ LineFails(r) \/ Crash(r)
      PROVE  TypeInv'
  <2>1. (Answer(r, 422) \/ Answer(r, 504)) /\ UNCHANGED dbVars
    BY <1>5 DEF DeadlockAbort, LineFails, Crash
  <2>2. raced' \subseteq {Key(s) : s \in Upload}
    BY <1>5 DEF DeadlockAbort, LineFails, Crash, TypeInv, TypeOK
  <2> QED
    BY <2>1, <2>2, AnswerTypes DEF TypeInv, TypeOK, Readable, Key
<1>6. CASE UNCHANGED vars
  BY <1>6 DEF vars, TypeInv, TypeOK, Readable
<1> QED
  BY <1>1, <1>2, <1>3, <1>4, <1>5, <1>6 DEF Next, Proceed, Fault

\* The initial state satisfies TypeInv.
LEMMA TypeInit == Init => TypeInv
BY DEF Init, TypeInv, TypeOK, PC

ClientInv == TypeInv /\ ClientTypeOK

\* Every step of the page and the server keeps ClientInv.
LEMMA ClientStep == ClientInv /\ [ClientNext]_allVars => ClientInv'
<1> SUFFICES ASSUME ClientInv, [ClientNext]_allVars PROVE ClientInv'
  OBVIOUS
<1> USE RequestAssumption, UserAssumption, ConcurrencyAssumption DEF ClientInv, clientVars
<1>1. TypeInv' /\ TypeOK'
  <2>1. [Next]_vars
    BY DEF ClientNext, allVars, Select, NextBatch, Leave, Arrive, Answered, BodyEnds,
           GiveUp, Server, ServerFault, Next
  <2> QED
    BY <2>1, TypeStep DEF TypeInv
<1>2. ASSUME NEW c \in Client, NEW sel \in Selections[c], Select(c, sel)
      PROVE  ClientTypeOK'
  <2>1. Accepted(sel) \in Seq(File)
    BY AcceptedType
  <2>2. files' \in [Client -> Seq(File)] /\ start' \in [Client -> Nat \ {0}]
    BY <1>2, <2>1 DEF Select, ClientTypeOK
  <2>3. /\ phase' \in [Client -> {"idle", "uploading", "done"}]
        /\ outcome' \in [Client -> [File -> {"none", "reading", "ok", "failed"}]]
    BY <1>2 DEF Select, ClientTypeOK
  <2>4. \A d \in Client : round'[d] \in 0..Rounds[d]
    BY <1>2 DEF Select, ClientTypeOK
  <2> QED
    BY <1>1, <2>2, <2>3, <2>4 DEF ClientTypeOK
<1>3. ASSUME NEW c \in Client, NextBatch(c) PROVE ClientTypeOK'
  <2>1. start' \in [Client -> Nat \ {0}]
    BY <1>3 DEF NextBatch, ClientTypeOK
  <2>2. phase' \in [Client -> {"idle", "uploading", "done"}]
    BY <1>3 DEF NextBatch, ClientTypeOK
  <2> QED
    BY <1>1, <1>3, <2>1, <2>2 DEF NextBatch, ClientTypeOK
<1>4. ASSUME NEW c \in Client, Leave(c) PROVE ClientTypeOK'
  BY <1>1, <1>4 DEF Leave, ClientTypeOK
<1>5. ASSUME NEW r \in Upload, Answered(r) \/ BodyEnds(r) \/ GiveUp(r)
      PROVE  ClientTypeOK'
  <2>1. /\ UNCHANGED <<round, phase, files, start>>
        /\ \E how \in {"reading", "ok", "failed"} : Ends(r, how)
    BY <1>5 DEF Answered, BodyEnds, GiveUp
  <2>2. outcome' \in [Client -> [File -> {"none", "reading", "ok", "failed"}]]
    BY <2>1 DEF Ends, ClientTypeOK
  <2> QED
    BY <1>1, <2>1, <2>2 DEF ClientTypeOK
<1>6. CASE UNCHANGED clientVars
  BY <1>1, <1>6 DEF ClientTypeOK
<1> QED
  BY <1>1, <1>2, <1>3, <1>4, <1>5, <1>6
  DEF ClientNext, Arrive, Server, ServerFault, allVars

\* Whatever users select and however large the batches: the page sends files,
\* counts its batches from the first, and shows a file as imported or failed;
\* the handlers import only products of receipts, and lines that they have.
THEOREM ClientTypeCorrect == ClientSpec => []ClientTypeOK
<1>1. ClientInit => ClientInv
  BY TypeInit, UserAssumption DEF ClientInit, ClientInv, ClientTypeOK, TypeInv
<1>2. ClientInv => ClientTypeOK
  BY DEF ClientInv
<1> QED
  BY <1>1, <1>2, ClientStep, PTL DEF ClientSpec

-----------------------------------------------------------------------------
\* The parser.

\* The item being printed and read; the words of its lines, and their order.
Here == Len(kinds)

FirstWord == {"1", "n", "row_1", "row_n", "row_name"}

Words(l, k) ==
  IF l = "cells"
  THEN CASE k = "one"    -> {"1", "name", "unit"}
         [] k = "many"   -> {"n", "name", "unit", "total"}
         [] k = "weight" -> {"1", "name", "kg", "ppk", "total"}
  ELSE CASE k = "one"    -> {"row_1"}
         [] k = "many"   -> {"row_n"}
         [] k = "weight" -> {"row_name", "row_kg"}

Rank(w) ==
  CASE w \in FirstWord -> 1
    [] w = "name" -> 2
    [] w \in {"unit", "kg", "row_kg"} -> 3
    [] w = "ppk" -> 4
    [] OTHER -> 5

Stray == {"n", "other", "blank", "TOTAL"}
Heading(l) == IF l = "cells" THEN {"date", "Descripcio", "P_Unit", "Import"}
                               ELSE {"date", "titles"}

\* What the lines of a text may be.
LinesFit ==
  \A j \in DOMAIN text :
    \/ text[j].of = 0 /\ text[j].is \in Stray
    \/ text[j].of = 0 /\ text[j].is \in Heading(layout) /\ Here = 0
    \/ text[j].of = Here /\ Here > 0 /\ text[j].is \in Words(layout, kinds[Here])

\* The lines of the item that are left.
Left == {w \in Words(layout, kinds[Here]) : \E j \in DOMAIN text : text[j] = Line(w, Here)}

Title(l) == IF l = "cells" THEN "Descripcio" ELSE "titles"

HeaderFits ==
  /\ state \in (IF layout = "cells"
                THEN State \ {"outOfBody", "inBody"}
                ELSE {"header", "error", "outOfBody", "inBody", "end"})
  /\ state \in {"header", "error", "sIdle", "outOfBody"} =>
       Here = 0 /\ \E j \in DOMAIN text : text[j] = Line(Title(layout), 0)

\* A weight is followed by its price per kg.
KgFits ==
  \A j \in DOMAIN text : text[j].is = "kg" =>
    Here \in broken \/ \E m \in DOMAIN text : m > j /\ text[m].is = "ppk"

\* The price per kg waited for is on its way, or was lost and no weight
\* product has come since.
WaitFits ==
  state = "sWeightPPK" =>
    \/ \E j \in DOMAIN text : text[j].is = "ppk"
    \/ \E b \in broken : b <= Here /\ \A j \in (b + 1)..Here : kinds[j] # "weight"

Unharmed == Here \notin damaged

\* Of an item without damage the last lines are left, in order; blank lines
\* may stand between them, others only before the first.
TextWhole ==
  Here > 0 /\ Unharmed =>
    /\ \E r \in Nat : Left = {w \in Words(layout, kinds[Here]) : Rank(w) >= r}
    /\ \A j, m \in DOMAIN text : j < m /\ text[j].of = Here =>
         \/ text[m].of = Here /\ Rank(text[j].is) < Rank(text[m].is)
         \/ text[m].is = "blank"
    /\ \A j \in DOMAIN text : text[j].of = 0 =>
         \/ text[j].is = "blank"
         \/ text[j].is = "other" /\ Left \cap FirstWord # {}
         \/ text[j].is = "TOTAL" /\ Left = {}

Quantity == IF kinds[Here] = "many" THEN "n" ELSE "1"

Recorded(i) ==
  \E j \in DOMAIN lines :
    /\ lines[j] = Expected(i)
    /\ \A m \in DOMAIN lines : lines[m].price[2] = i => m = j

Unrecorded == \A j \in DOMAIN lines : lines[j].price[2] # Here

\* Above the items.
HeadWhole ==
  Here = 0 /\ Unharmed =>
    /\ \A j \in DOMAIN text : text[j].is \notin {"n", "other"}
    /\ state \in {"header", "error", "sIdle", "outOfBody", "inBody", "sQty", "end"}

\* The line of the item that is due next.
DueOf(a) ==
  CASE a \cap FirstWord # {} -> "first"
    [] "name" \in a /\ a \cap FirstWord = {} -> "name"
    [] a \cap {"unit", "kg"} # {} /\ "name" \notin a -> "price"
    [] "ppk" \in a /\ "kg" \notin a -> "ppk"
    [] "total" \in a /\ a \cap {"unit", "ppk"} = {} -> "total"
    [] "row_kg" \in a /\ a \cap FirstWord = {} -> "row_kg"
    [] a = {} -> "none"

Due == DueOf(Left)

\* Within an item without damage, whatever came before.
Settles ==
  Here > 0 /\ Unharmed /\ Due # "first" =>
    \/ state \in {"sQty", "sWeightPPK", "inBody"}
    \/ state = "sNameLine" /\ Due = "name" /\ qty = Quantity
    \/ state = "sPrice" /\ Due = "price" /\ qty = Quantity
    \/ state \in {"sWeightTotal", "sUnitMultiTotal"} /\ Due = "total"
    \/ state = "end" /\ Due = "none"

OnTrack ==
  \/ Due = "first" /\ state \in {"sQty", "inBody"} /\ Unrecorded
  \/ Due = "name"  /\ state = "sNameLine" /\ qty = Quantity /\ Unrecorded
  \/ Due = "price" /\ state = "sPrice" /\ qty = Quantity /\ name = Here /\ Unrecorded
  \/ Due = "ppk"   /\ state = "sWeightPPK" /\ name = Here /\ Unrecorded
  \/ Due = "total" /\ state = "sWeightTotal" /\ kinds[Here] = "weight" /\ name = Here /\
       Unrecorded
  \/ Due = "total" /\ state = "sUnitMultiTotal" /\ kinds[Here] = "many" /\ Recorded(Here)
  \/ Due = "row_kg" /\ state = "inBody" /\ name = Here /\ Unrecorded
  \/ Due = "none"  /\ state \in {"sQty", "inBody", "end"} /\ Recorded(Here)

Track == Here > 0 /\ Unharmed /\ ~Affected(Here) => OnTrack

PastRecorded == \A i \in 1..(Here - 1) : ~Affected(i) => Recorded(i)

LinesPast == \A j \in DOMAIN lines : lines[j].price[2] <= Here

OneHarmed == broken = {} /\ \A i, j \in damaged : i = j

Pending == state \in {"sPrice", "sWeightPPK", "sWeightTotal", "inBody"}

NameFits ==
  /\ name <= Here
  /\ layout = "rows" /\ Unharmed /\ (Here > 0 => Due = "none") => name = 0
  /\ OneHarmed /\ Pending =>
       \/ name \in {0, Here}
       \/ /\ Here > 0 /\ Here - 1 \in damaged /\ Unharmed /\ Due = "first"
          /\ state # "sWeightPPK"

\* A name and a price are awaited with a quantity.
QtyFits == state \in {"sNameLine", "sPrice"} => qty # "0"

ParserInv ==
  /\ ParserTypeOK /\ QtyFits
  /\ damaged \subseteq 0..Here
  /\ LinesFit /\ HeaderFits /\ KgFits /\ WaitFits
  /\ TextWhole /\ HeadWhole /\ Settles /\ Track
  /\ PastRecorded /\ LinesPast
  /\ NameFits /\ PriceOfItsItem

\* The text without its first line.
LEMMA TailText ==
  ASSUME NEW S, NEW s \in Seq(S), s # <<>>
  PROVE  /\ Tail(s) \in Seq(S) /\ Len(Tail(s)) = Len(s) - 1 /\ Len(s) \in Nat /\ Len(s) > 0
         /\ DOMAIN Tail(s) = 1..(Len(s) - 1) /\ DOMAIN s = 1..Len(s)
         /\ \A j \in DOMAIN Tail(s) : Tail(s)[j] = s[j + 1]
         /\ Head(s) = s[1] /\ Head(s) \in S
OBVIOUS

\* A text that has lost its line k.
LEMMA LoseText ==
  ASSUME NEW S, NEW s \in Seq(S), NEW k \in DOMAIN s, NEW t,
         t = [j \in 1..(Len(s) - 1) |-> IF j < k THEN s[j] ELSE s[j + 1]]
  PROVE  /\ t \in Seq(S) /\ DOMAIN t = 1..(Len(s) - 1) /\ DOMAIN s = 1..Len(s) /\ Len(s) \in Nat
         /\ \A j \in DOMAIN t : t[j] = IF j < k THEN s[j] ELSE s[j + 1]
OBVIOUS

\* A text made of two.
LEMMA CatText ==
  ASSUME NEW S, NEW a \in Seq(S), NEW b \in Seq(S)
  PROVE  /\ a \o b \in Seq(S) /\ Len(a \o b) = Len(a) + Len(b)
         /\ \A j \in 1..(Len(a) + Len(b)) :
              (a \o b)[j] = IF j <= Len(a) THEN a[j] ELSE b[j - Len(a)]
OBVIOUS

\* The text s with x before its line k.
With(s, k, x) == SubSeq(s, 1, k - 1) \o <<x>> \o SubSeq(s, k, Len(s))

\* The lines of s from k on come one place later in t.
Later(t, s, k) == \A j \in k..Len(s) : t[j + 1] = s[j]

\* The lines of a text with x before line k.
LEMMA InsertText ==
  ASSUME NEW S, NEW s \in Seq(S), NEW k \in 1..Len(s), NEW x \in S
  PROVE  /\ With(s, k, x) \in Seq(S) /\ DOMAIN With(s, k, x) = 1..(Len(s) + 1)
         /\ DOMAIN s = 1..Len(s) /\ Len(s) \in Nat
         /\ With(s, k, x)[k] = x
         /\ \A j \in 1..(k - 1) : With(s, k, x)[j] = s[j]
         /\ Later(With(s, k, x), s, k)
<1> DEFINE t == With(s, k, x)
<1>0. t = SubSeq(s, 1, k - 1) \o <<x>> \o SubSeq(s, k, Len(s))
  BY DEF With
<1> HIDE DEF t
<1> DEFINE a == SubSeq(s, 1, k - 1)
           b == SubSeq(s, k, Len(s))
<1>1. /\ a \in Seq(S) /\ Len(a) = k - 1 /\ \A j \in 1..(k - 1) : a[j] = s[j]
      /\ k \in 1..Len(s) /\ Len(s) \in Nat /\ DOMAIN s = 1..Len(s)
  OBVIOUS
<1>2. /\ b \in Seq(S) /\ Len(b) = Len(s) - k + 1
      /\ \A j \in 1..(Len(s) - k + 1) : b[j] = s[k + j - 1]
  BY <1>1
<1>3. t = a \o <<x>> \o b
  BY <1>0
<1> HIDE DEF a, b
<1> DEFINE c == a \o <<x>>
<1>4. /\ c \in Seq(S) /\ Len(c) = k
      /\ \A j \in 1..k : c[j] = IF j < k THEN a[j] ELSE x
  BY <1>1
<1>5. t = c \o b
  BY <1>3
<1> HIDE DEF c
<1>6. /\ t \in Seq(S) /\ Len(t) = k + Len(b)
      /\ \A j \in 1..(k + Len(b)) : t[j] = IF j <= k THEN c[j] ELSE b[j - k]
  <2>1. /\ c \o b \in Seq(S) /\ Len(c \o b) = Len(c) + Len(b)
        /\ \A j \in 1..(Len(c) + Len(b)) :
             (c \o b)[j] = IF j <= Len(c) THEN c[j] ELSE b[j - Len(c)]
    <3>1. c \in Seq(S) /\ b \in Seq(S)
      BY <1>2, <1>4
    <3> QED
      BY <3>1, CatText
  <2> QED
    BY <1>4, <1>5, <2>1
<1>7. DOMAIN t = 1..(Len(s) + 1)
  BY <1>1, <1>2, <1>6
<1>8. t[k] = x
  <2>1. k \in 1..(k + Len(b)) /\ k <= k /\ k \in 1..k /\ ~(k < k)
    BY <1>1, <1>2
  <2> QED
    BY <1>4, <1>6, <2>1
<1>9. ASSUME NEW j \in 1..(k - 1) PROVE t[j] = s[j]
  <2>1. j \in 1..(k + Len(b)) /\ j <= k /\ j \in 1..k /\ j < k
    BY <1>1, <1>2
  <2> QED
    BY <1>1, <1>4, <1>6, <2>1
<1>10. ASSUME NEW j \in k..Len(s) PROVE t[j + 1] = s[j]
  <2>1. PICK m \in 1..(k + Len(b)) : m = j + 1 /\ ~(m <= k)
    <3>1. j + 1 \in 1..(k + Len(b)) /\ ~(j + 1 <= k)
      BY <1>1, <1>2
    <3> QED
      BY <3>1
  <2>2. PICK n \in 1..(Len(s) - k + 1) : n = m - k /\ k + n - 1 = j
    <3>1. m - k \in 1..(Len(s) - k + 1) /\ k + (m - k) - 1 = j
      BY <1>1, <2>1
    <3> QED
      BY <3>1
  <2>3. b[n] = s[j]
    BY <1>2, <2>2
  <2>4. t[m] = b[n]
    BY <1>6, <2>1, <2>2
  <2> QED
    BY <2>1, <2>3, <2>4
<1>11. /\ t \in Seq(S) /\ DOMAIN t = 1..(Len(s) + 1) /\ DOMAIN s = 1..Len(s) /\ Len(s) \in Nat
       /\ t[k] = x
       /\ \A j \in 1..(k - 1) : t[j] = s[j]
       /\ Later(t, s, k)
  <2>1. Later(t, s, k)
    BY <1>10 DEF Later
  <2> QED
    BY <1>1, <1>6, <1>7, <1>8, <1>9, <2>1
<1> QED
  BY <1>11 DEF t

\* The ticket lines with one more.
LEMMA AppendLines ==
  ASSUME NEW S, NEW s \in Seq(S), NEW x \in S
  PROVE  /\ Append(s, x) \in Seq(S) /\ DOMAIN Append(s, x) = 1..(Len(s) + 1)
         /\ DOMAIN s = 1..Len(s) /\ Len(s) \in Nat
         /\ \A j \in DOMAIN s : Append(s, x)[j] = s[j]
         /\ Append(s, x)[Len(s) + 1] = x
OBVIOUS

\* The ranks of the words of an item.
LEMMA Ranks ==
  /\ \A w \in FirstWord : Rank(w) = 1
  /\ Rank("name") = 2 /\ Rank("unit") = 3 /\ Rank("kg") = 3 /\ Rank("row_kg") = 3
  /\ Rank("ppk") = 4 /\ Rank("total") = 5
<1>1. ASSUME NEW w \in FirstWord PROVE Rank(w) = 1
  BY DEF Rank, FirstWord
<1>2. Rank("name") = 2
  BY DEF Rank, FirstWord
<1>3. Rank("unit") = 3 /\ Rank("kg") = 3 /\ Rank("row_kg") = 3
  BY DEF Rank, FirstWord
<1>4. Rank("ppk") = 4
  BY DEF Rank, FirstWord
<1>5. Rank("total") = 5
  BY DEF Rank, FirstWord
<1> QED
  BY <1>1, <1>2, <1>3, <1>4, <1>5

\* What is printed for an item: its words, each once, in order of their ranks.
LEMMA PrintedText ==
  ASSUME NEW k \in Kind, NEW i \in 1..MaxItems
  PROVE  /\ Printed(k, i) \in Seq([is : Word, of : 0..MaxItems])
         /\ Printed(k, i) # <<>>
         /\ \A j \in DOMAIN Printed(k, i) :
              Printed(k, i)[j].of = i /\ Printed(k, i)[j].is \in Words(layout, k)
         /\ \A w \in Words(layout, k) : \E j \in DOMAIN Printed(k, i) :
              Printed(k, i)[j] = Line(w, i)
         /\ \A j, m \in DOMAIN Printed(k, i) : j < m =>
              Rank(Printed(k, i)[j].is) < Rank(Printed(k, i)[m].is)
         /\ \A j \in DOMAIN Printed(k, i) : Printed(k, i)[j].is = "kg" =>
              \E m \in DOMAIN Printed(k, i) : m > j /\ Printed(k, i)[m].is = "ppk"
<1> DEFINE s == Printed(k, i)
<1>0. \A w \in Word : Line(w, i) \in [is : Word, of : 0..MaxItems] /\ Line(w, i).is = w /\
        Line(w, i).of = i
  BY BoundAssumption DEF Line
<1>1. CASE layout = "cells"
  <2>1. CASE k = "one"
    <3>1. s = <<Line("1", i), Line("name", i), Line("unit", i)>>
      BY <1>1, <2>1 DEF Printed
    <3>2. Words(layout, k) = {"1", "name", "unit"} /\ Words(layout, k) \subseteq Word
      BY <1>1, <2>1 DEF Words, Word
    <3>0. /\ Line("1", i) \in [is : Word, of : 0..MaxItems]
          /\ Line("name", i) \in [is : Word, of : 0..MaxItems]
          /\ Line("unit", i) \in [is : Word, of : 0..MaxItems]
      BY <1>0, <3>2
    <3>a. s \in Seq([is : Word, of : 0..MaxItems])
      BY <3>0, <3>1
    <3>b. DOMAIN s = 1..3 /\ s # <<>>
      BY <3>1
    <3>c. s[1] = Line("1", i) /\ s[2] = Line("name", i) /\ s[3] = Line("unit", i)
      BY <3>1
    <3>3. /\ s \in Seq([is : Word, of : 0..MaxItems]) /\ DOMAIN s = 1..3 /\ s # <<>>
          /\ s[1] = Line("1", i) /\ s[2] = Line("name", i) /\ s[3] = Line("unit", i)
      BY <3>a, <3>b, <3>c
    <3> HIDE DEF s
    <3>4. \A j \in 1..3 : j = 1 \/ j = 2 \/ j = 3
      OBVIOUS
    <3>5. \A j \in DOMAIN s : s[j].of = i /\ s[j].is \in Words(layout, k)
      BY <1>0, <3>2, <3>3, <3>4
    <3>6. \A w \in Words(layout, k) : \E j \in DOMAIN s : s[j] = Line(w, i)
      <4>1. 1 \in DOMAIN s /\ 2 \in DOMAIN s /\ 3 \in DOMAIN s
        BY <3>3
      <4> QED
        BY <3>2, <3>3, <4>1
    <3>9. \A j \in DOMAIN s : Rank(s[j].is) = j
      BY <1>0, <3>2, <3>3, <3>4, Ranks DEF FirstWord
    <3>7. \A j, m \in DOMAIN s : j < m => Rank(s[j].is) < Rank(s[m].is)
      BY <3>3, <3>9
    <3>8. \A j \in DOMAIN s : s[j].is = "kg" => \E m \in DOMAIN s : m > j /\ s[m].is = "ppk"
      BY <1>0, <3>2, <3>3, <3>4
    <3> QED
      BY <3>3, <3>5, <3>6, <3>7, <3>8 DEF s
  <2>2. CASE k = "many"
    <3>1. s = <<Line("n", i), Line("name", i), Line("unit", i), Line("total", i)>>
      BY <1>1, <2>2 DEF Printed
    <3>2. Words(layout, k) = {"n", "name", "unit", "total"} /\ Words(layout, k) \subseteq Word
      BY <1>1, <2>2 DEF Words, Word
    <3>0. /\ Line("n", i) \in [is : Word, of : 0..MaxItems]
          /\ Line("name", i) \in [is : Word, of : 0..MaxItems]
          /\ Line("unit", i) \in [is : Word, of : 0..MaxItems]
          /\ Line("total", i) \in [is : Word, of : 0..MaxItems]
      BY <1>0, <3>2
    <3>a. s \in Seq([is : Word, of : 0..MaxItems])
      BY <3>0, <3>1
    <3>b. DOMAIN s = 1..4 /\ s # <<>>
      BY <3>1
    <3>c. s[1] = Line("n", i) /\ s[2] = Line("name", i) /\ s[3] = Line("unit", i) /\
            s[4] = Line("total", i)
      BY <3>1
    <3>3. /\ s \in Seq([is : Word, of : 0..MaxItems]) /\ DOMAIN s = 1..4 /\ s # <<>>
          /\ s[1] = Line("n", i) /\ s[2] = Line("name", i) /\ s[3] = Line("unit", i) /\
               s[4] = Line("total", i)
      BY <3>a, <3>b, <3>c
    <3> HIDE DEF s
    <3>4. \A j \in 1..4 : j = 1 \/ j = 2 \/ j = 3 \/ j = 4
      OBVIOUS
    <3>5. \A j \in DOMAIN s : s[j].of = i /\ s[j].is \in Words(layout, k)
      BY <1>0, <3>2, <3>3, <3>4
    <3>6. \A w \in Words(layout, k) : \E j \in DOMAIN s : s[j] = Line(w, i)
      <4>1. 1 \in DOMAIN s /\ 2 \in DOMAIN s /\ 3 \in DOMAIN s /\ 4 \in DOMAIN s
        BY <3>3
      <4> QED
        BY <3>2, <3>3, <4>1
    <3>9. \A j \in DOMAIN s : Rank(s[j].is) = IF j = 4 THEN 5 ELSE j
      BY <1>0, <3>2, <3>3, <3>4, Ranks DEF FirstWord
    <3>7. \A j, m \in DOMAIN s : j < m => Rank(s[j].is) < Rank(s[m].is)
      BY <3>3, <3>9
    <3>8. \A j \in DOMAIN s : s[j].is = "kg" => \E m \in DOMAIN s : m > j /\ s[m].is = "ppk"
      BY <1>0, <3>2, <3>3, <3>4
    <3> QED
      BY <3>3, <3>5, <3>6, <3>7, <3>8 DEF s
  <2>3. CASE k = "weight"
    <3>1. s = <<Line("1", i), Line("name", i), Line("kg", i), Line("ppk", i), Line("total", i)>>
      BY <1>1, <2>3 DEF Printed
    <3>2. Words(layout, k) = {"1", "name", "kg", "ppk", "total"} /\
            Words(layout, k) \subseteq Word
      BY <1>1, <2>3 DEF Words, Word
    <3>0. /\ Line("1", i) \in [is : Word, of : 0..MaxItems]
          /\ Line("name", i) \in [is : Word, of : 0..MaxItems]
          /\ Line("kg", i) \in [is : Word, of : 0..MaxItems]
          /\ Line("ppk", i) \in [is : Word, of : 0..MaxItems]
          /\ Line("total", i) \in [is : Word, of : 0..MaxItems]
      BY <1>0, <3>2
    <3>a. s \in Seq([is : Word, of : 0..MaxItems])
      BY <3>0, <3>1
    <3>b. DOMAIN s = 1..5 /\ s # <<>>
      BY <3>1
    <3>c. s[1] = Line("1", i) /\ s[2] = Line("name", i) /\ s[3] = Line("kg", i) /\
            s[4] = Line("ppk", i) /\ s[5] = Line("total", i)
      BY <3>1
    <3>3. /\ s \in Seq([is : Word, of : 0..MaxItems]) /\ DOMAIN s = 1..5 /\ s # <<>>
          /\ s[1] = Line("1", i) /\ s[2] = Line("name", i) /\ s[3] = Line("kg", i) /\
               s[4] = Line("ppk", i) /\ s[5] = Line("total", i)
      BY <3>a, <3>b, <3>c
    <3> HIDE DEF s
    <3>4. \A j \in 1..5 : j = 1 \/ j = 2 \/ j = 3 \/ j = 4 \/ j = 5
      OBVIOUS
    <3>5. \A j \in DOMAIN s : s[j].of = i /\ s[j].is \in Words(layout, k)
      BY <1>0, <3>2, <3>3, <3>4
    <3>6. \A w \in Words(layout, k) : \E j \in DOMAIN s : s[j] = Line(w, i)
      <4>1. 1 \in DOMAIN s /\ 2 \in DOMAIN s /\ 3 \in DOMAIN s /\ 4 \in DOMAIN s /\
              5 \in DOMAIN s
        BY <3>3
      <4> QED
        BY <3>2, <3>3, <4>1
    <3>9. \A j \in DOMAIN s : Rank(s[j].is) = j
      BY <1>0, <3>2, <3>3, <3>4, Ranks DEF FirstWord
    <3>7. \A j, m \in DOMAIN s : j < m => Rank(s[j].is) < Rank(s[m].is)
      BY <3>3, <3>9
    <3>8. \A j \in DOMAIN s : s[j].is = "kg" => \E m \in DOMAIN s : m > j /\ s[m].is = "ppk"
      BY <1>0, <3>2, <3>3, <3>4
    <3> QED
      BY <3>3, <3>5, <3>6, <3>7, <3>8 DEF s
  <2> QED
    BY <2>1, <2>2, <2>3 DEF Kind
<1>2. CASE layout # "cells"
  <2>1. CASE k = "one"
    <3>1. s = <<Line("row_1", i)>>
      BY <1>2, <2>1 DEF Printed
    <3>2. Words(layout, k) = {"row_1"} /\ Words(layout, k) \subseteq Word
      BY <1>2, <2>1 DEF Words, Word
    <3>0. /\ Line("row_1", i) \in [is : Word, of : 0..MaxItems]
      BY <1>0, <3>2
    <3>a. s \in Seq([is : Word, of : 0..MaxItems])
      BY <3>0, <3>1
    <3>b. DOMAIN s = 1..1 /\ s # <<>>
      BY <3>1
    <3>c. s[1] = Line("row_1", i)
      BY <3>1
    <3>3. /\ s \in Seq([is : Word, of : 0..MaxItems]) /\ DOMAIN s = 1..1 /\ s # <<>>
          /\ s[1] = Line("row_1", i)
      BY <3>a, <3>b, <3>c
    <3> HIDE DEF s
    <3>4. \A j \in 1..1 : j = 1
      OBVIOUS
    <3>5. \A j \in DOMAIN s : s[j].of = i /\ s[j].is \in Words(layout, k)
      BY <1>0, <3>2, <3>3, <3>4
    <3>6. \A w \in Words(layout, k) : \E j \in DOMAIN s : s[j] = Line(w, i)
      <4>1. 1 \in DOMAIN s
        BY <3>3
      <4> QED
        BY <3>2, <3>3, <4>1
    <3>9. \A j \in DOMAIN s : Rank(s[j].is) = IF j = 2 THEN 3 ELSE 1
      BY <1>0, <3>2, <3>3, <3>4, Ranks DEF FirstWord
    <3>7. \A j, m \in DOMAIN s : j < m => Rank(s[j].is) < Rank(s[m].is)
      BY <3>3, <3>9
    <3>8. \A j \in DOMAIN s : s[j].is = "kg" => \E m \in DOMAIN s : m > j /\ s[m].is = "ppk"
      BY <1>0, <3>2, <3>3, <3>4
    <3> QED
      BY <3>3, <3>5, <3>6, <3>7, <3>8 DEF s
  <2>2. CASE k = "many"
    <3>1. s = <<Line("row_n", i)>>
      BY <1>2, <2>2 DEF Printed
    <3>2. Words(layout, k) = {"row_n"} /\ Words(layout, k) \subseteq Word
      BY <1>2, <2>2 DEF Words, Word
    <3>0. /\ Line("row_n", i) \in [is : Word, of : 0..MaxItems]
      BY <1>0, <3>2
    <3>a. s \in Seq([is : Word, of : 0..MaxItems])
      BY <3>0, <3>1
    <3>b. DOMAIN s = 1..1 /\ s # <<>>
      BY <3>1
    <3>c. s[1] = Line("row_n", i)
      BY <3>1
    <3>3. /\ s \in Seq([is : Word, of : 0..MaxItems]) /\ DOMAIN s = 1..1 /\ s # <<>>
          /\ s[1] = Line("row_n", i)
      BY <3>a, <3>b, <3>c
    <3> HIDE DEF s
    <3>4. \A j \in 1..1 : j = 1
      OBVIOUS
    <3>5. \A j \in DOMAIN s : s[j].of = i /\ s[j].is \in Words(layout, k)
      BY <1>0, <3>2, <3>3, <3>4
    <3>6. \A w \in Words(layout, k) : \E j \in DOMAIN s : s[j] = Line(w, i)
      <4>1. 1 \in DOMAIN s
        BY <3>3
      <4> QED
        BY <3>2, <3>3, <4>1
    <3>9. \A j \in DOMAIN s : Rank(s[j].is) = IF j = 2 THEN 3 ELSE 1
      BY <1>0, <3>2, <3>3, <3>4, Ranks DEF FirstWord
    <3>7. \A j, m \in DOMAIN s : j < m => Rank(s[j].is) < Rank(s[m].is)
      BY <3>3, <3>9
    <3>8. \A j \in DOMAIN s : s[j].is = "kg" => \E m \in DOMAIN s : m > j /\ s[m].is = "ppk"
      BY <1>0, <3>2, <3>3, <3>4
    <3> QED
      BY <3>3, <3>5, <3>6, <3>7, <3>8 DEF s
  <2>3. CASE k = "weight"
    <3>1. s = <<Line("row_name", i), Line("row_kg", i)>>
      BY <1>2, <2>3 DEF Printed
    <3>2. Words(layout, k) = {"row_name", "row_kg"} /\ Words(layout, k) \subseteq Word
      BY <1>2, <2>3 DEF Words, Word
    <3>0. /\ Line("row_name", i) \in [is : Word, of : 0..MaxItems]
          /\ Line("row_kg", i) \in [is : Word, of : 0..MaxItems]
      BY <1>0, <3>2
    <3>a. s \in Seq([is : Word, of : 0..MaxItems])
      BY <3>0, <3>1
    <3>b. DOMAIN s = 1..2 /\ s # <<>>
      BY <3>1
    <3>c. s[1] = Line("row_name", i) /\ s[2] = Line("row_kg", i)
      BY <3>1
    <3>3. /\ s \in Seq([is : Word, of : 0..MaxItems]) /\ DOMAIN s = 1..2 /\ s # <<>>
          /\ s[1] = Line("row_name", i) /\ s[2] = Line("row_kg", i)
      BY <3>a, <3>b, <3>c
    <3> HIDE DEF s
    <3>4. \A j \in 1..2 : j = 1 \/ j = 2
      OBVIOUS
    <3>5. \A j \in DOMAIN s : s[j].of = i /\ s[j].is \in Words(layout, k)
      BY <1>0, <3>2, <3>3, <3>4
    <3>6. \A w \in Words(layout, k) : \E j \in DOMAIN s : s[j] = Line(w, i)
      <4>1. 1 \in DOMAIN s /\ 2 \in DOMAIN s
        BY <3>3
      <4> QED
        BY <3>2, <3>3, <4>1
    <3>9. \A j \in DOMAIN s : Rank(s[j].is) = IF j = 2 THEN 3 ELSE 1
      BY <1>0, <3>2, <3>3, <3>4, Ranks DEF FirstWord
    <3>7. \A j, m \in DOMAIN s : j < m => Rank(s[j].is) < Rank(s[m].is)
      BY <3>3, <3>9
    <3>8. \A j \in DOMAIN s : s[j].is = "kg" => \E m \in DOMAIN s : m > j /\ s[m].is = "ppk"
      BY <1>0, <3>2, <3>3, <3>4
    <3> QED
      BY <3>3, <3>5, <3>6, <3>7, <3>8 DEF s
  <2> QED
    BY <2>1, <2>2, <2>3 DEF Kind
<1> QED
  BY <1>1, <1>2

\* The line that is due when these are left.
LEMMA DueValues ==
  /\ DueOf({}) = "none"
  /\ DueOf({"row_1"}) = "first"
  /\ DueOf({"row_kg"}) = "row_kg"
  /\ DueOf({"row_n"}) = "first"
  /\ DueOf({"total"}) = "total"
  /\ DueOf({"unit"}) = "price"
  /\ DueOf({"name", "unit"}) = "name"
  /\ DueOf({"ppk", "total"}) = "ppk"
  /\ DueOf({"row_name", "row_kg"}) = "first"
  /\ DueOf({"unit", "total"}) = "price"
  /\ DueOf({"1", "name", "unit"}) = "first"
  /\ DueOf({"kg", "ppk", "total"}) = "price"
  /\ DueOf({"name", "unit", "total"}) = "name"
  /\ DueOf({"n", "name", "unit", "total"}) = "first"
  /\ DueOf({"name", "kg", "ppk", "total"}) = "name"
  /\ DueOf({"1", "name", "kg", "ppk", "total"}) = "first"
<1>1. DueOf({}) = "none"
  BY DEF DueOf, FirstWord
<1>2. DueOf({"row_1"}) = "first"
  BY DEF DueOf, FirstWord
<1>3. DueOf({"row_kg"}) = "row_kg"
  BY DEF DueOf, FirstWord
<1>4. DueOf({"row_n"}) = "first"
  BY DEF DueOf, FirstWord
<1>5. DueOf({"total"}) = "total"
  BY DEF DueOf, FirstWord
<1>6. DueOf({"unit"}) = "price"
  BY DEF DueOf, FirstWord
<1>7. DueOf({"name", "unit"}) = "name"
  BY DEF DueOf, FirstWord
<1>8. DueOf({"ppk", "total"}) = "ppk"
  BY DEF DueOf, FirstWord
<1>9. DueOf({"row_name", "row_kg"}) = "first"
  BY DEF DueOf, FirstWord
<1>10. DueOf({"unit", "total"}) = "price"
  BY DEF DueOf, FirstWord
<1>11. DueOf({"1", "name", "unit"}) = "first"
  BY DEF DueOf, FirstWord
<1>12. DueOf({"kg", "ppk", "total"}) = "price"
  BY DEF DueOf, FirstWord
<1>13. DueOf({"name", "unit", "total"}) = "name"
  BY DEF DueOf, FirstWord
<1>14. DueOf({"n", "name", "unit", "total"}) = "first"
  BY DEF DueOf, FirstWord
<1>15. DueOf({"name", "kg", "ppk", "total"}) = "name"
  BY DEF DueOf, FirstWord
<1>16. DueOf({"1", "name", "kg", "ppk", "total"}) = "first"
  BY DEF DueOf, FirstWord
<1> QED
  BY <1>1, <1>2, <1>3, <1>4, <1>5, <1>6, <1>7, <1>8, <1>9, <1>10, <1>11, <1>12, <1>13, <1>14,
    <1>15, <1>16

\* While d is due the word w is read, and e is due then, of an item of kind k.
Passes(l, k, d, w, e) ==
  IF l = "cells"
  THEN \/ d = "first" /\ w = (IF k = "many" THEN "n" ELSE "1") /\ e = "name"
       \/ d = "name" /\ w = "name" /\ e = "price"
       \/ d = "price" /\ k = "one" /\ w = "unit" /\ e = "none"
       \/ d = "price" /\ k = "many" /\ w = "unit" /\ e = "total"
       \/ d = "price" /\ k = "weight" /\ w = "kg" /\ e = "ppk"
       \/ d = "ppk" /\ k = "weight" /\ w = "ppk" /\ e = "total"
       \/ d = "total" /\ k # "one" /\ w = "total" /\ e = "none"
  ELSE \/ d = "first" /\ k = "one" /\ w = "row_1" /\ e = "none"
       \/ d = "first" /\ k = "many" /\ w = "row_n" /\ e = "none"
       \/ d = "first" /\ k = "weight" /\ w = "row_name" /\ e = "row_kg"
       \/ d = "row_kg" /\ k = "weight" /\ w = "row_kg" /\ e = "none"

\* What is due when the last lines of an item are left, and after the first of them.
LEMMA DueWords ==
  ASSUME NEW l \in {"cells", "rows"}, NEW k \in Kind, NEW r \in Nat, NEW a,
         a = {w \in Words(l, k) : Rank(w) >= r}
  PROVE  /\ DueOf(a) \in {"first", "name", "price", "ppk", "total", "row_kg", "none"}
         /\ a \cap FirstWord # {} <=> DueOf(a) = "first"
         /\ a = {} <=> DueOf(a) = "none"
         /\ \A w \in a : (\A v \in a : v = w \/ Rank(w) < Rank(v)) =>
              Passes(l, k, DueOf(a), w, DueOf(a \ {w}))
<1>1. CASE l = "cells"
  <2>1. CASE k = "one"
    <3>1. Words(l, k) = {"1", "name", "unit"}
      BY <1>1, <2>1 DEF Words
    <3>2. a = {"1", "name", "unit"} \/ a = {"name", "unit"} \/ a = {"unit"} \/ a = {}
      BY <3>1, Ranks DEF FirstWord
    <3>3. CASE a = {"1", "name", "unit"}
      <4>1. \A w \in a : (\A v \in a : v = w \/ Rank(w) < Rank(v)) =>
              w = "1" /\ a \ {w} = {"name", "unit"}
        BY <3>3, Ranks DEF FirstWord
      <4>2. a # {} /\ (a \cap FirstWord # {} <=> DueOf(a) = "first")
        BY <3>3, DueValues DEF FirstWord
      <4>3. DueOf({"1", "name", "unit"}) = "first" /\ DueOf({"name", "unit"}) = "name"
        BY DueValues
      <4> QED
        BY <1>1, <2>1, <3>3, <4>1, <4>2, <4>3 DEF Passes
    <3>4. CASE a = {"name", "unit"}
      <4>1. \A w \in a : (\A v \in a : v = w \/ Rank(w) < Rank(v)) =>
              w = "name" /\ a \ {w} = {"unit"}
        BY <3>4, Ranks DEF FirstWord
      <4>2. a # {} /\ (a \cap FirstWord # {} <=> DueOf(a) = "first")
        BY <3>4, DueValues DEF FirstWord
      <4>3. DueOf({"name", "unit"}) = "name" /\ DueOf({"unit"}) = "price"
        BY DueValues
      <4> QED
        BY <1>1, <2>1, <3>4, <4>1, <4>2, <4>3 DEF Passes
    <3>5. CASE a = {"unit"}
      <4>1. \A w \in a : (\A v \in a : v = w \/ Rank(w) < Rank(v)) => w = "unit" /\ a \ {w} = {}
        BY <3>5, Ranks DEF FirstWord
      <4>2. a # {} /\ (a \cap FirstWord # {} <=> DueOf(a) = "first")
        BY <3>5, DueValues DEF FirstWord
      <4>3. DueOf({"unit"}) = "price" /\ DueOf({}) = "none"
        BY DueValues
      <4> QED
        BY <1>1, <2>1, <3>5, <4>1, <4>2, <4>3 DEF Passes
    <3>6. CASE a = {}
      BY <3>6, DueValues
    <3> QED
      BY <3>2, <3>3, <3>4, <3>5, <3>6
  <2>2. CASE k = "many"
    <3>1. Words(l, k) = {"n", "name", "unit", "total"}
      BY <1>1, <2>2 DEF Words
    <3>2. a = {"n", "name", "unit", "total"} \/ a = {"name", "unit", "total"} \/
            a = {"unit", "total"} \/ a = {"total"} \/ a = {}
      BY <3>1, Ranks DEF FirstWord
    <3>3. CASE a = {"n", "name", "unit", "total"}
      <4>1. \A w \in a : (\A v \in a : v = w \/ Rank(w) < Rank(v)) =>
              w = "n" /\ a \ {w} = {"name", "unit", "total"}
        BY <3>3, Ranks DEF FirstWord
      <4>2. a # {} /\ (a \cap FirstWord # {} <=> DueOf(a) = "first")
        BY <3>3, DueValues DEF FirstWord
      <4>3. DueOf({"n", "name", "unit", "total"}) = "first" /\
              DueOf({"name", "unit", "total"}) = "name"
        BY DueValues
      <4> QED
        BY <1>1, <2>2, <3>3, <4>1, <4>2, <4>3 DEF Passes
    <3>4. CASE a = {"name", "unit", "total"}
      <4>1. \A w \in a : (\A v \in a : v = w \/ Rank(w) < Rank(v)) =>
              w = "name" /\ a \ {w} = {"unit", "total"}
        BY <3>4, Ranks DEF FirstWord
      <4>2. a # {} /\ (a \cap FirstWord # {} <=> DueOf(a) = "first")
        BY <3>4, DueValues DEF FirstWord
      <4>3. DueOf({"name", "unit", "total"}) = "name" /\ DueOf({"unit", "total"}) = "price"
        BY DueValues
      <4> QED
        BY <1>1, <2>2, <3>4, <4>1, <4>2, <4>3 DEF Passes
    <3>5. CASE a = {"unit", "total"}
      <4>1. \A w \in a : (\A v \in a : v = w \/ Rank(w) < Rank(v)) =>
              w = "unit" /\ a \ {w} = {"total"}
        BY <3>5, Ranks DEF FirstWord
      <4>2. a # {} /\ (a \cap FirstWord # {} <=> DueOf(a) = "first")
        BY <3>5, DueValues DEF FirstWord
      <4>3. DueOf({"unit", "total"}) = "price" /\ DueOf({"total"}) = "total"
        BY DueValues
      <4> QED
        BY <1>1, <2>2, <3>5, <4>1, <4>2, <4>3 DEF Passes
    <3>6. CASE a = {"total"}
      <4>1. \A w \in a : (\A v \in a : v = w \/ Rank(w) < Rank(v)) =>
              w = "total" /\ a \ {w} = {}
        BY <3>6, Ranks DEF FirstWord
      <4>2. a # {} /\ (a \cap FirstWord # {} <=> DueOf(a) = "first")
        BY <3>6, DueValues DEF FirstWord
      <4>3. DueOf({"total"}) = "total" /\ DueOf({}) = "none"
        BY DueValues
      <4> QED
        BY <1>1, <2>2, <3>6, <4>1, <4>2, <4>3 DEF Passes
    <3>7. CASE a = {}
      BY <3>7, DueValues
    <3> QED
      BY <3>2, <3>3, <3>4, <3>5, <3>6, <3>7
  <2>3. CASE k = "weight"
    <3>1. Words(l, k) = {"1", "name", "kg", "ppk", "total"}
      BY <1>1, <2>3 DEF Words
    <3>2. a = {"1", "name", "kg", "ppk", "total"} \/ a = {"name", "kg", "ppk", "total"} \/
            a = {"kg", "ppk", "total"} \/ a = {"ppk", "total"} \/ a = {"total"} \/ a = {}
      BY <3>1, Ranks DEF FirstWord
    <3>3. CASE a = {"1", "name", "kg", "ppk", "total"}
      <4>1. \A w \in a : (\A v \in a : v = w \/ Rank(w) < Rank(v)) =>
              w = "1" /\ a \ {w} = {"name", "kg", "ppk", "total"}
        BY <3>3, Ranks DEF FirstWord
      <4>2. a # {} /\ (a \cap FirstWord # {} <=> DueOf(a) = "first")
        BY <3>3, DueValues DEF FirstWord
      <4>3. DueOf({"1", "name", "kg", "ppk", "total"}) = "first" /\
              DueOf({"name", "kg", "ppk", "total"}) = "name"
        BY DueValues
      <4> QED
        BY <1>1, <2>3, <3>3, <4>1, <4>2, <4>3 DEF Passes
    <3>4. CASE a = {"name", "kg", "ppk", "total"}
      <4>1. \A w \in a : (\A v \in a : v = w \/ Rank(w) < Rank(v)) =>
              w = "name" /\ a \ {w} = {"kg", "ppk", "total"}
        BY <3>4, Ranks DEF FirstWord
      <4>2. a # {} /\ (a \cap FirstWord # {} <=> DueOf(a) = "first")
        BY <3>4, DueValues DEF FirstWord
      <4>3. DueOf({"name", "kg", "ppk", "total"}) = "name" /\
              DueOf({"kg", "ppk", "total"}) = "price"
        BY DueValues
      <4> QED
        BY <1>1, <2>3, <3>4, <4>1, <4>2, <4>3 DEF Passes
    <3>5. CASE a = {"kg", "ppk", "total"}
      <4>1. \A w \in a : (\A v \in a : v = w \/ Rank(w) < Rank(v)) =>
              w = "kg" /\ a \ {w} = {"ppk", "total"}
        BY <3>5, Ranks DEF FirstWord
      <4>2. a # {} /\ (a \cap FirstWord # {} <=> DueOf(a) = "first")
        BY <3>5, DueValues DEF FirstWord
      <4>3. DueOf({"kg", "ppk", "total"}) = "price" /\ DueOf({"ppk", "total"}) = "ppk"
        BY DueValues
      <4> QED
        BY <1>1, <2>3, <3>5, <4>1, <4>2, <4>3 DEF Passes
    <3>6. CASE a = {"ppk", "total"}
      <4>1. \A w \in a : (\A v \in a : v = w \/ Rank(w) < Rank(v)) =>
              w = "ppk" /\ a \ {w} = {"total"}
        BY <3>6, Ranks DEF FirstWord
      <4>2. a # {} /\ (a \cap FirstWord # {} <=> DueOf(a) = "first")
        BY <3>6, DueValues DEF FirstWord
      <4>3. DueOf({"ppk", "total"}) = "ppk" /\ DueOf({"total"}) = "total"
        BY DueValues
      <4> QED
        BY <1>1, <2>3, <3>6, <4>1, <4>2, <4>3 DEF Passes
    <3>7. CASE a = {"total"}
      <4>1. \A w \in a : (\A v \in a : v = w \/ Rank(w) < Rank(v)) =>
              w = "total" /\ a \ {w} = {}
        BY <3>7, Ranks DEF FirstWord
      <4>2. a # {} /\ (a \cap FirstWord # {} <=> DueOf(a) = "first")
        BY <3>7, DueValues DEF FirstWord
      <4>3. DueOf({"total"}) = "total" /\ DueOf({}) = "none"
        BY DueValues
      <4> QED
        BY <1>1, <2>3, <3>7, <4>1, <4>2, <4>3 DEF Passes
    <3>8. CASE a = {}
      BY <3>8, DueValues
    <3> QED
      BY <3>2, <3>3, <3>4, <3>5, <3>6, <3>7, <3>8
  <2> QED
    BY <2>1, <2>2, <2>3 DEF Kind
<1>2. CASE l = "rows"
  <2>1. CASE k = "one"
    <3>1. Words(l, k) = {"row_1"}
      BY <1>2, <2>1 DEF Words
    <3>2. a = {"row_1"} \/ a = {}
      BY <3>1, Ranks DEF FirstWord
    <3>3. CASE a = {"row_1"}
      <4>1. \A w \in a : (\A v \in a : v = w \/ Rank(w) < Rank(v)) =>
              w = "row_1" /\ a \ {w} = {}
        BY <3>3, Ranks DEF FirstWord
      <4>2. a # {} /\ (a \cap FirstWord # {} <=> DueOf(a) = "first")
        BY <3>3, DueValues DEF FirstWord
      <4>3. DueOf({"row_1"}) = "first" /\ DueOf({}) = "none"
        BY DueValues
      <4> QED
        BY <1>2, <2>1, <3>3, <4>1, <4>2, <4>3 DEF Passes
    <3>4. CASE a = {}
      BY <3>4, DueValues
    <3> QED
      BY <3>2, <3>3, <3>4
  <2>2. CASE k = "many"
    <3>1. Words(l, k) = {"row_n"}
      BY <1>2, <2>2 DEF Words
    <3>2. a = {"row_n"} \/ a = {}
      BY <3>1, Ranks DEF FirstWord
    <3>3. CASE a = {"row_n"}
      <4>1. \A w \in a : (\A v \in a : v = w \/ Rank(w) < Rank(v)) =>
              w = "row_n" /\ a \ {w} = {}
        BY <3>3, Ranks DEF FirstWord
      <4>2. a # {} /\ (a \cap FirstWord # {} <=> DueOf(a) = "first")
        BY <3>3, DueValues DEF FirstWord
      <4>3. DueOf({"row_n"}) = "first" /\ DueOf({}) = "none"
        BY DueValues
      <4> QED
        BY <1>2, <2>2, <3>3, <4>1, <4>2, <4>3 DEF Passes
    <3>4. CASE a = {}
      BY <3>4, DueValues
    <3> QED
      BY <3>2, <3>3, <3>4
  <2>3. CASE k = "weight"
    <3>1. Words(l, k) = {"row_name", "row_kg"}
      BY <1>2, <2>3 DEF Words
    <3>2. a = {"row_name", "row_kg"} \/ a = {"row_kg"} \/ a = {}
      BY <3>1, Ranks DEF FirstWord
    <3>3. CASE a = {"row_name", "row_kg"}
      <4>1. \A w \in a : (\A v \in a : v = w \/ Rank(w) < Rank(v)) =>
              w = "row_name" /\ a \ {w} = {"row_kg"}
        BY <3>3, Ranks DEF FirstWord
      <4>2. a # {} /\ (a \cap FirstWord # {} <=> DueOf(a) = "first")
        BY <3>3, DueValues DEF FirstWord
      <4>3. DueOf({"row_name", "row_kg"}) = "first" /\ DueOf({"row_kg"}) = "row_kg"
        BY DueValues
      <4> QED
        BY <1>2, <2>3, <3>3, <4>1, <4>2, <4>3 DEF Passes
    <3>4. CASE a = {"row_kg"}
      <4>1. \A w \in a : (\A v \in a : v = w \/ Rank(w) < Rank(v)) =>
              w = "row_kg" /\ a \ {w} = {}
        BY <3>4, Ranks DEF FirstWord
      <4>2. a # {} /\ (a \cap FirstWord # {} <=> DueOf(a) = "first")
        BY <3>4, DueValues DEF FirstWord
      <4>3. DueOf({"row_kg"}) = "row_kg" /\ DueOf({}) = "none"
        BY DueValues
      <4> QED
        BY <1>2, <2>3, <3>4, <4>1, <4>2, <4>3 DEF Passes
    <3>5. CASE a = {}
      BY <3>5, DueValues
    <3> QED
      BY <3>2, <3>3, <3>4, <3>5
  <2> QED
    BY <2>1, <2>2, <2>3 DEF Kind
<1> QED
  BY <1>1, <1>2

\* The line that is read is one of those a text may hold.
LEMMA HeadFits ==
  ASSUME ParserInv, text # <<>>
  PROVE  /\ Head(text) \in [is : Word, of : 0..MaxItems]
         /\ \/ Head(text).of = 0 /\ Head(text).is \in Stray
            \/ Head(text).of = 0 /\ Head(text).is \in Heading(layout) /\ Here = 0
            \/ Head(text).of = Here /\ Here > 0 /\ Head(text).is \in Words(layout, kinds[Here])
<1> DEFINE S == [is : Word, of : 0..MaxItems]
<1>1. text \in Seq(S) /\ LinesFit
  BY DEF ParserInv, ParserTypeOK
<1>2. DOMAIN text = 1..Len(text) /\ Len(text) \in Nat /\ Len(text) > 0
      /\ Head(text) = text[1] /\ Head(text) \in S
  BY <1>1, TailText
<1>3. 1 \in DOMAIN text
  BY <1>2
<1> QED
  BY <1>1, <1>2, <1>3 DEF LinesFit

\* The lines that remain fit the items still, and a weight is still followed by its
\* price per kg.
LEMMA TailFits ==
  ASSUME ParserInv, text # <<>>, text' = Tail(text),
           UNCHANGED <<layout, kinds, damage, damaged, broken>>
  PROVE  /\ text' \in Seq([is : Word, of : 0..MaxItems])
         /\ LinesFit' /\ KgFits'
         /\ \A x : (\E j \in DOMAIN text : text[j] = x) =>
              x = Head(text) \/ \E j \in DOMAIN text' : text'[j] = x
         /\ (\E j \in DOMAIN text : text[j].is = "ppk") =>
              Head(text).is = "ppk" \/ \E j \in DOMAIN text' : text'[j].is = "ppk"
<1> DEFINE S == [is : Word, of : 0..MaxItems]
<1>1. text \in Seq(S) /\ LinesFit /\ KgFits
  BY DEF ParserInv, ParserTypeOK
<1>2. /\ text' \in Seq(S) /\ Len(text') = Len(text) - 1 /\ Len(text) \in Nat /\ Len(text) > 0
      /\ DOMAIN text' = 1..(Len(text) - 1) /\ DOMAIN text = 1..Len(text)
      /\ \A j \in DOMAIN text' : text'[j] = text[j + 1]
      /\ Head(text) = text[1]
  BY <1>1, TailText
<1>3. \A j \in DOMAIN text' : j + 1 \in DOMAIN text /\ j + 1 > 1
  BY <1>2
<1>4. \A j \in DOMAIN text : j > 1 => j - 1 \in DOMAIN text' /\ text'[j - 1] = text[j]
  BY <1>2
<1>5. LinesFit'
  BY <1>1, <1>2, <1>3 DEF LinesFit, Here
<1>6. KgFits'
  <2>1. SUFFICES ASSUME NEW j \in DOMAIN text', text'[j].is = "kg", Here \notin broken
                 PROVE  \E m \in DOMAIN text' : m > j /\ text'[m].is = "ppk"
    BY DEF KgFits, Here
  <2>2. PICK m \in DOMAIN text : m > j + 1 /\ text[m].is = "ppk"
    BY <1>1, <1>2, <1>3, <2>1 DEF KgFits
  <2>3. m - 1 \in DOMAIN text' /\ m - 1 > j /\ text'[m - 1] = text[m]
    BY <1>2, <1>4, <2>2
  <2> QED
    BY <2>2, <2>3
<1>7. \A j \in DOMAIN text : j = 1 \/ j > 1
  BY <1>2
<1> QED
  BY <1>2, <1>4, <1>5, <1>6, <1>7

\* What the next line of an item without damage may be.
LEMMA TailWhole ==
  ASSUME ParserInv, text # <<>>, text' = Tail(text),
           UNCHANGED <<layout, kinds, damage, damaged, broken>>,
         Here > 0, Unharmed
  PROVE  /\ TextWhole'
         /\ \/ /\ Head(text).of = Here /\ Head(text).is \in Left
               /\ Left' = Left \ {Head(text).is}
               /\ \A w \in Left : w = Head(text).is \/ Rank(Head(text).is) < Rank(w)
            \/ /\ Head(text).of = 0 /\ Left' = Left
               /\ \/ Head(text).is = "blank"
                  \/ Head(text).is = "other" /\ Left \cap FirstWord # {}
                  \/ Head(text).is = "TOTAL" /\ Left = {}
<1> DEFINE S == [is : Word, of : 0..MaxItems]
           l == Head(text)
           W == Words(layout, kinds[Here])
<1>1. text \in Seq(S) /\ LinesFit /\ TextWhole
  BY DEF ParserInv, ParserTypeOK
<1>2. /\ text' \in Seq(S) /\ Len(text') = Len(text) - 1 /\ Len(text) \in Nat /\ Len(text) > 0
      /\ DOMAIN text' = 1..(Len(text) - 1) /\ DOMAIN text = 1..Len(text)
      /\ \A j \in DOMAIN text' : text'[j] = text[j + 1]
      /\ l = text[1] /\ 1 \in DOMAIN text /\ l \in S
  <2>1. Len(text) \in Nat /\ Len(text) > 0 /\ DOMAIN text = 1..Len(text) /\ l = text[1] /\
          l \in S
    BY <1>1, TailText
  <2> QED
    BY <1>1, <2>1, TailText
<1>3. \A j \in DOMAIN text' : j + 1 \in DOMAIN text /\ 1 < j + 1
  BY <1>2
<1>4. \A j \in DOMAIN text : j > 1 => j - 1 \in DOMAIN text' /\ text'[j - 1] = text[j]
  BY <1>2
<1>5. \A j \in DOMAIN text : j = 1 \/ j > 1
  BY <1>2
<1>6. \A j, m \in DOMAIN text : j < m /\ text[j].of = Here =>
         \/ text[m].of = Here /\ Rank(text[j].is) < Rank(text[m].is)
         \/ text[m].is = "blank"
  BY <1>1 DEF TextWhole
<1>7. \A j \in DOMAIN text : text[j].of = 0 =>
         \/ text[j].is = "blank"
         \/ text[j].is = "other" /\ Left \cap FirstWord # {}
         \/ text[j].is = "TOTAL" /\ Left = {}
  BY <1>1 DEF TextWhole
<1>8. PICK r \in Nat : Left = {w \in W : Rank(w) >= r}
  BY <1>1 DEF TextWhole
<1>9. /\ Here' = Here /\ Unharmed' /\ W' = W
  BY DEF Here, Unharmed
<1>w. W \subseteq Word \ {"blank", "TOTAL"} /\ \A w \in W : Rank(w) \in Nat
  <2>1. kinds[Here] \in Kind
    BY DEF ParserInv, ParserTypeOK, Here
  <2>2. W \subseteq Word \ {"blank", "TOTAL"}
    BY <2>1 DEF Words, Word, Kind
  <2>3. \A w \in W : Rank(w) \in Nat
    BY DEF Rank
  <2> QED
    BY <2>2, <2>3
<1>10. CASE l.of = Here
  <2>1. l.is \in W /\ l = Line(l.is, Here) /\ l \in S
    <3>1. l \in S
      BY <1>1, <1>2
    <3>2. l = [is |-> l.is, of |-> l.of]
      BY <3>1
    <3>3. l.is \in W
      BY <1>1, <1>2, <1>10 DEF LinesFit
    <3> QED
      BY <1>10, <3>1, <3>2, <3>3 DEF Line
  <2>2. l.is \in Left
    BY <1>2, <2>1 DEF Left
  <2>3. \A w \in Left : w = l.is \/ Rank(l.is) < Rank(w)
    <3>1. SUFFICES ASSUME NEW w \in Left, w # l.is PROVE Rank(l.is) < Rank(w)
      OBVIOUS
    <3>2. PICK j \in DOMAIN text : text[j] = Line(w, Here) /\ w \in W
      BY DEF Left
    <3>3. j > 1 /\ text[j].is = w /\ w # "blank"
      BY <1>2, <1>5, <1>w, <3>1, <3>2 DEF Line
    <3> QED
      BY <1>2, <1>6, <1>10, <3>3
  <2>4. Left' = Left \ {l.is}
    <3>1. ASSUME NEW w \in Left' PROVE w \in Left \ {l.is}
      <4>1. PICK j \in DOMAIN text' : text'[j] = Line(w, Here) /\ w \in W
        BY <1>9 DEF Left
      <4>2. text[j + 1] = Line(w, Here) /\ j + 1 \in DOMAIN text /\ 1 < j + 1
        BY <1>2, <1>3, <4>1
      <4>3. Rank(l.is) < Rank(w)
        <5>1. text[j + 1].is = w /\ text[j + 1].is # "blank"
          BY <1>w, <4>1, <4>2 DEF Line
        <5> QED
          BY <1>2, <1>6, <1>10, <4>2, <5>1
      <4> QED
        BY <1>w, <2>1, <4>1, <4>2, <4>3 DEF Left
    <3>2. ASSUME NEW w \in Left, w # l.is PROVE w \in Left'
      <4>1. PICK j \in DOMAIN text : text[j] = Line(w, Here) /\ w \in W
        BY DEF Left
      <4>2. j > 1
        BY <1>2, <1>5, <3>2, <4>1 DEF Line
      <4> QED
        BY <1>4, <1>9, <4>1, <4>2 DEF Left
    <3> QED
      BY <3>1, <3>2
  <2>5. Left' = {w \in W : Rank(w) >= Rank(l.is) + 1}
    BY <1>8, <1>w, <2>2, <2>3, <2>4
  <2>6. ASSUME NEW j \in DOMAIN text', text'[j].of = 0 PROVE text'[j].is = "blank"
    <3>1. j + 1 \in DOMAIN text /\ 1 < j + 1 /\ text[j + 1] = text'[j]
      BY <1>2, <1>3
    <3>2. 1 \in DOMAIN text /\ text[1].of = Here
      BY <1>2, <1>10
    <3>3. \/ text[j + 1].of = Here /\ Rank(text[1].is) < Rank(text[j + 1].is)
          \/ text[j + 1].is = "blank"
      BY <1>6, <3>1, <3>2
    <3> QED
      BY <2>6, <3>1, <3>3
  <2>7. Rank(l.is) + 1 \in Nat
    BY <1>w, <2>1
  <2>8. TextWhole'
    BY <1>2, <1>3, <1>6, <1>9, <2>5, <2>6, <2>7 DEF TextWhole
  <2> QED
    BY <1>10, <2>2, <2>3, <2>4, <2>8
<1>11. CASE l.of # Here
  <2>1. l.of = 0
    BY <1>1, <1>2, <1>11 DEF LinesFit
  <2>2. Left' = Left
    <3>1. \A w \in W : l # Line(w, Here)
      BY <1>11 DEF Line
    <3>2. \A w \in W : (\E j \in DOMAIN text : text[j] = Line(w, Here))
                      <=> \E j \in DOMAIN text' : text'[j] = Line(w, Here)
      BY <1>2, <1>3, <1>4, <1>5, <3>1
    <3> QED
      BY <1>9, <3>2 DEF Left
  <2>3. TextWhole'
    BY <1>1, <1>2, <1>3, <1>6, <1>7, <1>8, <1>9, <2>2 DEF TextWhole
  <2> QED
    BY <1>2, <1>7, <2>1, <2>2, <2>3
<1> QED
  BY <1>10, <1>11

Dues == {"first", "name", "price", "ppk", "total", "row_kg", "none"}

\* The line due is known by what is left of the item.
LEMMA DueNow ==
  ASSUME ParserInv, Here > 0, Unharmed
  PROVE  /\ Due \in Dues
         /\ Left \cap FirstWord # {} <=> Due = "first"
         /\ Left = {} <=> Due = "none"
         /\ \A w \in Left : (\A v \in Left : v = w \/ Rank(w) < Rank(v)) =>
              Passes(layout, kinds[Here], Due, w, DueOf(Left \ {w}))
<1>1. layout \in {"cells", "rows"} /\ kinds[Here] \in Kind
  BY LayoutAssumption DEF ParserInv, ParserTypeOK, Here
<1>2. PICK r \in Nat : Left = {w \in Words(layout, kinds[Here]) : Rank(w) >= r}
  BY DEF ParserInv, TextWhole
<1> QED
  BY <1>1, <1>2, DueWords DEF Due, Dues

\* The line read is the one due, unless it is one that belongs to no item.
LEMMA DueNext ==
  ASSUME ParserInv, text # <<>>, text' = Tail(text),
           UNCHANGED <<layout, kinds, damage, damaged, broken>>,
         Here > 0, Unharmed
  PROVE  /\ TextWhole' /\ Due \in Dues /\ Due' \in Dues
         /\ \/ Head(text).of = Here /\ Passes(layout, kinds[Here], Due, Head(text).is, Due')
            \/ /\ Head(text).of = 0 /\ Due' = Due
               /\ \/ Head(text).is = "blank"
                  \/ Head(text).is = "other" /\ Due = "first"
                  \/ Head(text).is = "TOTAL" /\ Due = "none"
<1>1. Due \in Dues /\ (Left \cap FirstWord # {} <=> Due = "first") /\
        (Left = {} <=> Due = "none")
  BY DueNow
<1>2. TextWhole'
  BY TailWhole
<1>3. CASE /\ Head(text).of = Here /\ Head(text).is \in Left
           /\ Left' = Left \ {Head(text).is}
           /\ \A w \in Left : w = Head(text).is \/ Rank(Head(text).is) < Rank(w)
  <2>1. Due' = DueOf(Left \ {Head(text).is})
    BY <1>3 DEF Due
  <2>2. Passes(layout, kinds[Here], Due, Head(text).is, Due')
    BY <1>3, <2>1, DueNow
  <2> QED
    BY <1>1, <1>2, <1>3, <2>2 DEF Passes, Dues
<1>4. CASE /\ Head(text).of = 0 /\ Left' = Left
           /\ \/ Head(text).is = "blank"
              \/ Head(text).is = "other" /\ Left \cap FirstWord # {}
              \/ Head(text).is = "TOTAL" /\ Left = {}
  BY <1>1, <1>2, <1>4 DEF Due
<1> QED
  BY <1>3, <1>4, TailWhole

\* Damage and printing leave an affected item affected.
LEMMA AffectedGrows ==
  ASSUME NEW i \in 1..Here, Affected(i), damaged \subseteq damaged', broken \subseteq broken',
         \A j \in 1..Here : kinds'[j] = kinds[j], broken \subseteq Nat, Here \in Nat
  PROVE  Affected(i)'
<1>1. CASE {i, i - 1} \cap damaged # {}
  BY <1>1 DEF Affected
<1>2. CASE \E b \in broken : b < i /\ \A j \in (b + 1)..(i - 1) : kinds[j] # "weight"
  <2>1. PICK b \in broken : b < i /\ \A j \in (b + 1)..(i - 1) : kinds[j] # "weight"
    BY <1>2
  <2>2. \A j \in (b + 1)..(i - 1) : kinds'[j] # "weight"
    BY <2>1
  <2> QED
    BY <2>1, <2>2 DEF Affected
<1> QED
  BY <1>1, <1>2 DEF Affected

\* A step that records nothing keeps what is said of the records.
LEMMA LinesKept ==
  ASSUME ParserInv, UNCHANGED <<kinds, lines>>, damaged \subseteq damaged',
           broken \subseteq broken'
  PROVE  /\ PastRecorded' /\ LinesPast' /\ PriceOfItsItem'
         /\ lines' \in Seq([name : 0..MaxItems, price : {"unit", "total"} \X (1..MaxItems),
              qty : {"1", "n"}])
         /\ Here' = Here /\ (Recorded(Here) => Recorded(Here)') /\ (Unrecorded => Unrecorded')
<1>1. Here' = Here /\ Here \in Nat /\ broken \subseteq Nat
  BY BoundAssumption DEF Here, ParserInv, ParserTypeOK
<1>2. \A i \in 1..Here : Affected(i) => Affected(i)'
  BY <1>1, AffectedGrows
<1>3. \A i \in 1..Here : Recorded(i) => Recorded(i)'
  BY DEF Recorded, Expected
<1>4. PastRecorded'
  BY <1>1, <1>2, <1>3 DEF ParserInv, PastRecorded
<1>5. LinesPast' /\ PriceOfItsItem' /\ (Unrecorded => Unrecorded')
  BY <1>1 DEF ParserInv, LinesPast, PriceOfItsItem, Unrecorded
<1> QED
  BY <1>1, <1>3, <1>4, <1>5 DEF ParserInv, ParserTypeOK, Recorded, Expected

\* A step that records a price of the item at hand.
LEMMA LinesGrow ==
  ASSUME ParserInv, UNCHANGED <<kinds, damaged, broken>>, Here > 0,
         NEW nm \in 0..MaxItems, NEW w \in {"unit", "total"}, NEW q \in {"1", "n"},
         lines' = Append(lines, Record(nm, <<w, Here>>, q)),
         OneHarmed => nm \in {0, Here}
  PROVE  /\ PastRecorded' /\ LinesPast' /\ PriceOfItsItem'
         /\ lines' \in Seq([name : 0..MaxItems, price : {"unit", "total"} \X (1..MaxItems),
              qty : {"1", "n"}])
         /\ Here' = Here
         /\ Unrecorded /\ Record(nm, <<w, Here>>, q) = Expected(Here) => Recorded(Here)'
<1> DEFINE S == [name : 0..MaxItems, price : {"unit", "total"} \X (1..MaxItems), qty : {"1",
      "n"}]
           x == Record(nm, <<w, Here>>, q)
<1>1. Here' = Here /\ Here \in 1..MaxItems /\ broken \subseteq Nat /\ lines \in Seq(S)
  BY BoundAssumption DEF Here, ParserInv, ParserTypeOK
<1>2. x \in S /\ x.name = nm /\ x.price[2] = Here
  BY <1>1 DEF Record
<1> HIDE DEF x
<1>3. /\ lines' \in Seq(S) /\ DOMAIN lines' = 1..(Len(lines) + 1) /\
           DOMAIN lines = 1..Len(lines) /\ Len(lines) \in Nat
      /\ \A j \in DOMAIN lines : lines'[j] = lines[j]
      /\ lines'[Len(lines) + 1] = x
  <2>1. lines' = Append(lines, x)
    BY DEF x
  <2>2. /\ Append(lines, x) \in Seq(S) /\ DOMAIN Append(lines, x) = 1..(Len(lines) + 1)
        /\ DOMAIN lines = 1..Len(lines) /\ Len(lines) \in Nat
        /\ \A j \in DOMAIN lines : Append(lines, x)[j] = lines[j]
        /\ Append(lines, x)[Len(lines) + 1] = x
    BY <1>1, <1>2, AppendLines
  <2> QED
    BY <2>1, <2>2
<1>4. \A j \in DOMAIN lines' : j \in DOMAIN lines \/ j = Len(lines) + 1
  <2>1. \A j \in 1..(Len(lines) + 1) : j \in 1..Len(lines) \/ j = Len(lines) + 1
    BY <1>3
  <2> QED
    BY <1>3, <2>1
<1>5. DOMAIN lines \subseteq DOMAIN lines' /\ Len(lines) + 1 \in DOMAIN lines' /\
        Len(lines) + 1 \notin DOMAIN lines
  BY <1>3
<1>6. \A i \in 1..(Here - 1) : Recorded(i) => Recorded(i)'
  <2>1. SUFFICES ASSUME NEW i \in 1..(Here - 1), Recorded(i) PROVE Recorded(i)'
    OBVIOUS
  <2>2. PICK j \in DOMAIN lines : lines[j] = Expected(i) /\
               \A m \in DOMAIN lines : lines[m].price[2] = i => m = j
    BY <2>1 DEF Recorded
  <2>3. Expected(i)' = Expected(i) /\ i # Here
    BY <1>1 DEF Expected
  <2>4. j \in DOMAIN lines' /\ lines'[j] = Expected(i)'
    BY <1>3, <1>5, <2>2, <2>3
  <2>5. \A m \in DOMAIN lines' : lines'[m].price[2] = i => m = j
    BY <1>2, <1>3, <1>4, <2>2, <2>3
  <2> QED
    BY <2>4, <2>5 DEF Recorded
<1>7. \A i \in 1..Here : Affected(i)' <=> Affected(i)
  BY DEF Affected
<1>8. PastRecorded'
  BY <1>1, <1>6, <1>7 DEF ParserInv, PastRecorded
<1>9. LinesPast'
  BY <1>1, <1>2, <1>3, <1>4 DEF ParserInv, LinesPast
<1>10. PriceOfItsItem'
  BY <1>1, <1>2, <1>3, <1>4 DEF ParserInv, PriceOfItsItem, OneHarmed
<1>11. Unrecorded /\ x = Expected(Here) => Recorded(Here)'
  <2>1. SUFFICES ASSUME Unrecorded, x = Expected(Here) PROVE Recorded(Here)'
    OBVIOUS
  <2>2. Expected(Here)' = Expected(Here)
    BY <1>1 DEF Expected
  <2>3. Len(lines) + 1 \in DOMAIN lines' /\ lines'[Len(lines) + 1] = Expected(Here)'
    BY <1>3, <1>5, <2>1, <2>2
  <2>4. \A m \in DOMAIN lines' : lines'[m].price[2] = Here => m = Len(lines) + 1
    BY <1>3, <1>4, <2>1 DEF Unrecorded
  <2> QED
    BY <1>1, <2>3, <2>4 DEF Recorded
<1> QED
  BY <1>1, <1>3, <1>8, <1>9, <1>10, <1>11 DEF x

\* The step reads a line, and nothing is printed or damaged.
Reads == /\ text # <<>> /\ text' = Tail(text)
         /\ UNCHANGED <<layout, kinds, damage, damaged, broken>>

\* What reading a line keeps, whatever the parser makes of it.
LEMMA ReadKeeps ==
  ASSUME ParserInv, Reads
  PROVE  /\ Here' = Here /\ Here \in 0..MaxItems /\ (Unharmed' <=> Unharmed) /\
              Quantity' = Quantity
         /\ (Affected(Here)' <=> Affected(Here)) /\ (OneHarmed' <=> OneHarmed)
         /\ damaged' \subseteq 0..Here'
         /\ LinesFit' /\ KgFits' /\ TextWhole'
         /\ layout' \in Layout /\ kinds' \in Seq(Kind) /\ Len(kinds') <= MaxItems
         /\ text' \in Seq([is : Word, of : 0..MaxItems])
         /\ damage' \in 0..MaxDamage /\ damaged' \subseteq 0..MaxItems /\
              broken' \subseteq damaged'
         /\ (Here = 0 /\ Unharmed => \A j \in DOMAIN text' : text'[j].is \notin {"n", "other"})
<1> USE DEF Reads
<1>1. Here' = Here /\ (Unharmed' <=> Unharmed) /\ Quantity' = Quantity /\
        (OneHarmed' <=> OneHarmed)
  BY DEF Here, Unharmed, Quantity, OneHarmed
<1>2. Affected(Here)' <=> Affected(Here)
  BY <1>1 DEF Affected
<1>3. Here \in 0..MaxItems
  BY BoundAssumption DEF ParserInv, ParserTypeOK, Here
<1>4. text' \in Seq([is : Word, of : 0..MaxItems]) /\ LinesFit' /\ KgFits'
  BY TailFits
<1>5. TextWhole'
  <2>1. CASE Here > 0 /\ Unharmed
    BY <2>1, TailWhole
  <2>2. CASE ~(Here > 0 /\ Unharmed)
    BY <1>1, <2>2 DEF TextWhole
  <2> QED
    BY <2>1, <2>2
<1>6. Here = 0 /\ Unharmed => \A j \in DOMAIN text' : text'[j].is \notin {"n", "other"}
  <2>1. /\ DOMAIN text' = 1..(Len(text) - 1) /\ DOMAIN text = 1..Len(text) /\ Len(text) \in Nat
        /\ \A j \in DOMAIN text' : text'[j] = text[j + 1]
    BY TailText DEF ParserInv, ParserTypeOK
  <2>2. \A j \in DOMAIN text' : j + 1 \in DOMAIN text
    BY <2>1
  <2> QED
    BY <2>1, <2>2 DEF ParserInv, HeadWhole
<1> QED
  BY <1>1, <1>2, <1>3, <1>4, <1>5, <1>6 DEF ParserInv, ParserTypeOK

\* The next line, above the items or of a damaged or whole item.
LEMMA NextLine ==
  ASSUME ParserInv, Reads, NEW l, l = Head(text), l.is \notin {"blank", "TOTAL"}
  PROVE  /\ l \in [is : Word, of : 0..MaxItems] /\ l.of \in {0, Here}
         /\ l.is \in {"unit", "total", "kg", "ppk", "1", "name", "row_1", "row_n",
              "row_name", "row_kg"} =>
              l.of = Here /\ Here > 0 /\ l.is \in Words(layout, kinds[Here])
         /\ Here = 0 => l.is \in Heading(layout) \cup {"n", "other"}
         /\ Here = 0 /\ Unharmed => l.is \in Heading(layout)
         /\ Here > 0 => l.is \notin Heading(layout)
         /\ l.is = "kg" => Here \in broken \/ \E j \in DOMAIN text' : text'[j].is = "ppk"
         /\ Here > 0 /\ Unharmed =>
              /\ Due \in Dues /\ Due' \in Dues
              /\ \/ l.of = Here /\ Passes(layout, kinds[Here], Due, l.is, Due')
                 \/ l.is = "other" /\ Due = "first" /\ Due' = "first"
<1> USE DEF Reads
<1>1. /\ l \in [is : Word, of : 0..MaxItems]
      /\ \/ l.of = 0 /\ l.is \in Stray
         \/ l.of = 0 /\ l.is \in Heading(layout) /\ Here = 0
         \/ l.of = Here /\ Here > 0 /\ l.is \in Words(layout, kinds[Here])
  BY HeadFits
<1>2. Here \in 0..MaxItems
  BY ReadKeeps
<1>3. Here > 0 => kinds[Here] \in Kind
  BY <1>2 DEF ParserInv, ParserTypeOK, Here
<1>9. /\ text' \in Seq([is : Word, of : 0..MaxItems])
      /\ Len(text) \in Nat /\ Len(text) > 0 /\ DOMAIN text = 1..Len(text) /\ l = text[1]
      /\ DOMAIN text' = 1..(Len(text) - 1) /\ \A j \in DOMAIN text' : text'[j] = text[j + 1]
  BY TailText DEF ParserInv, ParserTypeOK
<1>10. 1 \in DOMAIN text /\ \A m \in DOMAIN text : m > 1 =>
         m - 1 \in DOMAIN text' /\ text'[m - 1] = text[m]
  BY <1>9
<1>4. Here = 0 /\ Unharmed => l.is \notin {"n", "other"}
  BY <1>9, <1>10 DEF ParserInv, HeadWhole
<1>11. l.is = "kg" => Here \in broken \/ \E j \in DOMAIN text' : text'[j].is = "ppk"
  BY <1>9, <1>10 DEF ParserInv, KgFits
<1>5. Here > 0 /\ Unharmed =>
        /\ Due \in Dues /\ Due' \in Dues
        /\ \/ l.of = Here /\ Passes(layout, kinds[Here], Due, l.is, Due')
           \/ l.is = "other" /\ Due = "first" /\ Due' = "first"
  BY DueNext
<1>6. Here > 0 => Words(layout, kinds[Here]) \cap Heading(layout) = {}
  BY <1>3 DEF Words, Heading, Kind
<1>7. Stray \cap Heading(layout) = {} /\ "1" \notin Heading(layout) /\
        "n" \notin Heading(layout)
  BY DEF Stray, Heading
<1>8. \A w \in {"unit", "total", "kg", "ppk", "1", "name", "row_1", "row_n", "row_name",
        "row_kg"} :
        w \notin Stray \cup Heading(layout)
  BY DEF Stray, Heading
<1> QED
  BY <1>1, <1>2, <1>4, <1>5, <1>6, <1>7, <1>8, <1>11 DEF Stray

RecordSet == [name : 0..MaxItems, price : {"unit", "total"} \X (1..MaxItems), qty : {"1", "n"}]

LinesFine == PastRecorded' /\ LinesPast' /\ PriceOfItsItem' /\ lines' \in Seq(RecordSet)

\* What remains to be shown of an action that reads a line.
LEMMA ReadsInv ==
  ASSUME ParserInv, Reads, LinesFine,
         state' \in State, name' \in 0..MaxItems, qty' \in {"0", "1", "n"},
         Here = 0 /\ Unharmed =>
           state' \in {"header", "error", "sIdle", "outOfBody", "inBody", "sQty", "end"},
         QtyFits', HeaderFits', WaitFits', Settles', Track', NameFits'
  PROVE  ParserInv'
<1>1. HeadWhole'
  BY ReadKeeps DEF HeadWhole
<1> QED
  BY <1>1, ReadKeeps DEF ParserInv, ParserTypeOK, LinesFine, RecordSet

\* What a line that is read without recording anything keeps.
LEMMA ReadsOnly ==
  ASSUME ParserInv, Reads, UNCHANGED lines
  PROVE  LinesFine /\ (Recorded(Here) => Recorded(Here)') /\ (Unrecorded => Unrecorded')
BY LinesKept DEF Reads, LinesFine, RecordSet

\* What a line whose price is recorded keeps.
LEMMA ReadsRecord ==
  ASSUME ParserInv, Reads, Here > 0,
         NEW nm \in 0..MaxItems, NEW w \in {"unit", "total"}, NEW q \in {"1", "n"},
         lines' = Append(lines, Record(nm, <<w, Here>>, q)),
         OneHarmed => nm \in {0, Here}
  PROVE  /\ LinesFine
         /\ Unrecorded /\ Record(nm, <<w, Here>>, q) = Expected(Here) => Recorded(Here)'
<1>1. UNCHANGED <<kinds, damaged, broken>>
  BY DEF Reads
<1> QED
  BY <1>1, LinesGrow DEF LinesFine, RecordSet

\* The line that names the columns is still to come, unless it is the next.
LEMMA TitleStays ==
  ASSUME ParserInv, Reads, state \in {"header", "error", "sIdle", "outOfBody"}, NEW l,
           l = Head(text)
  PROVE  /\ Here = 0
         /\ l # Line(Title(layout), 0) =>
              \E j \in DOMAIN text' : text'[j] = Line(Title(layout), 0)
BY TailFits DEF Reads, ParserInv, HeaderFits

\* Idle keeps ParserInv: the lines above the items harm nothing.
LEMMA IdleInv == ASSUME ParserInv, NEW l, Idle(l) PROVE ParserInv'
<1>1. /\ Reads /\ l = Head(text) /\ l.is \notin {"blank", "TOTAL"} /\ state = "sIdle"
      /\ UNCHANGED <<name, qty, lines>>
      /\ state' = IF l.is = "Descripcio" THEN "sQty" ELSE "sIdle"
  BY DEF Idle, Reading, Reads
<1>2. layout = "cells" /\ layout' = layout /\ Here = 0 /\ Here' = 0
  BY <1>1, ReadKeeps DEF ParserInv, HeaderFits, Reads
<1>3. HeaderFits'
  BY <1>1, <1>2, TitleStays DEF HeaderFits, State, Title, Line
<1>4. WaitFits' /\ Settles' /\ Track' /\ NameFits' /\ QtyFits'
  BY <1>1, <1>2 DEF WaitFits, Settles, Track, NameFits, Pending, ParserInv, QtyFits
<1> QED
  BY <1>1, <1>3, <1>4, ReadsOnly, ReadsInv DEF ParserInv, ParserTypeOK, State

\* Qty keeps ParserInv: what is no quantity is passed over.
LEMMA QtyInv == ASSUME ParserInv, NEW l, Qty(l) PROVE ParserInv'
<1>1. /\ Reads /\ l = Head(text) /\ l.is \notin {"blank", "TOTAL"} /\ state = "sQty"
      /\ UNCHANGED <<name, lines>>
      /\ IF l.is \in {"1", "n"} THEN qty' = l.is /\
           state' = "sNameLine" ELSE UNCHANGED <<qty, state>>
  BY DEF Qty, Reading, IsQty, Reads
<1>2. layout = "cells" /\ layout' = layout /\ Here' = Here /\ Here \in 0..MaxItems
  BY <1>1, ReadKeeps DEF ParserInv, HeaderFits, Reads
<1>3. LinesFine /\ (Recorded(Here) => Recorded(Here)') /\ (Unrecorded => Unrecorded')
  BY <1>1, ReadsOnly
<1>4. HeaderFits' /\ WaitFits'
  BY <1>1, <1>2 DEF HeaderFits, WaitFits, State
<1>5. Here = 0 /\ Unharmed => state' = "sQty"
  BY <1>1, <1>2, NextLine DEF Heading
<1>6. Settles'
  <2>1. SUFFICES ASSUME Here > 0, Unharmed, Due' # "first" PROVE Settles'
    BY <1>1, ReadKeeps DEF Settles
  <2>2. l.of = Here /\ Passes("cells", kinds[Here], Due, l.is, Due')
    BY <1>1, <1>2, <2>1, NextLine
  <2> QED
    BY <1>1, <2>2, ReadKeeps DEF Settles, Passes, Quantity
<1>7. Track'
  <2>1. SUFFICES ASSUME Here > 0, Unharmed, ~Affected(Here) PROVE Track'
    BY <1>1, ReadKeeps DEF Track
  <2>2. OnTrack
    BY <2>1 DEF ParserInv, Track
  <2>3. \/ l.of = Here /\ Passes("cells", kinds[Here], Due, l.is, Due')
        \/ l.is = "other" /\ Due = "first" /\ Due' = "first"
    BY <1>1, <1>2, <2>1, NextLine
  <2> QED
    BY <1>1, <1>2, <1>3, <2>2, <2>3, ReadKeeps DEF Track, OnTrack, Passes, Quantity
<1>8. NameFits' /\ QtyFits'
  BY <1>1, <1>2 DEF ParserInv, NameFits, Pending, QtyFits
<1> QED
  BY <1>1, <1>3, <1>4, <1>5, <1>6, <1>7, <1>8, ReadsInv DEF ParserInv, ParserTypeOK, State

\* NameLine keeps ParserInv: a price where the name is due resets the parser.
LEMMA NameLineInv == ASSUME ParserInv, NEW l, NameLine(l) PROVE ParserInv'
<1>1. /\ Reads /\ l = Head(text) /\ l.is \notin {"blank", "TOTAL"} /\ state = "sNameLine"
      /\ UNCHANGED lines
      /\ \/ l.is \in {"P_Unit", "Import"} /\ UNCHANGED <<state, name, qty>>
         \/ l.is \in {"unit", "total", "1", "n"} /\ state' = "sQty" /\ qty' = "0" /\
              UNCHANGED name
         \/ /\ l.is \notin {"P_Unit", "Import", "unit", "total", "1", "n"}
            /\ state' = "sPrice" /\ name' = (IF l.is = "name" THEN l.of ELSE 0) /\ UNCHANGED qty
  BY DEF NameLine, Reading, IsQty, IsPrice, Reads
<1>2. layout = "cells" /\ layout' = layout /\ Here' = Here /\ Here \in 0..MaxItems
  BY <1>1, ReadKeeps DEF ParserInv, HeaderFits, Reads
<1>3. LinesFine /\ (Recorded(Here) => Recorded(Here)') /\ (Unrecorded => Unrecorded')
  BY <1>1, ReadsOnly
<1>4. HeaderFits' /\ WaitFits'
  BY <1>1, <1>2 DEF HeaderFits, WaitFits, State
<1>5. ~(Here = 0 /\ Unharmed)
  BY <1>1 DEF ParserInv, HeadWhole
<1>6. Settles'
  <2>1. SUFFICES ASSUME Here > 0, Unharmed, Due' # "first" PROVE Settles'
    BY <1>1, ReadKeeps DEF Settles
  <2>2. l.of = Here /\ Passes("cells", kinds[Here], Due, l.is, Due')
    BY <1>1, <1>2, <2>1, NextLine
  <2> QED
    BY <1>1, <2>1, <2>2, ReadKeeps DEF Settles, Passes, Quantity, ParserInv
<1>7. Track'
  <2>1. SUFFICES ASSUME Here > 0, Unharmed, ~Affected(Here) PROVE Track'
    BY <1>1, ReadKeeps DEF Track
  <2>2. OnTrack
    BY <2>1 DEF ParserInv, Track
  <2>3. \/ l.of = Here /\ Passes("cells", kinds[Here], Due, l.is, Due')
        \/ l.is = "other" /\ Due = "first" /\ Due' = "first"
    BY <1>1, <1>2, <2>1, NextLine
  <2> QED
    BY <1>1, <1>2, <1>3, <2>2, <2>3, ReadKeeps DEF Track, OnTrack, Passes, Quantity
<1>8. name' \in 0..MaxItems /\ (state' = "sPrice" => name' \in {0, Here}) /\ name' <= Here
  <2>1. l.of \in {0, Here}
    BY <1>1, NextLine
  <2>2. name \in 0..MaxItems /\ name <= Here
    BY DEF ParserInv, ParserTypeOK, NameFits
  <2> QED
    BY <1>1, <1>2, <2>1, <2>2, BoundAssumption
<1>9. NameFits' /\ QtyFits'
  BY <1>1, <1>2, <1>8 DEF ParserInv, NameFits, Pending, QtyFits
<1> QED
  BY <1>1, <1>3, <1>4, <1>5, <1>6, <1>7, <1>8, <1>9, ReadsInv DEF ParserInv, ParserTypeOK, State

\* A price that is read is recorded under its own name, if there is one.
LEMMA OwnName ==
  ASSUME ParserInv, Reads, NEW l, l = Head(text),
           l.is \in {"unit", "total", "kg", "ppk", "row_kg"},
         OneHarmed, Pending
  PROVE  name \in {0, Here}
<1>1. l.of = Here /\ Here > 0
  BY NextLine
<1>2. Unharmed => Due # "first"
  BY <1>1, NextLine DEF Passes
<1> QED
  BY <1>2 DEF ParserInv, NameFits

\* Price keeps ParserInv: what is recorded is the price of the pending name's item,
\* unless two items were harmed.
LEMMA PriceInv == ASSUME ParserInv, NEW l, Price(l) PROVE ParserInv'
<1>1. /\ Reads /\ l = Head(text) /\ l.is \notin {"blank", "TOTAL"} /\ state = "sPrice"
      /\ UNCHANGED <<name, qty>>
      /\ \/ l.is = "kg" /\ state' = "sWeightPPK" /\ UNCHANGED lines
         \/ /\ l.is \in {"unit", "total"}
            /\ lines' = Append(lines, Record(name, <<l.is, l.of>>, qty))
            /\ state' = IF qty = "1" THEN "sQty" ELSE "sUnitMultiTotal"
         \/ /\ l.is \notin {"kg", "unit", "total"} /\ state' = "sQty" /\ UNCHANGED lines
  BY DEF Price, Reading, IsPrice, Emit, Reads
<1>2. /\ layout = "cells" /\ layout' = layout /\ Here' = Here /\ Here \in 0..MaxItems
      /\ broken' = broken /\ kinds' = kinds
  BY <1>1, ReadKeeps DEF ParserInv, HeaderFits, Reads
<1>3. /\ LinesFine
      /\ l.is \notin {"unit", "total"} => (Unrecorded => Unrecorded')
      /\ l.is \in {"unit", "total"} /\ Unrecorded /\
           Record(name, <<l.is, Here>>, qty) = Expected(Here)
           => Recorded(Here)'
  <2>1. CASE l.is \in {"unit", "total"}
    <3>1. l.of = Here /\ Here > 0
      BY <1>1, <2>1, NextLine
    <3>2. OneHarmed => name \in {0, Here}
      BY <1>1, <2>1, OwnName DEF Pending
    <3>3. name \in 0..MaxItems /\ qty \in {"1", "n"}
      BY <1>1 DEF ParserInv, ParserTypeOK, QtyFits
    <3>4. lines' = Append(lines, Record(name, <<l.is, Here>>, qty))
      BY <1>1, <2>1, <3>1
    <3> QED
      BY <1>1, <2>1, <3>1, <3>2, <3>3, <3>4, ReadsRecord
  <2>2. CASE l.is \notin {"unit", "total"}
    BY <1>1, <2>2, ReadsOnly
  <2> QED
    BY <2>1, <2>2
<1>4. HeaderFits'
  BY <1>1, <1>2 DEF HeaderFits, State
<1>5. ~(Here = 0 /\ Unharmed)
  BY <1>1 DEF ParserInv, HeadWhole
<1>10. WaitFits'
  <2>1. SUFFICES ASSUME l.is = "kg" PROVE WaitFits'
    BY <1>1 DEF WaitFits
  <2>2. Here \in broken \/ \E j \in DOMAIN text' : text'[j].is = "ppk"
    BY <1>1, <2>1, NextLine
  <2>3. Here <= Here /\ (Here + 1)..Here = {}
    BY <1>2
  <2> QED
    BY <1>2, <2>2, <2>3 DEF WaitFits
<1>6. Settles'
  <2>1. SUFFICES ASSUME Here > 0, Unharmed, Due' # "first" PROVE Settles'
    BY <1>1, ReadKeeps DEF Settles
  <2>2. l.of = Here /\ Passes("cells", kinds[Here], Due, l.is, Due')
    BY <1>1, <1>2, <2>1, NextLine
  <2> QED
    BY <1>1, <2>1, <2>2, ReadKeeps DEF Settles, Passes, Quantity, ParserInv
<1>7. Track'
  <2>1. SUFFICES ASSUME Here > 0, Unharmed, ~Affected(Here) PROVE Track'
    BY <1>1, ReadKeeps DEF Track
  <2>2. Due = "price" /\ qty = Quantity /\ name = Here /\ Unrecorded
    BY <1>1, <2>1 DEF ParserInv, Track, OnTrack
  <2>3. l.of = Here /\ Passes("cells", kinds[Here], Due, l.is, Due')
    BY <1>1, <1>2, <2>1, <2>2, NextLine
  <2>4. l.is = "unit" => Record(name, <<l.is, Here>>, qty) = Expected(Here)
    BY <2>2, <2>3 DEF Passes, Quantity, Expected
  <2>5. CASE l.is = "unit"
    BY <1>1, <1>2, <1>3, <2>2, <2>3, <2>4, <2>5, ReadKeeps DEF Track, OnTrack, Passes, Quantity
  <2>6. CASE l.is = "kg"
    BY <1>1, <1>2, <1>3, <2>2, <2>3, <2>6, ReadKeeps DEF Track, OnTrack, Passes
  <2> QED
    BY <2>2, <2>3, <2>5, <2>6 DEF Passes
<1>8. NameFits' /\ QtyFits'
  <2>1. l.is = "kg" /\ OneHarmed => name \in {0, Here}
    BY <1>1, OwnName DEF Pending
  <2> QED
    BY <1>1, <1>2, <2>1, ReadKeeps DEF ParserInv, NameFits, Pending, QtyFits
<1> QED
  BY <1>1, <1>3, <1>4, <1>5, <1>6, <1>7, <1>8, <1>10, ReadsInv DEF ParserInv, ParserTypeOK,
    State

\* WeightPPK keeps ParserInv: it waits until a price per kg comes.
LEMMA WeightPPKInv == ASSUME ParserInv, NEW l, WeightPPK(l) PROVE ParserInv'
<1>1. /\ Reads /\ l = Head(text) /\ l.is \notin {"blank", "TOTAL"} /\ state = "sWeightPPK"
      /\ UNCHANGED <<name, qty, lines>>
      /\ state' = IF l.is = "ppk" THEN "sWeightTotal" ELSE "sWeightPPK"
  BY DEF WeightPPK, Reading, Reads
<1>2. /\ layout = "cells" /\ layout' = layout /\ Here' = Here /\ Here \in 0..MaxItems
      /\ broken' = broken /\ kinds' = kinds
  BY <1>1, ReadKeeps DEF ParserInv, HeaderFits, Reads
<1>3. LinesFine /\ (Recorded(Here) => Recorded(Here)') /\ (Unrecorded => Unrecorded')
  BY <1>1, ReadsOnly
<1>4. HeaderFits'
  BY <1>1, <1>2 DEF HeaderFits, State
<1>5. ~(Here = 0 /\ Unharmed)
  BY <1>1 DEF ParserInv, HeadWhole
<1>6. WaitFits'
  <2>1. (\E j \in DOMAIN text : text[j].is = "ppk") =>
          l.is = "ppk" \/ \E j \in DOMAIN text' : text'[j].is = "ppk"
    BY <1>1, TailFits DEF Reads
  <2> QED
    BY <1>1, <1>2, <2>1 DEF WaitFits, ParserInv
<1>7. Settles'
  <2>1. SUFFICES ASSUME Here > 0, Unharmed, Due' # "first" PROVE Settles'
    BY <1>1, ReadKeeps DEF Settles
  <2>2. l.of = Here /\ Passes("cells", kinds[Here], Due, l.is, Due')
    BY <1>1, <1>2, <2>1, NextLine
  <2> QED
    BY <1>1, <2>1, <2>2, ReadKeeps DEF Settles, Passes
<1>8. Track'
  <2>1. SUFFICES ASSUME Here > 0, Unharmed, ~Affected(Here) PROVE Track'
    BY <1>1, ReadKeeps DEF Track
  <2>2. Due = "ppk" /\ name = Here /\ Unrecorded
    BY <1>1, <2>1 DEF ParserInv, Track, OnTrack
  <2>3. l.of = Here /\ Passes("cells", kinds[Here], Due, l.is, Due')
    BY <1>1, <1>2, <2>1, <2>2, NextLine
  <2> QED
    BY <1>1, <1>2, <1>3, <2>2, <2>3, ReadKeeps DEF Track, OnTrack, Passes
<1>9. NameFits' /\ QtyFits'
  BY <1>1, <1>2, ReadKeeps DEF ParserInv, NameFits, Pending, QtyFits
<1> QED
  BY <1>1, <1>3, <1>4, <1>5, <1>6, <1>7, <1>8, <1>9, ReadsInv DEF ParserInv, ParserTypeOK, State

\* WeightTotal keeps ParserInv: a weight product is recorded with its total.
LEMMA WeightTotalInv == ASSUME ParserInv, NEW l, WeightTotal(l) PROVE ParserInv'
<1>1. /\ Reads /\ l = Head(text) /\ l.is \notin {"blank", "TOTAL"} /\ state = "sWeightTotal"
      /\ UNCHANGED <<name, qty>> /\ state' = "sQty"
      /\ IF l.is \in {"unit", "total"} THEN lines' = Append(lines, Record(name, <<l.is,
           l.of>>, "1"))
                                       ELSE UNCHANGED lines
  BY DEF WeightTotal, Reading, IsPrice, Emit, Reads
<1>2. layout = "cells" /\ layout' = layout /\ Here' = Here /\ Here \in 0..MaxItems
  BY <1>1, ReadKeeps DEF ParserInv, HeaderFits, Reads
<1>3. /\ LinesFine
      /\ l.is \in {"unit", "total"} /\ Unrecorded /\
           Record(name, <<l.is, Here>>, "1") = Expected(Here)
           => Recorded(Here)'
  <2>1. CASE l.is \in {"unit", "total"}
    <3>1. l.of = Here /\ Here > 0
      BY <1>1, <2>1, NextLine
    <3>2. OneHarmed => name \in {0, Here}
      BY <1>1, <2>1, OwnName DEF Pending
    <3>3. name \in 0..MaxItems
      BY DEF ParserInv, ParserTypeOK
    <3>4. lines' = Append(lines, Record(name, <<l.is, Here>>, "1"))
      BY <1>1, <2>1, <3>1
    <3> QED
      BY <1>1, <2>1, <3>1, <3>2, <3>3, <3>4, ReadsRecord
  <2>2. CASE l.is \notin {"unit", "total"}
    BY <1>1, <2>2, ReadsOnly
  <2> QED
    BY <2>1, <2>2
<1>4. HeaderFits' /\ WaitFits'
  BY <1>1, <1>2 DEF HeaderFits, WaitFits, State
<1>5. Settles'
  BY <1>1 DEF Settles
<1>6. Track'
  <2>1. SUFFICES ASSUME Here > 0, Unharmed, ~Affected(Here) PROVE Track'
    BY <1>1, ReadKeeps DEF Track
  <2>2. Due = "total" /\ kinds[Here] = "weight" /\ name = Here /\ Unrecorded
    BY <1>1, <2>1 DEF ParserInv, Track, OnTrack
  <2>3. l.of = Here /\ Passes("cells", kinds[Here], Due, l.is, Due')
    BY <1>1, <1>2, <2>1, <2>2, NextLine
  <2>4. l.is = "total" /\ Due' = "none" /\ Record(name, <<l.is, Here>>, "1") = Expected(Here)
    BY <2>2, <2>3 DEF Passes, Expected
  <2> QED
    BY <1>1, <1>2, <1>3, <2>2, <2>4 DEF Track, OnTrack
<1>7. NameFits' /\ QtyFits'
  BY <1>1, <1>2 DEF ParserInv, NameFits, Pending, QtyFits
<1> QED
  BY <1>1, <1>3, <1>4, <1>5, <1>6, <1>7, ReadsInv DEF ParserInv, ParserTypeOK, State

\* UnitMultiTotal keeps ParserInv: the total of several units is passed over.
LEMMA UnitMultiTotalInv == ASSUME ParserInv, NEW l, UnitMultiTotal(l) PROVE ParserInv'
<1>1. /\ Reads /\ l = Head(text) /\ l.is \notin {"blank", "TOTAL"} /\ state = "sUnitMultiTotal"
      /\ UNCHANGED <<name, qty, lines>> /\ state' = "sQty"
  BY DEF UnitMultiTotal, Reading, Reads
<1>2. layout = "cells" /\ layout' = layout /\ Here' = Here /\ Here \in 0..MaxItems
  BY <1>1, ReadKeeps DEF ParserInv, HeaderFits, Reads
<1>3. LinesFine /\ (Recorded(Here) => Recorded(Here)')
  BY <1>1, ReadsOnly
<1>4. HeaderFits' /\ WaitFits' /\ Settles'
  BY <1>1, <1>2 DEF HeaderFits, WaitFits, State, Settles
<1>6. Track'
  <2>1. SUFFICES ASSUME Here > 0, Unharmed, ~Affected(Here) PROVE Track'
    BY <1>1, ReadKeeps DEF Track
  <2>2. Due = "total" /\ Recorded(Here)
    BY <1>1, <2>1 DEF ParserInv, Track, OnTrack
  <2>3. Passes("cells", kinds[Here], Due, l.is, Due')
    BY <1>1, <1>2, <2>1, <2>2, NextLine
  <2>4. Due' = "none"
    BY <2>2, <2>3 DEF Passes
  <2> QED
    BY <1>1, <1>2, <1>3, <2>2, <2>4 DEF Track, OnTrack
<1>7. NameFits' /\ QtyFits'
  BY <1>1, <1>2 DEF ParserInv, NameFits, Pending, QtyFits
<1> QED
  BY <1>1, <1>3, <1>4, <1>6, <1>7, ReadsInv DEF ParserInv, ParserTypeOK, State

\* OutOfBody keeps ParserInv: the body begins at the titles.
LEMMA OutOfBodyInv == ASSUME ParserInv, NEW l, OutOfBody(l) PROVE ParserInv'
<1>1. /\ Reads /\ l = Head(text) /\ l.is \notin {"blank", "TOTAL"} /\ state = "outOfBody"
      /\ UNCHANGED <<name, qty, lines>>
      /\ state' = IF l.is = "titles" THEN "inBody" ELSE "outOfBody"
  BY DEF OutOfBody, Reading, Reads
<1>2. /\ layout = "rows" /\ layout' = layout /\ Here = 0 /\ Here' = 0
  BY <1>1, ReadKeeps, LayoutAssumption DEF ParserInv, HeaderFits, Reads, ParserTypeOK
<1>3. HeaderFits'
  BY <1>1, <1>2, TitleStays DEF HeaderFits, State, Title, Line
<1>4. WaitFits' /\ Settles' /\ Track' /\ QtyFits'
  BY <1>1, <1>2 DEF WaitFits, Settles, Track, QtyFits
<1>5. NameFits'
  BY <1>1, <1>2 DEF NameFits, ParserInv, ParserTypeOK
<1> QED
  BY <1>1, <1>3, <1>4, <1>5, ReadsOnly, ReadsInv DEF ParserInv, ParserTypeOK, State

\* InBody keeps ParserInv: a row that is no weight ends the wait for one.
LEMMA InBodyInv == ASSUME ParserInv, NEW l, InBody(l) PROVE ParserInv'
<1>1. /\ Reads /\ l = Head(text) /\ l.is \notin {"blank", "TOTAL"} /\ state = "inBody"
      /\ UNCHANGED <<state, qty>>
      /\ \/ /\ l.is = "row_kg" /\ name # 0 /\ name' = 0
            /\ lines' = Append(lines, Record(name, <<"total", l.of>>, "1"))
         \/ /\ l.is \in {"row_1", "row_n"} /\ name' = 0
            /\ lines' = Append(lines, Record(l.of, <<"unit", l.of>>,
                 IF l.is = "row_1" THEN "1" ELSE "n"))
         \/ l.is = "row_name" /\ name' = l.of /\ UNCHANGED lines
         \/ /\ l.is \notin {"row_1", "row_n", "row_name"} /\ ~(l.is = "row_kg" /\ name # 0)
            /\ name' = 0 /\ UNCHANGED lines
  <2>1. l \in [is : Word, of : 0..MaxItems]
    BY HeadFits DEF InBody, Reading
  <2>2. \A w : [l EXCEPT !.is = w].is = w /\ [l EXCEPT !.is = w].of = l.of
    BY <2>1
  <2> QED
    BY <2>2 DEF InBody, Reading, Emit, Reads
<1>2. layout = "rows" /\ layout' = layout /\ Here' = Here /\ Here \in 0..MaxItems
  BY <1>1, ReadKeeps, LayoutAssumption DEF ParserInv, HeaderFits, Reads, ParserTypeOK
<1>3. /\ LinesFine
      /\ l.is \in {"row_name", "other"} => (Unrecorded => Unrecorded')
      /\ l.is = "row_1" /\ Unrecorded /\
           Record(Here, <<"unit", Here>>, "1") = Expected(Here) => Recorded(Here)'
      /\ l.is = "row_n" /\ Unrecorded /\
           Record(Here, <<"unit", Here>>, "n") = Expected(Here) => Recorded(Here)'
      /\ l.is = "row_kg" /\ name = Here /\ Here > 0 /\ Unrecorded
           /\ Record(Here, <<"total", Here>>, "1") = Expected(Here) => Recorded(Here)'
  <2>1. CASE l.is = "row_kg" /\ name # 0
    <3>1. l.of = Here /\ Here > 0
      BY <1>1, <2>1, NextLine
    <3>2. OneHarmed => name \in {0, Here}
      BY <1>1, <2>1, OwnName DEF Pending
    <3>3. name \in 0..MaxItems
      BY DEF ParserInv, ParserTypeOK
    <3>4. lines' = Append(lines, Record(name, <<"total", Here>>, "1"))
      BY <1>1, <2>1, <3>1
    <3> QED
      BY <1>1, <2>1, <3>1, <3>2, <3>3, <3>4, ReadsRecord
  <2>2. CASE l.is \in {"row_1", "row_n"}
    <3>1. l.of = Here /\ Here > 0
      BY <1>1, <2>2, NextLine
    <3>2. lines' = Append(lines, Record(Here, <<"unit", Here>>,
            IF l.is = "row_1" THEN "1" ELSE "n"))
      BY <1>1, <2>2, <3>1
    <3>3. CASE l.is = "row_1"
      BY <1>1, <1>2, <3>1, <3>2, <3>3, ReadsRecord
    <3>4. CASE l.is = "row_n"
      BY <1>1, <1>2, <3>1, <3>2, <3>4, ReadsRecord
    <3> QED
      BY <2>2, <3>3, <3>4
  <2>3. CASE l.is \notin {"row_1", "row_n"} /\ ~(l.is = "row_kg" /\ name # 0)
    BY <1>1, <2>3, ReadsOnly
  <2> QED
    BY <2>1, <2>2, <2>3
<1>4. HeaderFits' /\ WaitFits' /\ Settles' /\ QtyFits'
  BY <1>1, <1>2 DEF HeaderFits, WaitFits, State, Settles, QtyFits
<1>6. Track'
  <2>1. SUFFICES ASSUME Here > 0, Unharmed, ~Affected(Here) PROVE Track'
    BY <1>1, ReadKeeps DEF Track
  <2>2. OnTrack
    BY <2>1 DEF ParserInv, Track
  <2>3. \/ l.of = Here /\ Passes("rows", kinds[Here], Due, l.is, Due')
        \/ l.is = "other" /\ Due = "first" /\ Due' = "first"
    BY <1>1, <1>2, <2>1, NextLine
  <2>4. CASE l.is = "other"
    BY <1>1, <1>2, <1>3, <2>2, <2>3, <2>4 DEF Track, OnTrack, Passes
  <2>5. CASE l.is = "row_1"
    BY <1>1, <1>2, <1>3, <2>2, <2>3, <2>5 DEF Track, OnTrack, Passes, Expected
  <2>6. CASE l.is = "row_n"
    BY <1>1, <1>2, <1>3, <2>2, <2>3, <2>6 DEF Track, OnTrack, Passes, Expected
  <2>7. CASE l.is = "row_name"
    BY <1>1, <1>2, <1>3, <2>2, <2>3, <2>7 DEF Track, OnTrack, Passes
  <2>8. CASE l.is = "row_kg"
    BY <1>1, <1>2, <1>3, <2>1, <2>2, <2>3, <2>8 DEF Track, OnTrack, Passes, Expected
  <2> QED
    BY <2>3, <2>4, <2>5, <2>6, <2>7, <2>8 DEF Passes
<1>7. NameFits' /\ name' \in 0..MaxItems
  <2>1. CASE l.is = "row_name"
    <3>1. l.of = Here /\ Here > 0 /\ (Unharmed => Passes("rows", kinds[Here], Due, l.is, Due'))
      BY <1>1, <1>2, <2>1, NextLine
    <3> QED
      BY <1>1, <1>2, <2>1, <3>1, ReadKeeps DEF NameFits, Passes
  <2>2. CASE l.is # "row_name"
    BY <1>1, <1>2, <2>2, BoundAssumption DEF NameFits
  <2> QED
    BY <2>1, <2>2
<1> QED
  BY <1>1, <1>3, <1>4, <1>6, <1>7, ReadsInv DEF ParserInv, ParserTypeOK, State

\* SkipBlank keeps ParserInv: a blank line changes nothing.
LEMMA SkipBlankInv == ASSUME ParserInv, SkipBlank PROVE ParserInv'
<1> DEFINE l == Head(text)
<1>1. /\ Reads /\ l.is = "blank" /\ state \notin {"header", "error", "end"}
      /\ UNCHANGED <<state, name, qty, lines>>
  BY DEF SkipBlank, Reads, parser
<1>2. /\ layout' = layout /\ Here' = Here /\ broken' = broken /\ kinds' = kinds /\
           damaged' = damaged
      /\ (Unharmed' <=> Unharmed) /\ Quantity' = Quantity /\
           (Affected(Here)' <=> Affected(Here))
      /\ (OneHarmed' <=> OneHarmed)
  BY <1>1, ReadKeeps DEF Reads
<1>3. LinesFine /\ (Recorded(Here) => Recorded(Here)') /\ (Unrecorded => Unrecorded')
  BY <1>1, ReadsOnly
<1>4. HeaderFits'
  <2>1. l # Line(Title(layout), 0)
    BY <1>1 DEF Line, Title
  <2> QED
    BY <1>1, <1>2, <2>1, TitleStays DEF HeaderFits, ParserInv
<1>5. WaitFits'
  <2>1. (\E j \in DOMAIN text : text[j].is = "ppk") =>
          \E j \in DOMAIN text' : text'[j].is = "ppk"
    BY <1>1, TailFits DEF Reads
  <2> QED
    BY <1>1, <1>2, <2>1 DEF WaitFits, ParserInv
<1>6. Here > 0 /\ Unharmed => Due' = Due
  BY <1>1, DueNext DEF Reads, Passes
<1>7. Settles'
  BY <1>1, <1>2, <1>6 DEF ParserInv, Settles
<1>8. Track'
  BY <1>1, <1>2, <1>3, <1>6 DEF ParserInv, Track, OnTrack
<1>9. NameFits' /\ QtyFits'
  BY <1>1, <1>2, <1>6 DEF ParserInv, NameFits, Pending, QtyFits
<1>10. Here = 0 /\ Unharmed =>
         state' \in {"header", "error", "sIdle", "outOfBody", "inBody", "sQty", "end"}
  BY <1>1 DEF ParserInv, HeadWhole
<1> QED
  BY <1>1, <1>3, <1>4, <1>5, <1>7, <1>8, <1>9, <1>10, ReadsInv DEF ParserInv, ParserTypeOK

\* ReadTotal keeps ParserInv: the sum ends the parse, after the last item.
LEMMA ReadTotalInv == ASSUME ParserInv, ReadTotal PROVE ParserInv'
<1> DEFINE l == Head(text)
<1>1. /\ Reads /\ l.is = "TOTAL" /\ state \notin {"header", "error", "end"} /\ state' = "end"
      /\ UNCHANGED <<name, qty, lines>>
  BY DEF ReadTotal, Reads
<1>2. /\ layout' = layout /\ Here' = Here /\ broken' = broken /\ kinds' = kinds /\
           damaged' = damaged
      /\ (Unharmed' <=> Unharmed) /\ (Affected(Here)' <=> Affected(Here))
  BY <1>1, ReadKeeps DEF Reads
<1>3. LinesFine /\ (Recorded(Here) => Recorded(Here)') /\ (Unrecorded => Unrecorded')
  BY <1>1, ReadsOnly
<1>4. HeaderFits' /\ WaitFits' /\ QtyFits'
  BY <1>1, <1>2 DEF HeaderFits, WaitFits, QtyFits, State
<1>6. Here > 0 /\ Unharmed => Due = "none" /\ Due' = "none"
  BY <1>1, DueNext DEF Reads, Passes
<1>7. Settles'
  BY <1>1, <1>2, <1>6 DEF Settles
<1>8. Track'
  <2>1. SUFFICES ASSUME Here > 0, Unharmed, ~Affected(Here) PROVE Track'
    BY <1>2 DEF Track
  <2>2. Recorded(Here)
    BY <1>6, <2>1 DEF ParserInv, Track, OnTrack
  <2> QED
    BY <1>1, <1>2, <1>3, <1>6, <2>1, <2>2 DEF Track, OnTrack
<1>9. NameFits'
  BY <1>1, <1>2, <1>6 DEF ParserInv, NameFits, Pending
<1> QED
  BY <1>1, <1>3, <1>4, <1>7, <1>8, <1>9, ReadsInv DEF ParserInv, ParserTypeOK, State

\* ReadHeader keeps ParserInv: the titles select the parser of their layout.
LEMMA ReadHeaderInv == ASSUME ParserInv, ReadHeader PROVE ParserInv'
<1>1. /\ UNCHANGED <<layout, kinds, text, damage, damaged, broken, name, qty, lines>>
      /\ state = "header" /\ state' \in {"error", "outOfBody", "sIdle"}
      /\ state' = "outOfBody" => \E j \in DOMAIN text : text[j].is = "titles"
      /\ state' = "sIdle" => \A j \in DOMAIN text : text[j].is # "titles"
  BY DEF ReadHeader, printer
<1>2. Here = 0 /\ \E j \in DOMAIN text : text[j] = Line(Title(layout), 0)
  BY <1>1 DEF ParserInv, HeaderFits
<1>3. state' = "outOfBody" => layout = "rows"
  <2>1. SUFFICES ASSUME NEW j \in DOMAIN text, text[j].is = "titles",
                          layout = "cells" PROVE FALSE
    BY <1>1, LayoutAssumption DEF ParserInv, ParserTypeOK
  <2>2. text[j].is \in Stray \cup Heading(layout)
    BY <1>2 DEF ParserInv, LinesFit
  <2> QED
    BY <2>1, <2>2 DEF Stray, Heading
<1>4. state' = "sIdle" => layout = "cells"
  BY <1>1, <1>2, LayoutAssumption DEF ParserInv, Title, Line, ParserTypeOK
<1>5. HeaderFits'
  <2>1. layout' = layout /\ Here' = 0 /\
          \E j \in DOMAIN text' : text'[j] = Line(Title(layout), 0)
    BY <1>1, <1>2 DEF Here
  <2>2. state' \in (IF layout = "cells"
                   THEN State \ {"outOfBody", "inBody"}
                   ELSE {"header", "error", "outOfBody", "inBody", "end"})
    BY <1>1, <1>3, <1>4 DEF State
  <2> QED
    BY <2>1, <2>2 DEF HeaderFits
<1>6. LinesFit' /\ KgFits' /\ TextWhole' /\ HeadWhole' /\ damaged' \subseteq 0..Here'
  BY <1>1, <1>2 DEF ParserInv, LinesFit, KgFits, TextWhole, HeadWhole, Here, Unharmed
<1>7. WaitFits' /\ QtyFits' /\ Settles' /\ Track' /\ NameFits'
  BY <1>1, <1>2 DEF ParserInv, WaitFits, QtyFits, Settles, Track, NameFits, Here, Pending,
    Unharmed
<1>8. PastRecorded' /\ LinesPast' /\ PriceOfItsItem'
  BY <1>1, LinesKept
<1> QED
  BY <1>1, <1>5, <1>6, <1>7, <1>8 DEF ParserInv, ParserTypeOK, State

\* Before anything is read ParserInv holds.
LEMMA ParserStart == ParserInit => ParserInv
<1> SUFFICES ASSUME ParserInit PROVE ParserInv
  OBVIOUS
<1>1. /\ layout \in {"cells", "rows"} /\ kinds = <<>> /\ Here = 0 /\ text = Above(layout) /\
           state = "header"
      /\ name = 0 /\ qty = "0" /\ lines = <<>> /\ damage = 0 /\ damaged = {} /\ broken = {}
  BY LayoutAssumption DEF ParserInit, Here
<1>2. /\ text \in Seq([is : Word, of : 0..MaxItems])
      /\ \A j \in DOMAIN text : text[j].of = 0 /\ text[j].is \in Heading(layout)
      /\ \E j \in DOMAIN text : text[j] = Line(Title(layout), 0)
  <2> DEFINE H == {Line(w, 0) : w \in Heading(layout)}
             a == <<Line("date", 0)>>
             b == IF layout = "cells"
                  THEN <<Line("Descripcio", 0), Line("P_Unit", 0), Line("Import", 0)>>
                  ELSE <<Line("titles", 0)>>
  <2>1. \A x \in H : x \in [is : Word, of : 0..MaxItems] /\ x.of = 0 /\ x.is \in Heading(layout)
    BY <1>1, BoundAssumption DEF Line, Heading, Word
  <2>2. a \in Seq(H) /\ Len(a) = 1
    BY <1>1 DEF Heading
  <2>3. b \in Seq(H) /\ Len(b) \in Nat /\ Len(b) >= 1 /\ b[1] = Line(Title(layout), 0)
    <3>1. CASE layout = "cells"
      <4>1. b = <<Line("Descripcio", 0), Line("P_Unit", 0), Line("Import", 0)>> /\
              Title(layout) = "Descripcio"
        BY <3>1 DEF Title
      <4>2. Line("Descripcio", 0) \in H /\ Line("P_Unit", 0) \in H /\ Line("Import", 0) \in H
        BY <3>1 DEF Heading
      <4> HIDE DEF b, H
      <4> QED
        BY <4>1, <4>2
    <3>2. CASE layout = "rows"
      <4>1. b = <<Line("titles", 0)>> /\ Title(layout) = "titles"
        BY <3>2 DEF Title
      <4>2. Line("titles", 0) \in H
        BY <3>2 DEF Heading
      <4> HIDE DEF b, H
      <4> QED
        BY <4>1, <4>2
    <3> QED
      BY <1>1, <3>1, <3>2
  <2>4. text = a \o b
    BY <1>1 DEF Above
  <2> HIDE DEF a, b, H
  <2>5. /\ a \o b \in Seq(H) /\ Len(a \o b) = Len(a) + Len(b)
        /\ \A j \in 1..(Len(a) + Len(b)) :
             (a \o b)[j] = IF j <= Len(a) THEN a[j] ELSE b[j - Len(a)]
    BY <2>2, <2>3, CatText
  <2>6. /\ text \in Seq(H) /\ DOMAIN text = 1..(1 + Len(b)) /\ 2 \in DOMAIN text /\
             text[2] = b[1]
    BY <2>2, <2>3, <2>4, <2>5
  <2>7. \A j \in DOMAIN text : text[j] \in H
    BY <2>6
  <2>8. text \in Seq([is : Word, of : 0..MaxItems])
    <3>1. \A T, U : T \subseteq U => Seq(T) \subseteq Seq(U)
      OBVIOUS
    <3>2. H \subseteq [is : Word, of : 0..MaxItems]
      BY <2>1
    <3> QED
      BY <2>6, <3>1, <3>2
  <2> QED
    BY <2>1, <2>3, <2>6, <2>7, <2>8
<1>3. ParserTypeOK
  BY <1>1, <1>2, BoundAssumption DEF ParserInit, ParserTypeOK, State
<1>4. LinesFit /\ TextWhole
  BY <1>1, <1>2 DEF LinesFit, TextWhole
<1>7. HeaderFits
  BY <1>1, <1>2 DEF HeaderFits, State
<1>8. KgFits /\ HeadWhole
  <2>1. \A j \in DOMAIN text : text[j].is \notin {"kg", "n", "other"}
    BY <1>2 DEF Heading
  <2> QED
    BY <1>1, <2>1 DEF KgFits, HeadWhole
<1>5. WaitFits /\ QtyFits /\ Settles /\ Track /\ NameFits
  BY <1>1 DEF WaitFits, QtyFits, Settles, Track, NameFits, Pending
<1>6. PastRecorded /\ LinesPast /\ PriceOfItsItem /\ damaged \subseteq 0..Here
  BY <1>1 DEF PastRecorded, LinesPast, PriceOfItsItem
<1> QED
  BY <1>3, <1>4, <1>5, <1>6, <1>7, <1>8 DEF ParserInv

\* When everything has been read.
LEMMA AllRead ==
  ASSUME ParserInv, text = <<>>, state # "end"
  PROVE  /\ state \notin {"header", "error", "sIdle", "outOfBody"}
         /\ DOMAIN text = {} /\ Left = {}
         /\ Here \in 0..MaxItems
         /\ Here > 0 /\ Unharmed => Due = "none" /\ state \in {"sQty", "sWeightPPK", "inBody"}
         /\ Here = 0 /\ Unharmed => state \in {"sQty", "inBody"}
         /\ Here > 0 /\ ~Affected(Here) => Recorded(Here)
         /\ state = "sWeightPPK" =>
              \E b \in broken : b <= Here /\ \A j \in (b + 1)..Here : kinds[j] # "weight"
<1>1. DOMAIN text = {}
  OBVIOUS
<1>2. Left = {}
  BY <1>1 DEF Left
<1>3. Here \in 0..MaxItems
  BY BoundAssumption DEF ParserInv, ParserTypeOK, Here
<1>4. state \notin {"header", "error", "sIdle", "outOfBody"}
  BY <1>1 DEF ParserInv, HeaderFits
<1>5. Here > 0 /\ Unharmed => Due = "none"
  BY <1>2, DueNow
<1>6. Here > 0 /\ Unharmed => state \in {"sQty", "sWeightPPK", "inBody"}
  BY <1>5 DEF ParserInv, Settles
<1>7. Here = 0 /\ Unharmed => state \in {"sQty", "inBody"}
  BY <1>4 DEF ParserInv, HeadWhole
<1>8. Here > 0 /\ ~Affected(Here) => Recorded(Here)
  <2>1. SUFFICES ASSUME Here > 0, ~Affected(Here) PROVE Recorded(Here)
    OBVIOUS
  <2>2. Unharmed
    BY <2>1 DEF Affected, Unharmed
  <2> QED
    BY <1>5, <2>1, <2>2 DEF ParserInv, Track, OnTrack
<1>9. state = "sWeightPPK" =>
        \E b \in broken : b <= Here /\ \A j \in (b + 1)..Here : kinds[j] # "weight"
  BY <1>1 DEF ParserInv, WaitFits
<1> QED
  BY <1>1, <1>2, <1>3, <1>4, <1>5, <1>6, <1>7, <1>8, <1>9

\* PrintItem keeps ParserInv: the parser has done with the item before it.
LEMMA PrintItemInv == ASSUME ParserInv, NEW k \in Kind, PrintItem(k) PROVE ParserInv'
<1> DEFINE S == [is : Word, of : 0..MaxItems]
<1>0. Here \in 0..MaxItems
  BY BoundAssumption DEF ParserInv, ParserTypeOK, Here
<1>i. PICK i \in Nat : i = Here + 1
  BY <1>0, BoundAssumption
<1>1. /\ text = <<>> /\ state # "end" /\ Here < MaxItems
      /\ kinds' = Append(kinds, k) /\ text' = Printed(k, i)
      /\ UNCHANGED <<layout, damage, damaged, broken, state, name, qty, lines>>
  BY <1>i DEF PrintItem, parser, Here
<1>2. /\ state \notin {"header", "error", "sIdle", "outOfBody"} /\ Here \in 0..MaxItems
      /\ Here > 0 /\ Unharmed => Due = "none" /\ state \in {"sQty", "sWeightPPK", "inBody"}
      /\ Here = 0 /\ Unharmed => state \in {"sQty", "inBody"}
      /\ Here > 0 /\ ~Affected(Here) => Recorded(Here)
      /\ state = "sWeightPPK" =>
           \E b \in broken : b <= Here /\ \A j \in (b + 1)..Here : kinds[j] # "weight"
  BY <1>1, AllRead
<1>3. /\ kinds' \in Seq(Kind) /\ Here' = i /\ kinds'[i] = k /\ i \in 1..MaxItems
      /\ \A j \in 1..Here : kinds'[j] = kinds[j]
  BY <1>i, <1>1, <1>2, BoundAssumption DEF ParserInv, ParserTypeOK, Here
<1>4. /\ text' \in Seq(S) /\ text' # <<>>
      /\ \A j \in DOMAIN text' : text'[j].of = i /\ text'[j].is \in Words(layout, k)
      /\ \A w \in Words(layout, k) : \E j \in DOMAIN text' : text'[j] = Line(w, i)
      /\ \A j, m \in DOMAIN text' : j < m => Rank(text'[j].is) < Rank(text'[m].is)
      /\ \A j \in DOMAIN text' : text'[j].is = "kg" =>
           \E m \in DOMAIN text' : m > j /\ text'[m].is = "ppk"
  <2> DEFINE s == Printed(k, i)
  <2>1. /\ s \in Seq(S) /\ s # <<>>
        /\ \A j \in DOMAIN s : s[j].of = i /\ s[j].is \in Words(layout, k)
        /\ \A w \in Words(layout, k) : \E j \in DOMAIN s : s[j] = Line(w, i)
        /\ \A j, m \in DOMAIN s : j < m => Rank(s[j].is) < Rank(s[m].is)
        /\ \A j \in DOMAIN s : s[j].is = "kg" => \E m \in DOMAIN s : m > j /\ s[m].is = "ppk"
    BY <1>3, PrintedText
  <2>2. text' = s
    BY <1>1
  <2> HIDE DEF s
  <2> QED
    BY <2>1, <2>2
<1>5. damaged \subseteq 0..Here /\ i \notin damaged /\ Unharmed' /\ i > 0 /\ i # 0
  BY <1>i, <1>1, <1>2, <1>3 DEF ParserInv, Unharmed
<1>6. Left' = Words(layout, k)
  BY <1>1, <1>3, <1>4 DEF Left
<1>7. Left' = {w \in Words(layout, k) : Rank(w) >= 0} /\ Left' \cap FirstWord # {}
  <2>1. layout \in {"cells", "rows"}
    BY LayoutAssumption DEF ParserInv, ParserTypeOK
  <2>2. Words(layout, k) \cap FirstWord # {}
    BY <2>1 DEF Words, FirstWord, Kind
  <2>3. \A w \in Words(layout, k) : Rank(w) >= 0
    BY DEF Rank
  <2> QED
    BY <1>6, <2>2, <2>3
<1>8. Due' = "first"
  <2>1. layout \in {"cells", "rows"}
    BY LayoutAssumption DEF ParserInv, ParserTypeOK
  <2> QED
    BY <1>7, <2>1, DueWords DEF Due
<1>9. LinesFit' /\ KgFits' /\ TextWhole' /\ HeadWhole' /\ Settles'
  <2>1. LinesFit'
    BY <1>1, <1>3, <1>4, <1>5 DEF LinesFit
  <2>2. KgFits'
    BY <1>4 DEF KgFits
  <2>3. TextWhole'
    BY <1>1, <1>3, <1>4, <1>5, <1>7 DEF TextWhole
  <2> QED
    BY <1>3, <1>5, <1>8, <2>1, <2>2, <2>3 DEF HeadWhole, Settles
<1>10. HeaderFits' /\ QtyFits'
  BY <1>1, <1>2 DEF ParserInv, HeaderFits, QtyFits
<1>11. WaitFits'
  <2>1. SUFFICES ASSUME state = "sWeightPPK" PROVE WaitFits'
    BY <1>1 DEF WaitFits
  <2>2. CASE k = "weight"
    <3>1. CASE layout = "cells"
      <4>1. "ppk" \in Words(layout, k)
        BY <2>2, <3>1 DEF Words
      <4> QED
        BY <1>4, <4>1 DEF WaitFits, Line
    <3>2. CASE layout # "cells"
      BY <2>1, <3>2 DEF ParserInv, HeaderFits
    <3> QED
      BY <3>1, <3>2
  <2>3. CASE k # "weight"
    <3>1. PICK b \in broken : b <= Here /\ \A j \in (b + 1)..Here : kinds[j] # "weight"
      BY <1>2, <2>1
    <3>2. b \in Nat
      BY <1>5 DEF ParserInv, ParserTypeOK
    <3>3. \A j \in (b + 1)..i : kinds'[j] # "weight"
      BY <1>i, <1>2, <1>3, <2>3, <3>1, <3>2
    <3>4. b \in broken' /\ b <= Here' /\ \A j \in (b + 1)..Here' : kinds'[j] # "weight"
      <4>1. Here' = i /\ broken' = broken /\ b <= i
        BY <1>i, <1>1, <1>2, <1>3, <3>1, <3>2
      <4> QED
        BY <3>3, <4>1
    <3> QED
      BY <3>4 DEF WaitFits
  <2> QED
    BY <2>2, <2>3
<1>12. \A j \in 1..Here : Affected(j) => Affected(j)'
  <2>1. broken \subseteq Nat
    BY DEF ParserInv, ParserTypeOK
  <2>2. damaged \subseteq damaged' /\ broken \subseteq broken' /\ Here \in Nat
    BY <1>1, <1>2
  <2>3. \A j \in 1..Here : kinds'[j] = kinds[j]
    BY <1>3
  <2> QED
    BY <2>1, <2>2, <2>3, AffectedGrows
<1>13. PastRecorded'
  <2>1. SUFFICES ASSUME NEW j \in 1..Here, ~Affected(j)' PROVE Recorded(j)'
    BY <1>i, <1>2, <1>3 DEF PastRecorded
  <2>2. ~Affected(j)
    BY <1>12, <2>1
  <2>3. Recorded(j)
    BY <1>2, <2>2 DEF ParserInv, PastRecorded
  <2> QED
    BY <1>1, <1>3, <2>3 DEF Recorded, Expected
<1>14. LinesPast' /\ PriceOfItsItem' /\ Unrecorded'
  <2>1. ASSUME NEW j \in DOMAIN lines
        PROVE  lines[j].price[2] \in Nat /\ lines[j].price[2] <= Here
    <3>0. lines \in Seq(RecordSet)
      BY DEF ParserInv, ParserTypeOK, RecordSet
    <3>1. lines[j] \in RecordSet
      BY <3>0
    <3>2. lines[j].price \in {"unit", "total"} \X (1..MaxItems)
      BY <3>1 DEF RecordSet
    <3>3. lines[j].price[2] \in 1..MaxItems
      BY <3>2
    <3> QED
      BY <3>3, BoundAssumption DEF ParserInv, LinesPast
  <2> QED
    BY <1>i, <1>1, <1>2, <1>3, <2>1 DEF ParserInv, LinesPast, PriceOfItsItem, Unrecorded
<1>15. Track'
  <2>1. SUFFICES ASSUME ~Affected(i)' PROVE OnTrack'
    BY <1>3 DEF Track
  <2>2. Unharmed
    <3>1. i - 1 \notin damaged
      BY <1>1, <2>1 DEF Affected
    <3> QED
      BY <1>i, <1>2, <3>1 DEF Unharmed
  <2>3. state # "sWeightPPK"
    <3>1. SUFFICES ASSUME state = "sWeightPPK" PROVE FALSE
      OBVIOUS
    <3>2. PICK b \in broken : b <= Here /\ \A j \in (b + 1)..Here : kinds[j] # "weight"
      BY <1>2, <3>1
    <3>3. b \in Nat /\ i - 1 = Here /\ b < i
      BY <1>i, <1>2, <1>5, <3>2 DEF ParserInv, ParserTypeOK
    <3>4. \A j \in (b + 1)..(i - 1) : kinds'[j] # "weight"
      BY <1>2, <1>3, <3>2, <3>3
    <3>5. \E c \in broken' : c < i /\ \A j \in (c + 1)..(i - 1) : kinds'[j] # "weight"
      BY <1>1, <3>2, <3>3, <3>4
    <3>6. Affected(i)'
      BY <3>5 DEF Affected
    <3> QED
      BY <2>1, <3>6
  <2>4. state \in {"sQty", "inBody"}
    BY <1>2, <2>2, <2>3
  <2> QED
    BY <1>1, <1>8, <1>14, <2>4 DEF OnTrack
<1>16. NameFits'
  <2>1. name \in 0..MaxItems /\ name <= Here
    BY DEF ParserInv, ParserTypeOK, NameFits
  <2>2. ASSUME OneHarmed, Pending
        PROVE  name = 0 \/ (Here \in damaged /\ state # "sWeightPPK")
    <3>1. state # "sWeightPPK"
      BY <1>2, <2>2 DEF OneHarmed
    <3>2. CASE Here \in damaged
      BY <3>1, <3>2
    <3>3. CASE Here \notin damaged
      <4>1. state = "inBody"
        BY <1>2, <2>2, <3>1, <3>3 DEF Pending, Unharmed
      <4>2. layout = "rows"
        BY <4>1, LayoutAssumption DEF ParserInv, HeaderFits, ParserTypeOK, State
      <4> QED
        BY <1>2, <3>3, <4>2 DEF ParserInv, NameFits, Unharmed
    <3> QED
      BY <3>2, <3>3
  <2>3. name <= i /\ i - 1 = Here
    BY <1>i, <1>2, <2>1
  <2>4. (OneHarmed' <=> OneHarmed) /\ (Pending' <=> Pending)
    BY <1>1 DEF OneHarmed, Pending
  <2> QED
    BY <1>1, <1>3, <1>5, <1>8, <2>2, <2>3, <2>4 DEF NameFits
<1>17. ParserTypeOK' /\ damaged' \subseteq 0..Here'
  BY <1>1, <1>2, <1>3, <1>4, <1>5 DEF ParserInv, ParserTypeOK, Here
<1> QED
  BY <1>9, <1>10, <1>11, <1>13, <1>14, <1>15, <1>16, <1>17 DEF ParserInv

\* PrintTotal keeps ParserInv.
LEMMA PrintTotalInv == ASSUME ParserInv, PrintTotal PROVE ParserInv'
<1> DEFINE S == [is : Word, of : 0..MaxItems]
           x == Line("TOTAL", 0)
<1>1. /\ text = <<>> /\ state # "end" /\ text' = <<x>>
      /\ UNCHANGED <<layout, kinds, damage, damaged, broken, state, name, qty, lines>>
  BY DEF PrintTotal, parser
<1>2. /\ state \notin {"header", "error", "sIdle", "outOfBody"} /\ Here \in 0..MaxItems /\
           Left = {}
      /\ state = "sWeightPPK" =>
           \E b \in broken : b <= Here /\ \A j \in (b + 1)..Here : kinds[j] # "weight"
  BY <1>1, AllRead
<1>3. x \in S /\ x.is = "TOTAL" /\ x.of = 0
  BY BoundAssumption DEF Line, Word
<1> HIDE DEF x
<1>4. text' \in Seq(S) /\ DOMAIN text' = {1} /\ text'[1] = x
  BY <1>1, <1>3
<1>5. /\ Here' = Here /\ (Unharmed' <=> Unharmed) /\ Quantity' = Quantity
      /\ (OneHarmed' <=> OneHarmed)
  BY <1>1 DEF Here, Unharmed, Quantity, OneHarmed
<1>6. Affected(Here)' <=> Affected(Here)
  BY <1>1, <1>5 DEF Affected
<1>7. Here > 0 => Left' = {} /\ Due' = Due
  <2>1. SUFFICES ASSUME Here > 0 PROVE Left' = {} /\ Due' = Due
    OBVIOUS
  <2>2. \A w : x # Line(w, Here)
    BY <1>2, <1>3, <2>1 DEF Line
  <2>3. Left' = {}
    BY <1>4, <1>5, <2>2 DEF Left
  <2> QED
    BY <1>2, <2>3 DEF Due
<1>8. LinesFit' /\ KgFits' /\ HeadWhole'
  <2>1. \A j \in DOMAIN text' : text'[j].is = "TOTAL" /\ text'[j].of = 0
    BY <1>3, <1>4
  <2> QED
    BY <1>1, <1>5, <2>1 DEF LinesFit, KgFits, HeadWhole, Stray, ParserInv
<1>9. TextWhole'
  <2>1. SUFFICES ASSUME Here > 0, Unharmed PROVE TextWhole'
    BY <1>5 DEF TextWhole
  <2>2. PICK r \in Nat : Left = {w \in Words(layout, kinds[Here]) : Rank(w) >= r}
    BY <2>1 DEF ParserInv, TextWhole
  <2>3. Left' = {w \in Words(layout, kinds[Here]) : Rank(w) >= r}
    BY <1>2, <1>7, <2>1, <2>2
  <2>4. \E c \in Nat : Left' = {w \in Words(layout, kinds[Here])' : Rank(w) >= c}
    BY <1>1, <1>5, <2>3
  <2>5. \A j, m \in DOMAIN text' : ~(j < m)
    BY <1>4
  <2>6. \A j \in DOMAIN text' : text'[j].is = "TOTAL" /\ Left' = {}
    BY <1>3, <1>4, <1>7, <2>1
  <2> QED
    BY <2>4, <2>5, <2>6 DEF TextWhole
<1>10. HeaderFits' /\ QtyFits'
  BY <1>1, <1>2 DEF ParserInv, HeaderFits, QtyFits
<1>11. WaitFits'
  BY <1>1, <1>2, <1>5 DEF WaitFits
<1>12. /\ PastRecorded' /\ LinesPast' /\ PriceOfItsItem'
       /\ (Recorded(Here) => Recorded(Here)') /\ (Unrecorded => Unrecorded')
  <2>1. damaged \subseteq damaged' /\ broken \subseteq broken'
    BY <1>1
  <2> QED
    BY <1>1, <2>1, LinesKept
<1>13. Settles'
  BY <1>1, <1>5, <1>7 DEF ParserInv, Settles
<1>14. Track'
  <2>1. SUFFICES ASSUME Here > 0, Unharmed, ~Affected(Here) PROVE OnTrack'
    BY <1>5, <1>6 DEF Track
  <2>2. OnTrack
    BY <2>1 DEF ParserInv, Track
  <2> QED
    BY <1>1, <1>5, <1>7, <1>12, <2>1, <2>2 DEF OnTrack
<1>15. NameFits'
  BY <1>1, <1>5, <1>7 DEF ParserInv, NameFits, Pending
<1>16. ParserTypeOK' /\ damaged' \subseteq 0..Here'
  BY <1>1, <1>4, <1>5 DEF ParserInv, ParserTypeOK
<1> QED
  BY <1>8, <1>9, <1>10, <1>11, <1>12, <1>13, <1>14, <1>15, <1>16 DEF ParserInv

\* What is said of items without damage says nothing of one that is harmed.
LEMMA Harmed ==
  ASSUME ParserInv, damaged' = damaged \cup {Here}, broken \subseteq broken',
         UNCHANGED <<layout, kinds, state, name, qty, lines>>
  PROVE  /\ Here' = Here /\ Here \in 0..MaxItems /\ damaged' \subseteq 0..Here'
         /\ TextWhole' /\ HeadWhole' /\ Settles' /\ Track' /\ NameFits' /\ QtyFits'
         /\ PastRecorded' /\ LinesPast' /\ PriceOfItsItem'
<1>1. Here' = Here /\ Here \in 0..MaxItems
  BY BoundAssumption DEF Here, ParserInv, ParserTypeOK
<1>2. ~Unharmed' /\ damaged \subseteq damaged'
  BY <1>1 DEF Unharmed
<1>3. TextWhole' /\ HeadWhole' /\ Settles' /\ Track'
  BY <1>2 DEF TextWhole, HeadWhole, Settles, Track
<1>4. PastRecorded' /\ LinesPast' /\ PriceOfItsItem'
  BY <1>2, LinesKept
<1>5. NameFits'
  <2>1. ASSUME OneHarmed', Pending' PROVE name \in {0, Here}
    <3>1. OneHarmed /\ Pending
      BY <1>2, <2>1 DEF OneHarmed, Pending
    <3>2. SUFFICES ASSUME Here > 0, Here - 1 \in damaged PROVE FALSE
      BY <3>1 DEF ParserInv, NameFits
    <3>3. Here - 1 = Here
      BY <2>1, <3>2 DEF OneHarmed
    <3> QED
      BY <1>1, <3>3
  <2> QED
    BY <1>1, <1>2, <2>1 DEF ParserInv, NameFits
<1>6. QtyFits' /\ damaged' \subseteq 0..Here'
  BY <1>1 DEF ParserInv, QtyFits
<1> QED
  BY <1>1, <1>3, <1>4, <1>5, <1>6

\* Lose keeps ParserInv: the item is harmed, and a lost price per kg is broken.
LEMMA LoseInv == ASSUME ParserInv, NEW k \in DOMAIN text, Lose(k) PROVE ParserInv'
<1> DEFINE S == [is : Word, of : 0..MaxItems]
<1>1. /\ damage < MaxDamage /\ damage' = damage + 1
      /\ text[k].of > 0 \/ text[k].is = "date"
      /\ text' = [j \in 1..(Len(text) - 1) |-> IF j < k THEN text[j] ELSE text[j + 1]]
      /\ damaged' = damaged \cup {Here}
      /\ broken' = IF text[k].is = "ppk" THEN broken \cup {Here} ELSE broken
      /\ UNCHANGED <<layout, kinds, state, name, qty, lines>>
  BY DEF Lose, parser, Here
<1>2. broken \subseteq broken' /\ (text[k].is = "ppk" => Here \in broken') /\
        broken' \subseteq damaged'
  BY <1>1 DEF ParserInv, ParserTypeOK
<1>3. /\ Here' = Here /\ Here \in 0..MaxItems /\ damaged' \subseteq 0..Here'
      /\ TextWhole' /\ HeadWhole' /\ Settles' /\ Track' /\ NameFits' /\ QtyFits'
      /\ PastRecorded' /\ LinesPast' /\ PriceOfItsItem'
  BY <1>1, <1>2, Harmed
<1>4. /\ text' \in Seq(S) /\ DOMAIN text' = 1..(Len(text) - 1) /\ DOMAIN text = 1..Len(text)
      /\ Len(text) \in Nat
      /\ \A j \in DOMAIN text' : text'[j] = IF j < k THEN text[j] ELSE text[j + 1]
  BY <1>1, LoseText DEF ParserInv, ParserTypeOK
<1>5. ASSUME NEW j \in DOMAIN text'
      PROVE  \E m \in DOMAIN text : m # k /\ text'[j] = text[m] /\
               j = IF m < k THEN m ELSE m - 1
  <2>1. CASE j < k
    BY <1>4, <2>1
  <2>2. CASE ~(j < k)
    <3>1. j + 1 \in DOMAIN text /\ j + 1 # k /\ ~(j + 1 < k) /\ j = (j + 1) - 1
      BY <1>4, <2>2
    <3> QED
      BY <1>4, <2>2, <3>1
  <2> QED
    BY <2>1, <2>2
<1>6. ASSUME NEW m \in DOMAIN text, m # k
      PROVE  \E j \in DOMAIN text' : text'[j] = text[m] /\ j = IF m < k THEN m ELSE m - 1
  <2>1. CASE m < k
    BY <1>4, <2>1
  <2>2. CASE ~(m < k)
    <3>1. m - 1 \in DOMAIN text' /\ ~(m - 1 < k) /\ (m - 1) + 1 = m
      BY <1>4, <1>6, <2>2
    <3> QED
      BY <1>4, <2>2, <3>1
  <2> QED
    BY <2>1, <2>2
<1>7. LinesFit'
  <2>1. SUFFICES ASSUME NEW j \in DOMAIN text'
        PROVE  \/ text'[j].of = 0 /\ text'[j].is \in Stray
               \/ text'[j].of = 0 /\ text'[j].is \in Heading(layout)' /\ Here' = 0
               \/ text'[j].of = Here' /\ Here' > 0 /\
                    text'[j].is \in Words(layout, kinds[Here])'
    BY DEF LinesFit
  <2>2. PICK m \in DOMAIN text : text'[j] = text[m]
    BY <1>5
  <2> QED
    BY <1>1, <1>3, <2>2 DEF ParserInv, LinesFit
<1>8. HeaderFits'
  <2>1. ASSUME NEW j \in DOMAIN text, text[j] = Line(Title(layout), 0)
        PROVE  \E m \in DOMAIN text' : text'[m] = Line(Title(layout), 0)
    <3>1. j # k
      BY <1>1, <2>1 DEF Line, Title
    <3> QED
      BY <1>6, <2>1, <3>1
  <2> QED
    BY <1>1, <1>3, <2>1 DEF ParserInv, HeaderFits
<1>9. KgFits'
  <2>1. SUFFICES ASSUME NEW j \in DOMAIN text', text'[j].is = "kg"
        PROVE  Here \in broken' \/ \E m \in DOMAIN text' : m > j /\ text'[m].is = "ppk"
    BY <1>3 DEF KgFits
  <2>2. PICK n \in DOMAIN text : n # k /\ text'[j] = text[n] /\ j = IF n < k THEN n ELSE n - 1
    BY <1>5
  <2>3. CASE Here \in broken
    BY <1>2, <2>3
  <2>4. CASE \E m \in DOMAIN text : m > n /\ text[m].is = "ppk"
    <3>1. PICK m \in DOMAIN text : m > n /\ text[m].is = "ppk"
      BY <2>4
    <3>2. CASE m = k
      BY <1>2, <3>1, <3>2
    <3>3. CASE m # k
      <4>1. PICK i \in DOMAIN text' : text'[i] = text[m] /\ i = IF m < k THEN m ELSE m - 1
        BY <1>6, <3>3
      <4>2. i > j
        BY <1>4, <2>2, <3>1, <3>3, <4>1
      <4> QED
        BY <3>1, <4>1, <4>2
    <3> QED
      BY <3>2, <3>3
  <2> QED
    BY <2>1, <2>2, <2>3, <2>4 DEF ParserInv, KgFits
<1>10. WaitFits'
  <2>1. SUFFICES ASSUME state = "sWeightPPK"
        PROVE  \/ \E j \in DOMAIN text' : text'[j].is = "ppk"
               \/ \E b \in broken' : b <= Here /\ \A j \in (b + 1)..Here : kinds[j] # "weight"
    BY <1>1, <1>3 DEF WaitFits
  <2>2. CASE \E j \in DOMAIN text : text[j].is = "ppk"
    <3>1. PICK j \in DOMAIN text : text[j].is = "ppk"
      BY <2>2
    <3>2. CASE j = k
      <4>1. Here \in broken' /\ Here <= Here /\ (Here + 1)..Here = {}
        BY <1>2, <1>3, <3>1, <3>2
      <4> QED
        BY <4>1
    <3>3. CASE j # k
      BY <1>6, <3>1, <3>3
    <3> QED
      BY <3>2, <3>3
  <2>3. CASE \E b \in broken : b <= Here /\ \A j \in (b + 1)..Here : kinds[j] # "weight"
    BY <1>2, <2>3
  <2> QED
    BY <2>1, <2>2, <2>3 DEF ParserInv, WaitFits
<1>11. ParserTypeOK'
  <2>1. damage' \in 0..MaxDamage
    BY <1>1, BoundAssumption DEF ParserInv, ParserTypeOK
  <2>2. damaged' \subseteq 0..MaxItems
    BY <1>1, <1>3 DEF ParserInv, ParserTypeOK
  <2> QED
    BY <1>1, <1>2, <1>4, <2>1, <2>2 DEF ParserInv, ParserTypeOK
<1> QED
  BY <1>3, <1>7, <1>8, <1>9, <1>10, <1>11 DEF ParserInv

\* Ranks begin at 1.
LEMMA RankPositive == \A w : Rank(w) \in Nat /\ Rank(w) >= 1
BY DEF Rank

\* A line that does not split the item: it is blank, or stands before its first line.
LEMMA InsertWhole ==
  ASSUME ParserInv, NEW k \in DOMAIN text, NEW w \in {"other", "blank"},
         w = "other" => ~Splits(k), NEW x, x = Line(w, 0),
         text' \in Seq([is : Word, of : 0..MaxItems]),
         DOMAIN text = 1..Len(text), Len(text) \in Nat, DOMAIN text' = 1..(Len(text) + 1),
         text'[k] = x, \A j \in 1..(k - 1) : text'[j] = text[j],
         \A j \in k..Len(text) : text'[j + 1] = text[j],
         UNCHANGED <<layout, kinds, damaged>>
  PROVE  TextWhole' /\ (Here = 0 /\ Unharmed =>
           \A j \in DOMAIN text' : text'[j].is \notin {"n", "other"})
<1>1. Here' = Here /\ (Unharmed' <=> Unharmed) /\ x.is = w /\ x.of = 0 /\ Here \in 0..MaxItems
  BY BoundAssumption DEF Here, Unharmed, Line, ParserInv, ParserTypeOK
<1>2. ASSUME w = "other" PROVE \E i \in DOMAIN text : i >= k /\ text[i].is \in FirstWord
  <2>1. PICK i \in k..Len(text) : First(text[i])
    BY <1>2 DEF Splits
  <2>2. i \in DOMAIN text /\ i >= k
    <3>1. k \in 1..Len(text)
      OBVIOUS
    <3> QED
      BY <3>1
  <2>3. text[i].is \in FirstWord
    BY <2>1 DEF First, FirstWord
  <2> QED
    BY <2>2, <2>3
<1>3. ASSUME NEW j \in DOMAIN text', j # k
      PROVE  \E m \in DOMAIN text : text'[j] = text[m] /\ j = IF m < k THEN m ELSE m + 1
  <2>1. CASE j < k
    <3>1. j \in 1..(k - 1) /\ j \in DOMAIN text
      BY <2>1
    <3> QED
      BY <2>1, <3>1
  <2>2. CASE ~(j < k)
    <3>1. PICK m \in k..Len(text) : j = m + 1
      <4>1. j - 1 \in k..Len(text) /\ j = (j - 1) + 1
        BY <1>3, <2>2
      <4> QED
        BY <4>1
    <3>2. m \in DOMAIN text /\ ~(m < k)
      BY <3>1
    <3> QED
      BY <3>1, <3>2
  <2> QED
    BY <2>1, <2>2
<1>4. ASSUME NEW m \in DOMAIN text
      PROVE  \E j \in DOMAIN text' : text'[j] = text[m] /\ j = IF m < k THEN m ELSE m + 1
  <2>1. CASE m < k
    <3>1. m \in 1..(k - 1) /\ m \in DOMAIN text'
      BY <2>1
    <3> QED
      BY <2>1, <3>1
  <2>2. CASE ~(m < k)
    <3>1. m \in k..Len(text) /\ m + 1 \in DOMAIN text'
      BY <2>2
    <3> QED
      BY <2>2, <3>1
  <2> QED
    BY <2>1, <2>2
<1>5. TextWhole'
  <2>1. SUFFICES ASSUME Here > 0, Unharmed PROVE TextWhole'
    BY <1>1 DEF TextWhole
  <2>2. \A v : x # Line(v, Here)
    BY <1>1, <2>1 DEF Line
  <2>3. Left' = Left
    <3>1. ASSUME NEW v
          PROVE (\E j \in DOMAIN text : text[j] = Line(v, Here)) <=>
                  \E j \in DOMAIN text' : text'[j] = Line(v, Here)
      <4>1. ASSUME NEW j \in DOMAIN text',
                     text'[j] = Line(v, Here) PROVE \E m \in DOMAIN text :
                       text[m] = Line(v, Here)
        <5>1. j # k
          BY <2>2, <4>1
        <5> QED
          BY <1>3, <4>1, <5>1
      <4> QED
        BY <1>4, <4>1
    <3> QED
      BY <1>1, <3>1 DEF Left
  <2>4. \E r \in Nat : Left' = {v \in Words(layout, kinds[Here])' : Rank(v) >= r}
    BY <1>1, <2>1, <2>3 DEF ParserInv, TextWhole
  <2>5. /\ \A j, m \in DOMAIN text : j < m /\ text[j].of = Here =>
             \/ text[m].of = Here /\ Rank(text[j].is) < Rank(text[m].is)
             \/ text[m].is = "blank"
        /\ \A j \in DOMAIN text : text[j].of = 0 =>
             \/ text[j].is = "blank"
             \/ text[j].is = "other" /\ Left \cap FirstWord # {}
             \/ text[j].is = "TOTAL" /\ Left = {}
    BY <2>1 DEF ParserInv, TextWhole
  <2>6. ASSUME NEW j \in DOMAIN text', NEW m \in DOMAIN text', j < m, text'[j].of = Here
        PROVE  \/ text'[m].of = Here /\ Rank(text'[j].is) < Rank(text'[m].is)
               \/ text'[m].is = "blank"
    <3>1. j # k
      BY <1>1, <2>1, <2>6
    <3>2. PICK a \in DOMAIN text : text'[j] = text[a] /\ j = IF a < k THEN a ELSE a + 1
      BY <1>3, <3>1
    <3>3. CASE m = k
      <4>1. text'[m] = x
        BY <3>3
      <4>2. SUFFICES ASSUME w = "other" PROVE FALSE
        BY <1>1, <4>1
      <4>3. PICK i \in DOMAIN text : i >= k /\ text[i].is \in FirstWord
        BY <1>2, <4>2
      <4>4. a < i /\ text[a].of = Here
        BY <2>6, <3>2, <3>3, <4>3
      <4>5. text[i].is # "blank" /\ Rank(text[i].is) = 1
        BY <4>3, Ranks DEF FirstWord
      <4>6. Rank(text[a].is) < 1
        BY <2>5, <4>4, <4>5
      <4> QED
        BY <4>6, RankPositive
    <3>4. CASE m # k
      <4>1. PICK b \in DOMAIN text : text'[m] = text[b] /\ m = IF b < k THEN b ELSE b + 1
        BY <1>3, <3>4
      <4>2. a < b
        BY <2>6, <3>2, <4>1
      <4> QED
        BY <2>5, <2>6, <3>2, <4>1, <4>2
    <3> QED
      BY <3>3, <3>4
  <2>7. ASSUME w = "other" PROVE Left \cap FirstWord # {}
    <3>1. PICK i \in DOMAIN text : i >= k /\ text[i].is \in FirstWord
      BY <1>2, <2>7
    <3>2. text[i].of # 0
      BY <2>5, <3>1 DEF FirstWord
    <3>3. text[i].of = Here /\ text[i].is \in Words(layout, kinds[Here])
      BY <3>2 DEF ParserInv, LinesFit
    <3>4. text[i] = Line(text[i].is, Here)
      <4> DEFINE S == [is : Word, of : 0..MaxItems]
      <4>0. text \in Seq(S)
        BY DEF ParserInv, ParserTypeOK
      <4> HIDE DEF S
      <4>2. text[i] \in S
        BY <4>0
      <4>1. text[i] = [is |-> text[i].is, of |-> text[i].of]
        BY <4>2 DEF S
      <4> QED
        BY <3>3, <4>1 DEF Line
    <3> QED
      BY <3>1, <3>3, <3>4 DEF Left
  <2>8. ASSUME NEW j \in DOMAIN text', text'[j].of = 0
        PROVE  \/ text'[j].is = "blank"
               \/ text'[j].is = "other" /\ Left \cap FirstWord # {}
               \/ text'[j].is = "TOTAL" /\ Left = {}
    <3>1. CASE j = k
      BY <1>1, <2>7, <3>1
    <3>2. CASE j # k
      BY <1>3, <2>5, <2>8, <3>2
    <3> QED
      BY <3>1, <3>2
  <2> QED
    BY <1>1, <2>3, <2>4, <2>6, <2>8 DEF TextWhole
<1>6. ASSUME Here = 0, Unharmed, NEW j \in DOMAIN text' PROVE text'[j].is \notin {"n", "other"}
  <2>1. \A m \in DOMAIN text : text[m].is \notin {"n", "other"}
    BY <1>6 DEF ParserInv, HeadWhole
  <2>2. w # "other"
    <3>1. SUFFICES ASSUME w = "other" PROVE FALSE
      OBVIOUS
    <3>2. PICK i \in DOMAIN text : text[i].is \in FirstWord
      BY <1>2, <3>1
    <3>3. text[i].is \in Stray \cup Heading(layout)
      BY <1>6 DEF ParserInv, LinesFit
    <3> QED
      BY <2>1, <3>2, <3>3 DEF Stray, Heading, FirstWord
  <2>3. CASE j = k
    BY <1>1, <2>2, <2>3
  <2>4. CASE j # k
    BY <1>3, <2>1, <2>4
  <2> QED
    BY <2>3, <2>4
<1> QED
  BY <1>5, <1>6

\* Insert keeps ParserInv: a line that splits the item, or may be a quantity, harms it.
LEMMA InsertInv ==
  ASSUME ParserInv, NEW k \in DOMAIN text, NEW w \in {"other", "n", "blank"}, Insert(k, w)
  PROVE  ParserInv'
<1> DEFINE S == [is : Word, of : 0..MaxItems]
           x == Line(w, 0)
<1>1. /\ damage < MaxDamage /\ damage' = damage + 1
      /\ text' = SubSeq(text, 1, k - 1) \o <<x>> \o SubSeq(text, k, Len(text))
      /\ damaged' = IF w = "n" \/
           (w = "other" /\ Splits(k)) THEN damaged \cup {Here} ELSE damaged
      /\ UNCHANGED <<layout, kinds, broken, state, name, qty, lines>>
  BY DEF Insert, parser, Here
<1>2. x \in S /\ x.is = w /\ x.of = 0
  BY BoundAssumption DEF Line, Word
<1>x. x = Line(w, 0)
  OBVIOUS
<1> HIDE DEF x
<1>3. /\ text' \in Seq(S) /\ DOMAIN text' = 1..(Len(text) + 1) /\ DOMAIN text = 1..Len(text)
      /\ Len(text) \in Nat /\ text'[k] = x
      /\ \A j \in 1..(k - 1) : text'[j] = text[j]
      /\ \A j \in k..Len(text) : text'[j + 1] = text[j]
  <2>1. text \in Seq(S)
    BY DEF ParserInv, ParserTypeOK
  <2> HIDE DEF S
  <2>2. k \in 1..Len(text)
    BY <2>1
  <2>3. text' = With(text, k, x)
    BY <1>1 DEF With
  <2>4. x \in S
    BY <1>2
  <2> DEFINE t == With(text, k, x)
  <2>5. t \in Seq(S) /\ DOMAIN t = 1..(Len(text) + 1)
    BY <2>1, <2>2, <2>4, InsertText
  <2>6. DOMAIN text = 1..Len(text) /\ Len(text) \in Nat
    BY <2>1
  <2>7. t[k] = x
    BY <2>1, <2>2, <2>4, InsertText
  <2>8. \A j \in 1..(k - 1) : t[j] = text[j]
    BY <2>1, <2>2, <2>4, InsertText
  <2>9. Later(t, text, k)
    BY <2>1, <2>2, <2>4, InsertText
  <2>10. text' = t
    BY <2>3
  <2> HIDE DEF t
  <2> QED
    BY <2>5, <2>6, <2>7, <2>8, <2>9, <2>10 DEF Later
<1>4. Here' = Here /\ Here \in 0..MaxItems
  BY <1>1, BoundAssumption DEF Here, ParserInv, ParserTypeOK
<1>5. ASSUME NEW j \in DOMAIN text', j # k
      PROVE  \E m \in DOMAIN text : text'[j] = text[m] /\ j = IF m < k THEN m ELSE m + 1
  <2>1. CASE j < k
    <3>1. j \in 1..(k - 1) /\ j \in DOMAIN text
      BY <1>3, <2>1
    <3> QED
      BY <1>3, <2>1, <3>1
  <2>2. CASE ~(j < k)
    <3>1. PICK m \in k..Len(text) : j = m + 1
      <4>1. j - 1 \in k..Len(text) /\ j = (j - 1) + 1
        BY <1>3, <1>5, <2>2
      <4> QED
        BY <4>1
    <3>2. m \in DOMAIN text /\ ~(m < k)
      BY <1>3, <3>1
    <3> QED
      BY <1>3, <3>1, <3>2
  <2> QED
    BY <2>1, <2>2
<1>6. ASSUME NEW m \in DOMAIN text
      PROVE  \E j \in DOMAIN text' : text'[j] = text[m] /\ j = IF m < k THEN m ELSE m + 1
  <2>1. CASE m < k
    <3>1. m \in 1..(k - 1) /\ m \in DOMAIN text'
      BY <1>3, <2>1
    <3> QED
      BY <1>3, <2>1, <3>1
  <2>2. CASE ~(m < k)
    <3>1. m \in k..Len(text) /\ m + 1 \in DOMAIN text'
      BY <1>3, <2>2
    <3> QED
      BY <1>3, <2>2, <3>1
  <2> QED
    BY <2>1, <2>2
<1>7. text'[k] = x
  BY <1>3
<1>8. LinesFit'
  <2>1. SUFFICES ASSUME NEW j \in DOMAIN text'
        PROVE  \/ text'[j].of = 0 /\ text'[j].is \in Stray
               \/ text'[j].of = 0 /\ text'[j].is \in Heading(layout)' /\ Here' = 0
               \/ text'[j].of = Here' /\ Here' > 0 /\
                    text'[j].is \in Words(layout, kinds[Here])'
    BY DEF LinesFit
  <2>2. CASE j = k
    BY <1>2, <1>7, <2>2 DEF Stray
  <2>3. CASE j # k
    <3>1. PICK m \in DOMAIN text : text'[j] = text[m]
      BY <1>5, <2>3
    <3> QED
      BY <1>1, <1>4, <3>1 DEF ParserInv, LinesFit
  <2> QED
    BY <2>2, <2>3
<1>9. HeaderFits'
  BY <1>1, <1>4, <1>6 DEF ParserInv, HeaderFits
<1>10. KgFits'
  <2>1. SUFFICES ASSUME NEW j \in DOMAIN text', text'[j].is = "kg"
        PROVE  Here \in broken \/ \E m \in DOMAIN text' : m > j /\ text'[m].is = "ppk"
    BY <1>1, <1>4 DEF KgFits
  <2>2. j # k
    BY <1>2, <1>7, <2>1
  <2>3. PICK n \in DOMAIN text : text'[j] = text[n] /\ j = IF n < k THEN n ELSE n + 1
    BY <1>5, <2>2
  <2>4. CASE \E m \in DOMAIN text : m > n /\ text[m].is = "ppk"
    <3>1. PICK m \in DOMAIN text : m > n /\ text[m].is = "ppk"
      BY <2>4
    <3>2. PICK i \in DOMAIN text' : text'[i] = text[m] /\ i = IF m < k THEN m ELSE m + 1
      BY <1>6
    <3>3. i > j
      BY <1>3, <2>3, <3>1, <3>2
    <3> QED
      BY <3>1, <3>2, <3>3
  <2> QED
    BY <2>1, <2>3, <2>4 DEF ParserInv, KgFits
<1>11. WaitFits'
  BY <1>1, <1>4, <1>6 DEF ParserInv, WaitFits
<1>12. ParserTypeOK' /\ QtyFits'
  <2>1. damage' \in 0..MaxDamage
    BY <1>1, BoundAssumption DEF ParserInv, ParserTypeOK
  <2>2. damaged' \subseteq 0..MaxItems /\ damaged \subseteq damaged'
    BY <1>1, <1>4 DEF ParserInv, ParserTypeOK
  <2> QED
    BY <1>1, <1>3, <2>1, <2>2 DEF ParserInv, ParserTypeOK, QtyFits
<1>13. CASE damaged' = damaged \cup {Here}
  <2>1. /\ damaged' \subseteq 0..Here'
        /\ TextWhole' /\ HeadWhole' /\ Settles' /\ Track' /\ NameFits'
        /\ PastRecorded' /\ LinesPast' /\ PriceOfItsItem'
    BY <1>1, <1>13, Harmed
  <2> QED
    BY <1>8, <1>9, <1>10, <1>11, <1>12, <2>1 DEF ParserInv
<1>14. CASE damaged' = damaged /\ w \in {"other", "blank"} /\ (w = "other" => ~Splits(k))
  <2>1. /\ TextWhole'
        /\ Here = 0 /\ Unharmed => \A j \in DOMAIN text' : text'[j].is \notin {"n", "other"}
    <3>1. UNCHANGED <<layout, kinds, damaged>>
      BY <1>1, <1>14
    <3>2. text' \in Seq([is : Word, of : 0..MaxItems])
      BY <1>3
    <3>3. w \in {"other", "blank"} /\ (w = "other" => ~Splits(k))
      BY <1>14
    <3> HIDE DEF S
    <3> QED
      BY <1>3, <1>x, <3>1, <3>2, <3>3, InsertWhole
  <2>2. (Unharmed' <=> Unharmed) /\ Quantity' = Quantity /\ (OneHarmed' <=> OneHarmed)
    BY <1>1, <1>4, <1>14 DEF Unharmed, Quantity, OneHarmed
  <2>3. Affected(Here)' <=> Affected(Here)
    BY <1>1, <1>4, <1>14 DEF Affected
  <2>4. HeadWhole'
    BY <1>1, <1>4, <2>1, <2>2 DEF ParserInv, HeadWhole
  <2>5. Here > 0 => Due' = Due
    <3>1. SUFFICES ASSUME Here > 0 PROVE Left' = Left
      BY DEF Due
    <3>2. \A v : x # Line(v, Here)
      BY <1>2, <3>1 DEF Line
    <3>3. ASSUME NEW v
          PROVE  (\E j \in DOMAIN text : text[j] = Line(v, Here)) <=>
                   \E j \in DOMAIN text' : text'[j] = Line(v, Here)
      <4>1. ASSUME NEW j \in DOMAIN text',
                     text'[j] = Line(v, Here) PROVE \E m \in DOMAIN text :
                       text[m] = Line(v, Here)
        <5>1. j # k
          BY <1>7, <3>2, <4>1
        <5> QED
          BY <1>5, <4>1, <5>1
      <4> QED
        BY <1>6, <4>1
    <3> QED
      BY <1>1, <1>4, <3>3 DEF Left
  <2>6. /\ PastRecorded' /\ LinesPast' /\ PriceOfItsItem'
        /\ (Recorded(Here) => Recorded(Here)') /\ (Unrecorded => Unrecorded')
    <3>1. damaged \subseteq damaged' /\ broken \subseteq broken'
      BY <1>1, <1>14
    <3> QED
      BY <1>1, <3>1, LinesKept
  <2>7. Settles'
    BY <1>1, <1>4, <2>2, <2>5 DEF ParserInv, Settles
  <2>8. Track'
    <3>1. SUFFICES ASSUME Here > 0, Unharmed, ~Affected(Here) PROVE OnTrack'
      BY <1>4, <2>2, <2>3 DEF Track
    <3>2. OnTrack
      BY <3>1 DEF ParserInv, Track
    <3> QED
      BY <1>1, <1>4, <2>2, <2>5, <2>6, <3>1, <3>2 DEF OnTrack
  <2>9. NameFits'
    BY <1>1, <1>4, <1>14, <2>2, <2>5 DEF ParserInv, NameFits, Pending
  <2>10. damaged' \subseteq 0..Here'
    BY <1>4, <1>14 DEF ParserInv
  <2> QED
    BY <1>8, <1>9, <1>10, <1>11, <1>12, <2>1, <2>4, <2>6, <2>7, <2>8, <2>9, <2>10 DEF ParserInv
<1> QED
  BY <1>1, <1>13, <1>14

\* Every step keeps ParserInv.
LEMMA ParserStep == ParserInv /\ [ParserNext]_parserVars => ParserInv'
<1> SUFFICES ASSUME ParserInv, [ParserNext]_parserVars PROVE ParserInv'
  OBVIOUS
<1>1. CASE \E k \in Kind : PrintItem(k)
  BY <1>1, PrintItemInv
<1>2. CASE PrintTotal
  BY <1>2, PrintTotalInv
<1>3. CASE Damage
  <2>1. CASE \E k \in DOMAIN text : Lose(k)
    BY <2>1, LoseInv
  <2>2. CASE \E k \in DOMAIN text, w \in {"other", "n", "blank"} : Insert(k, w)
    BY <2>2, InsertInv
  <2> QED
    BY <1>3, <2>1, <2>2 DEF Damage
<1>4. CASE ReadHeader
  BY <1>4, ReadHeaderInv
<1>5. CASE SkipBlank
  BY <1>5, SkipBlankInv
<1>6. CASE ReadTotal
  BY <1>6, ReadTotalInv
<1>7. CASE ReadCells
  <2>1. PICK l \in {text[k] : k \in DOMAIN text} :
           \/ Idle(l) \/ Qty(l) \/ NameLine(l) \/ Price(l)
           \/ WeightPPK(l) \/ WeightTotal(l) \/ UnitMultiTotal(l)
    BY <1>7 DEF ReadCells
  <2> QED
    BY <2>1, IdleInv, QtyInv, NameLineInv, PriceInv, WeightPPKInv, WeightTotalInv,
      UnitMultiTotalInv
<1>8. CASE ReadRows
  <2>1. PICK l \in {text[k] : k \in DOMAIN text} : OutOfBody(l) \/ InBody(l)
    BY <1>8 DEF ReadRows
  <2> QED
    BY <2>1, OutOfBodyInv, InBodyInv
<1>9. CASE UNCHANGED parserVars
  <2>1. UNCHANGED <<layout, kinds, text, state, name, qty, lines, damage, damaged, broken>>
    BY <1>9 DEF parserVars
  <2>2. (ParserTypeOK' <=> ParserTypeOK) /\ (QtyFits' <=> QtyFits) /\ Here' = Here /\
          (Unharmed' <=> Unharmed)
    BY <2>1 DEF ParserTypeOK, QtyFits, Here, Unharmed
  <2>3. Left' = Left /\ Quantity' = Quantity /\ (Affected(Here)' <=> Affected(Here))
    BY <2>1, <2>2 DEF Left, Quantity, Affected
  <2>4. Due' = Due /\ damaged' \subseteq 0..Here'
    BY <2>1, <2>2, <2>3 DEF Due, ParserInv
  <2>5. LinesFit' /\ HeaderFits' /\ KgFits' /\ WaitFits'
    BY <2>1, <2>2 DEF ParserInv, LinesFit, HeaderFits, KgFits, WaitFits
  <2>6. TextWhole' /\ HeadWhole'
    BY <2>1, <2>2, <2>3 DEF ParserInv, TextWhole, HeadWhole
  <2>7. Settles'
    BY <2>1, <2>2, <2>3, <2>4 DEF ParserInv, Settles
  <2>8. /\ PastRecorded' /\ LinesPast' /\ PriceOfItsItem'
        /\ (Recorded(Here) => Recorded(Here)') /\ (Unrecorded => Unrecorded')
    BY <2>1, LinesKept
  <2>9. Track'
    BY <2>1, <2>2, <2>3, <2>4, <2>8 DEF ParserInv, Track, OnTrack
  <2>10. NameFits'
    BY <2>1, <2>2, <2>4 DEF ParserInv, NameFits, Pending, OneHarmed
  <2> QED
    BY <2>2, <2>4, <2>5, <2>6, <2>7, <2>8, <2>9, <2>10 DEF ParserInv
<1> QED
  BY <1>1, <1>2, <1>3, <1>4, <1>5, <1>6, <1>7, <1>8, <1>9 DEF ParserNext

\* ParserInv holds in every reachable state.
LEMMA ParserInvHolds == ParserSpec => []ParserInv
BY ParserStart, ParserStep, PTL DEF ParserSpec

\* parser.go: whatever is lost or inserted, the parser is in one of its states, and
\* records only names and prices of items that were printed.
THEOREM ParserCorrect == ParserSpec => []ParserTypeOK
<1>1. ParserInv => ParserTypeOK
  BY DEF ParserInv
<1> QED
  BY <1>1, ParserInvHolds, PTL

\* PriceOfItsItem: as long as one item was harmed at most, and no price per kg lost,
\* no price is recorded under the name of another item.
THEOREM PriceOfItsItemHolds == ParserSpec => []PriceOfItsItem
<1>1. ParserInv => PriceOfItsItem
  BY DEF ParserInv
<1> QED
  BY <1>1, ParserInvHolds, PTL

\* LossIsLocal: a damaged line costs the item it belongs to and at most the next one
\* (a lost price per kg, the items up to the next weight product).
THEOREM LossIsLocalHolds == ParserSpec => []LossIsLocal
<1>1. ParserInv => LossIsLocal
  <2>1. SUFFICES ASSUME ParserInv, text = <<>>, NEW i \in DOMAIN kinds, ~Affected(i)
        PROVE  \E j \in DOMAIN lines :
                 /\ lines[j] = Expected(i)
                 /\ \A m \in DOMAIN lines : lines[m].price[2] = i => m = j
    BY DEF LossIsLocal
  <2>2. i \in 1..Here /\ Here \in Nat
    BY <2>1 DEF ParserInv, ParserTypeOK, Here
  <2>3. CASE i < Here
    <3>1. i \in 1..(Here - 1)
      BY <2>2, <2>3
    <3> QED
      BY <2>1, <3>1 DEF ParserInv, PastRecorded, Recorded
  <2>4. CASE i = Here
    <3>1. Here > 0 /\ Unharmed
      BY <2>1, <2>2, <2>4 DEF Affected, Unharmed
    <3>2. Due = "none"
      <4>1. DOMAIN text = {}
        BY <2>1
      <4>2. Left = {}
        BY <4>1 DEF Left
      <4> QED
        BY <2>1, <3>1, <4>2, DueNow
    <3>3. Recorded(Here)
      BY <2>1, <2>4, <3>1, <3>2 DEF ParserInv, Track, OnTrack
    <3> QED
      BY <2>4, <3>3 DEF Recorded
  <2> QED
    BY <2>2, <2>3, <2>4
<1> QED
  BY <1>1, ParserInvHolds, PTL
=============================================================================
