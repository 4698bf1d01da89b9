---------------------------- MODULE TicketImport ----------------------------
(***************************************************************************)
(* Uploading a receipt, on the server: TicketHandler, Importer.Import,     *)
(* UpsertPriceRecordBatch, IsFileProcessed and MarkFileProcessed.          *)
(*                                                                         *)
(* An upload (a member of Upload) is one POST /api/tickets.  Its handler   *)
(* checks whether the file is known to the household, imports all lines in *)
(* one transaction, and only then marks the file as processed; the three   *)
(* are separate, so uploads of one file may overlap.  Households do not    *)
(* change here: Household models how they do.                              *)
(***************************************************************************)
EXTENDS Naturals, Sequences

CONSTANTS
  Upload,      \* requests
  File,        \* file names
  FileOf,      \* FileOf[r]: the file of upload r
  User,        \* users who upload (an anonymous caller is one of them)
  Uploader,    \* Uploader[r]: the user who sends r
  Home,        \* Home[u]: whom u shares a catalogue with; u alone if nobody
  Lines,       \* Lines[f]: the product of each line of the receipt f
  Unreadable,  \* Lines[f] when f is no PDF, or no receipt of Mercadona
  Events       \* what may go wrong: "crash", "db_error", "mark_fails"

ASSUME FileOfAssumption == FileOf \in [Upload -> File]
ASSUME UploaderAssumption == Uploader \in [Upload -> User]
ASSUME EventsAssumption == Events \subseteq {"crash", "db_error", "mark_fails"}

VARIABLES
  products,   \* ids in the table products, committed
  records,    \* price records, committed: <<upload, line>>
  processed,  \* rows of processed_files: <<user, file>>
  pc,         \* the next step of each upload's handler
  line,       \* the line of the receipt it inserts next
  fresh,      \* products its transaction has inserted and not committed
  answer,     \* the HTTP status it answered, 0 while it has not
  raced       \* history: <<home, file>> whose check may have come too early

dbVars  == <<products, records, processed>>
reqVars == <<pc, line, fresh, answer>>
vars    == <<dbVars, reqVars, raced>>

Key(r) == <<Home[Uploader[r]], FileOf[r]>>

Products(f) == {Lines[f][k] : k \in DOMAIN Lines[f]}

AllProducts == UNION {Products(f) : f \in {g \in File : Lines[g] # Unreadable}}

Readable(r) == Lines[FileOf[r]] # Unreadable

PC == {"unsent", "insert", "mark", "over"}

TypeOK ==
  /\ products \subseteq AllProducts
  /\ \A x \in records : x[1] \in Upload /\ x[2] \in DOMAIN Lines[FileOf[x[1]]]
  /\ processed \subseteq User \X File
  /\ pc \in [Upload -> PC]
  /\ line \in [Upload -> Nat]
  /\ fresh \in [Upload -> SUBSET AllProducts]
  /\ answer \in [Upload -> {0, 201, 409, 422, 500, 504}]
  /\ raced \subseteq {Key(r) : r \in Upload}

Init ==
  /\ products = {}
  /\ records = {}
  /\ processed = {}
  /\ pc = [r \in Upload |-> "unsent"]
  /\ line = [r \in Upload |-> 1]
  /\ fresh = [r \in Upload |-> {}]
  /\ answer = [r \in Upload |-> 0]
  /\ raced = {}

-----------------------------------------------------------------------------
Others(r) == Upload \ {r}

\* The upload has passed its check and not yet marked its file.
Importing(r) == pc[r] \in {"insert", "mark"}

\* Another upload of the file, by the same household, is between its check
\* and its mark.
Overlaps(r) == \E s \in Others(r) : Key(s) = Key(r) /\ Importing(s)

\* Mutant of IsFileProcessed: only the caller's own uploads are looked at.
IsFileProcessedBySelf(r) == <<Uploader[r], FileOf[r]>> \in processed

IsFileProcessed(r) ==
  \E u \in User : Home[u] = Home[Uploader[r]] /\ <<u, FileOf[r]>> \in processed

\* Mutant of Answer: an error path without the deferred Rollback.
AnswerWithoutRollback(r, status) ==
  /\ pc' = [pc EXCEPT ![r] = "over"]
  /\ answer' = [answer EXCEPT ![r] = status]
  /\ line' = [line EXCEPT ![r] = 1]
  /\ UNCHANGED fresh

\* The handler answers and ends; an open transaction rolls back.
Answer(r, status) ==
  /\ pc' = [pc EXCEPT ![r] = "over"]
  /\ answer' = [answer EXCEPT ![r] = status]
  /\ fresh' = [fresh EXCEPT ![r] = {}]
  /\ line' = [line EXCEPT ![r] = 1]

\* Mutant of Check: the file is marked before it is imported.
CheckAndMark(r) ==
  /\ pc[r] = "unsent"
  /\ IF IsFileProcessed(r)
     THEN Answer(r, 409) /\ UNCHANGED processed
     ELSE /\ pc' = [pc EXCEPT ![r] = "insert"]
          /\ processed' = processed \cup {<<Uploader[r], FileOf[r]>>}
          /\ UNCHANGED <<line, fresh, answer>>
  /\ UNCHANGED <<products, records, raced>>

\* The request reaches the handler: is the file known to the household, and
\* is it a receipt?  The query, or reading the file, may fail.
Check(r) ==
  /\ pc[r] = "unsent"
  /\ \/ "db_error" \in Events /\ Answer(r, 500) /\ UNCHANGED raced
     \/ IsFileProcessed(r) /\ Answer(r, 409) /\ UNCHANGED raced
     \/ ~IsFileProcessed(r) /\ ~Readable(r) /\ Answer(r, 422) /\ UNCHANGED raced
     \/ /\ ~IsFileProcessed(r) /\ Readable(r)
        /\ pc' = [pc EXCEPT ![r] = "insert"]
        /\ raced' = IF Overlaps(r) THEN raced \cup {Key(r)} ELSE raced
        /\ UNCHANGED <<line, fresh, answer>>
  /\ UNCHANGED dbVars

\* INSERT ... ON CONFLICT DO NOTHING waits for the transaction that has
\* inserted the same product and not committed.
WaitsFor(r, s) ==
  /\ pc[r] = "insert" /\ s # r
  /\ line[r] \in DOMAIN Lines[FileOf[r]]
  /\ Lines[FileOf[r]][line[r]] \in fresh[s]

Blocked(r) == \E s \in Upload : WaitsFor(r, s)

\* Mutant of InsertLine: every line is committed by itself, as
\* UpsertPriceRecord does.
InsertLineAlone(r) ==
  /\ pc[r] = "insert" /\ ~Blocked(r)
  /\ line[r] \in DOMAIN Lines[FileOf[r]]
  /\ line' = [line EXCEPT ![r] = @ + 1]
  /\ products' = products \cup {Lines[FileOf[r]][line[r]]}
  /\ records' = records \cup {<<r, line[r]>>}
  /\ UNCHANGED <<processed, pc, fresh, answer, raced>>

\* One line: the product if it is new, and its price record.
InsertLine(r) ==
  /\ pc[r] = "insert" /\ ~Blocked(r)
  /\ line[r] \in DOMAIN Lines[FileOf[r]]
  /\ line' = [line EXCEPT ![r] = @ + 1]
  /\ fresh' = [fresh EXCEPT ![r] =
                 @ \cup ({Lines[FileOf[r]][line[r]]} \ products)]
  /\ UNCHANGED <<dbVars, pc, answer, raced>>

\* Mutant of LineFails: the error is logged and the answer is 201.
LineFailsQuietly(r) ==
  /\ "db_error" \in Events
  /\ pc[r] = "insert"
  /\ Answer(r, 201)
  /\ UNCHANGED <<dbVars, raced>>

\* A statement fails: the whole ticket is rolled back.
LineFails(r) ==
  /\ "db_error" \in Events
  /\ pc[r] = "insert"
  /\ Answer(r, 422)
  /\ UNCHANGED <<dbVars, raced>>

\* COMMIT, after the last line.
Commit(r) ==
  /\ pc[r] = "insert"
  /\ line[r] \notin DOMAIN Lines[FileOf[r]]
  /\ products' = products \cup fresh[r]
  /\ records' = records \cup ({r} \X DOMAIN Lines[FileOf[r]])
  /\ fresh' = [fresh EXCEPT ![r] = {}]
  /\ pc' = [pc EXCEPT ![r] = "mark"]
  /\ UNCHANGED <<processed, line, answer, raced>>

\* MarkFileProcessed, idempotent.  When it fails the import stands and the
\* answer is 201 all the same.
Mark(r) ==
  /\ pc[r] = "mark"
  /\ \/ /\ processed' = processed \cup {<<Uploader[r], FileOf[r]>>}
        /\ UNCHANGED raced
     \/ /\ "mark_fails" \in Events
        /\ raced' = raced \cup {Key(r)}
        /\ UNCHANGED processed
  /\ Answer(r, 201)
  /\ UNCHANGED <<products, records>>

\* The function is stopped (after 30 s on Vercel) or loses its connection:
\* what is committed stays.
Crash(r) ==
  /\ "crash" \in Events
  /\ pc[r] \notin {"unsent", "over"}
  /\ Answer(r, 504)
  /\ raced' = IF pc[r] = "mark" THEN raced \cup {Key(r)} ELSE raced
  /\ UNCHANGED dbVars

\* r waits, directly or through others, for itself: it is in every set of
\* waiting requests that holds all that r waits for and all that the set's
\* members wait for.
InWaitCycle(r) ==
  LET waiting == {s \in Upload : Blocked(s)}
  IN  /\ r \in waiting
      /\ \A S \in SUBSET waiting :
           (\A s \in S \cup {r}, n \in waiting : WaitsFor(s, n) => n \in S)
           => r \in S

\* PostgreSQL aborts a transaction of the cycle; the handler answers as it
\* answers every failure of an import.
DeadlockAbort(r) ==
  /\ InWaitCycle(r)
  /\ Answer(r, 422)
  /\ UNCHANGED <<dbVars, raced>>

Proceed(r) ==
  \/ InsertLine(r)
  \/ Commit(r)
  \/ Mark(r)
  \/ DeadlockAbort(r)

Fault(r) == LineFails(r) \/ Crash(r)

Next == \E r \in Upload : Check(r) \/ Proceed(r) \/ Fault(r)

Spec == Init /\ [][Next]_vars

-----------------------------------------------------------------------------
\* A receipt's lines are in the price history all or not at all, whatever
\* fails in the middle of it ("if any line fails to persist the entire
\* ticket is rolled back", Importer.Import).
TicketAllOrNothing ==
  \A r \in Upload :
    LET in == {x \in records : x[1] = r}
    IN  in = {} \/ in = {r} \X DOMAIN Lines[FileOf[r]]

\* A file is marked as processed for a user only when an upload of that user
\* has put all its lines into the price history: no crash makes a receipt
\* look imported that is not.
MarkedWasImported ==
  \A x \in processed :
    \E r \in Upload : /\ Uploader[r] = x[1] /\ FileOf[r] = x[2]
                      /\ {r} \X DOMAIN Lines[x[2]] \subseteq records

Imported(r) == \E x \in records : x[1] = r

\* A household has a receipt in its history once, unless two uploads of it
\* overlapped, or one stopped or failed between its import and its mark.
OnceUnlessRaced ==
  \A r, s \in Upload :
    r # s /\ Imported(r) /\ Imported(s) /\ Key(r) = Key(s) => Key(r) \in raced

\* What makes OnceUnlessRaced inductive: as long as nothing raced, a file is
\* imported by one upload at a time, is not known while it is, and is known
\* or about to be marked once it has been.
OneImporter ==
  \A r, s \in Upload :
    r # s /\ Importing(r) /\ Importing(s) /\ Key(r) = Key(s) => Key(r) \in raced

ImportingIsUnknown ==
  \A r \in Upload : Importing(r) /\ IsFileProcessed(r) => Key(r) \in raced

ImportedIsKnown ==
  \A r \in Upload : Imported(r) =>
    /\ pc[r] \in {"mark", "over"}
    /\ pc[r] = "mark" \/ IsFileProcessed(r) \/ Key(r) \in raced

OnceInv ==
  /\ pc \in [Upload -> PC]
  /\ OneImporter
  /\ ImportingIsUnknown
  /\ ImportedIsKnown
  /\ OnceUnlessRaced

\* Handlers that have started end, although the inserts of concurrent uploads
\* wait for each other's new products.  (Each upload is made once, so that no
\* handler is at work from some time on exactly if each one ends.)
EveryUploadAnswered == []<>(\A r \in Upload : pc[r] \in {"unsent", "over"})
=============================================================================
