---------------------------- MODULE UploadBatch ----------------------------
(***************************************************************************)
(* Uploading receipts, from the browser to the database: TicketUploader    *)
(* and uploadTickets send the selected files in batches and wait for each  *)
(* batch, while TicketImport serves the requests.  A request whose answer  *)
(* does not begin within UPLOAD_TIMEOUT_MS is aborted by the browser only: *)
(* its handler runs on.  Once a 201 has begun, the timer is cleared and    *)
(* nothing but the connection ends the reading of its body.                *)
(***************************************************************************)
EXTENDS TicketImport, SequencesExt

CONSTANTS
  Client,        \* browser tabs
  Selections,    \* Selections[c]: sequences of files the user may select
  ClientRejects, \* files that are too big, or have no PDF type or suffix
  Concurrency,   \* UPLOAD_CONCURRENCY
  Rounds         \* bound: Rounds[c], how often a user selects files

ASSUME UploadAssumption ==
  \A c \in Client : Upload \cap ({c} \X File \X Nat) =
    {c} \X (UNION {ToSet(sel) : sel \in Selections[c]} \ ClientRejects)
        \X (1..Rounds[c])
\* A request is named by its tab, its file and the selection it belongs to.
ASSUME RequestAssumption ==
  Upload \subseteq Client \X File \X Nat /\ \A r \in Upload : FileOf[r] = r[2]
ASSUME ConcurrencyAssumption == Concurrency \in Nat \ {0}
ASSUME UserAssumption ==
  Rounds \in [Client -> Nat] /\ Selections \in [Client -> SUBSET Seq(File)]

VARIABLES
  round,    \* how many times files were selected
  phase,    \* UploadState: "idle", "uploading", "done"
  files,    \* the files being uploaded
  start,    \* index of the first file of the batch in progress
  outcome   \* how each file of the selection ended

clientVars == <<round, phase, files, start, outcome>>
allVars    == <<vars, clientVars>>

ClientTypeOK ==
  /\ TypeOK
  /\ \A c \in Client : round[c] \in 0..Rounds[c]
  /\ phase \in [Client -> {"idle", "uploading", "done"}]
  /\ files \in [Client -> Seq(File)]
  /\ start \in [Client -> Nat \ {0}]
  /\ outcome \in [Client -> [File -> {"none", "reading", "ok", "failed"}]]

ClientInit ==
  /\ Init
  /\ round = [c \in Client |-> 0]
  /\ phase = [c \in Client |-> "idle"]
  /\ files = [c \in Client |-> <<>>]
  /\ start = [c \in Client |-> 1]
  /\ outcome = [c \in Client |-> [f \in File |-> "none"]]

\* The files of the batch in progress.
Batch(c) ==
  {files[c][i] : i \in {i \in DOMAIN files[c] :
                          i >= start[c] /\ i < start[c] + Concurrency}}

\* The batch in progress has request r = <<client, file, round>> at that point.
InBatch(r, how) ==
  /\ phase[r[1]] = "uploading"
  /\ round[r[1]] = r[3]
  /\ r[2] \in Batch(r[1])
  /\ outcome[r[1]][r[2]] = how

\* The browser waits for the answer to request r.
Awaits(r) == InBatch(r, "none")

\* The files of a selection that are sent.
Accepted(sel) ==
  FoldLeft(LAMBDA kept, f : IF f \in ClientRejects THEN kept ELSE Append(kept, f),
           <<>>, sel)

Ends(r, how) == outcome' = [outcome EXCEPT ![r[1]][r[2]] = how]

-----------------------------------------------------------------------------
\* Mutant of Select: batches are counted from 0, as slice does.
SelectFromZero(c, sel) ==
  /\ phase[c] # "uploading"
  /\ round[c] < Rounds[c]
  /\ files' = [files EXCEPT ![c] = Accepted(sel)]
  /\ phase' = [phase EXCEPT ![c] = "uploading"]
  /\ outcome' = [outcome EXCEPT ![c] = [f \in File |-> "none"]]
  /\ round' = [round EXCEPT ![c] = @ + 1]
  /\ start' = [start EXCEPT ![c] = 0]
  /\ UNCHANGED vars

\* handleFilesSelected; the button is disabled while an upload goes on.
Select(c, sel) ==
  /\ phase[c] # "uploading"
  /\ round[c] < Rounds[c]
  /\ LET valid == Accepted(sel)
     IN  /\ files' = [files EXCEPT ![c] = valid]
         /\ phase' = [phase EXCEPT ![c] =
                        IF valid = <<>> THEN "done" ELSE "uploading"]
         /\ outcome' = [outcome EXCEPT ![c] =
              [f \in File |-> IF f \in ToSet(sel) \cap ClientRejects
                              THEN "failed" ELSE "none"]]
  /\ round' = [round EXCEPT ![c] = @ + 1]
  /\ start' = [start EXCEPT ![c] = 1]
  /\ UNCHANGED vars

\* A request of the batch reaches the server.
Arrive(r) ==
  /\ Awaits(r)
  /\ Check(r)
  /\ UNCHANGED clientVars

\* The server's answer reaches the browser.  The text of an error is read, or
\* its timer fires; of a 201 the headers are there and the timer is cleared.
Answered(r) ==
  /\ Awaits(r)
  /\ answer[r] # 0
  /\ Ends(r, IF answer[r] = 201 THEN "reading" ELSE "failed")
  /\ UNCHANGED <<vars, round, phase, files, start>>

\* The body of a 201 has arrived, or the connection breaks.
BodyEnds(r) ==
  /\ InBatch(r, "reading")
  /\ Ends(r, "ok") \/ Ends(r, "failed")
  /\ UNCHANGED <<vars, round, phase, files, start>>

\* No answer has begun: the request is aborted after UPLOAD_TIMEOUT_MS, or the
\* network fails.
GiveUp(r) ==
  /\ Awaits(r)
  /\ Ends(r, "failed")
  /\ UNCHANGED <<vars, round, phase, files, start>>

\* Mutant of NextBatch: the first failure rejects the whole Promise.all.
NextBatchIfAllOk(c) ==
  /\ phase[c] = "uploading"
  /\ \A f \in Batch(c) : outcome[c][f] = "ok"
  /\ start' = [start EXCEPT ![c] = @ + Concurrency]
  /\ phase' = [phase EXCEPT ![c] =
                 IF start[c] + Concurrency > Len(files[c]) THEN "done" ELSE @]
  /\ UNCHANGED <<vars, round, files, outcome>>

\* Promise.all has settled every file of the batch, failures included.
NextBatch(c) ==
  /\ phase[c] = "uploading"
  /\ \A f \in Batch(c) : outcome[c][f] \in {"ok", "failed"}
  /\ start' = [start EXCEPT ![c] = @ + Concurrency]
  /\ phase' = [phase EXCEPT ![c] =
                 IF start[c] + Concurrency > Len(files[c]) THEN "done" ELSE @]
  /\ UNCHANGED <<vars, round, files, outcome>>

\* handleDismiss, or the page is loaded anew: handlers in progress run on.
Leave(c) ==
  /\ phase[c] # "idle"
  /\ phase' = [phase EXCEPT ![c] = "idle"]
  /\ files' = [files EXCEPT ![c] = <<>>]
  /\ start' = [start EXCEPT ![c] = 1]
  /\ outcome' = [outcome EXCEPT ![c] = [f \in File |-> "none"]]
  /\ UNCHANGED <<vars, round>>

Server(r) == Proceed(r) /\ UNCHANGED clientVars

ServerFault(r) == Fault(r) /\ UNCHANGED clientVars

ClientNext ==
  \/ \E c \in Client :
       \/ \E sel \in Selections[c] : Select(c, sel)
       \/ NextBatch(c)
       \/ Leave(c)
  \/ \E r \in Upload :
       \/ Arrive(r) \/ Answered(r) \/ BodyEnds(r) \/ GiveUp(r)
       \/ Server(r) \/ ServerFault(r)

\* Some handler that can run on does, some timer of a request without an
\* answer fires, or a browser whose batch is settled goes on.  Uploads are
\* finite, so that none of it goes on for ever and fairness of all this as a
\* whole is enough.  Nobody has to select files, nothing has to fail, and no
\* body has to end.
ClientFairness ==
  WF_allVars(\/ \E c \in Client : NextBatch(c)
             \/ \E r \in Upload : Answered(r) \/ GiveUp(r) \/ Server(r))

ClientSpec == ClientInit /\ [][ClientNext]_allVars /\ ClientFairness

-----------------------------------------------------------------------------
\* What the summary calls imported is in the price history with all its
\* lines.  (The converse does not hold: a request given up may be imported.)
OkMeansImported ==
  \A c \in Client, f \in File :
    outcome[c][f] = "ok" =>
      {<<c, f, round[c]>>} \X DOMAIN Lines[f] \subseteq records

\* The body of a 201 arrives or fails: no timer sees to it.
BodiesEnd == \A r \in Upload : []<>~InBatch(r, "reading")

\* The summary of a selection appears whatever happens to its requests: none
\* that fails, or is never answered, holds up its batch or the next one.
EverySelectionEnds ==
  BodiesEnd => \A c \in Client : phase[c] = "uploading" ~> phase[c] # "uploading"
=============================================================================
