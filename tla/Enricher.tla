------------------------------ MODULE Enricher ------------------------------
(***************************************************************************)
(* Images of products: the enricher of package pkg/enricher, the job       *)
(* cmd/enrich that EnrichTriggerHandler starts, and ProductImageHandler.   *)
(*                                                                         *)
(* A run downloads Mercadona's catalogue (or has it from the cache of its  *)
(* process), lists the products without an image, and updates them one by  *)
(* one.  The worker of a process that called Start makes a run for every   *)
(* signal it takes from a channel of capacity one; a job makes one run in  *)
(* a process of its own.  All share the table products.                    *)
(***************************************************************************)
EXTENDS Matching

CONSTANTS
  Product,    \* products that receipts may bring
  Local,      \* Local[p][tr]: keywords of p, by the translator or, if tr is
              \* FALSE, by the dictionary
  Thumb,      \* URLs of images
  ByHand,     \* ByHand[p]: those that users enter for p
  Subcats,    \* how many subcategories the catalogue has
  Entries,    \* Entries[s]: products of subcategory s that have a thumbnail
              \* and a keyword
  Worker,     \* the worker of the server
  Job,        \* processes that run cmd/enrich
  Events      \* what may go wrong: "api_error", "translator_error",
              \* "db_error", "stop" (a process stops or is cancelled)

Runner == {Worker} \cup Job

Entry == [thumb : Thumb, keywords : Seq(STRING)]

ASSUME ImageAssumption == NoImage \notin Thumb /\ ByHand \in [Product -> SUBSET Thumb]
ASSUME WorkerAssumption == Worker \notin Job
ASSUME LocalAssumption == Local \in [Product -> [BOOLEAN -> Seq(STRING)]]
ASSUME SubcatsAssumption == Subcats \in Nat \ {0}
ASSUME EntriesAssumption == Entries \in [1..Subcats -> Seq(Entry)]
ASSUME EventsAssumption ==
  Events \subseteq {"api_error", "translator_error", "db_error", "stop"}

VARIABLES
  known,    \* rows of products
  image,    \* products.image_url
  locked,   \* products.image_url_locked
  pending,  \* a signal waits in the channel
  cache,    \* cachedIndex of the server; empty once indexTTL has passed
  pc,       \* the next step of each runner
  index,    \* its index, as far as it is built
  subcat,   \* the subcategory it downloads next
  todo,     \* products it has listed and not tried yet
  waiting,  \* history: products scheduled and not tried by the worker since
  manual,   \* history: the image last entered by hand
  exposed   \* history: products entered by hand while a run had them listed

productVars == <<known, image, locked>>
workerVars  == <<pending, cache>>
runVars     == <<pc, index, subcat, todo>>
history     == <<waiting, manual, exposed>>
vars == <<productVars, workerVars, runVars, history>>

PC == {"off", "idle", "index", "fetch", "list", "match", "failed"}

TypeOK ==
  /\ known \subseteq Product /\ locked \subseteq known
  /\ image \in [Product -> Thumb \cup {NoImage}]
  /\ pending \in BOOLEAN /\ cache \in Seq(Entry)
  /\ pc \in [Runner -> PC]
  /\ index \in [Runner -> Seq(Entry)]
  /\ subcat \in [Runner -> 1..Subcats]
  /\ todo \in [Runner -> SUBSET known]
  /\ waiting \subseteq known /\ exposed \subseteq known
  /\ manual \in [Product -> Thumb \cup {NoImage}]

Init ==
  /\ known = {} /\ locked = {}
  /\ image = [p \in Product |-> NoImage]
  /\ pending = FALSE /\ cache = <<>>
  /\ pc = [r \in Runner |-> "off"]
  /\ index = [r \in Runner |-> <<>>]
  /\ subcat = [r \in Runner |-> 1]
  /\ todo = [r \in Runner |-> {}]
  /\ waiting = {} /\ exposed = {}
  /\ manual = [p \in Product |-> NoImage]

-----------------------------------------------------------------------------
(* Users: a receipt is imported, an image is entered.                      *)

WithoutImage == {p \in known : image[p] = NoImage /\ p \notin locked}

\* The import of a receipt commits: it brings products.
Import(p) ==
  /\ p \notin known
  /\ known' = known \cup {p}
  /\ UNCHANGED <<image, locked, workerVars, runVars, history>>

\* Mutant of Schedule: a worker that is in a run is not signalled.
ScheduleIfIdle(p) ==
  /\ p \in known
  /\ pending' = (pending \/ pc[Worker] \in {"off", "idle"})
  /\ waiting' = waiting \cup ({p} \cap WithoutImage)
  /\ UNCHANGED <<productVars, cache, runVars, manual, exposed>>

\* The handler of an upload with product p has answered and signals the
\* worker; the signal is dropped when one waits already.
Schedule(p) ==
  /\ p \in known
  /\ pending' = TRUE
  /\ waiting' = waiting \cup ({p} \cap WithoutImage)
  /\ UNCHANGED <<productVars, cache, runVars, manual, exposed>>

\* SetProductImageURLManual: the image is entered and locked.
SetManual(p, url) ==
  /\ p \in known
  /\ image' = [image EXCEPT ![p] = url]
  /\ locked' = locked \cup {p}
  /\ manual' = [manual EXCEPT ![p] = url]
  /\ exposed' = IF \E r \in Runner : p \in todo[r]
                THEN exposed \cup {p} ELSE exposed \ {p}
  /\ UNCHANGED <<known, workerVars, runVars, waiting>>

-----------------------------------------------------------------------------
(* Runs.                                                                   *)

EndRun(r, next) ==
  /\ pc' = [pc EXCEPT ![r] = next]
  /\ index' = [index EXCEPT ![r] = <<>>]
  /\ subcat' = [subcat EXCEPT ![r] = 1]
  /\ todo' = [todo EXCEPT ![r] = {}]

\* What a failed run was to try waits for the next signal, if there is none.
Forget(r) ==
  waiting' = IF r = Worker /\ ~pending THEN {} ELSE waiting

\* Mutant of Fail: an error ends the worker's loop.
FailForGood(r) ==
  /\ EndRun(r, "off")
  /\ Forget(r)
  /\ UNCHANGED <<productVars, workerVars, manual, exposed>>

\* Run returns an error.
Fail(r) ==
  /\ EndRun(r, IF r = Worker THEN "failed" ELSE "off")
  /\ Forget(r)
  /\ UNCHANGED <<productVars, workerVars, manual, exposed>>

Goto(r, next) == pc' = [pc EXCEPT ![r] = next]

\* Start: the process launches its worker.
Start ==
  /\ pc[Worker] = "off"
  /\ Goto(Worker, "idle")
  /\ UNCHANGED <<productVars, workerVars, index, subcat, todo, history>>

TakeSignal ==
  /\ pc[Worker] = "idle" /\ pending
  /\ pending' = FALSE
  /\ Goto(Worker, "index")
  /\ UNCHANGED <<productVars, cache, index, subcat, todo, history>>

\* An administrator triggers the workflow, or somebody runs the command.
StartJob(j) ==
  /\ pc[j] = "off"
  /\ Goto(j, "index")
  /\ UNCHANGED <<productVars, workerVars, index, subcat, todo, history>>

Cached(r) == r = Worker /\ cache # <<>>

\* productIndex: the cached index, or the list of subcategories.
ProductIndex(r) ==
  /\ pc[r] = "index"
  /\ \/ /\ Cached(r)
        /\ index' = [index EXCEPT ![r] = cache]
        /\ Goto(r, "list")
     \/ /\ ~Cached(r)
        /\ Goto(r, "fetch")
        /\ UNCHANGED index
  /\ UNCHANGED <<productVars, workerVars, subcat, todo, history>>

ProductIndexFails(r) ==
  /\ "api_error" \in Events
  /\ pc[r] = "index" /\ ~Cached(r)
  /\ Fail(r)

\* What the request for a subcategory returns: one that fails is skipped.
Fetched(s) == {Entries[s]} \cup IF "api_error" \in Events THEN {<<>>} ELSE {}

\* BuildProductIndex: the next subcategory.  After the last one the index,
\* whole or not, is cached.
FetchSubcategory(r) ==
  /\ pc[r] = "fetch"
  /\ \E entries \in Fetched(subcat[r]) :
       index' = [index EXCEPT ![r] = @ \o entries]
  /\ IF subcat[r] < Subcats
     THEN subcat' = [subcat EXCEPT ![r] = @ + 1] /\ UNCHANGED <<pc, cache>>
     ELSE /\ Goto(r, "list")
          /\ cache' = IF r = Worker THEN index'[r] ELSE cache
          /\ UNCHANGED subcat
  /\ UNCHANGED <<productVars, pending, todo, history>>

\* Mutant of List: GetProductsWithoutImage without its WHERE clause.
ListAll(r) ==
  /\ pc[r] = "list"
  /\ todo' = [todo EXCEPT ![r] = known]
  /\ waiting' = IF r = Worker THEN waiting \cap known ELSE waiting
  /\ Goto(r, "match")
  /\ UNCHANGED <<productVars, workerVars, index, subcat, manual, exposed>>

\* GetProductsWithoutImage.
List(r) ==
  /\ pc[r] = "list"
  /\ todo' = [todo EXCEPT ![r] = WithoutImage]
  /\ waiting' = IF r = Worker THEN waiting \cap WithoutImage ELSE waiting
  /\ Goto(r, "match")
  /\ UNCHANGED <<productVars, workerVars, index, subcat, manual, exposed>>

\* Whether the translator answers; the dictionary takes its place if not.
Translation ==
  IF "translator_error" \in Events THEN {TRUE, FALSE} ELSE {TRUE}

\* A listed product is looked up, and UpdateProductImageURL sets its image,
\* whatever has happened to the product since it was listed.
Try(r, p) ==
  /\ pc[r] = "match" /\ p \in todo[r]
  /\ todo' = [todo EXCEPT ![r] = @ \ {p}]
  /\ \E tr \in Translation :
       LET url == BestMatch(Local[p][tr], index[r])
       IN  image' = [image EXCEPT ![p] = IF url = NoImage THEN @ ELSE url]
  /\ waiting' = IF r = Worker THEN waiting \ {p} ELSE waiting
  /\ UNCHANGED <<known, locked, workerVars, pc, index, subcat, manual, exposed>>

\* A query or an update fails.
StoreFails(r) ==
  /\ "db_error" \in Events
  /\ \/ pc[r] = "list"
     \/ pc[r] = "match" /\ \E p \in todo[r], tr \in Translation :
                              BestMatch(Local[p][tr], index[r]) # NoImage
  /\ Fail(r)

\* All listed products have been tried.
Finish(r) ==
  /\ pc[r] = "match" /\ todo[r] = {}
  /\ EndRun(r, IF r = Worker THEN "idle" ELSE "off")
  /\ UNCHANGED <<productVars, workerVars, history>>

\* The worker logs the error and goes on.
Continue ==
  /\ pc[Worker] = "failed"
  /\ Goto(Worker, "idle")
  /\ UNCHANGED <<productVars, workerVars, index, subcat, todo, history>>

RunStep(r) ==
  \/ ProductIndex(r) \/ ProductIndexFails(r)
  \/ FetchSubcategory(r) \/ List(r) \/ StoreFails(r)
  \/ \E p \in Product : Try(r, p)
  \/ Finish(r)

-----------------------------------------------------------------------------
(* The environment.                                                        *)

\* indexTTL has passed: the index is not used again.
Expire ==
  /\ cache # <<>>
  /\ cache' = <<>>
  /\ UNCHANGED <<productVars, pending, runVars, history>>

\* The process of the server stops, and with it the worker, its signal and
\* its cache.
Restart ==
  /\ "stop" \in Events
  /\ EndRun(Worker, "off")
  /\ pending' = FALSE /\ cache' = <<>>
  /\ waiting' = {}
  /\ UNCHANGED <<productVars, manual, exposed>>

\* A job is cancelled while it downloads, or killed.
StopJob(j) ==
  /\ "stop" \in Events
  /\ pc[j] # "off"
  /\ Fail(j)

WorkerStep == TakeSignal \/ RunStep(Worker) \/ Continue

Next ==
  \/ \E p \in Product : Import(p) \/ Schedule(p)
  \/ \E p \in Product : \E url \in ByHand[p] : SetManual(p, url)
  \/ Start \/ WorkerStep \/ Expire \/ Restart
  \/ \E j \in Job : StartJob(j) \/ RunStep(j) \/ StopJob(j)

Spec == Init /\ [][Next]_vars

\* Downloads and translations time out after 15 and 5 seconds.
FairSpec == Spec /\ WF_vars(WorkerStep)

-----------------------------------------------------------------------------
\* An image that a user entered stays until a user enters another one
\* ("locks the product so the enricher will not overwrite it in future
\* runs", ProductImageHandler), unless a run had listed the product before.
ManualKept ==
  \A p \in Product :
    manual[p] # NoImage /\ p \notin exposed => image[p] = manual[p]

\* What makes ManualKept inductive: products entered by hand are locked, and
\* no run has them listed unless it had before.
ManualIsLocked ==
  \A p \in Product :
    manual[p] # NoImage =>
      /\ p \in locked
      /\ p \notin exposed => \A r \in Runner : p \notin todo[r]

\* No product that was scheduled is forgotten: until the worker has tried
\* it, a signal waits, or the worker has not listed products yet, or it has
\* listed this one ("the worker will still execute exactly one additional
\* run after the current one finishes", Schedule).
NoneForgotten ==
  \A p \in waiting : \/ pending
                     \/ pc[Worker] \in {"index", "fetch", "list"}
                     \/ p \in todo[Worker]

EnricherInv == TypeOK /\ ManualKept /\ ManualIsLocked /\ NoneForgotten

\* A run leaves a product with the image its keywords ask for, and with the
\* one it had if none is alike (bestMatch).
TriedByRule ==
  [][\A r \in Runner : \A p \in todo[r] :
       todo'[r] = todo[r] \ {p} /\ pc'[r] = "match" =>
         \E tr \in Translation, url \in Thumb \cup {NoImage} :
           /\ image' = [image EXCEPT ![p] = IF url = NoImage THEN @ ELSE url]
           /\ RightImage(Local[p][tr], index[r], url)]_vars

\* A worker that was started tries every product that is scheduled, unless
\* its run fails or the process stops.
EveryScheduledTried ==
  \A p \in Product :
    p \in waiting /\ pc[Worker] # "off" ~> p \notin waiting \/ pc[Worker] = "failed"
=============================================================================
