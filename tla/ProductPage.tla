----------------------------- MODULE ProductPage -----------------------------
(***************************************************************************)
(* The page of a product (components/ProductDetail.tsx): the records it    *)
(* shows, their deletion, the inflation since the first of them, and the   *)
(* product's image, against the tables of the server.                      *)
(*                                                                         *)
(* The page gives up on a request after READ_TIMEOUT_MS, or when the       *)
(* network fails, or when it is left.  The server does not notice: it may  *)
(* still carry the request out.                                            *)
(***************************************************************************)
EXTENDS Integers, FiniteSets, FiniteSetsExt

CONSTANTS
  Record,  \* price records of the product in the user's scope
  Year,    \* Year[r]: of the date of record r
  Valid,   \* years that IPCHandler takes: 2000 to this one
  Rated,   \* years in ipc_rates
  Rate,    \* Rate[y]: in per cent
  Url,     \* URLs of images
  Page,    \* URLs of Mercadona's product pages
  Thumb,   \* Thumb[u]: the thumbnail of product page u
  None     \* no record, no URL, no inflation

ASSUME RecordAssumption == IsFiniteSet(Record)
ASSUME YearAssumption == Year \in [Record -> Int] /\ Valid \subseteq Int
ASSUME RateAssumption ==
  Rated \subseteq Int /\ IsFiniteSet(Rated) /\ Rate \in [Rated -> Int]
ASSUME ThumbAssumption == Page \cap Url = {} /\ Thumb \in [Page -> Url]
ASSUME NoneAssumption ==
  None \notin Record \cup Url \cup Page /\ None \notin [from : Int, factor : Int]

VARIABLES
  rows,       \* price_records
  image,      \* products.image_url
  deletes,    \* deletions sent and not carried out
  saves,      \* images sent and not saved
  task,       \* bound: what is used of the page, the records or the image,
              \* which have nothing but its loading in common
  detail,     \* how far the page is loaded
  hist,       \* product.priceHistory
  deleting,   \* the record handleDeleteRecord waits for
  deleted,    \* the answer on its way to it
  pic,        \* imageUrl
  saving,     \* the URL handleSave waits for
  saved,      \* the answer on its way to it
  fetches,    \* requests for the inflation under way
  ipc,        \* the inflation shown
  had,        \* history: the records the page was loaded with
  ipcFailed,  \* history: the last request for the inflation failed
  writer      \* history: who wrote the image since the page read or saved it

serverVars == <<rows, image, deletes, saves>>
deleteVars == <<deleting, deleted>>
imageVars  == <<pic, saving, saved, writer>>
ipcVars    == <<fetches, ipc, ipcFailed>>
pageVars   == <<serverVars, task, detail, hist, deleteVars, imageVars, ipcVars, had>>

Input  == Url \cup Page
Reply  == {"none", "ok", "error"}
Loaded == detail = "loaded"

\* live: the page waits for it.
Delete == [r : Record, live : BOOLEAN]
Save   == [u : Input, live : BOOLEAN]
Fetch  == [from : Int, live : BOOLEAN]

PageTypeOK ==
  /\ rows \subseteq Record /\ hist \subseteq Record /\ had \subseteq Record
  /\ image \in Url \cup {None} /\ pic \in Url \cup {None}
  /\ deletes \subseteq Delete /\ saves \subseteq Save /\ fetches \subseteq Fetch
  /\ task \in {"records", "image"}
  /\ detail \in {"off", "head", "body", "failed", "loaded", "broken"}
  /\ deleting \in Record \cup {None} /\ deleted \in Reply
  /\ saving \in Input \cup {None} /\ saved \in Reply
  /\ ipc # None => ipc.from \in Int
  /\ ipcFailed \in BOOLEAN
  /\ writer \in {"nobody", "late", "other"}

\* What the page waited for, it does not any more.
GivenUp(orders) == {[o EXCEPT !.live = FALSE] : o \in orders}

\* useState.
Fresh(state) ==
  /\ detail' = state
  /\ hist' = {} /\ had' = {}
  /\ deleting' = None /\ deleted' = "none"
  /\ pic' = None /\ saving' = None /\ saved' = "none" /\ writer' = "nobody"
  /\ fetches' = {} /\ ipc' = None /\ ipcFailed' = FALSE

\* A page that is not there; its product is forgotten.
PageOff ==
  /\ Fresh("off")
  /\ rows' = {} /\ image' = None /\ deletes' = {} /\ saves' = {}
  /\ task' = "records"

\* The page of a product: any product, and whatever former pages and other
\* members have left of it, and have under way.
PageOn ==
  /\ Fresh("head")
  /\ \/ /\ task' = "records"
        /\ rows' \in SUBSET Record
        /\ deletes' \in SUBSET [r : Record, live : {FALSE}]
        /\ image' = None /\ saves' = {}
     \/ /\ task' = "image"
        /\ image' \in Url \cup {None}
        /\ saves' \in SUBSET [u : Input, live : {FALSE}]
        /\ rows' = {} /\ deletes' = {}

PageInit ==
  /\ rows = {} /\ image = None /\ deletes = {} /\ saves = {}
  /\ task = "records"
  /\ detail = "off" /\ hist = {} /\ had = {}
  /\ deleting = None /\ deleted = "none"
  /\ pic = None /\ saving = None /\ saved = "none" /\ writer = "nobody"
  /\ fetches = {} /\ ipc = None /\ ipcFailed = FALSE

-----------------------------------------------------------------------------
(* The inflation since the first record. *)

Earliest(h) == {r \in h : \A s \in h : Year[r] <= Year[s]}

Factor(years) == FoldSet(LAMBDA y, acc : acc * (100 + Rate[y]), 1, years)

\* Mutant of Accumulated: the year itself is left out.
AccumulatedAfter(from) == Factor({y \in Rated : y > from})

\* GetAccumulatedIPC: a product of percentages, 100 for each year with none.
Accumulated(from) == Factor({y \in Rated : y >= from})

\* The effect of a new product: the request under way is cancelled, and the
\* inflation since the first record asked for, if there is one.
IpcEffect(h) ==
  fetches' = GivenUp(fetches) \cup
               {[from |-> Year[r], live |-> TRUE] : r \in Earliest(h)}

\* Mutant of IpcAnswers: cancelled is not looked at.
IpcAnswersAll(f) ==
  /\ f \in fetches /\ f.from \in Valid
  /\ fetches' = fetches \ {f}
  /\ ipc' = [from |-> f.from, factor |-> Accumulated(f.from)]
  /\ ipcFailed' = FALSE
  /\ UNCHANGED <<task, serverVars, detail, hist, deleteVars, imageVars, had>>

\* IPCHandler answers; a request that was cancelled is of no effect.
IpcAnswers(f) ==
  /\ f \in fetches /\ f.from \in Valid
  /\ fetches' = fetches \ {f}
  /\ IF f.live
     THEN /\ ipc' = [from |-> f.from, factor |-> Accumulated(f.from)]
          /\ ipcFailed' = FALSE
     ELSE UNCHANGED <<ipc, ipcFailed>>
  /\ UNCHANGED <<task, serverVars, detail, hist, deleteVars, imageVars, had>>

\* It fails, as it does for a year that is not valid: what was shown stays.
IpcFails(f) ==
  /\ f \in fetches
  /\ fetches' = fetches \ {f}
  /\ ipcFailed' = (ipcFailed \/ f.live)
  /\ UNCHANGED <<task, serverVars, detail, hist, deleteVars, imageVars, ipc, had>>

-----------------------------------------------------------------------------
(* Loading: the product as GetProduct reads it, shown when it has arrived. *)

DetailHeaders ==
  /\ detail = "head"
  /\ detail' = "body"
  /\ hist' = rows
  /\ pic' = image
  /\ writer' = "nobody"
  /\ UNCHANGED <<task, serverVars, deleteVars, saving, saved, ipcVars, had>>

\* For a product without records the server answers null, not a list of none.
HistoryIsNull == task = "records" /\ hist = {}

\* The component throws, and nothing is rendered any more.
DetailThrows ==
  /\ detail = "body" /\ HistoryIsNull
  /\ detail' = "broken"
  /\ UNCHANGED <<task, serverVars, hist, deleteVars, imageVars, ipcVars, had>>

DetailArrives ==
  /\ detail = "body" /\ ~HistoryIsNull
  /\ detail' = "loaded"
  /\ had' = hist
  /\ IpcEffect(hist)
  /\ UNCHANGED <<task, serverVars, hist, deleteVars, imageVars, ipc, ipcFailed>>

\* "Producto no encontrado".
DetailFails ==
  /\ detail \in {"head", "body"}
  /\ detail' = "failed"
  /\ hist' = {} /\ pic' = None
  /\ UNCHANGED <<task, serverVars, deleteVars, saving, saved, writer, ipcVars, had>>

-----------------------------------------------------------------------------
(* handleDeleteRecord, after the confirmation; and DeletePriceRecord. *)

\* Mutant of AskDelete: the record is hidden at once.
AskDeleteHide(r) ==
  /\ Loaded /\ deleting = None /\ r \in hist
  /\ deleting' = r
  /\ deletes' = deletes \cup {[r |-> r, live |-> TRUE]}
  /\ hist' = hist \ {r}
  /\ UNCHANGED <<task, rows, image, saves, detail, deleted, imageVars, ipcVars, had>>

AskDelete(r) ==
  /\ Loaded /\ deleting = None /\ r \in hist
  /\ deleting' = r
  /\ deletes' = deletes \cup {[r |-> r, live |-> TRUE]}
  /\ UNCHANGED <<task, rows, image, saves, detail, hist, deleted, imageVars, ipcVars, had>>

\* Carried out: 404 when there is no such record any more.
Deletes(o) ==
  /\ o \in deletes
  /\ deletes' = deletes \ {o}
  /\ rows' = rows \ {o.r}
  /\ deleted' = IF ~o.live THEN deleted ELSE IF o.r \in rows THEN "ok" ELSE "error"
  /\ UNCHANGED <<task, image, saves, detail, hist, deleting, imageVars, ipcVars, had>>

\* The request is lost, or the server fails.
DeletesNot(o) ==
  /\ o \in deletes
  /\ deletes' = deletes \ {o}
  /\ deleted' = IF o.live THEN "error" ELSE deleted
  /\ UNCHANGED <<task, rows, image, saves, detail, hist, deleting, imageVars, ipcVars, had>>

DeleteOk ==
  /\ deleted = "ok"
  /\ hist' = hist \ {deleting}
  /\ IpcEffect(hist \ {deleting})
  /\ deleting' = None /\ deleted' = "none"
  /\ UNCHANGED <<task, serverVars, detail, imageVars, ipc, ipcFailed, had>>

\* "No se pudo eliminar el registro": an answer that says so, or none in time.
DeleteError ==
  /\ deleting # None
  /\ deletes' = GivenUp(deletes)
  /\ deleting' = None /\ deleted' = "none"
  /\ UNCHANGED <<task, rows, image, saves, detail, hist, imageVars, ipcVars, had>>

-----------------------------------------------------------------------------
(* handleSave of the image editor, and ProductImageHandler. *)

AskSave(u) ==
  /\ Loaded /\ task = "image" /\ saving = None
  /\ saving' = u
  /\ saves' = saves \cup {[u |-> u, live |-> TRUE]}
  /\ UNCHANGED <<task, rows, image, deletes, detail, hist, deleteVars, pic, saved, writer,
                 ipcVars, had>>

\* The URL of a product page is replaced by that of its thumbnail.
Resolved(u) == IF u \in Page THEN Thumb[u] ELSE u

Saves(o) ==
  /\ o \in saves
  /\ saves' = saves \ {o}
  /\ image' = Resolved(o.u)
  /\ saved' = IF o.live THEN "ok" ELSE saved
  /\ writer' = IF o.live THEN "nobody" ELSE "late"
  /\ UNCHANGED <<task, rows, deletes, detail, hist, deleteVars, pic, saving, ipcVars, had>>

\* No thumbnail, no valid URL, a lost request or an error of the server.
SavesNot(o) ==
  /\ o \in saves
  /\ saves' = saves \ {o}
  /\ saved' = IF o.live THEN "error" ELSE saved
  /\ UNCHANGED <<task, rows, image, deletes, detail, hist, deleteVars, pic, saving, writer,
                 ipcVars, had>>

\* Mutant of SaveOk: the URL that was entered is shown.
SaveOkEntered ==
  /\ saved = "ok"
  /\ pic' = saving
  /\ saving' = None /\ saved' = "none"
  /\ UNCHANGED <<task, serverVars, detail, hist, deleteVars, writer, ipcVars, had>>

\* The URL of the answer is shown.
SaveOk ==
  /\ saved = "ok"
  /\ pic' = Resolved(saving)
  /\ saving' = None /\ saved' = "none"
  /\ UNCHANGED <<task, serverVars, detail, hist, deleteVars, writer, ipcVars, had>>

\* "No se pudo guardar la imagen": maybe it was.
SaveError ==
  /\ saving # None
  /\ saves' = GivenUp(saves)
  /\ saving' = None /\ saved' = "none"
  /\ writer' = IF saved = "ok" THEN "late" ELSE writer
  /\ UNCHANGED <<task, rows, image, deletes, detail, hist, deleteVars, pic, ipcVars, had>>

-----------------------------------------------------------------------------
(* Other pages, members of the household and the enricher. *)

OtherDeletes(r) ==
  /\ r \in rows
  /\ rows' = rows \ {r}
  /\ UNCHANGED <<task, image, deletes, saves, detail, hist, deleteVars, imageVars, ipcVars, had>>

OtherSaves(u) ==
  /\ task = "image" /\ detail # "off"
  /\ image' = u
  /\ writer' = "other"
  /\ UNCHANGED <<task, rows, deletes, saves, detail, hist, deleteVars, pic, saving, saved,
                 ipcVars, had>>

PageNext ==
  \/ DetailHeaders \/ DetailArrives \/ DetailThrows \/ DetailFails
  \/ \E f \in fetches : IpcAnswers(f) \/ IpcFails(f)
  \/ \E r \in Record : AskDelete(r) \/ OtherDeletes(r)
  \/ \E o \in deletes : Deletes(o) \/ DeletesNot(o)
  \/ DeleteOk \/ DeleteError
  \/ \E u \in Input : AskSave(u)
  \/ \E o \in saves : Saves(o) \/ SavesNot(o)
  \/ SaveOk \/ SaveError
  \/ \E u \in Url : OtherSaves(u)

-----------------------------------------------------------------------------
\* A record that was deleted from the page is gone: the page shows every
\* record it was loaded with but those that the server has deleted, whichever
\* requests failed, were given up, or were carried out later.
HiddenIsDeleted == (had \ hist) \cap rows = {}

\* The inflation shown, once no request for it is under way and unless the
\* last one failed, is that of the years since the first record shown, also
\* after deletions of the first record that overtook the answers: with the
\* years before, it makes up the inflation of all.
IpcSinceFirst ==
  Loaded /\ hist # {} /\ (\A f \in fetches : ~f.live) /\ ~ipcFailed =>
    /\ ipc # None
    /\ \A r \in Earliest(hist) :
         /\ ipc.from = Year[r]
         /\ ipc.factor * Factor({y \in Rated : y < Year[r]}) = Factor(Rated)

\* The image shown is the one stored, unless somebody else has written it
\* since, or a save that the page gave up on was carried out after all.
ImageIsStored ==
  Loaded /\ writer = "nobody" /\ saved # "ok" => pic = image
=============================================================================
