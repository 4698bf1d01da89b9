----------------------------- MODULE PagesProofs -----------------------------
(***************************************************************************)
(* Proofs about Pages: for any texts, records, images and number of        *)
(* searches under way, and however long the 300 ms are in ticks, a box at  *)
(* rest shows what it was asked for, a record that is hidden is deleted,   *)
(* the image shown is the one stored, and the inflation shown is that      *)
(* since the first record shown.                                           *)
(***************************************************************************)
EXTENDS Pages, FiniteSetTheorems, TLAPS

-----------------------------------------------------------------------------
(* The search box.                                                         *)

LEMMA TimerNotNone == ASSUME NEW t \in Timer PROVE t # NoTimer
  BY DebounceAssumption DEF Timer, NoTimer, Age

LEMMA FlightNotFree == ASSUME NEW f \in Flight PROVE f # Free
  BY DEF Flight, Free

LEMMA FirstTypes ==
  /\ Blank \in Text
  /\ [q |-> Blank, left |-> Debounce] \in Timer
  /\ Nothing \in Shown
  <1>1. Debounce \in Age /\ 0 \in Age /\ Blank \in Text
    BY DebounceAssumption DEF Age, Text
  <1> QED
    BY <1>1 DEF Timer, Shown, Nothing

\* A box that is mounted, or is not there, shows nothing, for no text.
LEMMA BoxBeginsInv ==
  ASSUME NEW t \in {NoTimer, [q |-> Blank, left |-> Debounce]}, BoxBegins(t)
  PROVE  BoxInv'
  <1> USE DebounceAssumption
  <1>1. BoxTypeOK'
    BY FirstTypes DEF BoxBegins, BoxTypeOK
  <1>2. \A s \in Slot : ~Busy(s)'
    BY DEF BoxBegins, Busy
  <1>3. (timer # NoTimer => timer.q = query)' /\ shown'.last /\ shown'.q = query'
    BY DEF BoxBegins, Nothing
  <1> QED
    BY <1>1, <1>2, <1>3 DEF BoxInv, Spaced, BoxBegins

LEMMA BoxInitInv == BoxInit => BoxInv
  <1> SUFFICES ASSUME BoxInit PROVE BoxInv
    OBVIOUS
  <1> USE DebounceAssumption
  <1>1. BoxTypeOK
    BY FirstTypes DEF BoxInit, BoxTypeOK
  <1>2. \A s \in Slot : ~Busy(s)
    BY DEF BoxInit, Busy
  <1> QED
    BY <1>1, <1>2 DEF BoxInv, Spaced, BoxInit, Nothing

\* A change of the text sets the timer: searches under way have 300 ms.
LEMMA TypeInv == ASSUME BoxInv, NEW q \in Text, Type(q) PROVE BoxInv'
  <1> USE DebounceAssumption
  <1>1. BoxTypeOK'
    BY DEF BoxInv, BoxTypeOK, Type, Timer, Age
  <1>2. timer' # NoTimer /\ timer'.q = query' /\ timer'.left = Debounce
    BY DEF Type, NoTimer
  <1>3. ASSUME NEW s \in Slot PROVE Spaced(s)'
    BY <1>2 DEF BoxInv, BoxTypeOK, Type, Spaced, Busy, Flight, Free, Age
  <1> QED
    BY <1>1, <1>2, <1>3 DEF BoxInv, Type, Busy

LEMMA TickInv == ASSUME BoxInv, Tick PROVE BoxInv'
  <1> USE DebounceAssumption
  <1>1. ASSUME NEW s \in Slot
        PROVE  /\ flights'[s] = Older(flights[s])
               /\ Busy(s)' <=> Busy(s)
               /\ Busy(s) => /\ flights[s] \in Flight /\ flights'[s] \in Flight
                             /\ flights'[s].q = flights[s].q
                             /\ flights'[s].last = flights[s].last
                             /\ flights'[s].age =
                                  IF flights[s].age < Debounce
                                  THEN flights[s].age + 1 ELSE flights[s].age
    BY DEF BoxInv, BoxTypeOK, Tick, Older, Busy, Flight, Free, Age
  <1>2. /\ timer' # NoTimer <=> timer # NoTimer
        /\ timer # NoTimer =>
             /\ timer \in Timer /\ timer' \in Timer
             /\ timer'.q = timer.q
             /\ timer'.left = timer.left \/ timer'.left = timer.left - 1
    BY DEF BoxInv, BoxTypeOK, Tick, Timer, NoTimer, Age
  <1>3. BoxTypeOK'
    <2>1. flights' \in [Slot -> Flight \cup {Free}]
      BY <1>1 DEF Tick, BoxInv, BoxTypeOK, Busy
    <2>2. timer' \in Timer \cup {NoTimer}
      BY <1>2
    <2> QED
      BY <2>1, <2>2 DEF Tick, BoxInv, BoxTypeOK
  <1>4. ASSUME NEW s \in Slot PROVE Spaced(s)'
    <2> SUFFICES ASSUME Busy(s) PROVE Spaced(s)'
      BY <1>1 DEF Spaced
    <2>1. flights[s].age \in 0..Debounce /\ (timer # NoTimer => timer.left \in 0..Debounce)
      BY <1>1, <1>2 DEF Flight, Age, Timer
    <2>2. ~flights'[s].last => flights'[s].age = Debounce
      BY <1>1, <2>1 DEF BoxInv, Spaced
    <2>3. flights'[s].last /\ timer' # NoTimer => flights'[s].age + timer'.left >= Debounce
      <3> SUFFICES ASSUME flights'[s].last, timer' # NoTimer
                   PROVE  flights'[s].age + timer'.left >= Debounce
        OBVIOUS
      <3>1. flights[s].age + timer.left >= Debounce
        BY <1>1, <1>2 DEF BoxInv, Spaced
      <3>2. timer'.left \in 0..Debounce
        BY <1>2 DEF Timer, Age
      <3> QED
        BY <1>1, <1>2, <2>1, <3>1, <3>2
    <2>4. flights'[s].last /\ timer' = NoTimer => flights'[s].q = query'
      BY <1>1, <1>2 DEF BoxInv, Spaced, Tick
    <2>5. flights'[s].last => ~shown'.last
      BY <1>1 DEF BoxInv, Spaced, Tick
    <2>6. \A t \in Slot : Busy(t)' /\ flights'[s].last /\ flights'[t].last => s = t
      BY <1>1 DEF BoxInv, Spaced
    <2> QED
      BY <2>2, <2>3, <2>4, <2>5, <2>6 DEF Spaced
  <1>5. (timer # NoTimer => timer.q = query)'
    BY <1>2 DEF BoxInv, Tick
  <1>6. (shown.last /\ timer = NoTimer => shown.q = query)'
    BY <1>2 DEF BoxInv, Tick
  <1>7. (\/ shown.last \/ shown.age = Debounce
         \/ \E s \in Slot : Busy(s) /\ flights[s].last)'
    BY <1>1 DEF BoxInv, Tick
  <1>8. (loading => \E s \in Slot : Busy(s))'
    BY <1>1 DEF BoxInv, Tick
  <1> QED
    BY <1>3, <1>4, <1>5, <1>6, <1>7, <1>8 DEF BoxInv

\* When the timer fires, the last search has been under way for 300 ms.
LEMMA FiredAge ==
  ASSUME BoxInv, timer # NoTimer, timer.left = 0, NEW s \in Slot, Busy(s)
  PROVE  flights[s].age = Debounce
  BY DebounceAssumption DEF BoxInv, BoxTypeOK, Spaced, Busy, Flight, Age

LEMMA OvertakenFlights ==
  ASSUME BoxInv, NEW s \in Slot
  PROVE  /\ Overtaken(flights[s]) \in Flight \cup {Free}
         /\ Overtaken(flights[s]) = Free <=> ~Busy(s)
         /\ Busy(s) => /\ ~Overtaken(flights[s]).last
                       /\ Overtaken(flights[s]).age = flights[s].age
  BY DEF BoxInv, BoxTypeOK, Overtaken, Busy, Flight, Free

LEMMA ClearInv == ASSUME BoxInv, Clear PROVE BoxInv'
  <1> USE DebounceAssumption
  <1>1. ASSUME NEW s \in Slot
        PROVE  /\ flights'[s] \in Flight \cup {Free}
               /\ Busy(s)' <=> Busy(s)
               /\ Busy(s) => ~flights'[s].last /\ flights'[s].age = Debounce
    BY OvertakenFlights, FiredAge DEF Clear, Busy
  <1>2. BoxTypeOK'
    <2>1. flights' \in [Slot -> Flight \cup {Free}]
      BY <1>1 DEF Clear
    <2>2. shown' \in Shown
      BY DEF Clear, Nothing, Shown, Text, Age
    <2> QED
      BY <2>1, <2>2 DEF Clear, BoxInv, BoxTypeOK
  <1>3. timer' = NoTimer /\ query' = Blank /\ shown'.q = Blank /\ shown'.last
    BY DEF Clear, BoxInv, Nothing
  <1> QED
    BY <1>1, <1>2, <1>3 DEF BoxInv, Spaced, Clear

LEMMA SearchInv == ASSUME BoxInv, NEW s \in Slot, Search(s) PROVE BoxInv'
  <1> USE DebounceAssumption
  <1>1. /\ flights'[s] \in Flight /\ Busy(s)' /\ flights'[s].last
        /\ flights'[s].q = timer.q /\ timer.q = query
    <2>1. timer \in Timer /\ timer.q \in Query /\ timer.q = query
      BY DEF BoxInv, BoxTypeOK, Search, Timer, Text
    <2> QED
      BY <2>1 DEF Search, Busy, Flight, Free, Age
  <1>2. ASSUME NEW t \in Slot, t # s
        PROVE  /\ flights'[t] \in Flight \cup {Free}
               /\ Busy(t)' <=> Busy(t)
               /\ Busy(t) => ~flights'[t].last /\ flights'[t].age = Debounce
    BY <1>2, OvertakenFlights, FiredAge DEF Search, Busy
  <1>3. BoxTypeOK'
    <2>1. flights' \in [Slot -> Flight \cup {Free}]
      BY <1>1, <1>2 DEF Search
    <2>2. shown' \in Shown
      BY DEF BoxInv, BoxTypeOK, Search, Shown
    <2> QED
      BY <2>1, <2>2 DEF Search, BoxInv, BoxTypeOK
  <1>4. timer' = NoTimer /\ query' = query /\ ~shown'.last
    BY DEF Search, BoxInv, BoxTypeOK, Shown
  <1>5. ASSUME NEW t \in Slot PROVE Spaced(t)'
    BY <1>1, <1>2, <1>4 DEF Spaced
  <1> QED
    BY <1>1, <1>3, <1>4, <1>5 DEF BoxInv

LEMMA HeadersInv == ASSUME BoxInv, NEW s \in Slot, Headers(s) PROVE BoxInv'
  <1>1. ASSUME NEW t \in Slot
        PROVE  /\ flights'[t] \in Flight \cup {Free}
               /\ Busy(t)' <=> Busy(t)
               /\ Busy(t) => /\ flights'[t].last = flights[t].last
                             /\ flights'[t].age = flights[t].age
                             /\ flights'[t].q = flights[t].q
    BY DEF BoxInv, BoxTypeOK, Headers, Busy, Flight, Free
  <1>2. BoxTypeOK'
    <2>1. flights' \in [Slot -> Flight \cup {Free}]
      BY <1>1 DEF Headers, BoxInv, BoxTypeOK
    <2> QED
      BY <2>1 DEF Headers, BoxInv, BoxTypeOK
  <1>3. ASSUME NEW t \in Slot PROVE Spaced(t)'
    BY <1>1 DEF BoxInv, Spaced, Headers
  <1> QED
    BY <1>1, <1>2, <1>3 DEF BoxInv, Headers

\* Answers and errors: what is shown is last exactly if its search was.
LEMMA SettleInv ==
  ASSUME BoxInv, NEW s \in Slot, Busy(s), NEW found \in BOOLEAN, Settle(s, found),
         searched' \in BOOLEAN, loading' = FALSE, UNCHANGED <<query, timer>>
  PROVE  BoxInv'
  <1>1. flights[s] \in Flight
    BY DEF BoxInv, BoxTypeOK, Busy
  <1>2. ~Busy(s)' /\ \A t \in Slot \ {s} : flights'[t] = flights[t]
    BY DEF BoxInv, BoxTypeOK, Settle, Busy
  <1>3. /\ shown'.q = flights[s].q /\ shown'.age = flights[s].age
        /\ shown'.last = flights[s].last
    BY DEF Settle
  <1>4. BoxTypeOK'
    <2>1. shown' \in Shown
      BY <1>1 DEF Settle, Shown, Flight, Text
    <2>2. flights' \in [Slot -> Flight \cup {Free}]
      BY DEF BoxInv, BoxTypeOK, Settle
    <2> QED
      BY <2>1, <2>2 DEF BoxInv, BoxTypeOK
  <1>5. ASSUME NEW t \in Slot PROVE Spaced(t)'
    BY <1>2, <1>3 DEF BoxInv, Spaced, Busy
  <1>6. (shown.last /\ timer = NoTimer => shown.q = query)'
    BY <1>3 DEF BoxInv, Spaced
  <1>7. (shown.last \/ shown.age = Debounce)'
    BY <1>3 DEF BoxInv, Spaced
  <1> QED
    BY <1>4, <1>5, <1>6, <1>7 DEF BoxInv

LEMMA BoxStepInv == BoxInv /\ BoxNext => BoxInv'
  <1> SUFFICES ASSUME BoxInv, BoxNext PROVE BoxInv'
    OBVIOUS
  <1>1. CASE \E q \in Text : Type(q)
    BY <1>1, TypeInv
  <1>2. CASE Tick
    BY <1>2, TickInv
  <1>3. CASE Clear
    BY <1>3, ClearInv
  <1>4. CASE \E s \in Slot : Search(s)
    BY <1>4, SearchInv
  <1>5. CASE \E s \in Slot : Headers(s)
    BY <1>5, HeadersInv
  <1>6. ASSUME NEW s \in Slot, Answer(s) PROVE BoxInv'
    BY <1>6, SettleInv DEF Answer
  <1>7. ASSUME NEW s \in Slot, Fails(s) PROVE BoxInv'
    <2>1. searched \in BOOLEAN
      BY DEF BoxInv, BoxTypeOK
    <2> QED
      BY <1>7, <2>1, SettleInv DEF Fails
  <1> QED
    BY <1>1, <1>2, <1>3, <1>4, <1>5, <1>6, <1>7 DEF BoxNext

-----------------------------------------------------------------------------
(* The page of a product.                                                  *)

\* A record the page hides is deleted: only an answer hides it, and the only
\* deletion that is answered is the one the page waits for.
DeleteInv ==
  /\ detail \in {"off", "head", "body"} => had = {}
  /\ deleting = None => deleted = "none"
  /\ \A o \in deletes : o.live => o.r = deleting /\ deleted = "none"
  /\ deleted = "ok" => deleting \notin rows
  /\ HiddenIsDeleted

\* The image shown, while a save is answered but the answer not yet taken,
\* will be the one stored.
ImageInv ==
  /\ saving = None => saved = "none"
  /\ \A o \in saves : o.live => o.u = saving /\ saved = "none"
  /\ saved = "ok" /\ writer = "nobody" => image = Resolved(saving)
  /\ detail \in {"body", "loaded"} /\ writer = "nobody" /\ saved # "ok" => pic = image
  /\ detail \in {"off", "head", "body"} => saving = None

PageInv == PageTypeOK /\ DeleteInv /\ ImageInv

LEMMA ResolvedType == \A u \in Input : Resolved(u) \in Url /\ u # None
  BY ThumbAssumption, NoneAssumption DEF Input, Resolved

LEMMA GivenUpDeletes ==
  ASSUME deletes \subseteq Delete
  PROVE  GivenUp(deletes) \subseteq Delete /\ \A o \in GivenUp(deletes) : ~o.live
  BY DEF GivenUp, Delete

LEMMA GivenUpSaves ==
  ASSUME saves \subseteq Save
  PROVE  GivenUp(saves) \subseteq Save /\ \A o \in GivenUp(saves) : ~o.live
  BY DEF GivenUp, Save

LEMMA IpcEffectType ==
  ASSUME fetches \subseteq Fetch, NEW h \in SUBSET Record, IpcEffect(h)
  PROVE  fetches' \subseteq Fetch
  <1>1. GivenUp(fetches) \subseteq Fetch
    BY DEF GivenUp, Fetch
  <1>2. \A r \in Earliest(h) : [from |-> Year[r], live |-> TRUE] \in Fetch
    BY YearAssumption DEF Earliest, Fetch
  <1> QED
    BY <1>1, <1>2 DEF IpcEffect

LEMMA PageInitInv == PageInit => PageInv
  BY DEF PageInit, PageInv, PageTypeOK, Reply, DeleteInv, ImageInv, HiddenIsDeleted

LEMMA PageOffInv == PageOff => PageInv'
  BY DEF PageOff, Fresh, PageInv, PageTypeOK, Reply, DeleteInv, ImageInv, HiddenIsDeleted

LEMMA PageOnInv == PageOn => PageInv'
  <1> SUFFICES ASSUME PageOn PROVE PageInv'
    OBVIOUS
  <1>1. /\ rows' \subseteq Record
        /\ deletes' \subseteq Delete /\ \A o \in deletes' : ~o.live
        /\ image' \in Url \cup {None}
        /\ saves' \subseteq Save /\ \A o \in saves' : ~o.live
        /\ task' \in {"records", "image"}
    BY DEF PageOn, Delete, Save
  <1> QED
    BY <1>1 DEF PageOn, Fresh, PageInv, PageTypeOK, Reply, DeleteInv, ImageInv,
                HiddenIsDeleted

-----------------------------------------------------------------------------
LEMMA DetailStepInv ==
  ASSUME PageInv, DetailHeaders \/ DetailArrives \/ DetailThrows \/ DetailFails
  PROVE  PageInv'
  <1>1. CASE DetailHeaders
    BY <1>1 DEF DetailHeaders, PageInv, PageTypeOK, DeleteInv, ImageInv, HiddenIsDeleted,
                serverVars, deleteVars, ipcVars
  <1>2. CASE DetailArrives
    <2>1. fetches' \subseteq Fetch
      BY <1>2, IpcEffectType DEF DetailArrives, PageInv, PageTypeOK
    <2> QED
      BY <1>2, <2>1 DEF DetailArrives, PageInv, PageTypeOK, DeleteInv, ImageInv,
                        HiddenIsDeleted, serverVars, deleteVars, imageVars
  <1>3. CASE DetailFails
    BY <1>3 DEF DetailFails, PageInv, PageTypeOK, DeleteInv, ImageInv, HiddenIsDeleted,
                serverVars, deleteVars, ipcVars
  <1>4. CASE DetailThrows
    BY <1>4 DEF DetailThrows, PageInv, PageTypeOK, DeleteInv, ImageInv, HiddenIsDeleted,
                serverVars, deleteVars, imageVars, ipcVars
  <1> QED
    BY <1>1, <1>2, <1>3, <1>4

\* What a deletion leaves alone keeps the facts about images.
LEMMA ImageFrame ==
  ASSUME ImageInv, UNCHANGED <<image, saves, imageVars, detail>>
  PROVE  ImageInv'
  BY DEF ImageInv, imageVars, Resolved

LEMMA DeleteFrame ==
  ASSUME DeleteInv, UNCHANGED <<rows, deletes, detail, hist, had, deleteVars>>
  PROVE  DeleteInv'
  BY DEF DeleteInv, deleteVars, HiddenIsDeleted

LEMMA IpcStepInv ==
  ASSUME PageInv, NEW f \in fetches, IpcAnswers(f) \/ IpcFails(f)
  PROVE  PageInv'
  <1>1. f \in Fetch
    BY DEF PageInv, PageTypeOK
  <1>2. /\ fetches' \subseteq Fetch /\ ipcFailed' \in BOOLEAN
        /\ ipc' # None => ipc'.from \in Int
    <2>1. f.from \in Int /\ f.live \in BOOLEAN
      BY <1>1 DEF Fetch
    <2>2. [from |-> f.from, factor |-> Accumulated(f.from)].from = f.from
      OBVIOUS
    <2>3. CASE IpcAnswers(f) /\ f.live
      <3>1. ipc'.from = f.from /\ fetches' = fetches \ {f} /\ ipcFailed' = FALSE
        BY <2>2, <2>3 DEF IpcAnswers
      <3> QED
        BY <2>1, <3>1 DEF PageInv, PageTypeOK
    <2>4. CASE (IpcAnswers(f) /\ ~f.live) \/ IpcFails(f)
      <3>1. ipc' = ipc /\ fetches' = fetches \ {f}
              /\ ipcFailed' \in {ipcFailed, ipcFailed \/ f.live}
        BY <2>4 DEF IpcAnswers, IpcFails
      <3> QED
        BY <2>1, <3>1 DEF PageInv, PageTypeOK
    <2> QED
      BY <2>1, <2>3, <2>4
  <1>3. UNCHANGED <<serverVars, task, detail, hist, deleteVars, imageVars, had>>
    BY DEF IpcAnswers, IpcFails
  <1>4. PageTypeOK'
    BY <1>2, <1>3 DEF PageInv, PageTypeOK, serverVars, deleteVars, imageVars
  <1> QED
    BY <1>3, <1>4, ImageFrame, DeleteFrame DEF PageInv, serverVars

LEMMA DeleteStepInv ==
  ASSUME PageInv,
         \/ \E r \in Record : AskDelete(r) \/ OtherDeletes(r)
         \/ \E o \in deletes : Deletes(o) \/ DeletesNot(o)
         \/ DeleteOk \/ DeleteError
  PROVE  PageInv'
  <1> USE DEF PageInv
  <1>1. ASSUME NEW r \in Record, AskDelete(r) PROVE PageInv'
    <2> DEFINE new == [r |-> r, live |-> TRUE]
    <2>1. deletes' = deletes \cup {new} /\ new \in Delete
      BY <1>1 DEF AskDelete, Delete
    <2>2. PageTypeOK'
      BY <1>1, <2>1 DEF AskDelete, PageTypeOK, imageVars, ipcVars
    <2>3. DeleteInv'
      <3>1. \A o \in deletes : ~o.live
        BY <1>1, NoneAssumption DEF AskDelete, DeleteInv, PageTypeOK, Delete
      <3>2. deleted = "none"
        BY <1>1 DEF AskDelete, DeleteInv
      <3>3. new.r = r /\ r # None
        BY NoneAssumption
      <3> HIDE DEF new
      <3> QED
        BY <1>1, <2>1, <3>1, <3>2, <3>3
           DEF AskDelete, DeleteInv, HiddenIsDeleted, Loaded
    <2> QED
      BY <1>1, <2>2, <2>3, ImageFrame DEF AskDelete
  <1>2. ASSUME NEW r \in Record, OtherDeletes(r) PROVE PageInv'
    <2>1. PageTypeOK'
      BY <1>2 DEF OtherDeletes, PageTypeOK, deleteVars, imageVars, ipcVars
    <2>2. DeleteInv'
      BY <1>2 DEF OtherDeletes, DeleteInv, HiddenIsDeleted, deleteVars
    <2> QED
      BY <1>2, <2>1, <2>2, ImageFrame DEF OtherDeletes
  <1>3. ASSUME NEW o \in deletes, Deletes(o) PROVE PageInv'
    <2>1. PageTypeOK'
      BY <1>3 DEF Deletes, PageTypeOK, Reply, imageVars, ipcVars
    <2>2. DeleteInv'
      <3>1. \A d \in deletes \ {o} : d.live /\ o.live => FALSE
        BY DEF DeleteInv, PageTypeOK, Delete
      <3>2. o.r # None
        BY NoneAssumption DEF PageTypeOK, Delete
      <3> QED
        BY <1>3, <3>1, <3>2 DEF Deletes, DeleteInv, HiddenIsDeleted
    <2> QED
      BY <1>3, <2>1, <2>2, ImageFrame DEF Deletes
  <1>4. ASSUME NEW o \in deletes, DeletesNot(o) PROVE PageInv'
    <2>1. PageTypeOK'
      BY <1>4 DEF DeletesNot, PageTypeOK, Reply, imageVars, ipcVars
    <2>2. DeleteInv'
      <3>1. \A d \in deletes \ {o} : d.live /\ o.live => FALSE
        BY DEF DeleteInv, PageTypeOK, Delete
      <3>2. o.r # None
        BY NoneAssumption DEF PageTypeOK, Delete
      <3> QED
        BY <1>4, <3>1, <3>2 DEF DeletesNot, DeleteInv, HiddenIsDeleted
    <2> QED
      BY <1>4, <2>1, <2>2, ImageFrame DEF DeletesNot
  <1>5. CASE DeleteOk
    <2>1. fetches' \subseteq Fetch
      BY <1>5, IpcEffectType DEF DeleteOk, PageTypeOK
    <2>2. PageTypeOK'
      BY <1>5, <2>1 DEF DeleteOk, PageTypeOK, Reply, serverVars, imageVars
    <2>3. DeleteInv'
      BY <1>5 DEF DeleteOk, DeleteInv, HiddenIsDeleted, serverVars, PageTypeOK
    <2> QED
      BY <1>5, <2>2, <2>3, ImageFrame DEF DeleteOk, serverVars
  <1>6. CASE DeleteError
    <2>1. PageTypeOK'
      BY <1>6, GivenUpDeletes DEF DeleteError, PageTypeOK, Reply, imageVars, ipcVars
    <2>2. DeleteInv'
      BY <1>6, GivenUpDeletes DEF DeleteError, DeleteInv, HiddenIsDeleted, PageTypeOK
    <2> QED
      BY <1>6, <2>1, <2>2, ImageFrame DEF DeleteError
  <1> QED
    BY <1>1, <1>2, <1>3, <1>4, <1>5, <1>6

LEMMA SaveStepInv ==
  ASSUME PageInv,
         \/ \E u \in Input : AskSave(u)
         \/ \E o \in saves : Saves(o) \/ SavesNot(o)
         \/ SaveOk \/ SaveError
         \/ \E u \in Url : OtherSaves(u)
  PROVE  PageInv'
  <1> USE DEF PageInv
  <1>1. ASSUME NEW u \in Input, AskSave(u) PROVE PageInv'
    <2> DEFINE new == [u |-> u, live |-> TRUE]
    <2>1. saves' = saves \cup {new} /\ new \in Save
      BY <1>1 DEF AskSave, Save
    <2>2. PageTypeOK'
      BY <1>1, <2>1 DEF AskSave, PageTypeOK, deleteVars, ipcVars
    <2>3. ImageInv'
      <3>1. \A o \in saves : ~o.live
        BY <1>1, NoneAssumption DEF AskSave, ImageInv, PageTypeOK, Save, Input
      <3>2. saved = "none"
        BY <1>1 DEF AskSave, ImageInv
      <3>3. new.u = u /\ u # None
        BY NoneAssumption DEF Input
      <3> HIDE DEF new
      <3> QED
        BY <1>1, <2>1, <3>1, <3>2, <3>3 DEF AskSave, ImageInv, Loaded
    <2> QED
      BY <1>1, <2>2, <2>3, DeleteFrame DEF AskSave
  <1>2. ASSUME NEW o \in saves, Saves(o) PROVE PageInv'
    <2>1. o \in Save /\ Resolved(o.u) \in Url
      BY ResolvedType DEF PageTypeOK, Save
    <2>2. PageTypeOK'
      BY <1>2, <2>1 DEF Saves, PageTypeOK, Reply, deleteVars, ipcVars
    <2>3. ImageInv'
      <3>1. \A d \in saves \ {o} : d.live /\ o.live => FALSE
        BY DEF ImageInv, PageTypeOK, Save
      <3>2. o.u # None
        BY NoneAssumption DEF PageTypeOK, Save, Input
      <3> QED
        BY <1>2, <3>1, <3>2 DEF Saves, ImageInv, Resolved
    <2> QED
      BY <1>2, <2>2, <2>3, DeleteFrame DEF Saves
  <1>3. ASSUME NEW o \in saves, SavesNot(o) PROVE PageInv'
    <2>1. PageTypeOK'
      BY <1>3 DEF SavesNot, PageTypeOK, Reply, deleteVars, ipcVars
    <2>2. ImageInv'
      <3>1. \A d \in saves \ {o} : d.live /\ o.live => FALSE
        BY DEF ImageInv, PageTypeOK, Save
      <3>2. o.u # None
        BY NoneAssumption DEF PageTypeOK, Save, Input
      <3> QED
        BY <1>3, <3>1, <3>2 DEF SavesNot, ImageInv, Resolved
    <2> QED
      BY <1>3, <2>1, <2>2, DeleteFrame DEF SavesNot
  <1>4. CASE SaveOk
    <2>1. saving \in Input /\ Resolved(saving) \in Url
      BY <1>4, ResolvedType DEF SaveOk, PageTypeOK, ImageInv
    <2>2. PageTypeOK'
      BY <1>4, <2>1 DEF SaveOk, PageTypeOK, Reply, serverVars, deleteVars, ipcVars
    <2>3. ImageInv'
      BY <1>4, <2>1 DEF SaveOk, ImageInv, PageTypeOK, Save, serverVars
    <2> QED
      BY <1>4, <2>2, <2>3, DeleteFrame DEF SaveOk, serverVars
  <1>5. CASE SaveError
    <2>1. PageTypeOK'
      BY <1>5, GivenUpSaves DEF SaveError, PageTypeOK, Reply, deleteVars, ipcVars
    <2>2. ImageInv'
      BY <1>5, GivenUpSaves DEF SaveError, ImageInv, PageTypeOK
    <2> QED
      BY <1>5, <2>1, <2>2, DeleteFrame DEF SaveError
  <1>6. ASSUME NEW u \in Url, OtherSaves(u) PROVE PageInv'
    <2>1. PageTypeOK'
      BY <1>6 DEF OtherSaves, PageTypeOK, deleteVars, ipcVars
    <2>2. ImageInv'
      BY <1>6 DEF OtherSaves, ImageInv
    <2> QED
      BY <1>6, <2>1, <2>2, DeleteFrame DEF OtherSaves
  <1> QED
    BY <1>1, <1>2, <1>3, <1>4, <1>5, <1>6

LEMMA PageStepInv == PageInv /\ PageNext => PageInv'
  BY DetailStepInv, IpcStepInv, DeleteStepInv, SaveStepInv DEF PageNext

LEMMA PageStutters == PageInv /\ UNCHANGED pageVars => PageInv'
  BY DEF PageInv, PageTypeOK, DeleteInv, ImageInv, HiddenIsDeleted, Resolved,
         pageVars, serverVars, deleteVars, imageVars, ipcVars

LEMMA BoxStutters == BoxInv /\ UNCHANGED boxVars => BoxInv'
  BY DEF BoxInv, BoxTypeOK, Spaced, Busy, boxVars

-----------------------------------------------------------------------------
(* The screens.                                                            *)

PagesInv == TypeOK /\ BoxInv /\ PageInv

LEMMA InitInv == Init => PagesInv
  BY BoxInitInv, PageInitInv DEF Init, PagesInv, TypeOK, BoxInv, PageInv, Panel

LEMMA PanelsFollowType ==
  ASSUME panel \in [Panel -> {"off", "head", "body", "failed", "loaded"}], PanelsFollow
  PROVE  panel' \in [Panel -> {"off", "head", "body", "failed", "loaded"}]
  BY DEF PanelsFollow

\* Every screen begins with a box and a page of its own.
LEMMA ShowInv ==
  ASSUME PagesInv, NEW t \in {"products", "analytics"}, NEW o \in BOOLEAN, Show(t, o)
  PROVE  PagesInv'
  <1>1. BoxInv'
    BY BoxBeginsInv DEF Show, Mounted, Unmounted
  <1>2. PageInv'
    BY PageOnInv, PageOffInv DEF Show
  <1>3. TypeOK'
    BY <1>1, <1>2, PanelsFollowType DEF PagesInv, TypeOK, BoxInv, PageInv, Show
  <1> QED
    BY <1>1, <1>2, <1>3 DEF PagesInv

LEMMA PanelGoesInv ==
  ASSUME PagesInv, NEW c \in Panel, NEW from, NEW to \in {"head", "body", "failed", "loaded"},
         PanelGoes(c, from, to)
  PROVE  PagesInv'
  <1>1. BoxInv' /\ PageInv'
    BY BoxStutters, PageStutters DEF PagesInv, PanelGoes
  <1>2. TypeOK'
    BY <1>1 DEF PagesInv, TypeOK, BoxInv, PageInv, PanelGoes
  <1> QED
    BY <1>1, <1>2 DEF PagesInv

LEMMA StepInv == PagesInv /\ [Next]_vars => PagesInv'
  <1> SUFFICES ASSUME PagesInv, [Next]_vars PROVE PagesInv'
    OBVIOUS
  <1>1. CASE InBox(BoxNext)
    <2>1. BoxInv' /\ PageInv'
      BY <1>1, BoxStepInv, PageStutters DEF PagesInv, InBox
    <2> QED
      BY <1>1, <2>1, PanelsFollowType DEF PagesInv, TypeOK, BoxInv, PageInv, InBox
  <1>2. CASE InPage(PageNext)
    <2>1. BoxInv' /\ PageInv'
      BY <1>2, PageStepInv, BoxStutters DEF PagesInv, InPage
    <2> QED
      BY <1>2, <2>1 DEF PagesInv, TypeOK, BoxInv, PageInv, InPage
  <1>3. ASSUME NEW t \in {"products", "analytics"}, Switch(t) PROVE PagesInv'
    BY <1>3, ShowInv DEF Switch
  <1>4. CASE Logo \/ Select \/ Back \/ Reload
    <2>1. tab \in {"products", "analytics"}
      BY DEF PagesInv, TypeOK
    <2> QED
      BY <1>4, <2>1, ShowInv DEF Logo, Select, Back, Reload
  <1>5. ASSUME NEW c \in Panel, PanelHeaders(c) \/ PanelArrives(c) \/ PanelFails(c)
        PROVE  PagesInv'
    BY <1>5, PanelGoesInv DEF PanelHeaders, PanelArrives, PanelFails
  <1>6. CASE Retry
    BY <1>6, PanelGoesInv DEF Retry, Panel
  <1>7. CASE UNCHANGED vars
    <2>1. BoxInv' /\ PageInv'
      BY <1>7, BoxStutters, PageStutters DEF PagesInv, vars
    <2> QED
      BY <1>7, <2>1 DEF PagesInv, TypeOK, BoxInv, PageInv, vars
  <1> QED
    BY <1>1, <1>2, <1>3, <1>4, <1>5, <1>6, <1>7 DEF Next

\* The type invariant, with what the searches under way and the answers on
\* their way have to do with what is shown.
THEOREM PagesCorrect == Spec => []PagesInv
  BY InitInv, StepInv, PTL DEF Spec

\* A box at rest shows what was found for its text, unless it took longer
\* than searches are apart.
THEOREM RestShowsQueryHolds == Spec => []RestShowsQuery
  <1>1. PagesInv => RestShowsQuery
    BY DEF PagesInv, BoxInv, RestShowsQuery, AtRest
  <1> QED
    BY <1>1, PagesCorrect, PTL

\* A record that a page hides is deleted from price_records.
THEOREM HiddenIsDeletedHolds == Spec => []HiddenIsDeleted
  <1>1. PagesInv => HiddenIsDeleted
    BY DEF PagesInv, PageInv, DeleteInv
  <1> QED
    BY <1>1, PagesCorrect, PTL

\* A page shows the image that is stored, while nobody else writes it.
THEOREM ImageIsStoredHolds == Spec => []ImageIsStored
  <1>1. PagesInv => ImageIsStored
    BY DEF PagesInv, PageInv, ImageInv, ImageIsStored, Loaded
  <1> QED
    BY <1>1, PagesCorrect, PTL

-----------------------------------------------------------------------------
(* The inflation: products of percentages.                                 *)

HasLeast(T) == \E A \in T : \A B \in T : B \subseteq A => B = A

\* A set of subsets of a finite set has one that no other is within.
LEMMA MinimalSet ==
  ASSUME NEW S, IsFiniteSet(S), NEW T \in SUBSET SUBSET S, T # {}
  PROVE  HasLeast(T)
  <1>1. FiniteSubsetsOf(S) = SUBSET S
    BY FS_FiniteSubsetsOfFinite
  <1>2. IsWellFoundedOn(StrictSubsetOrdering(S), FiniteSubsetsOf(S))
    BY FS_StrictSubsetOrderingWellFounded
  <1>3. PICK A \in T : \A B \in T : ~(<<B, A>> \in StrictSubsetOrdering(S))
    BY <1>1, <1>2, WFMin
  <1> QED
    BY <1>3 DEF StrictSubsetOrdering, HasLeast

\* The year the fold takes next, and what it does with it.
AnyOf(s) == CHOOSE y \in s : TRUE
Times(y, acc) == acc * (100 + Rate[y])

\* iter is the recursive function the fold is made of, on the years S.
Folds(iter, S) ==
  iter = [s \in SUBSET S |-> IF s = {} THEN 1 ELSE Times(AnyOf(s), iter[s \ {AnyOf(s)}])]

LEMMA FactorIsFold ==
  ASSUME NEW S
  PROVE  Factor(S) = (CHOOSE iter : Folds(iter, S))[S]
  BY DEF Factor, FoldSet, MapThenFoldSet, Folds, AnyOf, Times

LEMMA AnyOfType == ASSUME NEW s, s # {} PROVE AnyOf(s) \in s
  BY DEF AnyOf

\* The fold's functions agree where both are defined.
LEMMA FoldsAgree ==
  ASSUME NEW S, IsFiniteSet(S), NEW A \in SUBSET S, NEW B \in SUBSET S,
         NEW i, NEW j, Folds(i, A), Folds(j, B), NEW U \in SUBSET A, U \in SUBSET B
  PROVE  i[U] = j[U]
  <1> DEFINE T == {s \in SUBSET S : s \subseteq A /\ s \subseteq B /\ i[s] # j[s]}
  <1> SUFFICES ASSUME T # {} PROVE FALSE
    OBVIOUS
  <1>1. PICK s \in T : \A r \in T : r \subseteq s => r = s
    <2>1. T \in SUBSET SUBSET S
      OBVIOUS
    <2> HIDE DEF T
    <2>2. HasLeast(T)
      BY <2>1, MinimalSet
    <2> QED
      BY <2>2 DEF HasLeast
  <1>2. s \in SUBSET S /\ s \in SUBSET A /\ s \in SUBSET B /\ i[s] # j[s]
    OBVIOUS
  <1> DEFINE c == AnyOf(s)
  <1>3. /\ i[s] = IF s = {} THEN 1 ELSE Times(c, i[s \ {c}])
        /\ j[s] = IF s = {} THEN 1 ELSE Times(c, j[s \ {c}])
    BY <1>2 DEF Folds
  <1>4. s # {} /\ c \in s
    BY <1>2, <1>3, AnyOfType
  <1> HIDE DEF c
  <1>5. s \ {c} \notin T
    BY <1>1, <1>4
  <1>6. i[s \ {c}] = j[s \ {c}]
    BY <1>2, <1>5
  <1> QED
    BY <1>2, <1>3, <1>4, <1>6

\* The fold's function exists.
LEMMA FoldsExist ==
  ASSUME NEW S, IsFiniteSet(S)
  PROVE  \E iter : Folds(iter, S)
  <1> DEFINE T == {A \in SUBSET S : ~\E iter : Folds(iter, A)}
  <1> SUFFICES ASSUME T # {} PROVE FALSE
    OBVIOUS
  <1>1. PICK A \in T : \A B \in T : B \subseteq A => B = A
    <2>1. T \in SUBSET SUBSET S
      OBVIOUS
    <2> HIDE DEF T
    <2>2. HasLeast(T)
      BY <2>1, MinimalSet
    <2> QED
      BY <2>2 DEF HasLeast
  <1>2. A \in SUBSET S /\ ~\E iter : Folds(iter, A)
    OBVIOUS
  <1> DEFINE part(B) == CHOOSE iter : Folds(iter, B)
             below(s) == part(s)[s]
             value(s) == IF s = {} THEN 1 ELSE Times(AnyOf(s), below(s \ {AnyOf(s)}))
             all == [s \in SUBSET A |-> value(s)]
  <1>3. \A B \in SUBSET A : B # A => Folds(part(B), B)
    <2> TAKE B \in SUBSET A
    <2> HAVE B # A
    <2>1. \E iter : Folds(iter, B)
      BY <1>1, <1>2
    <2> QED
      BY <2>1
  <1> HIDE DEF part
  <1>4. \A s \in SUBSET A : s # {} => AnyOf(s) \in s
    BY AnyOfType
  <1>5. \A B \in SUBSET A : B # A => below(B) = value(B)
    <2> TAKE B \in SUBSET A
    <2> HAVE B # A
    <2>1. Folds(part(B), B)
      BY <1>3
    <2>2. part(B)[B] = IF B = {} THEN 1 ELSE Times(AnyOf(B), part(B)[B \ {AnyOf(B)}])
      BY <2>1 DEF Folds
    <2>3. CASE B = {}
      BY <2>2, <2>3
    <2>4. CASE B # {}
      <3> DEFINE C == B \ {AnyOf(B)}
      <3>1. C \in SUBSET A /\ C # A /\ C \in SUBSET B
        BY <1>4, <2>4
      <3>2. Folds(part(C), C)
        BY <1>3, <3>1
      <3>3. part(B)[C] = part(C)[C]
        <4>1. B \in SUBSET S /\ C \in SUBSET S /\ C \in SUBSET C
          BY <1>2, <3>1
        <4> DEFINE i == part(B)  j == part(C)
        <4>2. Folds(i, B) /\ Folds(j, C) /\ C \in SUBSET B
          BY <2>1, <3>1, <3>2
        <4> HIDE DEF C, i, j
        <4>3. i[C] = j[C]
          BY <4>1, <4>2, FoldsAgree, SMTT(60)
        <4> QED
          BY <4>3 DEF i, j
      <3> QED
        BY <2>2, <2>4, <3>3
    <2> QED
      BY <2>3, <2>4
  <1>6. \A s \in SUBSET A : s # {} => below(s \ {AnyOf(s)}) = all[s \ {AnyOf(s)}]
    <2> TAKE s \in SUBSET A
    <2> HAVE s # {}
    <2>1. s \ {AnyOf(s)} \in SUBSET A /\ s \ {AnyOf(s)} # A
      BY <1>4
    <2> HIDE DEF below, value
    <2> QED
      BY <1>5, <2>1
  <1>7. \A s \in SUBSET A :
          all[s] = IF s = {} THEN 1 ELSE Times(AnyOf(s), all[s \ {AnyOf(s)}])
    <2> TAKE s \in SUBSET A
    <2>1. all[s] = IF s = {} THEN 1 ELSE Times(AnyOf(s), below(s \ {AnyOf(s)}))
      OBVIOUS
    <2> HIDE DEF below, all
    <2> QED
      BY <1>6, <2>1
  <1>8. all = [s \in SUBSET A |->
                 IF s = {} THEN 1 ELSE Times(AnyOf(s), all[s \ {AnyOf(s)}])]
    <2>1. all = [s \in SUBSET A |-> all[s]]
      OBVIOUS
    <2> HIDE DEF all
    <2> QED
      BY <1>7, <2>1
  <1>9. Folds(all, A)
    <2> HIDE DEF all
    <2> QED
      BY <1>8 DEF Folds
  <1> QED
    BY <1>2, <1>9

\* Factor by recursion: without years it is 1, and some year can be taken off.
LEMMA FactorTakesOff ==
  ASSUME NEW S \in SUBSET Rated
  PROVE  Factor(S) = IF S = {} THEN 1 ELSE Times(AnyOf(S), Factor(S \ {AnyOf(S)}))
  <1> DEFINE fold(A) == CHOOSE iter : Folds(iter, A)
             R == S \ {AnyOf(S)}
  <1>1. IsFiniteSet(S) /\ IsFiniteSet(R)
    BY RateAssumption, FS_Subset
  <1>2. Folds(fold(S), S) /\ Folds(fold(R), R)
    <2>1. (\E iter : Folds(iter, S)) /\ \E iter : Folds(iter, R)
      BY <1>1, FoldsExist
    <2> QED
      BY <2>1
  <1>3. Factor(S) = fold(S)[S] /\ Factor(R) = fold(R)[R]
    BY FactorIsFold
  <1> HIDE DEF fold
  <1>4. fold(S)[S] = IF S = {} THEN 1 ELSE Times(AnyOf(S), fold(S)[R])
    BY <1>2 DEF Folds
  <1>5. fold(S)[R] = fold(R)[R]
    <2>1. S \in SUBSET S /\ R \in SUBSET S /\ R \in SUBSET R
      OBVIOUS
    <2> HIDE DEF R
    <2> QED
      BY <1>1, <1>2, <2>1, FoldsAgree
  <1> QED
    BY <1>3, <1>4, <1>5

LEMMA FactorType ==
  ASSUME NEW S \in SUBSET Rated
  PROVE  Factor(S) \in Int
  <1> DEFINE T == {s \in SUBSET Rated : Factor(s) \notin Int}
  <1> SUFFICES ASSUME T # {} PROVE FALSE
    OBVIOUS
  <1>1. PICK s \in T : \A r \in T : r \subseteq s => r = s
    <2>1. T \in SUBSET SUBSET Rated
      OBVIOUS
    <2> HIDE DEF T
    <2>2. HasLeast(T)
      BY <2>1, RateAssumption, MinimalSet
    <2> QED
      BY <2>2 DEF HasLeast
  <1>2. s \in SUBSET Rated /\ Factor(s) \notin Int
    OBVIOUS
  <1> DEFINE c == AnyOf(s)
  <1>3. Factor(s) = IF s = {} THEN 1 ELSE Times(c, Factor(s \ {c}))
    BY <1>2, FactorTakesOff
  <1>4. s # {} /\ c \in s
    BY <1>2, <1>3, AnyOfType
  <1> HIDE DEF c
  <1>5. Factor(s \ {c}) \in Int
    BY <1>1, <1>2, <1>4
  <1>6. Rate[c] \in Int
    BY <1>2, <1>4, RateAssumption
  <1> QED
    BY <1>2, <1>3, <1>4, <1>5, <1>6 DEF Times

\* Any year can be taken off: it does not matter in which order years come.
LEMMA FactorRemove ==
  ASSUME NEW S \in SUBSET Rated, NEW c \in S
  PROVE  Factor(S) = Times(c, Factor(S \ {c}))
  <1> DEFINE Bad(s) == \E y \in s : Factor(s) # Times(y, Factor(s \ {y}))
             T == {s \in SUBSET Rated : Bad(s)}
  <1> SUFFICES ASSUME T # {} PROVE FALSE
    OBVIOUS
  <1>1. PICK s \in T : \A r \in T : r \subseteq s => r = s
    <2>1. T \in SUBSET SUBSET Rated
      OBVIOUS
    <2> HIDE DEF T
    <2>2. HasLeast(T)
      BY <2>1, RateAssumption, MinimalSet
    <2> QED
      BY <2>2 DEF HasLeast
  <1>2. s \in SUBSET Rated
    OBVIOUS
  <1>3. PICK y \in s : Factor(s) # Times(y, Factor(s \ {y}))
    OBVIOUS
  <1> DEFINE d == AnyOf(s)
             R == (s \ {y}) \ {d}
  <1>4. d \in s /\ Factor(s) = Times(d, Factor(s \ {d}))
    BY <1>2, <1>3, AnyOfType, FactorTakesOff
  <1> HIDE DEF d
  <1>5. y # d
    BY <1>3, <1>4
  <1>6. ~Bad(s \ {y}) /\ ~Bad(s \ {d})
    <2>1. s \ {y} \notin T /\ s \ {d} \notin T
      BY <1>1, <1>3, <1>4
    <2> HIDE DEF Bad
    <2> QED
      BY <1>2, <2>1
  <1>7. Factor(s \ {y}) = Times(d, Factor(R)) /\ Factor(s \ {d}) = Times(y, Factor(R))
    <2>1. d \in s \ {y} /\ y \in s \ {d} /\ (s \ {d}) \ {y} = R
      BY <1>3, <1>4, <1>5
    <2> QED
      BY <1>6, <2>1
  <1>8. Factor(R) \in Int /\ Rate[y] \in Int /\ Rate[d] \in Int
    BY <1>2, <1>3, <1>4, FactorType, RateAssumption
  <1>9. \A f, p, q \in Int : (f * (100 + p)) * (100 + q) = (f * (100 + q)) * (100 + p)
    OBVIOUS
  <1> HIDE DEF R
  <1>10. Times(d, Times(y, Factor(R))) = Times(y, Times(d, Factor(R)))
    BY <1>8, <1>9 DEF Times
  <1> QED
    BY <1>3, <1>4, <1>7, <1>10

\* The inflation of some of the years and that of the others make up that of all.
LEMMA FactorSplits ==
  ASSUME NEW A \in SUBSET Rated
  PROVE  Factor(A) * Factor(Rated \ A) = Factor(Rated)
  <1> DEFINE Ok(s) == Factor(A \cap s) * Factor(s \ A) = Factor(s)
             T == {s \in SUBSET Rated : ~Ok(s)}
  <1> SUFFICES ASSUME T # {} PROVE FALSE
    <2>1. A \cap Rated = A
      OBVIOUS
    <2> QED
      BY <2>1
  <1>1. PICK s \in T : \A r \in T : r \subseteq s => r = s
    <2>1. T \in SUBSET SUBSET Rated
      OBVIOUS
    <2> HIDE DEF T
    <2>2. HasLeast(T)
      BY <2>1, RateAssumption, MinimalSet
    <2> QED
      BY <2>2 DEF HasLeast
  <1>2. s \in SUBSET Rated /\ ~Ok(s)
    OBVIOUS
  <1>3. s # {}
    <2>1. A \cap {} = {} /\ {} \ A = {}
      OBVIOUS
    <2>2. Factor({}) = 1
      BY FactorTakesOff
    <2> QED
      BY <1>2, <2>1, <2>2
  <1>4. PICK c : c \in s
    BY <1>3
  <1> DEFINE r == s \ {c}
             x == Factor(A \cap r)
             y == Factor(r \ A)
  <1>5. x * y = Factor(r)
    BY <1>1, <1>2, <1>4
  <1>6. Factor(s) = Times(c, Factor(r))
    BY <1>2, <1>4, FactorRemove
  <1>7. x \in Int /\ y \in Int /\ Rate[c] \in Int
    BY <1>2, <1>4, FactorType, RateAssumption
  <1>8. \A f, g, p \in Int : /\ (f * (100 + p)) * g = (f * g) * (100 + p)
                             /\ f * (g * (100 + p)) = (f * g) * (100 + p)
    OBVIOUS
  <1>9. CASE c \in A
    <2>1. s \ A = r \ A /\ (A \cap s) \ {c} = A \cap r /\ c \in A \cap s
      BY <1>4, <1>9
    <2>2. Factor(A \cap s) = Times(c, x) /\ Factor(s \ A) = y
      BY <1>2, <2>1, FactorRemove
    <2> HIDE DEF x, y, r
    <2> QED
      BY <1>2, <1>5, <1>6, <1>7, <1>8, <2>2 DEF Times
  <1>10. CASE c \notin A
    <2>1. A \cap s = A \cap r /\ (s \ A) \ {c} = r \ A /\ c \in s \ A
      BY <1>4, <1>10
    <2>2. Factor(A \cap s) = x /\ Factor(s \ A) = Times(c, y)
      BY <1>2, <2>1, FactorRemove
    <2> HIDE DEF x, y, r
    <2> QED
      BY <1>2, <1>5, <1>6, <1>7, <1>8, <2>2 DEF Times
  <1> QED
    BY <1>9, <1>10

-----------------------------------------------------------------------------
(* The inflation shown.                                                    *)

\* The answer to a request for the inflation since year y.
IpcOf(y) == [from |-> y, factor |-> Accumulated(y)]

\* The request the page waits for is about the first record shown; when it
\* waits for none, and the last one did not fail, the answer is shown.
IpcInv ==
  Loaded =>
    /\ \A f \in fetches : f.live => \A r \in Earliest(hist) : f.from = Year[r]
    /\ (\A f \in fetches : ~f.live) /\ ~ipcFailed =>
         \A r \in Earliest(hist) : ipc = IpcOf(Year[r])

\* Records have a first one.
LEMMA EarliestExists ==
  ASSUME NEW h \in SUBSET Record, h # {}
  PROVE  Earliest(h) # {}
  <1> DEFINE Until(r) == {s \in h : Year[s] <= Year[r]}
             T == {Until(r) : r \in h}
  <1>1. PICK A \in T : \A B \in T : B \subseteq A => B = A
    <2>1. T \in SUBSET SUBSET Record
      OBVIOUS
    <2>2. T # {}
      <3>1. PICK r : r \in h
        OBVIOUS
      <3>2. Until(r) \in T
        BY <3>1
      <3> QED
        BY <3>2
    <2> HIDE DEF T
    <2>3. HasLeast(T)
      BY <2>1, <2>2, RecordAssumption, MinimalSet
    <2> QED
      BY <2>3 DEF HasLeast
  <1>2. PICK r \in h : A = Until(r)
    OBVIOUS
  <1>3. \A s \in h : Year[s] \in Int
    BY YearAssumption
  <1>4. ASSUME NEW s \in h, ~(Year[r] <= Year[s]) PROVE FALSE
    <2>1. Until(s) \in T
      OBVIOUS
    <2>2. Year[s] < Year[r]
      BY <1>3, <1>4
    <2>3. r \in Until(r) /\ r \notin Until(s)
      BY <1>3, <2>2
    <2>4. \A q \in h : Year[q] <= Year[s] => Year[q] <= Year[r]
      BY <1>3, <2>2
    <2> HIDE DEF T
    <2> QED
      BY <1>1, <1>2, <2>1, <2>3, <2>4
  <1> QED
    BY <1>4 DEF Earliest

LEMMA SameYear ==
  ASSUME NEW h \in SUBSET Record, NEW r \in Earliest(h), NEW s \in Earliest(h)
  PROVE  Year[r] = Year[s]
  BY YearAssumption DEF Earliest

\* A page whose records change asks for the inflation since the new first one.
LEMMA EffectInv ==
  ASSUME fetches \subseteq Fetch, NEW h \in SUBSET Record, IpcEffect(h), hist' = h
  PROVE  IpcInv'
  <1>1. \A f \in GivenUp(fetches) : ~f.live
    BY DEF GivenUp, Fetch
  <1>2. ASSUME NEW f \in fetches', f.live, NEW r \in Earliest(h)
        PROVE  f.from = Year[r]
    <2>1. PICK s \in Earliest(h) : f = [from |-> Year[s], live |-> TRUE]
      BY <1>1, <1>2 DEF IpcEffect
    <2> QED
      BY <2>1, SameYear
  <1>3. ASSUME NEW r \in Earliest(h)
        PROVE  \E f \in fetches' : f.live
    <2> DEFINE f == [from |-> Year[r], live |-> TRUE]
    <2>1. f \in fetches' /\ f.live
      BY DEF IpcEffect
    <2> QED
      BY <2>1
  <1>4. Earliest(hist)' = Earliest(h)
    BY DEF Earliest
  <1> QED
    BY <1>2, <1>3, <1>4 DEF IpcInv

LEMMA IpcFrame ==
  ASSUME IpcInv, UNCHANGED <<detail, hist, ipcVars>>
  PROVE  IpcInv'
  BY DEF IpcInv, Loaded, ipcVars, Earliest, IpcOf, Accumulated

\* A page that is not loaded has nothing to show.
LEMMA NotLoaded == detail' # "loaded" => IpcInv'
  BY DEF IpcInv, Loaded

\* Answers to requests that were given up are of no effect.
LEMMA AnswerInv ==
  ASSUME PageInv, IpcInv, NEW f \in fetches, IpcAnswers(f) \/ IpcFails(f)
  PROVE  IpcInv'
  <1>1. fetches' = fetches \ {f} /\ UNCHANGED <<detail, hist>>
    BY DEF IpcAnswers, IpcFails
  <1>2. /\ Loaded' = Loaded /\ Earliest(hist)' = Earliest(hist)
        /\ \A y : IpcOf(y)' = IpcOf(y)
    BY <1>1 DEF Loaded, Earliest, IpcOf, Accumulated
  <1> SUFFICES ASSUME Loaded PROVE IpcInv'
    BY <1>2 DEF IpcInv
  <1>3. \A g \in fetches' : g.live => \A r \in Earliest(hist) : g.from = Year[r]
    BY <1>1 DEF IpcInv
  <1>4. ASSUME \A g \in fetches' : ~g.live, ~ipcFailed', NEW r \in Earliest(hist)
        PROVE  ipc' = IpcOf(Year[r])
    <2>1. CASE f.live
      <3>1. IpcAnswers(f)
        BY <1>4, <2>1 DEF IpcFails
      <3>2. f.from = Year[r]
        BY <2>1 DEF IpcInv
      <3> QED
        BY <2>1, <3>1, <3>2 DEF IpcAnswers, IpcOf
    <2>2. CASE ~f.live
      <3>1. ipc' = ipc /\ ~ipcFailed
        BY <1>4, <2>2 DEF IpcAnswers, IpcFails
      <3>2. \A g \in fetches : ~g.live
        BY <1>1, <1>4, <2>2
      <3> QED
        BY <1>4, <3>1, <3>2 DEF IpcInv
    <2> QED
      BY <2>1, <2>2
  <1> QED
    BY <1>2, <1>3, <1>4 DEF IpcInv

\* Every step of the page keeps IpcInv.
LEMMA IpcPageStep == PageInv /\ IpcInv /\ PageNext => IpcInv'
  <1> SUFFICES ASSUME PageInv, IpcInv, PageNext PROVE IpcInv'
    OBVIOUS
  <1>1. CASE DetailHeaders \/ DetailThrows \/ DetailFails
    BY <1>1, NotLoaded DEF DetailHeaders, DetailThrows, DetailFails
  <1>2. CASE DetailArrives
    BY <1>2, EffectInv DEF DetailArrives, PageInv, PageTypeOK
  <1>3. CASE DeleteOk
    BY <1>3, EffectInv DEF DeleteOk, PageInv, PageTypeOK
  <1>4. ASSUME NEW f \in fetches, IpcAnswers(f) \/ IpcFails(f) PROVE IpcInv'
    BY <1>4, AnswerInv
  <1>5. CASE \/ \E r \in Record : AskDelete(r) \/ OtherDeletes(r)
             \/ \E o \in deletes : Deletes(o) \/ DeletesNot(o)
             \/ DeleteError
    BY <1>5, IpcFrame DEF AskDelete, OtherDeletes, Deletes, DeletesNot, DeleteError
  <1>6. CASE \/ \E u \in Input : AskSave(u)
             \/ \E o \in saves : Saves(o) \/ SavesNot(o)
             \/ SaveOk \/ SaveError
             \/ \E u \in Url : OtherSaves(u)
    BY <1>6, IpcFrame DEF AskSave, Saves, SavesNot, SaveOk, SaveError, OtherSaves
  <1> QED
    BY <1>1, <1>2, <1>3, <1>4, <1>5, <1>6 DEF PageNext

\* Every step of the application keeps IpcInv.
LEMMA IpcStep == PagesInv /\ IpcInv /\ [Next]_vars => IpcInv'
  <1> SUFFICES ASSUME PagesInv, IpcInv, [Next]_vars PROVE IpcInv'
    OBVIOUS
  <1>1. CASE InPage(PageNext)
    BY <1>1, IpcPageStep DEF InPage, PagesInv
  <1>2. CASE UNCHANGED pageVars
    BY <1>2, IpcFrame DEF pageVars
  <1>3. ASSUME NEW t, NEW o, Show(t, o) PROVE IpcInv'
    BY <1>3, NotLoaded DEF Show, PageOn, PageOff, Fresh
  <1>4. CASE InBox(BoxNext)
    BY <1>2, <1>4 DEF InBox
  <1>5. CASE \E c \in Panel : PanelHeaders(c) \/ PanelArrives(c) \/ PanelFails(c)
    BY <1>2, <1>5 DEF PanelHeaders, PanelArrives, PanelFails, PanelGoes
  <1>6. CASE Retry
    BY <1>2, <1>6 DEF Retry, PanelGoes
  <1>7. CASE \/ Logo \/ Select \/ Back \/ Reload
             \/ \E t \in {"products", "analytics"} : Switch(t)
    BY <1>3, <1>7 DEF Logo, Select, Back, Reload, Switch
  <1> QED
    BY <1>1, <1>2, <1>4, <1>5, <1>6, <1>7 DEF Next, vars

\* The inflation of the answer, and that of the years before, make up that of
\* all years.
LEMMA ShownMakesUpAll == PagesInv /\ IpcInv => IpcSinceFirst
  <1> SUFFICES ASSUME PagesInv, IpcInv,
                      Loaded, hist # {}, \A f \in fetches : ~f.live, ~ipcFailed
               PROVE  /\ ipc # None
                      /\ \A r \in Earliest(hist) :
                           /\ ipc.from = Year[r]
                           /\ ipc.factor * Factor({y \in Rated : y < Year[r]})
                                = Factor(Rated)
    BY DEF IpcSinceFirst
  <1>1. hist \subseteq Record
    BY DEF PagesInv, PageInv, PageTypeOK
  <1>2. ASSUME NEW r \in Earliest(hist)
        PROVE  /\ ipc # None /\ ipc.from = Year[r]
               /\ ipc.factor * Factor({y \in Rated : y < Year[r]}) = Factor(Rated)
    <2> DEFINE since == {y \in Rated : y >= Year[r]}
    <2>1. ipc = [from |-> Year[r], factor |-> Factor(since)]
      BY <1>2 DEF IpcInv, IpcOf, Accumulated
    <2>2. Year[r] \in Int /\ \A y \in Rated : y \in Int
      BY <1>1, YearAssumption, RateAssumption DEF Earliest
    <2>3. Factor(since) \in Int
      BY FactorType
    <2>4. ipc # None
      BY <2>1, <2>2, <2>3, NoneAssumption
    <2>5. {y \in Rated : y < Year[r]} = Rated \ since
      BY <2>2
    <2>6. Factor(since) * Factor(Rated \ since) = Factor(Rated)
      BY FactorSplits
    <2> HIDE DEF since
    <2> QED
      BY <2>1, <2>4, <2>5, <2>6
  <1>3. Earliest(hist) # {}
    BY <1>1, EarliestExists
  <1> QED
    BY <1>2, <1>3

\* The inflation shown is that since the first record shown, whatever answers
\* are overtaken by deletions; for any years, rates and records.
THEOREM IpcSinceFirstHolds == Spec => []IpcSinceFirst
  <1>1. Init => PagesInv /\ IpcInv
    BY InitInv DEF Init, PageInit, IpcInv, Loaded
  <1>2. (PagesInv /\ IpcInv) /\ [Next]_vars => (PagesInv /\ IpcInv)'
    BY StepInv, IpcStep
  <1> QED
    BY <1>1, <1>2, ShownMakesUpAll, PTL DEF Spec
=============================================================================
