----------------------------- MODULE SearchBox -----------------------------
(***************************************************************************)
(* The search box (components/SearchBar.tsx): a text that is searched for  *)
(* when it has not changed for 300 ms, and the searches under way, whose   *)
(* answers come in any order, fail, or are aborted after READ_TIMEOUT_MS.  *)
(*                                                                         *)
(* Time passes in ticks.  The age of a search is counted up to Debounce    *)
(* ticks: READ_TIMEOUT_MS, 15 s, is longer.                                *)
(***************************************************************************)
EXTENDS Naturals

CONSTANTS
  Query,     \* texts that are searched for
  Blank,     \* the empty text, and those of blanks
  Debounce,  \* ticks of the 300 ms
  Slot       \* bound: searches under way at a time

ASSUME QueryAssumption == Blank \notin Query
ASSUME DebounceAssumption == Debounce \in Nat \ {0}

VARIABLES
  query,     \* the text in the box
  timer,     \* the timer of the effect, with the text of its closure
  flights,   \* flights[s]: the search in slot s
  shown,     \* the results shown, and the search they are from
  searched,  \* the state variables of the same names
  loading

boxVars == <<query, timer, flights, shown, searched, loading>>

Text == Query \cup {Blank}
Age  == 0..Debounce

\* No timer runs; no search is in a slot.
NoTimer == [left |-> Debounce + 1]
Free    == [phase |-> "free"]

\* last: nothing was asked, or cleared, after it.  A search waits for the
\* headers of its answer, then for the body; found: there are products.
Timer  == [q : Text, left : Age]
Flight == [q : Query, age : Age, last : BOOLEAN, phase : {"head", "body"}]
Shown  == [q : Text, age : Age, last : BOOLEAN, found : BOOLEAN]

BoxTypeOK ==
  /\ query \in Text
  /\ timer \in Timer \cup {NoTimer}
  /\ flights \in [Slot -> Flight \cup {Free}]
  /\ shown \in Shown
  /\ searched \in BOOLEAN
  /\ loading \in BOOLEAN

Busy(s) == flights[s] # Free

Nothing == [q |-> Blank, age |-> 0, last |-> TRUE, found |-> FALSE]

\* A box that is mounted, and its effect; it shows nothing.
BoxBegins(t) ==
  /\ query' = Blank
  /\ timer' = t
  /\ flights' = [s \in Slot |-> Free]
  /\ shown' = Nothing
  /\ searched' = FALSE
  /\ loading' = FALSE

Mounted == BoxBegins([q |-> Blank, left |-> Debounce])

\* A box that is not there: its timer is cleared, and what its searches
\* answer goes nowhere.
Unmounted == BoxBegins(NoTimer)

BoxInit ==
  /\ query = Blank
  /\ timer = [q |-> Blank, left |-> Debounce]
  /\ flights = [s \in Slot |-> Free]
  /\ shown = Nothing
  /\ searched = FALSE
  /\ loading = FALSE

-----------------------------------------------------------------------------
\* Mutant of Type: a timer that runs is not cleared.
TypeOverTimer(q) ==
  /\ q # query
  /\ query' = q
  /\ timer' = IF timer = NoTimer THEN [q |-> q, left |-> Debounce] ELSE timer
  /\ UNCHANGED <<flights, shown, searched, loading>>

\* The effect of the change clears the timer and sets another one.
Type(q) ==
  /\ q # query
  /\ query' = q
  /\ timer' = [q |-> q, left |-> Debounce]
  /\ UNCHANGED <<flights, shown, searched, loading>>

Older(f) == IF f = Free THEN Free ELSE [f EXCEPT !.age = IF @ < Debounce THEN @ + 1 ELSE @]

Tick ==
  /\ \/ timer # NoTimer /\ timer.left > 0
     \/ \E s \in Slot : Busy(s) /\ flights[s].age < Debounce
  /\ timer' = IF timer = NoTimer \/ timer.left = 0
              THEN timer ELSE [timer EXCEPT !.left = @ - 1]
  /\ flights' = [s \in Slot |-> Older(flights[s])]
  /\ UNCHANGED <<query, shown, searched, loading>>

Overtaken(f) == IF f = Free THEN Free ELSE [f EXCEPT !.last = FALSE]

\* The timer fires, maybe late: doSearch with a blank text clears the results
\* and leaves searches under way alone.
Clear ==
  /\ timer # NoTimer /\ timer.left = 0 /\ timer.q = Blank
  /\ timer' = NoTimer
  /\ shown' = Nothing
  /\ searched' = FALSE
  /\ flights' = [s \in Slot |-> Overtaken(flights[s])]
  /\ UNCHANGED <<query, loading>>

\* It fires with another text, which is searched for.
Search(s) ==
  /\ timer # NoTimer /\ timer.left = 0 /\ timer.q # Blank
  /\ ~Busy(s)
  /\ timer' = NoTimer
  /\ flights' = [t \in Slot |->
       IF t = s THEN [q |-> timer.q, age |-> 0, last |-> TRUE, phase |-> "head"]
       ELSE Overtaken(flights[t])]
  /\ shown' = [shown EXCEPT !.last = FALSE]
  /\ loading' = TRUE
  /\ UNCHANGED <<query, searched>>

\* fetch resolves; the timeout is cleared before the body is read.
Headers(s) ==
  /\ Busy(s) /\ flights[s].phase = "head"
  /\ flights' = [flights EXCEPT ![s].phase = "body"]
  /\ UNCHANGED <<query, timer, shown, searched, loading>>

\* What is shown is from the search in slot s, whatever was asked since.
Settle(s, found) ==
  /\ shown' = [q |-> flights[s].q, age |-> flights[s].age,
               last |-> flights[s].last, found |-> found]
  /\ flights' = [flights EXCEPT ![s] = Free]

\* Mutant of Answer: loading is not reset.
AnswerLoading(s) ==
  /\ Busy(s) /\ flights[s].phase = "body"
  /\ \E found \in BOOLEAN : Settle(s, found)
  /\ searched' = TRUE
  /\ UNCHANGED <<query, timer, loading>>

Answer(s) ==
  /\ Busy(s) /\ flights[s].phase = "body"
  /\ \E found \in BOOLEAN : Settle(s, found)
  /\ searched' = TRUE
  /\ loading' = FALSE
  /\ UNCHANGED <<query, timer>>

\* An error: results are emptied, searched stays as it is.
Fails(s) ==
  /\ Busy(s)
  /\ Settle(s, FALSE)
  /\ loading' = FALSE
  /\ UNCHANGED <<query, timer, searched>>

\* READ_TIMEOUT_MS has passed without headers.
TimesOut(s) ==
  /\ Busy(s) /\ flights[s].phase = "head" /\ flights[s].age = Debounce
  /\ Fails(s)

BoxNext ==
  \/ \E q \in Text : Type(q)
  \/ Tick
  \/ Clear
  \/ \E s \in Slot : Search(s) \/ Headers(s) \/ Answer(s) \/ Fails(s)

-----------------------------------------------------------------------------
AtRest == timer = NoTimer /\ \A s \in Slot : ~Busy(s)

\* When nothing is under way, what is shown, results or their absence, is for
\* the text in the box, unless the answer that brought it took 300 ms or
\* more: then it may be an earlier search's, since doSearch takes answers in
\* whatever order they come, even after the box was cleared.
RestShowsQuery ==
  AtRest => shown.q = query \/ shown.age = Debounce

\* Why: searches are asked at least 300 ms apart.
Spaced(s) ==
  LET f == flights[s]
  IN  Busy(s) =>
        /\ ~f.last => f.age = Debounce
        /\ f.last /\ timer # NoTimer => f.age + timer.left >= Debounce
        /\ f.last /\ timer = NoTimer => f.q = query
        /\ f.last => ~shown.last
        /\ \A t \in Slot : Busy(t) /\ f.last /\ flights[t].last => s = t

BoxInv ==
  /\ BoxTypeOK
  /\ timer # NoTimer => timer.q = query
  /\ \A s \in Slot : Spaced(s)
  /\ shown.last /\ timer = NoTimer => shown.q = query
  /\ \/ shown.last \/ shown.age = Debounce
     \/ \E s \in Slot : Busy(s) /\ flights[s].last
  /\ loading => \E s \in Slot : Busy(s)
=============================================================================
