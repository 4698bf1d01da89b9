-------------------------------- MODULE Pages --------------------------------
(***************************************************************************)
(* The screens of the application (App.tsx): the search box with the       *)
(* catalogue below it (ProductBrowser.tsx), the analytics                  *)
(* (Analytics.tsx), and the page of a product.  Only one is there at a     *)
(* time; a component that is left forgets everything, and one that is      *)
(* shown begins anew.                                                      *)
(***************************************************************************)
EXTENDS SearchBox, ProductPage

VARIABLES
  tab,     \* activeTab
  open,    \* selectedProductId is set: the page of the product is shown
  panel    \* how far the catalogue and the analytics are loaded

vars == <<boxVars, pageVars, tab, open, panel>>

Panel == {"catalogue", "analytics"}

TypeOK ==
  /\ BoxTypeOK
  /\ PageTypeOK
  /\ tab \in {"products", "analytics"}
  /\ open \in BOOLEAN
  /\ panel \in [Panel -> {"off", "head", "body", "failed", "loaded"}]

BoxThere == tab = "products" /\ ~open

\* The catalogue is there while nothing is searched for and nothing found.
CatalogueThere == BoxThere /\ ~loading /\ ~searched
AnalyticsThere == tab = "analytics" /\ ~open

Init ==
  /\ BoxInit /\ PageInit
  /\ tab = "products" /\ open = FALSE
  /\ panel = [c \in Panel |-> IF c = "catalogue" THEN "head" ELSE "off"]

\* A panel that is left is off; one that appears is loaded.
PanelsFollow ==
  panel' = [c \in Panel |->
    IF (IF c = "catalogue" THEN CatalogueThere' ELSE AnalyticsThere')
    THEN IF panel[c] = "off" THEN "head" ELSE panel[c]
    ELSE "off"]

-----------------------------------------------------------------------------
(* Going from one screen to another. *)

\* The screen of tab t, with the page of a product over it or not: the box
\* begins anew with its tab, and the page with its product.
Show(t, o) ==
  /\ tab' = t /\ open' = o
  /\ IF t = "products" /\ ~o THEN Mounted ELSE Unmounted
  /\ IF o THEN PageOn ELSE PageOff
  /\ PanelsFollow

\* setActiveTab.
Switch(t) == ~open /\ t # tab /\ Show(t, FALSE)

\* handleLogoClick, where it changes the screen.
Logo == ~BoxThere /\ detail # "broken" /\ Show("products", FALSE)

\* onSelectProduct, from the results, the catalogue or the analytics.
Select ==
  /\ ~open
  /\ \/ BoxThere /\ ~loading /\ searched /\ shown.found
     \/ \E c \in Panel : panel[c] = "loaded"
  /\ Show(tab, TRUE)

\* handleBack.
Back == open /\ detail # "broken" /\ Show(tab, FALSE)

\* A screen that has broken down is there until it is loaded anew.
Reload == detail = "broken" /\ Show("products", FALSE)

-----------------------------------------------------------------------------
(* Loading the catalogue and the analytics. *)

PanelGoes(c, from, to) ==
  /\ panel[c] \in from
  /\ panel' = [panel EXCEPT ![c] = to]
  /\ UNCHANGED <<boxVars, pageVars, tab, open>>

PanelHeaders(c) == PanelGoes(c, {"head"}, "body")
PanelArrives(c) == PanelGoes(c, {"body"}, "loaded")
PanelFails(c)   == PanelGoes(c, {"head", "body"}, "failed")

\* "Reintentar".
Retry == PanelGoes("catalogue", {"failed"}, "head")

-----------------------------------------------------------------------------
InBox(A) ==
  /\ BoxThere
  /\ A
  /\ UNCHANGED <<pageVars, tab, open>>
  /\ PanelsFollow

InPage(A) == A /\ UNCHANGED <<boxVars, tab, open, panel>>

Next ==
  \/ InBox(BoxNext)
  \/ InPage(PageNext)
  \/ \E t \in {"products", "analytics"} : Switch(t)
  \/ Logo \/ Select \/ Back \/ Reload
  \/ \E c \in Panel : PanelHeaders(c) \/ PanelArrives(c) \/ PanelFails(c)
  \/ Retry

Spec == Init /\ [][Next]_vars

\* READ_TIMEOUT_MS has passed without headers.
PanelTimesOut(c) == panel[c] = "head" /\ PanelFails(c)
DetailTimesOut   == detail = "head" /\ DetailFails

\* Time passes, and requests without headers are aborted.
Fairness ==
  /\ WF_vars(InBox(Tick))
  /\ \A s \in Slot : WF_vars(InBox(TimesOut(s)))
  /\ \A c \in Panel : WF_vars(PanelTimesOut(c))
  /\ WF_vars(InPage(DetailTimesOut))

FairSpec == Spec /\ Fairness

-----------------------------------------------------------------------------
\* The body of an answer arrives, or fails: no timeout sees to it, since it
\* is cleared when the headers are there.
BodiesEnd ==
  /\ \A s \in Slot : []<>~(Busy(s) /\ flights[s].phase = "body")
  /\ \A c \in Panel : []<>(panel[c] # "body")
  /\ []<>(detail # "body")

\* No spinner stays for ever, of searches that fail, are aborted or
\* overtaken, or of screens that are left and shown again, while bodies end.
SpinnersEnd ==
  BodiesEnd =>
    /\ []<>~loading
    /\ \A c \in Panel : []<>(panel[c] # "head")
    /\ []<>(detail # "head")
=============================================================================
