----------------------------- MODULE MCSession -----------------------------
(* Instances of Session for TLC: tabs and browsers.                        *)
EXTENDS Session, TLC

CONSTANTS ana, p1, p2, b1, r1, r2, x

\* Two tabs of one browser.
OneBrowser == (p1 :> b1) @@ (p2 :> b1)

\* The tabs are alike, and so are the handlers.
Symmetry ==
  {f @@ g : f \in Permutations(Page), g \in Permutations(Req)}
=============================================================================
