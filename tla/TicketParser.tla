---------------------------- MODULE TicketParser ----------------------------
(***************************************************************************)
(* MercadonaParser: from the text of a receipt to its ticket lines.        *)
(*                                                                         *)
(* The receipt is printed item by item and read line by line.  What a line *)
(* says is named by the item it was printed for, so a recorded name or     *)
(* price tells where it comes from.  Between printing and reading a line   *)
(* may be lost, or one the parser does not know may appear: page breaks,   *)
(* section headings, cells the PDF library drops.                          *)
(***************************************************************************)
EXTENDS Integers, Sequences

CONSTANTS
  Layout,     \* layouts of receipts: a subset of {"cells", "rows"}
  MaxItems,   \* bound: products on a receipt
  MaxDamage   \* bound: lines lost or inserted

ASSUME LayoutAssumption == Layout \subseteq {"cells", "rows"}
ASSUME BoundAssumption == MaxItems \in Nat /\ MaxDamage \in Nat

VARIABLES
  layout,  \* whether each cell of the table is a line of its own
  kinds,   \* the items printed so far, as their kinds
  text,    \* the lines printed and not read
  state,   \* the state of the parser
  name,    \* pendingName, pendingWeightProduct: the item, 0 for other texts
  qty,     \* pendingQty: "0", "1", or more ("n")
  lines,   \* t.Lines
  damage,  \* lines lost or inserted so far
  damaged, \* history: items harmed by that
  broken   \* history: items whose price-per-kg line was lost

parserVars == <<layout, kinds, text, state, name, qty, lines, damage, damaged, broken>>

Kind == {"one", "many", "weight"}

Line(is, i) == [is |-> is, of |-> i]

\* What is printed for item i of kind k.
Printed(k, i) ==
  IF layout = "cells"
  THEN CASE k = "one"    -> <<Line("1", i), Line("name", i), Line("unit", i)>>
         [] k = "many"   -> <<Line("n", i), Line("name", i), Line("unit", i),
                              Line("total", i)>>
         [] k = "weight" -> <<Line("1", i), Line("name", i), Line("kg", i),
                              Line("ppk", i), Line("total", i)>>
  ELSE CASE k = "one"    -> <<Line("row_1", i)>>
         [] k = "many"   -> <<Line("row_n", i)>>
         [] k = "weight" -> <<Line("row_name", i), Line("row_kg", i)>>


\* The lines above the items: the date, and the titles of the columns.
Above(l) ==
  <<Line("date", 0)>> \o
  (IF l = "cells"
   THEN <<Line("Descripcio", 0), Line("P_Unit", 0), Line("Import", 0)>>
   ELSE <<Line("titles", 0)>>)

\* A ticket line: the item its name was printed for, its price (a unit price
\* or total, and the item it was printed for), and its quantity.
Record(n, p, q) == [name |-> n, price |-> p, qty |-> q]

\* What the ticket should hold of item i.  For weight products the amount
\* paid is the price (TicketLine.UnitPrice).
Expected(i) ==
  CASE kinds[i] = "one"    -> Record(i, <<"unit", i>>, "1")
    [] kinds[i] = "many"   -> Record(i, <<"unit", i>>, "n")
    [] kinds[i] = "weight" -> Record(i, <<"total", i>>, "1")

State == {"header", "error", "outOfBody", "inBody", "sIdle", "sQty", "sNameLine",
          "sPrice", "sWeightPPK", "sWeightTotal", "sUnitMultiTotal", "end"}

\* What a line says; "P_Unit" is the title P. Unit of a column.
Word == {"date", "Descripcio", "P_Unit", "Import", "titles", "1", "n", "name",
         "unit", "total", "kg", "ppk", "row_1", "row_n", "row_name", "row_kg",
         "other", "blank", "TOTAL"}

ParserTypeOK ==
  /\ layout \in Layout
  /\ kinds \in Seq(Kind) /\ Len(kinds) <= MaxItems
  /\ text \in Seq([is : Word, of : 0..MaxItems])
  /\ state \in State
  /\ name \in 0..MaxItems
  /\ qty \in {"0", "1", "n"}
  /\ lines \in Seq([name : 0..MaxItems, price : {"unit", "total"} \X (1..MaxItems),
                    qty : {"1", "n"}])
  /\ damage \in 0..MaxDamage
  /\ damaged \subseteq 0..MaxItems
  /\ broken \subseteq damaged

ParserInit ==
  /\ layout \in Layout
  /\ kinds = <<>>
  /\ text = Above(layout)
  /\ state = "header"
  /\ name = 0
  /\ qty = "0"
  /\ lines = <<>>
  /\ damage = 0
  /\ damaged = {}
  /\ broken = {}

-----------------------------------------------------------------------------
\* The printer, and what happens to its lines on the way.

printer == <<layout, kinds, text, damage, damaged, broken>>
parser  == <<state, name, qty, lines>>

\* The next item, or the line with the sum, is printed when everything before
\* it has been read; what is read depends on nothing that follows.
PrintItem(k) ==
  /\ text = <<>> /\ state # "end" /\ Len(kinds) < MaxItems
  /\ kinds' = Append(kinds, k)
  /\ text' = Printed(k, Len(kinds) + 1)
  /\ UNCHANGED <<layout, damage, damaged, broken, parser>>

PrintTotal ==
  /\ text = <<>> /\ state # "end"
  /\ text' = <<Line("TOTAL", 0)>>
  /\ UNCHANGED <<layout, kinds, damage, damaged, broken, parser>>

\* The date or a line of an item is not in the extracted text.
Lose(k) ==
  /\ damage < MaxDamage
  /\ text[k].of > 0 \/ text[k].is = "date"
  /\ text' = [j \in 1..(Len(text) - 1) |-> IF j < k THEN text[j] ELSE text[j + 1]]
  /\ damage' = damage + 1
  /\ damaged' = damaged \cup {Len(kinds)}
  /\ broken' = IF text[k].is = "ppk" THEN broken \cup {Len(kinds)} ELSE broken
  /\ UNCHANGED <<layout, kinds, parser>>

First(l) == l.is \in {"1", "n", "row_1", "row_n", "row_name"}

\* Line k and those after it are what is left of an item.
Splits(k) == \A j \in k..Len(text) : ~First(text[j])

\* A line that belongs to no item precedes line k: text, which harms the item
\* it splits; a number, which may also be taken for the next quantity; or a
\* blank line, which harms nothing.
Insert(k, w) ==
  /\ damage < MaxDamage
  /\ text' = SubSeq(text, 1, k - 1) \o <<Line(w, 0)>> \o SubSeq(text, k, Len(text))
  /\ damage' = damage + 1
  /\ damaged' = IF w = "n" \/ (w = "other" /\ Splits(k))
                THEN damaged \cup {Len(kinds)} ELSE damaged
  /\ UNCHANGED <<layout, kinds, broken, parser>>

-----------------------------------------------------------------------------
\* The parser.  Each action reads the line l = Head(text), which is not blank.

Reading(s, l) ==
  /\ state = s
  /\ text # <<>> /\ l = Head(text) /\ l.is \notin {"blank", "TOTAL"}
  /\ text' = Tail(text)
  /\ UNCHANGED <<layout, kinds, damage, damaged, broken>>

\* rePrice
IsPrice(l) == l.is \in {"unit", "total"}

\* reQty
IsQty(l) == l.is \in {"1", "n"}

Emit(n, l, q) == lines' = Append(lines, Record(n, <<l.is, l.of>>, q))

\* Parse: without a date the receipt is refused; the titles on one line
\* select the body parser.
ReadHeader ==
  /\ state = "header"
  /\ state' = IF \A k \in DOMAIN text : text[k].is # "date" THEN "error"
              ELSE IF \E k \in DOMAIN text : text[k].is = "titles"
              THEN "outOfBody" ELSE "sIdle"
  /\ UNCHANGED <<printer, name, qty, lines>>

\* Both body parsers skip blank lines and stop at the sum.
SkipBlank ==
  /\ state \notin {"header", "error", "end"}
  /\ text # <<>> /\ Head(text).is = "blank"
  /\ text' = Tail(text)
  /\ UNCHANGED <<layout, kinds, damage, damaged, broken, parser>>

ReadTotal ==
  /\ state \notin {"header", "error", "end"}
  /\ text # <<>> /\ Head(text).is = "TOTAL"
  /\ text' = Tail(text)
  /\ state' = "end"
  /\ UNCHANGED <<layout, kinds, damage, damaged, broken, name, qty, lines>>

\* parseMultiLineBody, one action for each of its states.
Idle(l) ==
  /\ Reading("sIdle", l)
  /\ state' = IF l.is = "Descripcio" THEN "sQty" ELSE "sIdle"
  /\ UNCHANGED <<name, qty, lines>>

Qty(l) ==
  /\ Reading("sQty", l)
  /\ IF IsQty(l) THEN qty' = l.is /\ state' = "sNameLine"
                 ELSE UNCHANGED <<qty, state>>
  /\ UNCHANGED <<name, lines>>

NameLine(l) ==
  /\ Reading("sNameLine", l)
  /\ IF l.is \in {"P_Unit", "Import"} THEN UNCHANGED <<state, name, qty>>
     ELSE IF IsPrice(l) \/ IsQty(l)
     THEN state' = "sQty" /\ qty' = "0" /\ UNCHANGED name
     ELSE state' = "sPrice" /\ name' = (IF l.is = "name" THEN l.of ELSE 0)
          /\ UNCHANGED qty
  /\ UNCHANGED lines

\* Mutant of Price: an unexpected line is passed over instead of resetting.
PriceNoReset(l) ==
  /\ Reading("sPrice", l)
  /\ \/ /\ l.is = "kg" /\ state' = "sWeightPPK" /\ UNCHANGED lines
     \/ /\ IsPrice(l)
        /\ Emit(name, l, qty)
        /\ state' = IF qty = "1" THEN "sQty" ELSE "sUnitMultiTotal"
     \/ /\ l.is # "kg" /\ ~IsPrice(l)
        /\ UNCHANGED <<state, lines>>
  /\ UNCHANGED <<name, qty>>

Price(l) ==
  /\ Reading("sPrice", l)
  /\ \/ /\ l.is = "kg" /\ state' = "sWeightPPK" /\ UNCHANGED lines
     \/ /\ IsPrice(l)
        /\ Emit(name, l, qty)
        /\ state' = IF qty = "1" THEN "sQty" ELSE "sUnitMultiTotal"
     \/ /\ l.is # "kg" /\ ~IsPrice(l)
        /\ state' = "sQty" /\ UNCHANGED lines
  /\ UNCHANGED <<name, qty>>

\* Mutant of WeightPPK: the price per kg is recorded.
WeightPPKEmits(l) ==
  /\ Reading("sWeightPPK", l)
  /\ IF l.is = "ppk" THEN Emit(name, l, "1") /\ state' = "sWeightTotal"
                     ELSE UNCHANGED <<state, lines>>
  /\ UNCHANGED <<name, qty>>

WeightPPK(l) ==
  /\ Reading("sWeightPPK", l)
  /\ state' = IF l.is = "ppk" THEN "sWeightTotal" ELSE "sWeightPPK"
  /\ UNCHANGED <<name, qty, lines>>

WeightTotal(l) ==
  /\ Reading("sWeightTotal", l)
  /\ IF IsPrice(l) THEN Emit(name, l, "1") ELSE UNCHANGED lines
  /\ state' = "sQty"
  /\ UNCHANGED <<name, qty>>

UnitMultiTotal(l) ==
  /\ Reading("sUnitMultiTotal", l)
  /\ state' = "sQty"
  /\ UNCHANGED <<name, qty, lines>>

\* parseSingleLineBody: name is the pendingWeightProduct, 0 if there is none.
OutOfBody(l) ==
  /\ Reading("outOfBody", l)
  /\ state' = IF l.is = "titles" THEN "inBody" ELSE "outOfBody"
  /\ UNCHANGED <<name, qty, lines>>

\* Mutant of InBody: a pending weight product waits for its second line.
InBodyWaits(l) ==
  /\ Reading("inBody", l)
  /\ CASE l.is = "row_kg" /\ name # 0 ->
            Emit(name, [l EXCEPT !.is = "total"], "1") /\ name' = 0
       [] l.is # "row_kg" /\ name # 0 -> UNCHANGED <<name, lines>>
       [] l.is \in {"row_1", "row_n"} /\ name = 0 ->
            /\ Emit(l.of, [l EXCEPT !.is = "unit"], IF l.is = "row_1" THEN "1" ELSE "n")
            /\ UNCHANGED name
       [] l.is = "row_name" /\ name = 0 -> name' = l.of /\ UNCHANGED lines
       [] OTHER -> UNCHANGED <<name, lines>>
  /\ UNCHANGED <<state, qty>>

InBody(l) ==
  /\ Reading("inBody", l)
  /\ CASE l.is = "row_kg" /\ name # 0 ->
            Emit(name, [l EXCEPT !.is = "total"], "1") /\ name' = 0
       [] l.is \in {"row_1", "row_n"} ->
            /\ Emit(l.of, [l EXCEPT !.is = "unit"], IF l.is = "row_1" THEN "1" ELSE "n")
            /\ name' = 0
       [] l.is = "row_name" -> name' = l.of /\ UNCHANGED lines
       [] OTHER -> name' = 0 /\ UNCHANGED lines
  /\ UNCHANGED <<state, qty>>

-----------------------------------------------------------------------------
Damage ==
  \E k \in DOMAIN text : Lose(k) \/ \E w \in {"other", "n", "blank"} : Insert(k, w)

ReadCells ==
  \E l \in {text[k] : k \in DOMAIN text} :
    \/ Idle(l) \/ Qty(l) \/ NameLine(l) \/ Price(l)
    \/ WeightPPK(l) \/ WeightTotal(l) \/ UnitMultiTotal(l)

ReadRows ==
  \E l \in {text[k] : k \in DOMAIN text} : OutOfBody(l) \/ InBody(l)

ParserNext ==
  \/ \E k \in Kind : PrintItem(k)
  \/ PrintTotal
  \/ Damage
  \/ ReadHeader \/ SkipBlank \/ ReadTotal
  \/ ReadCells
  \/ ReadRows

ParserSpec == ParserInit /\ [][ParserNext]_parserVars

-----------------------------------------------------------------------------
\* Item i, or the one before it, was harmed; or the price-per-kg line of an
\* item before it was lost and no weight product has come between: the parser
\* is still waiting for that line.
Affected(i) ==
  \/ {i, i - 1} \cap damaged # {}
  \/ \E b \in broken : b < i /\ \A j \in (b + 1)..(i - 1) : kinds[j] # "weight"

\* A line that is lost or not known costs the item it belongs to and at most
\* the one that follows; every other item is recorded once, as it was printed.
\* A lost price per kg is the exception: it costs the items up to the next
\* weight product.
LossIsLocal ==
  text = <<>> /\ state # "error" =>
    \A i \in DOMAIN kinds :
      ~Affected(i) =>
        \E j \in DOMAIN lines :
          /\ lines[j] = Expected(i)
          /\ \A k \in DOMAIN lines : lines[k].price[2] = i => k = j

\* Whatever is done to one item, no price is recorded under the name of
\* another.  (Damage to two items, or a lost price per kg, can do that.)
PriceOfItsItem ==
  broken = {} /\ (\A i, j \in damaged : i = j) =>
    \A j \in DOMAIN lines : lines[j].name \in {0, lines[j].price[2]}
=============================================================================
