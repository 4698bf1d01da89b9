----------------------------- MODULE Catalogue -----------------------------
(***************************************************************************)
(* The price history and what is read from it: SearchProducts,             *)
(* GetProductByID, the three queries of AnalyticsHandler, and              *)
(* DeletePriceRecord, each with the scope that householdUserIDs resolves   *)
(* in statements of its own.                                               *)
(*                                                                         *)
(* The queries are operators on S, the set of records in the scope.  Where *)
(* SQL leaves open which of several records it takes, they give the set of *)
(* results it may have.  Prices are in cents; a change is in hundredths of *)
(* a percent, and floating point decides where it is half way between two. *)
(* Products are numbered in the order of their names.                      *)
(***************************************************************************)
EXTENDS Integers, Sequences, FiniteSetsExt

CONSTANTS
  User,         \* users with a session
  Nobody,       \* the anonymous user (user_id IS NULL)
  Household,
  NoHousehold,  \* household_id IS NULL
  Product,      \* products a receipt may list
  Day,          \* dates of receipts
  Receipt,      \* what may be imported: [owner, day, lines]
  Request,      \* handlers that may run at a time
  Limit,        \* analyticsLimit
  MaxId         \* bound: rows ever inserted into price_records

ASSUME ProductAssumption == Product \subseteq Nat /\ Day \subseteq Nat
ASSUME NobodyAssumption == Nobody \notin User
ASSUME NoHouseholdAssumption == NoHousehold \notin Household
ASSUME BoundsAssumption == Limit \in Nat /\ MaxId \in Nat

Caller == User \cup {Nobody}

ASSUME ReceiptAssumption ==
  \A t \in Receipt :
    /\ t.owner \in Caller /\ t.day \in Day
    /\ t.lines \in Seq([product : Product, price : Nat])

Record == [id : 1..MaxId, product : Product, price : Nat, day : Day, owner : Caller]

-----------------------------------------------------------------------------
(* The queries. *)

Of(S, p) == {x \in S : x.product = p}

Bought(S) == {x.product : x \in S}

Earliest(S) == {x \in S : \A y \in S : x.day <= y.day}
Latest(S)   == {x \in S : \A y \in S : y.day <= x.day}

Prices(S) == {x.price : x \in S}

\* Mutant of CurrentPrices: LIMIT 1 without ORDER BY.
CurrentPricesOfAnyDay(S, p) == Prices(Of(S, p))

\* Which price ORDER BY date DESC LIMIT 1 gives.
CurrentPrices(S, p) == Prices(Latest(Of(S, p)))

SearchResults(S, p) ==
  {[product |-> p, current |-> c, min |-> Min(Prices(Of(S, p))),
    max |-> Max(Prices(Of(S, p))), last |-> Max({x.day : x \in Of(S, p)})]
   : c \in CurrentPrices(S, p)}

\* The histories ORDER BY date ASC may give.
Histories(S, p) ==
  {h \in [1..Cardinality(Of(S, p)) -> Of(S, p)] :
     /\ \A i, j \in DOMAIN h : i < j => h[i] # h[j] /\ h[i].day <= h[j].day}

\* currentPrice of a product with that history.
DetailPrice(h) == IF h = <<>> THEN 0 ELSE h[Len(h)].price

MostPurchased(S) ==
  LET count(p)     == Cardinality(Of(S, p))
      before(p, q) == count(p) > count(q) \/ (count(p) = count(q) /\ p < q)
  IN  {p \in Bought(S) : Cardinality({q \in Bought(S) : before(q, p)}) < Limit}

\* What num / den may be with two decimals, in hundredths of a percent: the
\* nearest, and either one where there are two.  PostgreSQL rounds a double
\* cast to NUMERIC, Go a double; both are too precise to miss the nearest of
\* another quotient of prices (below 100 million euros), but either may fall on
\* the wrong side of a tie: 0.32 to 0.37 is 15.63 for the one, 15.62 for the other.
Percents(num, den) ==
  LET below == (10000 * num) \div den
  IN  {k \in {below, below + 1} : /\ 2 * (10000 * num - k * den) <= den
                                 /\ 2 * (k * den - 10000 * num) <= den}

\* first_rec JOIN last_rec: every record of a product's first date with every
\* record of its last.
IncreaseRows(S) ==
  UNION {{row \in Earliest(Of(S, p)) \X Latest(Of(S, p)) :
            row[2].price > row[1].price /\ Cardinality(Of(S, p)) >= 2}
         : p \in Bought(S)}

\* increase_pct divides by the first price.
DividesByZero(S) == \E row \in IncreaseRows(S) : row[1].price = 0

IncreasePcts(row) == Percents(row[2].price - row[1].price, row[1].price)

\* The answers of GetBiggestPriceIncreases, if it does not divide by zero:
\* increase_pct of each row that is listed.
BiggestIncreases(S) ==
  LET rows == IncreaseRows(S)
      computed == {pct \in [rows -> UNION {IncreasePcts(a) : a \in rows}] :
                     \A a \in rows : pct[a] \in IncreasePcts(a)}
      before(pct, a, b) ==
        \/ pct[a] > pct[b]
        \/ pct[a] = pct[b] /\ a[1].product < b[1].product
      first(pct) ==
        {T \in SUBSET rows :
           /\ Cardinality(T) = Min({Limit, Cardinality(rows)})
           /\ \A a \in rows \ T, b \in T : ~before(pct, a, b)}
  IN  UNION {{[a \in T |-> pct[a]] : T \in first(pct)} : pct \in computed}

\* first_prices: DISTINCT ON takes one record of the first date.
FirstPrices(S) ==
  {f \in [Bought(S) -> Prices(S)] :
     \A p \in Bought(S) : f[p] \in Prices(Earliest(Of(S, p)))}

\* Mutant of BasketPcts: the sum of all products' first prices.
BasketPctsOfAll(S, first, d) ==
  LET current == MapThenSumSet(LAMBDA x : x.price, {x \in S : x.day = d})
      sum     == MapThenSumSet(LAMBDA p : first[p], Bought(S))
  IN  IF sum > 0 THEN Percents(current - sum, sum) ELSE {0}

\* The basket index of the date d.
BasketPcts(S, first, d) ==
  LET entries == {x \in S : x.day = d}
      current == MapThenSumSet(LAMBDA x : x.price, entries)
      sum     == MapThenSumSet(LAMBDA x : first[x.product], entries)
  IN  IF sum > 0 THEN Percents(current - sum, sum) ELSE {0}

\* The index of one product in it.
EntryPcts(first, x) ==
  IF first[x.product] > 0
  THEN Percents(x.price - first[x.product], first[x.product])
  ELSE {0}

-----------------------------------------------------------------------------
VARIABLES
  products,  \* ids in the table products
  records,   \* rows of price_records
  nextId,    \* BIGSERIAL of price_records
  home,      \* home[u]: household_id of user u
  pc,        \* the next statement of each request
  caller,    \* who makes it
  kind,      \* "search", "detail", "analytics" or "delete"
  target,    \* the product it shows, or the record it deletes
  house,     \* the household its first statement has read
  scope,     \* what householdUserIDs has resolved
  left,      \* how many queries it has yet to make
  rows,      \* the records of its last query
  past       \* history: <<user, household>> that held since it began

dbVars  == <<products, records, nextId, home>>
reqVars == <<pc, caller, kind, target, house, scope, left, rows>>
vars    == <<dbVars, reqVars, past>>

PC == {"idle", "household", "members", "query", "answered", "failed"}
Kind == {"search", "detail", "analytics", "delete"}

Active(r) == pc[r] \in {"household", "members", "query"}

TypeOK ==
  /\ products \subseteq Product
  /\ records \subseteq Record
  /\ \A x \in records : x.id < nextId
  /\ nextId \in Nat \ {0}
  /\ home \in [User -> Household \cup {NoHousehold}]
  /\ pc \in [Request -> PC]
  /\ caller \in [Request -> Caller]
  /\ kind \in [Request -> Kind]
  /\ target \in [Request -> Nat]
  /\ house \in [Request -> Household \cup {NoHousehold}]
  /\ scope \in [Request -> SUBSET Caller]
  /\ left \in [Request -> 0..3]
  /\ \A r \in Request : Active(r) => left[r] > 0
  /\ rows \in [Request -> SUBSET Record]
  /\ past \in [Request -> SUBSET (User \X Household)]

Init ==
  /\ products = {}
  /\ records = {}
  /\ nextId = 1
  /\ home = [u \in User |-> NoHousehold]
  /\ pc = [r \in Request |-> "idle"]
  /\ caller = [r \in Request |-> Nobody]
  /\ kind = [r \in Request |-> "search"]
  /\ target = [r \in Request |-> 0]
  /\ house = [r \in Request |-> NoHousehold]
  /\ scope = [r \in Request |-> {}]
  /\ left = [r \in Request |-> 0]
  /\ rows = [r \in Request |-> {}]
  /\ past = [r \in Request |-> {}]

-----------------------------------------------------------------------------
\* A receipt is imported: one transaction.
Import(t) ==
  /\ nextId + Len(t.lines) <= MaxId + 1
  /\ products' = products \cup {t.lines[k].product : k \in DOMAIN t.lines}
  /\ records' = records \cup
       {[id |-> nextId + k - 1, product |-> t.lines[k].product,
         price |-> t.lines[k].price, day |-> t.day, owner |-> t.owner]
        : k \in DOMAIN t.lines}
  /\ nextId' = nextId + Len(t.lines)
  /\ UNCHANGED <<home, reqVars, past>>

\* A user joins, leaves or founds a household (see Household).
Move(u, h) ==
  /\ home' = [home EXCEPT ![u] = h]
  /\ past' = [r \in Request |-> IF Active(r) /\ h \in Household
                                THEN past[r] \cup {<<u, h>>} ELSE past[r]]
  /\ UNCHANGED <<products, records, nextId, reqVars>>

Memberships == {<<u, home[u]>> : u \in {v \in User : home[v] \in Household}}

\* The handler is called.  GetProductByID looks for the product first;
\* DeletePriceRecordHandler refuses callers without a session.
Begin(r, u, k, t) ==
  /\ pc[r] = "idle"
  /\ k = "delete" => u # Nobody
  /\ pc' = [pc EXCEPT ![r] =
              IF k = "detail" /\ t \notin products THEN "failed" ELSE "household"]
  /\ caller' = [caller EXCEPT ![r] = u]
  /\ kind' = [kind EXCEPT ![r] = k]
  /\ target' = [target EXCEPT ![r] = t]
  /\ left' = [left EXCEPT ![r] = IF k = "analytics" THEN 3 ELSE 1]
  /\ past' = [past EXCEPT ![r] = Memberships]
  /\ UNCHANGED <<dbVars, house, scope, rows>>

\* householdUserIDs returns; what it had read is gone.
Resolved(r, ids) ==
  /\ pc' = [pc EXCEPT ![r] = "query"]
  /\ scope' = [scope EXCEPT ![r] = ids]
  /\ house' = [house EXCEPT ![r] = NoHousehold]

\* SELECT household_id; when it fails, the scope is the caller.
ReadHousehold(r) ==
  /\ pc[r] = "household"
  /\ \/ Resolved(r, {caller[r]})
     \/ /\ caller[r] # Nobody /\ home[caller[r]] # NoHousehold
        /\ house' = [house EXCEPT ![r] = home[caller[r]]]
        /\ pc' = [pc EXCEPT ![r] = "members"]
        /\ UNCHANGED scope
  /\ UNCHANGED <<dbVars, caller, kind, target, left, rows, past>>

\* Mutant of ReadMembers: users without a household are members of one.
ReadMembersOrNone(r) ==
  /\ pc[r] = "members"
  /\ Resolved(r, {u \in User : home[u] \in {house[r], NoHousehold}})
  /\ UNCHANGED <<dbVars, caller, kind, target, left, rows, past>>

\* SELECT id FROM users WHERE household_id = ...
ReadMembers(r) ==
  /\ pc[r] = "members"
  /\ LET ids == {u \in User : home[u] = house[r]}
     IN  Resolved(r, IF ids = {} THEN {caller[r]} ELSE ids)
  /\ UNCHANGED <<dbVars, caller, kind, target, left, rows, past>>

Visible(ids) == {x \in records : x.owner \in ids}

\* One query; those of AnalyticsHandler follow one another, each with a scope
\* of its own.
Read(r) ==
  /\ pc[r] = "query" /\ kind[r] # "delete"
  /\ ~(kind[r] = "analytics" /\ left[r] = 2 /\ DividesByZero(Visible(scope[r])))
  /\ rows' = [rows EXCEPT ![r] =
       {x \in Visible(scope[r]) : kind[r] = "detail" => x.product = target[r]}]
  /\ left' = [left EXCEPT ![r] = @ - 1]
  /\ pc' = [pc EXCEPT ![r] = IF left[r] = 1 THEN "answered" ELSE "household"]
  /\ scope' = [scope EXCEPT ![r] = {}]
  /\ UNCHANGED <<dbVars, caller, kind, target, house, past>>

\* Mutant of Delete: the record is found by its id alone.
DeleteById(r) ==
  /\ pc[r] = "query" /\ kind[r] = "delete"
  /\ records' = {x \in records : x.id # target[r]}
  /\ pc' = [pc EXCEPT ![r] = IF records' = records THEN "failed" ELSE "answered"]
  /\ scope' = [scope EXCEPT ![r] = {}]
  /\ UNCHANGED <<products, nextId, home, caller, kind, target, house, left, rows, past>>

\* DELETE ... WHERE id = ... AND user_id IN ...; no row is a 404.
Delete(r) ==
  /\ pc[r] = "query" /\ kind[r] = "delete"
  /\ records' = records \ {x \in Visible(scope[r]) : x.id = target[r]}
  /\ pc' = [pc EXCEPT ![r] = IF records' = records THEN "failed" ELSE "answered"]
  /\ scope' = [scope EXCEPT ![r] = {}]
  /\ UNCHANGED <<products, nextId, home, caller, kind, target, house, left, rows, past>>

\* A statement whose failure is not ignored fails, or divides by zero: 500
\* (404 of a deletion).
Fail(r) ==
  /\ pc[r] \in {"members", "query"} \/ (pc[r] = "household" /\ kind[r] = "detail")
  /\ pc' = [pc EXCEPT ![r] = "failed"]
  /\ house' = [house EXCEPT ![r] = NoHousehold]
  /\ scope' = [scope EXCEPT ![r] = {}]
  /\ UNCHANGED <<dbVars, caller, kind, target, left, rows, past>>

\* The answer is sent, or the process stops: what the request knew is gone.
End(r) ==
  /\ pc[r] # "idle"
  /\ pc' = [pc EXCEPT ![r] = "idle"]
  /\ caller' = [caller EXCEPT ![r] = Nobody]
  /\ kind' = [kind EXCEPT ![r] = "search"]
  /\ target' = [target EXCEPT ![r] = 0]
  /\ house' = [house EXCEPT ![r] = NoHousehold]
  /\ scope' = [scope EXCEPT ![r] = {}]
  /\ left' = [left EXCEPT ![r] = 0]
  /\ rows' = [rows EXCEPT ![r] = {}]
  /\ past' = [past EXCEPT ![r] = {}]
  /\ UNCHANGED dbVars

\* What a request of that kind is about.
Targets(k) == CASE k = "detail" -> Product [] k = "delete" -> 1..MaxId [] OTHER -> {0}

Handle(r) ==
  \/ \E u \in Caller, k \in Kind : \E t \in Targets(k) : Begin(r, u, k, t)
  \/ ReadHousehold(r) \/ ReadMembers(r)
  \/ Read(r) \/ Delete(r)
  \/ Fail(r) \/ End(r)

Next ==
  \/ \E t \in Receipt : Import(t)
  \/ \E u \in User, h \in Household \cup {NoHousehold} : Move(u, h)
  \/ \E r \in Request : Handle(r)

Spec == Init /\ [][Next]_vars

-----------------------------------------------------------------------------
\* Whose records a request may touch: its caller's, and those of who has been
\* in a household of the caller's since it began.
Shared(r) ==
  {caller[r]} \cup {v \in User : \E h \in Household :
                     <<caller[r], h>> \in past[r] /\ <<v, h>> \in past[r]}

\* No request reads or deletes a record of anybody else, although memberships
\* change between the statements of householdUserIDs and the query they are
\* for; and a record goes only when a request was made to delete it.
OnlyShared ==
  [][/\ \A r \in Request : rows'[r] # rows[r] =>
          \A x \in rows'[r] : x.owner \in Shared(r)
     /\ \A x \in records \ records' : \E r \in Request :
          kind[r] = "delete" /\ target[r] = x.id /\ x.owner \in Shared(r)]_vars

\* Why: a scope holds nobody else, and a household that was read was the
\* caller's while the request ran.
ScopeOf(r) ==
  /\ Active(r) => Memberships \subseteq past[r]
  /\ pc[r] = "members" => house[r] \in Household /\ <<caller[r], house[r]>> \in past[r]
  /\ pc[r] = "query" => scope[r] \subseteq Shared(r)

ScopeInv == \A r \in Request : ScopeOf(r)

\* What analytics requests have been answered from.
Analysed == {rows[r] : r \in {q \in Request : pc[q] = "answered" /\ kind[q] = "analytics"}}

Risen(S, p) == {row \in IncreaseRows(S) : row[1].product = p}

\* A change rounded to one of A is shown as no more than one rounded to one of
\* B, unless they are one change that floating point rounds twice, at a tie.
AtMost(A, B) == A = B \/ \A a \in A, b \in B : a <= b

\* All queries say of p that its price was x.price and is y.price: what they
\* show of the change is rounded alike, unless it is a tie.
OneStory(S, p, x, y) ==
  /\ {s.current : s \in SearchResults(S, p)} = {y.price}
  /\ {DetailPrice(h) : h \in Histories(S, p)} = {y.price}
  /\ Risen(S, p) # {} <=> y.price > x.price
  /\ x.price > 0 => \A row \in Risen(S, p), f \in FirstPrices(S) :
                      IncreasePcts(row) = EntryPcts(f, y)

Rise(row) == row[2].price - row[1].price

\* The one has risen by no more than the other and a hundredth of a percent.
RisenNoMore(row, listed) ==
  10000 * Rise(row) * listed[1].price
    <= (10000 * Rise(listed) + listed[1].price) * row[1].price

\* What is left out of the lists has not risen more than what is listed, but
\* for what is lost in rounding, nor was it bought more often.
Ranked(S, p) ==
  /\ ~DividesByZero(S) => \A list \in BiggestIncreases(S) :
       \A row \in Risen(S, p) \ DOMAIN list, listed \in DOMAIN list :
         RisenNoMore(row, listed)
  /\ p \notin MostPurchased(S) => \A q \in MostPurchased(S) :
       \A h \in Histories(S, p), g \in Histories(S, q) : Len(h) <= Len(g)

\* The pages tell one story: for a product with one price on its first date
\* and one on its last, the search, the product's page, the increases and the
\* basket index agree on its current price and, but for ties, on how much it
\* rose; it is found among the increases if and only if it rose, and once,
\* unless it was bought several times on one of those dates.  The lists are
\* ranked.
QueriesAgree ==
  \A S \in Analysed : \A p \in Bought(S) :
    LET first == Earliest(Of(S, p))
        last  == Latest(Of(S, p))
        once(R) == Cardinality(R) = 1
    IN  /\ once(Prices(first)) /\ once(Prices(last)) =>
             \A x \in first, y \in last : OneStory(S, p, x, y)
        /\ once(first) /\ once(last) => Cardinality(Risen(S, p)) <= 1
        /\ Ranked(S, p)

\* The basket index of a date lies between the changes of the products bought
\* on it (so it is 0 when all are new), but for ties, unless one of them was
\* free at first and is not any more.
IndexWithinProducts ==
  \A S \in Analysed : \A f \in FirstPrices(S), d \in {x.day : x \in S} :
    LET entries == {x \in S : x.day = d}
    IN  (\A x \in entries : f[x.product] = 0 => x.price = 0) =>
          \E x, y \in entries : /\ AtMost(EntryPcts(f, x), BasketPcts(S, f, d))
                                /\ AtMost(BasketPcts(S, f, d), EntryPcts(f, y))
=============================================================================
