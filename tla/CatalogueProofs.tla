-------------------------- MODULE CatalogueProofs --------------------------
(***************************************************************************)
(* Proofs about Catalogue, for any users, households, receipts and         *)
(* requests.                                                               *)
(***************************************************************************)
EXTENDS Catalogue, FiniteSetTheorems, TLAPS

USE DEF Caller, Record, PC, Kind, Active, dbVars, reqVars

LEMMA ElementsOfSeq ==
  ASSUME NEW S, NEW s \in Seq(S)
  PROVE  Len(s) \in Nat /\ DOMAIN s = 1..Len(s) /\ \A k \in 1..Len(s) : s[k] \in S
OBVIOUS

\* The rows of a receipt are records with fresh ids.
LEMMA ImportType ==
  ASSUME TypeOK, NEW t \in Receipt, Import(t)
  PROVE  /\ products' \subseteq Product
         /\ records' \subseteq Record
         /\ \A x \in records' : x.id < nextId'
         /\ nextId' \in Nat \ {0}
<1> DEFINE N == Len(t.lines)
           row(k) == [id |-> nextId + k - 1, product |-> t.lines[k].product,
                      price |-> t.lines[k].price, day |-> t.day, owner |-> t.owner]
<1>1. t.owner \in Caller /\ t.day \in Day /\ t.lines \in Seq([product : Product, price : Nat])
  BY ReceiptAssumption
<1>2. N \in Nat /\ DOMAIN t.lines = 1..N
  BY <1>1
<1>3. \A k \in 1..N : t.lines[k] \in [product : Product, price : Nat]
  BY <1>1, ElementsOfSeq
<1>4. nextId \in Nat \ {0} /\ nextId + N <= MaxId + 1 /\ nextId' = nextId + N
  BY DEF TypeOK, Import
<1>5. ASSUME NEW k \in 1..N
      PROVE  row(k) \in Record /\ row(k).id < nextId' /\ t.lines[k].product \in Product
  <2>1. nextId + k - 1 \in 1..MaxId /\ nextId + k - 1 < nextId'
    BY <1>2, <1>4, BoundsAssumption
  <2> QED
    BY <2>1, <1>1, <1>3
<1>6. records' = records \cup {row(k) : k \in 1..N}
  BY <1>2 DEF Import
<1>7. products' = products \cup {t.lines[k].product : k \in 1..N}
  BY <1>2 DEF Import
<1>8. records' \subseteq Record /\ products' \subseteq Product
  BY <1>5, <1>6, <1>7 DEF TypeOK
<1>9. \A x \in records' : x.id < nextId'
  <2> SUFFICES ASSUME NEW x \in records' PROVE x.id < nextId'
    OBVIOUS
  <2>1. CASE x \in records
    <3>1. x.id \in Nat /\ x.id < nextId
      BY <2>1, BoundsAssumption DEF TypeOK
    <3> QED
      BY <3>1, <1>2, <1>4
  <2>2. CASE \E k \in 1..N : x = row(k)
    BY <2>2, <1>5
  <2> QED
    BY <2>1, <2>2, <1>6
<1> QED
  BY <1>8, <1>9, <1>4, <1>2

\* Every step keeps every variable in its type.
LEMMA TypeStep == TypeOK /\ [Next]_vars => TypeOK'
<1> SUFFICES ASSUME TypeOK, [Next]_vars PROVE TypeOK'
  OBVIOUS
<1>1. ASSUME NEW t \in Receipt, Import(t) PROVE TypeOK'
  BY <1>1, ImportType DEF TypeOK, Import
<1>2. ASSUME NEW u \in User, NEW h \in Household \cup {NoHousehold}, Move(u, h)
      PROVE  TypeOK'
  BY <1>2 DEF TypeOK, Move
<1>3. ASSUME NEW r \in Request, NEW u \in Caller, NEW k \in Kind, NEW t \in Targets(k),
             Begin(r, u, k, t)
      PROVE  TypeOK'
  <2>1. t \in Nat
    BY ProductAssumption, BoundsAssumption DEF Targets
  <2>2. Memberships \subseteq User \X Household
    BY DEF Memberships
  <2> QED
    BY <1>3, <2>1, <2>2 DEF TypeOK, Begin
<1>4. ASSUME NEW r \in Request, ReadHousehold(r) PROVE TypeOK'
  BY <1>4 DEF TypeOK, ReadHousehold, Resolved
<1>5. ASSUME NEW r \in Request, ReadMembers(r) PROVE TypeOK'
  BY <1>5 DEF TypeOK, ReadMembers, Resolved
<1>6. ASSUME NEW r \in Request, Read(r) PROVE TypeOK'
  BY <1>6 DEF TypeOK, Read, Visible
<1>7. ASSUME NEW r \in Request, Delete(r) PROVE TypeOK'
  BY <1>7 DEF TypeOK, Delete, Visible
<1>8. ASSUME NEW r \in Request, Fail(r) PROVE TypeOK'
  BY <1>8 DEF TypeOK, Fail
<1>9. ASSUME NEW r \in Request, End(r) PROVE TypeOK'
  BY <1>9 DEF TypeOK, End
<1>10. CASE UNCHANGED vars
  BY <1>10 DEF TypeOK, vars
<1> QED
  BY <1>1, <1>2, <1>3, <1>4, <1>5, <1>6, <1>7, <1>8, <1>9, <1>10 DEF Next, Handle

\* Type correctness of the database and of every request.
THEOREM TypeCorrect == Spec => []TypeOK
<1>1. Init => TypeOK
  BY DEF Init, TypeOK
<1> QED
  BY <1>1, TypeStep, PTL DEF Spec

-----------------------------------------------------------------------------
\* A step that does not concern the request q keeps what holds of it.
LEMMA OtherRequest ==
  ASSUME NEW q \in Request, ScopeOf(q), home' = home,
         pc'[q] = pc[q], caller'[q] = caller[q], house'[q] = house[q],
         scope'[q] = scope[q], past'[q] = past[q]
  PROVE  ScopeOf(q)'
BY DEF ScopeOf, Memberships, Shared

\* The steps of a request keep ScopeInv: a household is read while its caller
\* is a member, and its members while they are.
LEMMA HandleScope ==
  ASSUME TypeOK, ScopeInv, NEW r \in Request, Handle(r)
  PROVE  ScopeInv'
<1> USE DEF TypeOK
<1>1. \A q \in Request : ScopeOf(q)
  BY DEF ScopeInv, ScopeOf
<1>2. home' = home
  BY DEF Handle, Begin, ReadHousehold, ReadMembers, Read, Delete, Fail, End
<1>3. ASSUME NEW q \in Request, q # r
      PROVE  ScopeOf(q)'
  <2>1. /\ pc'[q] = pc[q] /\ caller'[q] = caller[q] /\ house'[q] = house[q]
        /\ scope'[q] = scope[q] /\ past'[q] = past[q]
    BY <1>3 DEF Handle, Begin, ReadHousehold, ReadMembers, Resolved, Read, Delete, Fail, End
  <2> QED
    BY <2>1, <1>1, <1>2, OtherRequest
<1>4. ScopeOf(r)'
  <2>1. ASSUME NEW u \in Caller, NEW k \in Kind, NEW t \in Targets(k), Begin(r, u, k, t)
        PROVE  ScopeOf(r)'
    BY <2>1, <1>2 DEF Begin, ScopeOf, Memberships
  <2>2. CASE ReadHousehold(r)
    <3>1. past' = past /\ caller' = caller /\ pc[r] = "household"
      BY <2>2 DEF ReadHousehold
    <3>2. Memberships' \subseteq past'[r]
      BY <1>1, <1>2, <3>1 DEF ScopeOf, Memberships
    <3>3. CASE Resolved(r, {caller[r]})
      BY <3>1, <3>2, <3>3 DEF Resolved, ScopeOf, Shared
    <3>4. CASE /\ caller[r] # Nobody /\ home[caller[r]] # NoHousehold
               /\ house' = [house EXCEPT ![r] = home[caller[r]]]
               /\ pc' = [pc EXCEPT ![r] = "members"]
      <4>1. caller[r] \in User /\ home[caller[r]] \in Household
        BY <3>4
      <4>2. <<caller[r], home[caller[r]]>> \in past[r]
        BY <4>1, <1>1, <3>1 DEF ScopeOf, Memberships
      <4>3. pc'[r] = "members" /\ house'[r] = home[caller[r]]
        BY <3>4
      <4> QED
        BY <4>1, <4>2, <4>3, <3>1, <3>2 DEF ScopeOf
    <3> QED
      BY <2>2, <3>3, <3>4 DEF ReadHousehold
  <2>3. CASE ReadMembers(r)
    <3> DEFINE ids == {u \in User : home[u] = house[r]}
    <3>1. /\ pc[r] = "members" /\ past' = past /\ caller' = caller
          /\ Resolved(r, IF ids = {} THEN {caller[r]} ELSE ids)
      BY <2>3 DEF ReadMembers
    <3>2. house[r] \in Household /\ <<caller[r], house[r]>> \in past[r]
          /\ Memberships \subseteq past[r]
      BY <1>1, <3>1 DEF ScopeOf
    <3>3. ids \subseteq Shared(r)
      BY <3>2 DEF Shared, Memberships
    <3>4. caller[r] \in Shared(r) /\ Shared(r)' = Shared(r)
      BY <3>1 DEF Shared
    <3>5. pc'[r] = "query" /\ scope'[r] \subseteq Shared(r)
      BY <3>1, <3>3, <3>4 DEF Resolved
    <3>6. Memberships' \subseteq past'[r]
      BY <3>1, <3>2, <1>2 DEF Memberships
    <3> QED
      BY <3>4, <3>5, <3>6 DEF ScopeOf
  <2>4. CASE Read(r)
    <3>1. pc[r] = "query" /\ pc'[r] \in {"answered", "household"} /\ past' = past
      BY <2>4 DEF Read
    <3> QED
      BY <3>1, <1>1, <1>2 DEF ScopeOf, Memberships
  <2>5. CASE Delete(r) \/ Fail(r) \/ End(r)
    <3>1. pc'[r] \in {"answered", "failed", "idle"}
      BY <2>5 DEF Delete, Fail, End
    <3> QED
      BY <3>1 DEF ScopeOf
  <2> QED
    BY <2>1, <2>2, <2>3, <2>4, <2>5 DEF Handle
<1> QED
  BY <1>3, <1>4 DEF ScopeInv, ScopeOf

LEMMA ScopeStep == TypeOK /\ ScopeInv /\ [Next]_vars => ScopeInv'
<1> SUFFICES ASSUME TypeOK, ScopeInv, [Next]_vars PROVE ScopeInv'
  OBVIOUS
<1>1. ASSUME NEW t \in Receipt, Import(t) PROVE ScopeInv'
  BY <1>1 DEF Import, ScopeInv, ScopeOf, Memberships, Shared
<1>2. ASSUME NEW u \in User, NEW h \in Household \cup {NoHousehold}, Move(u, h)
      PROVE  ScopeInv'
  <2> SUFFICES ASSUME NEW q \in Request, Active(q)
               PROVE  /\ Memberships' \subseteq past'[q]
                      /\ past[q] \subseteq past'[q]
    BY <1>2 DEF Move, ScopeInv, ScopeOf, Shared
  <2>1. past'[q] = past[q] \cup (IF h \in Household THEN {<<u, h>>} ELSE {})
    BY <1>2 DEF Move
  <2>2. Memberships' \subseteq Memberships \cup (IF h \in Household THEN {<<u, h>>} ELSE {})
    BY <1>2, NoHouseholdAssumption DEF Move, Memberships, TypeOK
  <2> QED
    BY <2>1, <2>2 DEF ScopeInv, ScopeOf
<1>3. ASSUME NEW r \in Request, Handle(r) PROVE ScopeInv'
  BY <1>3, HandleScope
<1>4. CASE UNCHANGED vars
  BY <1>4 DEF vars, ScopeInv, ScopeOf, Memberships, Shared
<1> QED
  BY <1>1, <1>2, <1>3, <1>4 DEF Next

\* What a request reads or deletes is in its scope.
LEMMA TouchesShared ==
  ASSUME TypeOK, ScopeInv, [Next]_vars
  PROVE  /\ \A r \in Request : rows'[r] # rows[r] =>
              \A x \in rows'[r] : x.owner \in Shared(r)
         /\ \A x \in records \ records' : \E r \in Request :
              kind[r] = "delete" /\ target[r] = x.id /\ x.owner \in Shared(r)
<1> DEFINE Reads == \A r \in Request : rows'[r] # rows[r] =>
                      \A x \in rows'[r] : x.owner \in Shared(r)
           Deletes == \A x \in records \ records' : \E r \in Request :
                        kind[r] = "delete" /\ target[r] = x.id /\ x.owner \in Shared(r)
<1> SUFFICES Reads /\ Deletes
  OBVIOUS
<1>1. ASSUME NEW t \in Receipt, Import(t) PROVE Reads /\ Deletes
  BY <1>1 DEF Import
<1>2. ASSUME NEW u \in User, NEW h \in Household \cup {NoHousehold}, Move(u, h)
      PROVE  Reads /\ Deletes
  BY <1>2 DEF Move
<1>3. ASSUME NEW r \in Request, Read(r) PROVE Reads /\ Deletes
  <2>1. scope[r] \subseteq Shared(r)
    BY <1>3 DEF Read, ScopeInv, ScopeOf
  <2>2. records' = records /\ \A q \in Request \ {r} : rows'[q] = rows[q]
    BY <1>3 DEF Read, TypeOK
  <2>3. \A x \in rows'[r] : x.owner \in scope[r]
    BY <1>3 DEF Read, Visible, TypeOK
  <2> QED
    BY <2>1, <2>2, <2>3
<1>4. ASSUME NEW r \in Request, Delete(r) PROVE Reads /\ Deletes
  <2>1. scope[r] \subseteq Shared(r) /\ kind[r] = "delete" /\ rows' = rows
    BY <1>4 DEF Delete, ScopeInv, ScopeOf
  <2>2. \A x \in records \ records' : x.owner \in scope[r] /\ x.id = target[r]
    BY <1>4 DEF Delete, Visible
  <2> QED
    BY <2>1, <2>2
<1>5. ASSUME NEW r \in Request, NEW u \in Caller, NEW k \in Kind, NEW t \in Targets(k),
             Begin(r, u, k, t)
      PROVE  Reads /\ Deletes
  BY <1>5 DEF Begin
<1>6. ASSUME NEW r \in Request, ReadHousehold(r) \/ ReadMembers(r) \/ Fail(r)
      PROVE  Reads /\ Deletes
  BY <1>6 DEF ReadHousehold, ReadMembers, Fail
<1>7. ASSUME NEW r \in Request, End(r) PROVE Reads /\ Deletes
  BY <1>7 DEF End, TypeOK
<1>8. CASE UNCHANGED vars
  BY <1>8 DEF vars
<1> HIDE DEF Reads, Deletes
<1>9. ASSUME NEW r \in Request, Handle(r) PROVE Reads /\ Deletes
  BY <1>3, <1>4, <1>5, <1>6, <1>7, <1>9 DEF Handle
<1> QED
  BY <1>1, <1>2, <1>8, <1>9 DEF Next

\* No request reads or deletes a record of somebody who has not been in a
\* household of its caller's since it began, whatever the order of its
\* statements and the moves of others (SearchProducts, GetProductByID,
\* AnalyticsHandler, DeletePriceRecord).
THEOREM OnlySharedHolds == Spec => OnlyShared
<1>1. Init => TypeOK /\ ScopeInv
  BY DEF Init, TypeOK, ScopeInv, ScopeOf
<1>2. TypeOK /\ ScopeInv /\ [Next]_vars => TypeOK' /\ ScopeInv'
  BY TypeStep, ScopeStep
<1>3. TypeOK /\ ScopeInv /\ [Next]_vars =>
        [/\ \A r \in Request : rows'[r] # rows[r] =>
              \A x \in rows'[r] : x.owner \in Shared(r)
         /\ \A x \in records \ records' : \E r \in Request :
              kind[r] = "delete" /\ target[r] = x.id /\ x.owner \in Shared(r)]_vars
  BY TouchesShared
<1> QED
  BY <1>1, <1>2, <1>3, PTL DEF Spec, OnlyShared

-----------------------------------------------------------------------------
(* Orders of finite sets, and fractions.                                   *)

\* Of sets that are parts of a finite set one is minimal.
LEMMA MinimalSet ==
  ASSUME NEW S, IsFiniteSet(S), NEW T, T \subseteq SUBSET S, T # {}
  PROVE  \E A \in T : \A B \in T : B \subseteq A => B = A
<1>1. FiniteSubsetsOf(S) = SUBSET S
  BY FS_FiniteSubsetsOfFinite
<1>2. IsWellFoundedOn(StrictSubsetOrdering(S), FiniteSubsetsOf(S))
  BY FS_StrictSubsetOrderingWellFounded
<1>3. PICK A \in T : \A B \in T : ~(<<B, A>> \in StrictSubsetOrdering(S))
  BY <1>1, <1>2, WFMin
<1> QED
  BY <1>3 DEF StrictSubsetOrdering

\* A finite set with an order has an element that none is below.
LEMMA FirstOfOrder ==
  ASSUME NEW S, IsFiniteSet(S), S # {}, NEW R,
         \A x \in S : <<x, x>> \notin R,
         \A x, y, z \in S : <<x, y>> \in R /\ <<y, z>> \in R => <<x, z>> \in R
  PROVE  \E m \in S : \A y \in S : <<y, m>> \notin R
<1> DEFINE Upto(x) == {y \in S : y = x \/ <<y, x>> \in R}
           T == {Upto(x) : x \in S}
<1>1. T \subseteq SUBSET S
  OBVIOUS
<1>2. T # {}
  <2>1. PICK x : x \in S
    OBVIOUS
  <2>2. Upto(x) \in T
    BY <2>1
  <2> QED
    BY <2>2
<1>3. PICK A \in T : \A B \in T : B \subseteq A => B = A
  <2> HIDE DEF T
  <2> QED
    BY <1>1, <1>2, MinimalSet
<1>4. PICK m \in S : A = Upto(m)
  OBVIOUS
<1>5. ASSUME NEW y \in S, <<y, m>> \in R PROVE FALSE
  <2>1. Upto(y) \subseteq Upto(m) /\ Upto(y) \in T
    BY <1>5
  <2>2. m \in Upto(m) /\ m \notin Upto(y)
    BY <1>5
  <2> HIDE DEF Upto, T
  <2> QED
    BY <1>3, <1>4, <2>1, <2>2
<1> QED
  BY <1>5

LEMMA TimesMonotone ==
  ASSUME NEW p \in Nat, NEW q \in Nat, NEW n \in Nat \ {0}
  PROVE  /\ p >= q => p * n >= q * n
         /\ p > q => p * n > q * n
<1>1. ASSUME p >= q
      PROVE  p * n >= q * n /\ (p > q => p * n > q * n)
  <2>1. PICK d \in Nat : p = q + d
    <3>1. p - q \in Nat /\ p = q + (p - q)
      BY <1>1
    <3> QED
      BY <3>1
  <2>2. p * n = q * n + d * n /\ q * n \in Nat
    BY <2>1
  <2>3. d * n \in Nat /\ (d > 0 => d * n > 0)
    OBVIOUS
  <2> QED
    BY <2>1, <2>2, <2>3
<1> QED
  BY <1>1

\* Fractions compared by cross-multiplication are ordered.
LEMMA FractionOrder ==
  ASSUME NEW a \in Nat, NEW b \in Nat, NEW c \in Nat,
         NEW x \in Nat \ {0}, NEW y \in Nat \ {0}, NEW z \in Nat \ {0},
         a * y >= b * x, b * z >= c * y
  PROVE  /\ a * z >= c * x
         /\ a * y > b * x \/ b * z > c * y => a * z > c * x
<1>1. /\ a * y \in Nat /\ b * x \in Nat /\ b * z \in Nat /\ c * y \in Nat
      /\ a * z \in Nat /\ c * x \in Nat
  OBVIOUS
<1>2. /\ (a * y) * z >= (b * x) * z
      /\ a * y > b * x => (a * y) * z > (b * x) * z
      /\ (b * z) * x >= (c * y) * x
      /\ b * z > c * y => (b * z) * x > (c * y) * x
  BY <1>1, TimesMonotone
<1>3. /\ (a * y) * z = (a * z) * y /\ (b * x) * z = (b * z) * x
      /\ (c * y) * x = (c * x) * y
  OBVIOUS
<1>4. /\ (a * z) * y \in Nat /\ (b * x) * z \in Nat /\ (c * x) * y \in Nat
  BY <1>1
<1>5. /\ (a * z) * y >= (c * x) * y
      /\ a * y > b * x \/ b * z > c * y => (a * z) * y > (c * x) * y
  BY <1>2, <1>3, <1>4
<1>6. /\ c * x > a * z => (c * x) * y > (a * z) * y
      /\ c * x >= a * z => (c * x) * y >= (a * z) * y
  BY <1>1, TimesMonotone
<1> QED
  BY <1>1, <1>4, <1>5, <1>6

-----------------------------------------------------------------------------
(* What the queries say of one set of records.                             *)

\* A nonempty finite set of records has one of the last day.
LEMMA LatestExists ==
  ASSUME NEW O, O \subseteq Record, IsFiniteSet(O), O # {}
  PROVE  \E m \in O : \A y \in O : y.day <= m.day
<1> DEFINE R == {pair \in O \X O : pair[2].day < pair[1].day}
<1>1. \A x \in O : x.day \in Nat
  BY ProductAssumption
<1>2. \A x, y \in O : <<x, y>> \in R <=> y.day < x.day
  OBVIOUS
<1>3. /\ \A x \in O : <<x, x>> \notin R
      /\ \A x, y, z \in O : <<x, y>> \in R /\ <<y, z>> \in R => <<x, z>> \in R
  BY <1>1, <1>2
<1> HIDE DEF R
<1>4. PICK m \in O : \A y \in O : <<y, m>> \notin R
  BY <1>3, FirstOfOrder
<1>5. \A y \in O : ~(m.day < y.day) /\ m.day \in Nat /\ y.day \in Nat
  BY <1>1, <1>2, <1>4
<1> QED
  BY <1>5

\* An enumeration of the records O by date.
Sorted(O, h) ==
  /\ h \in [1..Cardinality(O) -> O]
  /\ \A i, j \in DOMAIN h : i < j => h[i] # h[j] /\ h[i].day <= h[j].day

\* Records can be enumerated by date.
LEMMA SortedExists ==
  ASSUME NEW O, O \subseteq Record, IsFiniteSet(O)
  PROVE  \E h : Sorted(O, h)
<1> DEFINE T == {A \in SUBSET O : ~\E h : Sorted(A, h)}
<1> SUFFICES ASSUME T # {} PROVE FALSE
  OBVIOUS
<1>1. PICK A \in T : \A B \in T : B \subseteq A => B = A
  <2>1. T \subseteq SUBSET O
    OBVIOUS
  <2> HIDE DEF T
  <2> QED
    BY <2>1, MinimalSet
<1>2. IsFiniteSet(A) /\ A \subseteq O /\ ~\E h : Sorted(A, h)
  BY FS_Subset
<1>3. A # {}
  <2> SUFFICES ASSUME A = {} PROVE FALSE
    OBVIOUS
  <2>1. Cardinality(A) = 0
    BY FS_EmptySet
  <2>2. Sorted(A, [i \in 1..0 |-> {}])
    BY <2>1 DEF Sorted
  <2> QED
    BY <1>2, <2>2
<1>4. PICK m \in A : \A y \in A : y.day <= m.day
  BY <1>2, <1>3, LatestExists
<1> DEFINE B == A \ {m}
<1>5. /\ IsFiniteSet(B) /\ Cardinality(B) = Cardinality(A) - 1
      /\ Cardinality(A) \in Nat /\ Cardinality(B) \in Nat
  BY <1>2, FS_RemoveElement, FS_CardinalityType
<1>6. PICK g : Sorted(B, g)
  <2>1. B \in SUBSET O /\ B \subseteq A /\ B # A /\ A \in SUBSET O
    BY <1>2
  <2> QED
    BY <1>1, <2>1
<1> DEFINE n == Cardinality(A)
           h == [i \in 1..n |-> IF i = n THEN m ELSE g[i]]
<1>7. \A i \in 1..n : i # n => i \in 1..Cardinality(B) /\ g[i] \in B
  <2> TAKE i \in 1..n
  <2> HAVE i # n
  <2>1. i \in 1..Cardinality(B)
    BY <1>5
  <2> QED
    BY <1>6, <2>1 DEF Sorted
<1>8. h \in [1..n -> A]
  BY <1>7
<1>9. ASSUME NEW i \in 1..n, NEW j \in 1..n, i < j
      PROVE  h[i] # h[j] /\ h[i].day <= h[j].day
  <2>1. i # n /\ g[i] \in B
    BY <1>5, <1>7, <1>9
  <2>2. CASE j = n
    BY <1>4, <2>1, <2>2
  <2>3. CASE j # n
    <3>1. i \in 1..Cardinality(B) /\ j \in 1..Cardinality(B)
      BY <1>7, <2>1, <2>3
    <3>2. g[i] # g[j] /\ g[i].day <= g[j].day
      BY <1>6, <1>9, <3>1 DEF Sorted
    <3> QED
      BY <2>1, <2>3, <3>2
  <2> QED
    BY <2>2, <2>3
<1>10. Sorted(A, h)
  <2> HIDE DEF h
  <2> QED
    BY <1>8, <1>9 DEF Sorted
<1> QED
  BY <1>2, <1>10

\* A history ends with a record of the last day.
LEMMA HistoryEnds ==
  ASSUME NEW O, O \subseteq Record, IsFiniteSet(O), O # {}, NEW h, Sorted(O, h)
  PROVE  /\ h # <<>> /\ Len(h) = Cardinality(O)
         /\ h[Len(h)] \in Latest(O)
<1> DEFINE n == Cardinality(O)
<1>1. n \in Nat /\ n # 0
  BY FS_CardinalityType, FS_EmptySet
<1>2. h \in [1..n -> O]
  BY DEF Sorted
<1>3. Len(h) = n /\ h # <<>>
  <2>1. h \in Seq(O) /\ DOMAIN h = 1..n
    BY <1>1, <1>2
  <2>2. Len(h) = n
    BY <1>1, <2>1
  <2> QED
    BY <1>1, <2>2
<1>4. h \in Surjection(1..n, O)
  <2>1. \A i, j \in 1..n : h[i] = h[j] => i = j
    <3> TAKE i, j \in 1..n
    <3>1. i < j => h[i] # h[j]
      BY <1>2 DEF Sorted
    <3>2. j < i => h[i] # h[j]
      BY <1>2 DEF Sorted
    <3>3. i < j \/ j < i \/ i = j
      BY <1>1
    <3> QED
      BY <3>1, <3>2, <3>3
  <2>2. h \in Injection(1..n, O)
    BY <1>2, <2>1 DEF Injection, IsInjective
  <2>3. Cardinality(1..n) = n
    BY <1>1, FS_Interval
  <2> HIDE DEF n
  <2> QED
    BY <2>2, <2>3, FS_Injection DEF n
<1>5. ASSUME NEW y \in O PROVE y.day <= h[n].day
  <2>1. PICK i \in 1..n : h[i] = y
    BY <1>4 DEF Surjection
  <2>2. n \in 1..n /\ (i < n \/ i = n)
    BY <1>1
  <2>3. CASE i < n
    BY <1>2, <2>1, <2>2, <2>3 DEF Sorted
  <2>4. CASE i = n
    <3>1. y.day \in Nat
      BY ProductAssumption
    <3> QED
      BY <2>1, <2>4, <3>1
  <2> QED
    BY <2>2, <2>3, <2>4
<1>6. h[n] \in O
  BY <1>1, <1>2
<1> QED
  BY <1>3, <1>5, <1>6 DEF Latest

LEMMA TimesOrder ==
  ASSUME NEW p \in Int, NEW q \in Int, NEW n \in Nat \ {0}
  PROVE  /\ p <= q => p * n <= q * n
         /\ p < q => p * n < q * n
         /\ p * n <= q * n => p <= q
         /\ p * n < q * n => p < q
<1>1. ASSUME NEW u \in Int, NEW v \in Int, u < v PROVE u * n < v * n
  <2>1. PICK d \in Nat \ {0} : v = u + d
    <3>1. v - u \in Nat \ {0} /\ v = u + (v - u)
      BY <1>1
    <3> QED
      BY <3>1
  <2>2. v * n = u * n + d * n /\ u * n \in Int
    BY <2>1
  <2>3. d * n \in Nat /\ d * n > 0
    OBVIOUS
  <2> QED
    BY <2>2, <2>3
<1>2. p < q \/ p = q \/ q < p
  OBVIOUS
<1>3. p * n \in Int /\ q * n \in Int
  OBVIOUS
<1> QED
  BY <1>1, <1>2, <1>3

\* What Percents computes: the whole numbers nearest to a fraction.
LEMMA Nearest ==
  ASSUME NEW num \in Int, NEW den \in Nat \ {0}
  PROVE  \A k : k \in Percents(num, den) <=>
           k \in Int /\ (2 * k - 1) * den <= 20000 * num /\ 20000 * num <= (2 * k + 1) * den
<1> DEFINE t == 10000 * num  below == t \div den
<1>1. t \in Int
  OBVIOUS
<1> HIDE DEF t
<1>2. below \in Int /\ t = den * below + (t % den) /\ t % den \in Int
      /\ 0 <= t % den /\ t % den < den
  BY <1>1
<1> HIDE DEF below
<1>3. den * below = below * den /\ (below + 1) * den = below * den + den /\ below * den \in Int
  BY <1>2
<1>4. below * den <= t /\ t < (below + 1) * den
  BY <1>2, <1>3
<1>5. \A k : k \in Percents(num, den) <=>
        /\ k \in {below, below + 1}
        /\ 2 * (t - k * den) <= den /\ 2 * (k * den - t) <= den
  BY DEF Percents, t, below
<1>6. ASSUME NEW k \in Int
      PROVE  /\ 2 * (t - k * den) <= den <=> 2 * t <= (2 * k + 1) * den
             /\ 2 * (k * den - t) <= den <=> (2 * k - 1) * den <= 2 * t
  <2>1. /\ (2 * k + 1) * den = 2 * (k * den) + den
        /\ (2 * k - 1) * den = 2 * (k * den) - den
        /\ k * den \in Int
    OBVIOUS
  <2> QED
    BY <1>1, <2>1
<1>7. ASSUME NEW k \in Int, (2 * k - 1) * den <= 2 * t, 2 * t <= (2 * k + 1) * den
      PROVE  k \in {below, below + 1}
  <2>1. 2 * below * den <= 2 * t /\ 2 * t < (2 * below + 2) * den
    <3>1. 2 * below * den = 2 * (below * den) /\ (2 * below + 2) * den = 2 * (below * den) + 2 * den
      BY <1>2
    <3> QED
      BY <1>1, <1>3, <1>4, <3>1
  <2>2. /\ (2 * k - 1) * den \in Int /\ (2 * k + 1) * den \in Int
        /\ 2 * below * den \in Int /\ (2 * below + 2) * den \in Int
    BY <1>2
  <2>3. (2 * k - 1) * den < (2 * below + 2) * den /\ 2 * below * den <= (2 * k + 1) * den
    BY <1>1, <1>7, <2>1, <2>2
  <2>4. 2 * k - 1 \in Int /\ 2 * k + 1 \in Int /\ 2 * below \in Int /\ 2 * below + 2 \in Int
    BY <1>2
  <2>5. 2 * k - 1 < 2 * below + 2 /\ 2 * below <= 2 * k + 1
    BY <2>3, <2>4, TimesOrder
  <2> QED
    BY <1>2, <2>5
<1>8. 20000 * num = 2 * t
  BY DEF t
<1>9. below \in Int /\ below + 1 \in Int
  BY <1>2
<1>10. ASSUME NEW k \in Int
       PROVE  k \in Percents(num, den) <=>
                (2 * k - 1) * den <= 2 * t /\ 2 * t <= (2 * k + 1) * den
  <2> HIDE DEF below
  <2> QED
    BY <1>5, <1>6, <1>7
<1>11. \A k : k \in Percents(num, den) => k \in Int
  BY <1>5, <1>9
<1> QED
  BY <1>8, <1>10, <1>11

\* What is shown of the smaller of two changes is no more than what is shown
\* of the larger, unless they are one.
LEMMA PercentsMonotone ==
  ASSUME NEW m \in Int, NEW n \in Int, NEW b \in Nat \ {0}, NEW d \in Nat \ {0},
         m * d <= n * b
  PROVE  AtMost(Percents(m, b), Percents(n, d))
<1>1. /\ m * d \in Int /\ n * b \in Int /\ b * d \in Nat \ {0}
      /\ (20000 * m) * d = 20000 * (m * d) /\ (20000 * n) * b = 20000 * (n * b)
  OBVIOUS
<1>2. \A x \in Int : (x * b) * d = x * (b * d) /\ (x * d) * b = x * (b * d)
  OBVIOUS
<1>3. ASSUME NEW k \in Int
      PROVE  /\ k \in Percents(m, b) <=>
                  /\ (2 * k - 1) * (b * d) <= 20000 * (m * d)
                  /\ 20000 * (m * d) <= (2 * k + 1) * (b * d)
             /\ k \in Percents(n, d) <=>
                  /\ (2 * k - 1) * (b * d) <= 20000 * (n * b)
                  /\ 20000 * (n * b) <= (2 * k + 1) * (b * d)
  <2>1. 2 * k - 1 \in Int /\ 2 * k + 1 \in Int /\ 20000 * m \in Int /\ 20000 * n \in Int
    OBVIOUS
  <2>2. /\ k \in Percents(m, b) <=>
             (2 * k - 1) * b <= 20000 * m /\ 20000 * m <= (2 * k + 1) * b
        /\ k \in Percents(n, d) <=>
             (2 * k - 1) * d <= 20000 * n /\ 20000 * n <= (2 * k + 1) * d
    BY Nearest
  <2>3. /\ (2 * k - 1) * b \in Int /\ (2 * k + 1) * b \in Int
        /\ (2 * k - 1) * d \in Int /\ (2 * k + 1) * d \in Int
    OBVIOUS
  <2>4. /\ (2 * k - 1) * b <= 20000 * m <=> (2 * k - 1) * (b * d) <= 20000 * (m * d)
        /\ 20000 * m <= (2 * k + 1) * b <=> 20000 * (m * d) <= (2 * k + 1) * (b * d)
    <3>1. \A u, v \in Int : u <= v <=> u * d <= v * d
      BY TimesOrder
    <3> QED
      BY <1>1, <1>2, <2>1, <2>3, <3>1
  <2>5. /\ (2 * k - 1) * d <= 20000 * n <=> (2 * k - 1) * (b * d) <= 20000 * (n * b)
        /\ 20000 * n <= (2 * k + 1) * d <=> 20000 * (n * b) <= (2 * k + 1) * (b * d)
    <3>1. \A u, v \in Int : u <= v <=> u * b <= v * b
      BY TimesOrder
    <3> QED
      BY <1>1, <1>2, <2>1, <2>3, <3>1
  <2> QED
    BY <2>2, <2>4, <2>5
<1>4. Percents(m, b) \subseteq Int /\ Percents(n, d) \subseteq Int
  BY Nearest
<1>5. CASE m * d = n * b
  <2>1. \A k \in Int : k \in Percents(m, b) <=> k \in Percents(n, d)
    BY <1>3, <1>5
  <2>2. Percents(m, b) = Percents(n, d)
    BY <1>4, <2>1
  <2> QED
    BY <2>2 DEF AtMost
<1>6. CASE m * d < n * b
  <2> SUFFICES ASSUME NEW k \in Percents(m, b), NEW l \in Percents(n, d)
               PROVE  k <= l
    BY DEF AtMost
  <2>1. k \in Int /\ l \in Int
    BY <1>4
  <2>2. (2 * k - 1) * (b * d) <= 20000 * (m * d) /\ 20000 * (n * b) <= (2 * l + 1) * (b * d)
    BY <1>3, <2>1
  <2>3. /\ 2 * k - 1 \in Int /\ 2 * l + 1 \in Int
        /\ (2 * k - 1) * (b * d) \in Int /\ (2 * l + 1) * (b * d) \in Int
    BY <1>1, <2>1
  <2>4. (2 * k - 1) * (b * d) < (2 * l + 1) * (b * d)
    BY <1>1, <1>6, <2>2, <2>3
  <2>5. 2 * k - 1 < 2 * l + 1
    BY <1>1, <2>3, <2>4, TimesOrder
  <2> QED
    BY <2>1, <2>5
<1> QED
  BY <1>1, <1>5, <1>6

\* What is shown as no more is no more, but for a hundredth of a percent.
LEMMA NearlyMonotone ==
  ASSUME NEW m \in Int, NEW n \in Int, NEW b \in Nat \ {0}, NEW d \in Nat \ {0},
         NEW k \in Percents(m, b), NEW l \in Percents(n, d), ~(k > l)
  PROVE  10000 * m * d <= (10000 * n + d) * b
<1>1. k \in Int /\ l \in Int /\ k <= l
  BY Nearest
<1>2. 20000 * m <= (2 * k + 1) * b /\ (2 * l - 1) * d <= 20000 * n
  BY Nearest
<1>3. (20000 * m) * d <= ((2 * k + 1) * b) * d
  <2>1. 20000 * m \in Int /\ (2 * k + 1) * b \in Int
    BY <1>1
  <2> QED
    BY <1>2, <2>1, TimesOrder
<1>4. ((2 * l - 1) * d) * b <= (20000 * n) * b
  <2>1. 20000 * n \in Int /\ (2 * l - 1) * d \in Int
    BY <1>1
  <2> QED
    BY <1>2, <2>1, TimesOrder
<1>5. k * (b * d) <= l * (b * d)
  <2>1. b * d \in Nat \ {0}
    OBVIOUS
  <2> QED
    BY <1>1, <2>1, TimesOrder
<1>6. /\ (20000 * m) * d = 20000 * (m * d) /\ (20000 * n) * b = 20000 * (n * b)
      /\ ((2 * k + 1) * b) * d = 2 * (k * (b * d)) + b * d
      /\ ((2 * l - 1) * d) * b = 2 * (l * (b * d)) - b * d
      /\ 10000 * m * d = 10000 * (m * d) /\ (10000 * n + d) * b = 10000 * (n * b) + b * d
  BY <1>1
<1>7. /\ m * d \in Int /\ n * b \in Int /\ b * d \in Int
      /\ k * (b * d) \in Int /\ l * (b * d) \in Int
  BY <1>1
<1> QED
  BY <1>3, <1>4, <1>5, <1>6, <1>7

LEMMA OfProduct ==
  ASSUME NEW S, S \subseteq Record, IsFiniteSet(S), NEW p \in Bought(S)
  PROVE  /\ Of(S, p) \subseteq Record /\ IsFiniteSet(Of(S, p)) /\ Of(S, p) # {}
         /\ Cardinality(Of(S, p)) \in Nat
<1>1. Of(S, p) \subseteq S /\ Of(S, p) # {}
  BY DEF Of, Bought
<1>2. IsFiniteSet(Of(S, p))
  BY <1>1, FS_Subset
<1> QED
  BY <1>1, <1>2, FS_CardinalityType

\* The price on the search page and on the product's page.
LEMMA SameCurrentPrice ==
  ASSUME NEW S, S \subseteq Record, IsFiniteSet(S), NEW p \in Bought(S),
         NEW y, Prices(Latest(Of(S, p))) = {y.price}
  PROVE  /\ {s.current : s \in SearchResults(S, p)} = {y.price}
         /\ {DetailPrice(h) : h \in Histories(S, p)} = {y.price}
<1> DEFINE O == Of(S, p)
<1>1. O \subseteq Record /\ IsFiniteSet(O) /\ O # {}
  BY OfProduct
<1>2. {s.current : s \in SearchResults(S, p)} = {y.price}
  <2>1. CurrentPrices(S, p) = {y.price}
    BY DEF CurrentPrices
  <2> DEFINE result(c) ==
               [product |-> p, current |-> c, min |-> Min(Prices(Of(S, p))),
                max |-> Max(Prices(Of(S, p))), last |-> Max({x.day : x \in Of(S, p)})]
  <2>2. SearchResults(S, p) = {result(c) : c \in CurrentPrices(S, p)}
    BY DEF SearchResults
  <2>3. \A c : result(c).current = c
    OBVIOUS
  <2> HIDE DEF result
  <2> QED
    BY <2>1, <2>2, <2>3
<1>3. \A h : h \in Histories(S, p) <=> Sorted(O, h)
  BY DEF Histories, Sorted
<1> HIDE DEF O
<1>4. \A h \in Histories(S, p) : DetailPrice(h) = y.price
  <2> TAKE h \in Histories(S, p)
  <2>1. h # <<>> /\ h[Len(h)] \in Latest(O)
    BY <1>1, <1>3, HistoryEnds
  <2>2. h[Len(h)].price \in {y.price}
    BY <2>1 DEF Prices, O
  <2> QED
    BY <2>1, <2>2 DEF DetailPrice
<1>5. \E h : h \in Histories(S, p)
  BY <1>1, <1>3, SortedExists
<1> QED
  BY <1>2, <1>4, <1>5

\* The rows of a product in the join of first and last records.
LEMMA RisenRows ==
  ASSUME NEW S, NEW p \in Bought(S)
  PROVE  Risen(S, p) =
           {row \in Earliest(Of(S, p)) \X Latest(Of(S, p)) :
              row[2].price > row[1].price /\ Cardinality(Of(S, p)) >= 2}
<1> DEFINE Rows(q) == {row \in Earliest(Of(S, q)) \X Latest(Of(S, q)) :
                         row[2].price > row[1].price /\ Cardinality(Of(S, q)) >= 2}
<1>1. IncreaseRows(S) = UNION {Rows(q) : q \in Bought(S)}
  BY DEF IncreaseRows
<1>2. \A q \in Bought(S) : \A row \in Rows(q) : row[1].product = q
  BY DEF Earliest, Of
<1> HIDE DEF Rows
<1>3. Risen(S, p) = Rows(p)
  BY <1>1, <1>2 DEF Risen
<1> QED
  BY <1>3 DEF Rows

LEMMA OneStoryHolds ==
  ASSUME NEW S, S \subseteq Record, IsFiniteSet(S), NEW p \in Bought(S),
         NEW x \in Earliest(Of(S, p)), NEW y \in Latest(Of(S, p)),
         Prices(Earliest(Of(S, p))) = {x.price}, Prices(Latest(Of(S, p))) = {y.price}
  PROVE  OneStory(S, p, x, y)
<1> DEFINE O == Of(S, p)
<1>1. O \subseteq Record /\ IsFiniteSet(O) /\ Cardinality(O) \in Nat
  BY OfProduct
<1>2. /\ x \in O /\ y \in O /\ x.price \in Nat /\ y.price \in Nat
      /\ y.product = p
  BY <1>1 DEF Earliest, Latest, Of
<1>3. /\ \A z \in Earliest(O) : z.price = x.price
      /\ \A z \in Latest(O) : z.price = y.price
  <2>1. \A z \in Earliest(O) : z.price \in {x.price}
    BY DEF Prices
  <2>2. \A z \in Latest(O) : z.price \in {y.price}
    BY DEF Prices
  <2> QED
    BY <2>1, <2>2
<1>4. \A row \in Risen(S, p) : row[1].price = x.price /\ row[2].price = y.price
                               /\ y.price > x.price
  BY <1>3, RisenRows
<1>5. Risen(S, p) # {} <=> y.price > x.price
  <2> SUFFICES ASSUME y.price > x.price PROVE Risen(S, p) # {}
    BY <1>4
  <2>1. {x, y} \subseteq O /\ x # y
    BY <1>2
  <2>2. Cardinality({x, y}) = 2
    <3>1. IsFiniteSet({x}) /\ Cardinality({x}) = 1
      BY FS_Singleton
    <3>2. {x, y} = {x} \cup {y} /\ y \notin {x}
      BY <2>1
    <3>3. Cardinality({x} \cup {y}) =
            IF y \in {x} THEN Cardinality({x}) ELSE Cardinality({x}) + 1
      BY <3>1, FS_AddElement
    <3>4. Cardinality({x} \cup {y}) = 2
      BY <3>1, <3>2, <3>3
    <3> QED
      BY <3>2, <3>4
  <2>3. Cardinality(O) >= 2
    <3>1. Cardinality({x, y}) <= Cardinality(O)
      BY <1>1, <2>1, FS_Subset
    <3> QED
      BY <1>1, <2>2, <3>1
  <2>4. <<x, y>> \in Risen(S, p)
    BY <2>3, RisenRows
  <2> QED
    BY <2>4
<1>6. ASSUME x.price > 0, NEW row \in Risen(S, p), NEW f \in FirstPrices(S)
      PROVE  IncreasePcts(row) = EntryPcts(f, y)
  <2>1. f[p] = x.price
    <3>1. f[p] \in {x.price}
      BY DEF FirstPrices
    <3> QED
      BY <3>1
  <2> QED
    BY <1>2, <1>4, <1>6, <2>1 DEF IncreasePcts, EntryPcts
<1> QED
  BY <1>5, <1>6, SameCurrentPrice DEF OneStory

\* A product bought once on its first and on its last date is listed once.
LEMMA RisenOnce ==
  ASSUME NEW S, NEW p \in Bought(S), NEW x, NEW y,
         Earliest(Of(S, p)) = {x}, Latest(Of(S, p)) = {y}
  PROVE  Cardinality(Risen(S, p)) <= 1
<1>1. Risen(S, p) \subseteq {<<x, y>>}
  BY RisenRows
<1>2. IsFiniteSet({<<x, y>>}) /\ Cardinality({<<x, y>>}) = 1
  BY FS_Singleton
<1>3. Cardinality(Risen(S, p)) <= Cardinality({<<x, y>>})
  BY <1>1, <1>2, FS_Subset
<1> QED
  BY <1>2, <1>3

LEMMA RisenType ==
  ASSUME NEW S, S \subseteq Record, NEW row \in IncreaseRows(S)
  PROVE  row[1] \in Record /\ row[2] \in Record /\ row[2].price > row[1].price
<1>1. PICK p \in Bought(S) :
        row \in {r \in Earliest(Of(S, p)) \X Latest(Of(S, p)) :
                   r[2].price > r[1].price /\ Cardinality(Of(S, p)) >= 2}
  BY DEF IncreaseRows
<1> QED
  BY <1>1 DEF Earliest, Latest, Of

\* What the list of increases leaves out has not risen more than a hundredth
\* of a percent above what it shows.
LEMMA IncreasesRanked ==
  ASSUME NEW S, S \subseteq Record, ~DividesByZero(S),
         NEW list \in BiggestIncreases(S),
         NEW row \in IncreaseRows(S) \ DOMAIN list, NEW listed \in DOMAIN list
  PROVE  RisenNoMore(row, listed)
<1> DEFINE R == IncreaseRows(S)
<1>1. PICK pct, T : /\ \A a \in R : pct[a] \in IncreasePcts(a)
                    /\ T \in SUBSET R /\ list = [a \in T |-> pct[a]]
                    /\ \A a \in R \ T, b \in T : ~(pct[a] > pct[b])
  BY DEF BiggestIncreases
<1>2. /\ row \in R /\ listed \in R /\ ~(pct[row] > pct[listed])
      /\ pct[row] \in IncreasePcts(row) /\ pct[listed] \in IncreasePcts(listed)
  BY <1>1
<1>3. ASSUME NEW r \in R
      PROVE  r[1].price \in Nat \ {0} /\ r[2].price - r[1].price \in Int
  BY RisenType DEF DividesByZero
<1>4. RisenNoMore(row, listed) <=>
        10000 * (row[2].price - row[1].price) * listed[1].price
          <= (10000 * (listed[2].price - listed[1].price) + listed[1].price) * row[1].price
  BY DEF RisenNoMore, Rise
<1> QED
  BY <1>2, <1>3, <1>4, NearlyMonotone DEF IncreasePcts

\* The products of a finite set of records.
LEMMA BoughtFinite ==
  ASSUME NEW S, IsFiniteSet(S)
  PROVE  IsFiniteSet(Bought(S))
<1> DEFINE f == [x \in S |-> x.product]
<1>1. f \in Surjection(S, Bought(S))
  BY DEF Surjection, Bought
<1> HIDE DEF f
<1> QED
  BY <1>1, FS_Surjection

\* What the list of the most purchased leaves out was not bought more often.
LEMMA PurchasesRanked ==
  ASSUME NEW S, S \subseteq Record, IsFiniteSet(S),
         NEW p \in Bought(S) \ MostPurchased(S), NEW q \in MostPurchased(S)
  PROVE  Cardinality(Of(S, p)) <= Cardinality(Of(S, q))
<1> DEFINE count(a) == Cardinality(Of(S, a))
           before(a, b) == count(a) > count(b) \/ (count(a) = count(b) /\ a < b)
           Before(b) == {a \in Bought(S) : before(a, b)}
<1>1. MostPurchased(S) = {a \in Bought(S) : Cardinality(Before(a)) < Limit}
  BY DEF MostPurchased
<1>2. q \in Bought(S) /\ \A a \in Bought(S) : count(a) \in Nat
  BY <1>1, OfProduct
<1> SUFFICES ASSUME count(p) > count(q) PROVE FALSE
  BY <1>2
<1>3. Before(p) \subseteq Before(q)
  <2> SUFFICES ASSUME NEW a \in Bought(S), before(a, p) PROVE before(a, q)
    OBVIOUS
  <2>1. count(a) \in Nat /\ count(p) \in Nat /\ count(q) \in Nat
    BY <1>2
  <2>2. count(a) >= count(p)
    BY <2>1
  <2> HIDE DEF count
  <2> QED
    BY <2>1, <2>2
<1>4. IsFiniteSet(Before(p)) /\ IsFiniteSet(Before(q))
  <2>1. IsFiniteSet(Bought(S)) /\ Before(p) \subseteq Bought(S) /\ Before(q) \subseteq Bought(S)
    BY BoughtFinite
  <2> HIDE DEF Before
  <2> QED
    BY <2>1, FS_Subset
<1>5. Cardinality(Before(p)) < Limit
  <2> HIDE DEF Before
  <2>1. Cardinality(Before(p)) <= Cardinality(Before(q))
    BY <1>3, <1>4, FS_Subset
  <2>2. Cardinality(Before(p)) \in Nat /\ Cardinality(Before(q)) \in Nat
    BY <1>4, FS_CardinalityType
  <2>3. Cardinality(Before(q)) < Limit
    BY <1>1
  <2> QED
    BY <2>1, <2>2, <2>3, BoundsAssumption
<1> QED
  BY <1>1, <1>5

LEMMA RankedHolds ==
  ASSUME NEW S, S \subseteq Record, IsFiniteSet(S), NEW p \in Bought(S)
  PROVE  Ranked(S, p)
<1>1. ASSUME ~DividesByZero(S), NEW list \in BiggestIncreases(S),
             NEW row \in Risen(S, p) \ DOMAIN list, NEW listed \in DOMAIN list
      PROVE  RisenNoMore(row, listed)
  <2>1. row \in IncreaseRows(S) \ DOMAIN list
    BY DEF Risen
  <2> QED
    BY <1>1, <2>1, IncreasesRanked
<1>2. ASSUME p \notin MostPurchased(S), NEW q \in MostPurchased(S),
             NEW h \in Histories(S, p), NEW g \in Histories(S, q)
      PROVE  Len(h) <= Len(g)
  <2>1. q \in Bought(S)
    BY DEF MostPurchased
  <2>2. Sorted(Of(S, p), h) /\ Sorted(Of(S, q), g)
    BY DEF Histories, Sorted
  <2>3. Len(h) = Cardinality(Of(S, p))
    BY <2>2, OfProduct, HistoryEnds
  <2>4. Len(g) = Cardinality(Of(S, q))
    BY <2>1, <2>2, OfProduct, HistoryEnds
  <2> QED
    BY <1>2, <2>3, <2>4, PurchasesRanked
<1> QED
  BY <1>1, <1>2 DEF Ranked

\* Rows are finitely many.
FiniteRows ==
  IsFiniteSet(records) /\ \A r \in Request : IsFiniteSet(rows[r])

LEMMA FiniteStep == TypeOK /\ FiniteRows /\ [Next]_vars => FiniteRows'
<1> SUFFICES ASSUME TypeOK, FiniteRows, [Next]_vars PROVE FiniteRows'
  OBVIOUS
<1>1. ASSUME records' = records, rows' = rows PROVE FiniteRows'
  BY <1>1 DEF FiniteRows
<1>2. ASSUME NEW t \in Receipt, Import(t) PROVE FiniteRows'
  <2> DEFINE N == Len(t.lines)
             row(k) == [id |-> nextId + k - 1, product |-> t.lines[k].product,
                        price |-> t.lines[k].price, day |-> t.day, owner |-> t.owner]
             f == [k \in 1..N |-> row(k)]
  <2>1. N \in Nat /\ DOMAIN t.lines = 1..N
    BY ReceiptAssumption
  <2>2. records' = records \cup {row(k) : k \in 1..N}
    BY <1>2, <2>1 DEF Import
  <2>3. f \in Surjection(1..N, {row(k) : k \in 1..N})
    BY DEF Surjection
  <2>4. IsFiniteSet(1..N)
    BY <2>1, FS_Interval
  <2> HIDE DEF f
  <2>5. IsFiniteSet({row(k) : k \in 1..N})
    BY <2>3, <2>4, FS_Surjection
  <2> HIDE DEF row
  <2>6. IsFiniteSet(records')
    BY <2>2, <2>5, FS_Union DEF FiniteRows
  <2>7. rows' = rows
    BY <1>2 DEF Import
  <2> QED
    BY <2>6, <2>7 DEF FiniteRows
<1>3. ASSUME NEW u \in User, NEW h \in Household \cup {NoHousehold}, Move(u, h)
      PROVE  FiniteRows'
  BY <1>1, <1>3 DEF Move
<1>4. ASSUME NEW r \in Request, Handle(r) PROVE FiniteRows'
  <2>1. ASSUME NEW u \in Caller, NEW k \in Kind, NEW t \in Targets(k), Begin(r, u, k, t)
        PROVE  FiniteRows'
    BY <1>1, <2>1 DEF Begin
  <2>2. CASE ReadHousehold(r) \/ ReadMembers(r) \/ Fail(r)
    BY <1>1, <2>2 DEF ReadHousehold, ReadMembers, Fail
  <2>3. CASE Read(r)
    <3>1. /\ records' = records /\ rows'[r] \subseteq records
          /\ \A q \in Request \ {r} : rows'[q] = rows[q]
      BY <2>3 DEF Read, Visible, TypeOK
    <3>2. IsFiniteSet(rows'[r])
      BY <3>1, FS_Subset DEF FiniteRows
    <3> QED
      BY <3>1, <3>2 DEF FiniteRows
  <2>4. CASE Delete(r)
    <3>1. records' \subseteq records /\ rows' = rows
      BY <2>4 DEF Delete
    <3>2. IsFiniteSet(records')
      BY <3>1, FS_Subset DEF FiniteRows
    <3> QED
      BY <3>1, <3>2 DEF FiniteRows
  <2>5. CASE End(r)
    <3>1. records' = records /\ \A q \in Request : rows'[q] \in {{}, rows[q]}
      BY <2>5 DEF End, TypeOK
    <3> QED
      BY <3>1, FS_EmptySet DEF FiniteRows
  <2> QED
    BY <1>4, <2>1, <2>2, <2>3, <2>4, <2>5 DEF Handle
<1>5. CASE UNCHANGED vars
  BY <1>1, <1>5 DEF vars
<1> QED
  BY <1>2, <1>3, <1>4, <1>5 DEF Next

LEMMA AnalysedFinite ==
  ASSUME TypeOK, FiniteRows, NEW S \in Analysed
  PROVE  S \subseteq Record /\ IsFiniteSet(S)
BY DEF TypeOK, FiniteRows, Analysed

LEMMA Agreement == TypeOK /\ FiniteRows => QueriesAgree
<1> SUFFICES ASSUME TypeOK, FiniteRows, NEW S \in Analysed, NEW p \in Bought(S)
             PROVE  LET first == Earliest(Of(S, p))
                        last  == Latest(Of(S, p))
                        once(R) == Cardinality(R) = 1
                    IN  /\ once(Prices(first)) /\ once(Prices(last)) =>
                             \A x \in first, y \in last : OneStory(S, p, x, y)
                        /\ once(first) /\ once(last) => Cardinality(Risen(S, p)) <= 1
                        /\ Ranked(S, p)
  BY DEF QueriesAgree
<1> DEFINE O == Of(S, p)
<1>1. S \subseteq Record /\ IsFiniteSet(S)
  BY AnalysedFinite
<1>2. IsFiniteSet(Earliest(O)) /\ IsFiniteSet(Latest(O))
  <2>1. IsFiniteSet(O) /\ Earliest(O) \subseteq O /\ Latest(O) \subseteq O
    BY <1>1, OfProduct DEF Earliest, Latest
  <2> HIDE DEF O
  <2> QED
    BY <2>1, FS_Subset
<1>3. ASSUME NEW R, IsFiniteSet(R) PROVE IsFiniteSet(Prices(R))
  <2> DEFINE f == [x \in R |-> x.price]
  <2>1. f \in Surjection(R, Prices(R))
    BY DEF Surjection, Prices
  <2> HIDE DEF f
  <2> QED
    BY <1>3, <2>1, FS_Surjection
<1>4. ASSUME Cardinality(Prices(Earliest(O))) = 1, Cardinality(Prices(Latest(O))) = 1,
             NEW x \in Earliest(O), NEW y \in Latest(O)
      PROVE  OneStory(S, p, x, y)
  <2>1. /\ \E a : Prices(Earliest(O)) = {a}
        /\ \E a : Prices(Latest(O)) = {a}
    BY <1>2, <1>3, <1>4, FS_Singleton
  <2>2. x.price \in Prices(Earliest(O)) /\ y.price \in Prices(Latest(O))
    BY DEF Prices
  <2>3. Prices(Earliest(O)) = {x.price} /\ Prices(Latest(O)) = {y.price}
    BY <2>1, <2>2
  <2> QED
    BY <1>1, <2>3, OneStoryHolds
<1>5. ASSUME Cardinality(Earliest(O)) = 1, Cardinality(Latest(O)) = 1
      PROVE  Cardinality(Risen(S, p)) <= 1
  <2>1. (\E x : Earliest(O) = {x}) /\ (\E y : Latest(O) = {y})
    BY <1>2, <1>5, FS_Singleton
  <2> QED
    BY <2>1, RisenOnce
<1>6. Ranked(S, p)
  BY <1>1, RankedHolds
<1> QED
  BY <1>4, <1>5, <1>6

-----------------------------------------------------------------------------
(* The basket index.                                                       *)

\* iter sums g over the subsets of S.
Sums(iter, g, S) ==
  iter = [s \in SUBSET S |->
            IF s = {} THEN 0
            ELSE g[CHOOSE x \in s : TRUE] + iter[s \ {CHOOSE x \in s : TRUE}]]

LEMMA SumsAgree ==
  ASSUME NEW S, IsFiniteSet(S), NEW A \in SUBSET S, NEW B \in SUBSET S, NEW g,
         NEW i, NEW j, Sums(i, g, A), Sums(j, g, B),
         NEW U \in SUBSET A, U \in SUBSET B
  PROVE  i[U] = j[U]
<1> DEFINE T == {s \in SUBSET S : s \subseteq A /\ s \subseteq B /\ i[s] # j[s]}
<1> SUFFICES ASSUME T # {} PROVE FALSE
  OBVIOUS
<1>1. PICK s \in T : \A r \in T : r \subseteq s => r = s
  <2>1. T \subseteq SUBSET S
    OBVIOUS
  <2> HIDE DEF T
  <2> QED
    BY <2>1, MinimalSet
<1>2. s \in SUBSET A /\ s \in SUBSET B /\ i[s] # j[s]
  OBVIOUS
<1> DEFINE c == CHOOSE x \in s : TRUE
<1>3. /\ i[s] = IF s = {} THEN 0 ELSE g[c] + i[s \ {c}]
      /\ j[s] = IF s = {} THEN 0 ELSE g[c] + j[s \ {c}]
  BY <1>2 DEF Sums
<1>4. s # {} /\ c \in s
  BY <1>2, <1>3
<1>5. s \ {c} \notin T
  BY <1>1, <1>4
<1>6. i[s \ {c}] = j[s \ {c}]
  BY <1>1, <1>5
<1> QED
  BY <1>2, <1>3, <1>4, <1>6

LEMMA SumsExist ==
  ASSUME NEW S, IsFiniteSet(S), NEW g
  PROVE  \E iter : Sums(iter, g, S)
<1> DEFINE T == {A \in SUBSET S : ~\E iter : Sums(iter, g, A)}
<1> SUFFICES ASSUME T # {} PROVE FALSE
  OBVIOUS
<1>1. PICK A \in T : \A B \in T : B \subseteq A => B = A
  <2>1. T \subseteq SUBSET S
    OBVIOUS
  <2> HIDE DEF T
  <2> QED
    BY <2>1, MinimalSet
<1>2. A \in SUBSET S /\ ~\E iter : Sums(iter, g, A)
  OBVIOUS
<1> DEFINE part(B) == CHOOSE iter : Sums(iter, g, B)
           first(s) == CHOOSE x \in s : TRUE
           below(s) == part(s)[s]
           sum(s) == IF s = {} THEN 0 ELSE g[first(s)] + below(s \ {first(s)})
           all == [s \in SUBSET A |-> sum(s)]
<1>3. \A B \in SUBSET A : B # A => Sums(part(B), g, B)
  <2> TAKE B \in SUBSET A
  <2> HAVE B # A
  <2>1. \E iter : Sums(iter, g, B)
    BY <1>1, <1>2
  <2> QED
    BY <2>1
<1> HIDE DEF part
<1>4. \A s \in SUBSET A : s # {} => first(s) \in s
  OBVIOUS
<1>5. \A B \in SUBSET A : B # A => below(B) = sum(B)
  <2> TAKE B \in SUBSET A
  <2> HAVE B # A
  <2>1. Sums(part(B), g, B)
    BY <1>3
  <2>2. part(B)[B] = IF B = {} THEN 0 ELSE g[first(B)] + part(B)[B \ {first(B)}]
    BY <2>1 DEF Sums
  <2>3. CASE B = {}
    BY <2>2, <2>3
  <2>4. CASE B # {}
    <3> DEFINE C == B \ {first(B)}
    <3>1. C \in SUBSET A /\ C # A /\ C \in SUBSET B
      BY <1>4, <2>4
    <3>2. Sums(part(C), g, C)
      BY <1>3, <3>1
    <3>3. part(B)[C] = part(C)[C]
      <4>1. B \in SUBSET S /\ C \in SUBSET S /\ C \in SUBSET C
        BY <1>2, <3>1
      <4> HIDE DEF C
      <4> QED
        BY <2>1, <3>1, <3>2, <4>1, SumsAgree
    <3> QED
      BY <2>2, <2>4, <3>3
  <2> QED
    BY <2>3, <2>4
<1>6. \A s \in SUBSET A : s # {} => below(s \ {first(s)}) = all[s \ {first(s)}]
  <2> TAKE s \in SUBSET A
  <2> HAVE s # {}
  <2>1. s \ {first(s)} \in SUBSET A /\ s \ {first(s)} # A
    BY <1>4
  <2> HIDE DEF first, below, sum
  <2> QED
    BY <1>5, <2>1
<1>7. \A s \in SUBSET A : all[s] = IF s = {} THEN 0 ELSE g[first(s)] + all[s \ {first(s)}]
  <2> TAKE s \in SUBSET A
  <2>1. all[s] = IF s = {} THEN 0 ELSE g[first(s)] + below(s \ {first(s)})
    OBVIOUS
  <2> HIDE DEF first, below, all
  <2> QED
    BY <1>6, <2>1
<1>8. all = [s \in SUBSET A |-> IF s = {} THEN 0 ELSE g[first(s)] + all[s \ {first(s)}]]
  <2>1. all = [s \in SUBSET A |-> all[s]]
    OBVIOUS
  <2> HIDE DEF first, all
  <2> QED
    BY <1>7, <2>1
<1>9. Sums(all, g, A)
  <2> HIDE DEF all
  <2> QED
    BY <1>8 DEF Sums
<1> QED
  BY <1>2, <1>9

\* Sums are natural numbers, and are in a proportion that all terms are in.
LEMMA SumsBound ==
  ASSUME NEW S, IsFiniteSet(S), NEW a \in [S -> Nat], NEW b \in [S -> Nat],
         NEW m \in Nat, NEW n \in Nat, \A x \in S : a[x] * m <= b[x] * n,
         NEW i, NEW j, Sums(i, a, S), Sums(j, b, S)
  PROVE  i[S] \in Nat /\ j[S] \in Nat /\ i[S] * m <= j[S] * n
<1> DEFINE Ok(s) == i[s] \in Nat /\ j[s] \in Nat /\ i[s] * m <= j[s] * n
           T == {s \in SUBSET S : ~Ok(s)}
<1> SUFFICES ASSUME T # {} PROVE FALSE
  OBVIOUS
<1>1. PICK s \in T : \A r \in T : r \subseteq s => r = s
  <2>1. T \subseteq SUBSET S
    OBVIOUS
  <2> HIDE DEF T
  <2> QED
    BY <2>1, MinimalSet
<1>2. s \in SUBSET S /\ ~Ok(s)
  OBVIOUS
<1> DEFINE c == CHOOSE x \in s : TRUE
<1>3. /\ i[s] = IF s = {} THEN 0 ELSE a[c] + i[s \ {c}]
      /\ j[s] = IF s = {} THEN 0 ELSE b[c] + j[s \ {c}]
  BY <1>2 DEF Sums
<1>4. CASE s = {}
  BY <1>2, <1>3, <1>4
<1>5. CASE s # {}
  <2>1. c \in s /\ c \in S
    BY <1>2, <1>5
  <2>2. Ok(s \ {c})
    <3>1. s \ {c} \in SUBSET S /\ s \ {c} # s
      BY <1>2, <2>1
    <3> HIDE DEF Ok, c
    <3> QED
      BY <1>1, <3>1
  <2> DEFINE p == i[s \ {c}]  q == j[s \ {c}]
  <2>3. /\ i[s] = a[c] + p /\ j[s] = b[c] + q
        /\ p \in Nat /\ q \in Nat /\ p * m <= q * n
        /\ a[c] \in Nat /\ b[c] \in Nat /\ a[c] * m <= b[c] * n
    BY <1>3, <1>5, <2>1, <2>2
  <2> HIDE DEF p, q, c
  <2>4. (a[c] + p) * m = a[c] * m + p * m /\ (b[c] + q) * n = b[c] * n + q * n
    BY <2>3
  <2>5. (a[c] + p) * m <= (b[c] + q) * n
    <3>1. a[c] * m \in Nat /\ p * m \in Nat /\ b[c] * n \in Nat /\ q * n \in Nat
      BY <2>3
    <3> QED
      BY <2>3, <2>4, <3>1
  <2> QED
    BY <1>2, <2>3, <2>5
<1> QED
  BY <1>4, <1>5

\* A sum is not less than a term.
LEMMA SumsPositive ==
  ASSUME NEW S, IsFiniteSet(S), NEW b \in [S -> Nat], NEW e \in S, b[e] # 0,
         NEW j, Sums(j, b, S)
  PROVE  j[S] # 0
<1> DEFINE Ok(s) == j[s] \in Nat /\ (e \in s => j[s] # 0)
           T == {s \in SUBSET S : ~Ok(s)}
<1> SUFFICES ASSUME T # {} PROVE FALSE
  OBVIOUS
<1>1. PICK s \in T : \A r \in T : r \subseteq s => r = s
  <2>1. T \subseteq SUBSET S
    OBVIOUS
  <2> HIDE DEF T
  <2> QED
    BY <2>1, MinimalSet
<1>2. s \in SUBSET S /\ ~Ok(s)
  OBVIOUS
<1> DEFINE c == CHOOSE x \in s : TRUE
<1>3. j[s] = IF s = {} THEN 0 ELSE b[c] + j[s \ {c}]
  BY <1>2 DEF Sums
<1>4. CASE s = {}
  BY <1>2, <1>3, <1>4
<1>5. CASE s # {}
  <2>1. c \in s /\ c \in S
    BY <1>2, <1>5
  <2>2. Ok(s \ {c})
    <3>1. s \ {c} \in SUBSET S /\ s \ {c} # s
      BY <1>2, <2>1
    <3> HIDE DEF Ok, c
    <3> QED
      BY <1>1, <3>1
  <2>3. b[c] \in Nat /\ (e = c => b[c] # 0)
    BY <2>1
  <2> HIDE DEF c
  <2> QED
    BY <1>2, <1>3, <1>5, <2>2, <2>3
<1> QED
  BY <1>4, <1>5

\* How the fold of the community modules sums.
LEMMA SumOfPrices ==
  ASSUME NEW E, IsFiniteSet(E), NEW a, a = [x \in E |-> x.price]
  PROVE  \E iter : /\ Sums(iter, a, E)
                   /\ MapThenSumSet(LAMBDA x : x.price, E) = iter[E]
<1> DEFINE Def(iter) ==
             [s \in SUBSET E |->
                IF s = {} THEN 0
                ELSE (CHOOSE x \in s : TRUE).price + iter[s \ {CHOOSE x \in s : TRUE}]]
           it == CHOOSE iter : iter = Def(iter)
<1>1. \A iter : Sums(iter, a, E) <=> iter = Def(iter)
  <2> TAKE iter
  <2>1. \A s \in SUBSET E : s # {} => (CHOOSE x \in s : TRUE) \in E
    OBVIOUS
  <2> QED
    BY <2>1 DEF Sums
<1>2. MapThenSumSet(LAMBDA x : x.price, E) = it[E]
  BY DEF MapThenSumSet, MapThenFoldSet
<1> HIDE DEF Def
<1>3. it = Def(it)
  BY <1>1, SumsExist
<1> HIDE DEF it
<1> QED
  BY <1>1, <1>2, <1>3

SumFirsts(f, E) == MapThenSumSet(LAMBDA x : f[x.product], E)

LEMMA SumOfFirsts ==
  ASSUME NEW E, IsFiniteSet(E), NEW f, NEW b, b = [x \in E |-> f[x.product]]
  PROVE  \E iter : Sums(iter, b, E) /\ SumFirsts(f, E) = iter[E]
<1> DEFINE Def(iter) ==
             [s \in SUBSET E |->
                IF s = {} THEN 0
                ELSE f[(CHOOSE x \in s : TRUE).product]
                       + iter[s \ {CHOOSE x \in s : TRUE}]]
           it == CHOOSE iter : iter = Def(iter)
<1>1. \A iter : Sums(iter, b, E) <=> iter = Def(iter)
  <2> TAKE iter
  <2>1. \A s \in SUBSET E : s # {} => (CHOOSE x \in s : TRUE) \in E
    OBVIOUS
  <2> QED
    BY <2>1 DEF Sums
<1>2. SumFirsts(f, E) = it[E]
  BY DEF SumFirsts, MapThenSumSet, MapThenFoldSet
<1> HIDE DEF Def
<1>3. it = Def(it)
  BY <1>1, SumsExist
<1> HIDE DEF it
<1> QED
  BY <1>1, <1>2, <1>3

\* x has the least, and y the greatest a of its b.
Extreme(E, a, b, x, y) ==
  /\ b[x] # 0 /\ b[y] # 0
  /\ \A z \in E : b[z] * a[x] <= a[z] * b[x] /\ a[z] * b[y] <= b[z] * a[y]

\* Where a is 0 wherever b is, a finite set has such elements.
LEMMA Extremes ==
  ASSUME NEW E, IsFiniteSet(E), NEW a \in [E -> Nat], NEW b \in [E -> Nat],
         NEW e \in E, b[e] # 0, \A x \in E : b[x] = 0 => a[x] = 0
  PROVE  \E x, y \in E : Extreme(E, a, b, x, y)
<1> DEFINE D == {x \in E : b[x] # 0}
           L == {pair \in D \X D : a[pair[1]] * b[pair[2]] < a[pair[2]] * b[pair[1]]}
           G == {pair \in D \X D : a[pair[1]] * b[pair[2]] > a[pair[2]] * b[pair[1]]}
<1>1. IsFiniteSet(D) /\ D # {}
  <2>1. D \subseteq E /\ e \in D
    OBVIOUS
  <2> HIDE DEF D
  <2> QED
    BY <2>1, FS_Subset
<1>2. \A x \in D : a[x] \in Nat /\ b[x] \in Nat \ {0}
  OBVIOUS
<1>3. /\ \A x, y \in D : <<x, y>> \in L <=> a[x] * b[y] < a[y] * b[x]
      /\ \A x, y \in D : <<x, y>> \in G <=> a[x] * b[y] > a[y] * b[x]
  OBVIOUS
<1>4. \A x, y \in D : a[x] * b[y] \in Nat
  BY <1>2
<1>5. ASSUME NEW z \in E, z \notin D PROVE b[z] = 0 /\ a[z] = 0
  BY <1>5
<1>6. \A z \in E : a[z] \in Nat /\ b[z] \in Nat
  OBVIOUS
<1>7. D \subseteq E
  OBVIOUS
<1> HIDE DEF D, L, G
<1>8. \A x, y, z \in D :
        a[x] * b[y] > a[y] * b[x] /\ a[y] * b[z] > a[z] * b[y]
          => a[x] * b[z] > a[z] * b[x]
  <2> TAKE x, y, z \in D
  <2> HAVE a[x] * b[y] > a[y] * b[x] /\ a[y] * b[z] > a[z] * b[y]
  <2>1. a[x] * b[y] >= a[y] * b[x] /\ a[y] * b[z] >= a[z] * b[y]
    BY <1>4
  <2> QED
    BY <1>2, <2>1, FractionOrder
<1>9. PICK x \in D : \A y \in D : ~(a[y] * b[x] < a[x] * b[y])
  <2>1. /\ \A u \in D : <<u, u>> \notin L
        /\ \A u, v, w \in D : <<u, v>> \in L /\ <<v, w>> \in L => <<u, w>> \in L
    <3>1. \A u \in D : <<u, u>> \notin L
      BY <1>3, <1>4
    <3>2. ASSUME NEW u \in D, NEW v \in D, NEW w \in D, <<u, v>> \in L, <<v, w>> \in L
          PROVE  <<u, w>> \in L
      <4>1. a[v] * b[u] > a[u] * b[v] /\ a[w] * b[v] > a[v] * b[w]
        BY <1>3, <1>4, <3>2
      <4>2. a[w] * b[u] > a[u] * b[w]
        BY <1>8, <4>1
      <4> QED
        BY <1>3, <1>4, <4>2
    <3> QED
      BY <3>1, <3>2
  <2>2. PICK x \in D : \A y \in D : <<y, x>> \notin L
    BY <1>1, <2>1, FirstOfOrder
  <2> QED
    BY <1>3, <2>2
<1>10. PICK y \in D : \A z \in D : ~(a[z] * b[y] > a[y] * b[z])
  <2>1. /\ \A u \in D : <<u, u>> \notin G
        /\ \A u, v, w \in D : <<u, v>> \in G /\ <<v, w>> \in G => <<u, w>> \in G
    <3>1. \A u \in D : <<u, u>> \notin G
      BY <1>3, <1>4
    <3> QED
      BY <1>3, <1>8, <3>1
  <2>2. PICK y \in D : \A z \in D : <<z, y>> \notin G
    BY <1>1, <2>1, FirstOfOrder
  <2> QED
    BY <1>3, <2>2
<1>11. ASSUME NEW z \in E
       PROVE  b[z] * a[x] <= a[z] * b[x] /\ a[z] * b[y] <= b[z] * a[y]
  <2>1. CASE z \in D
    <3>1. /\ a[z] * b[x] \in Nat /\ a[x] * b[z] \in Nat
          /\ a[z] * b[y] \in Nat /\ a[y] * b[z] \in Nat
      BY <1>4, <2>1
    <3>2. b[z] * a[x] = a[x] * b[z] /\ b[z] * a[y] = a[y] * b[z]
      BY <1>2, <2>1
    <3> QED
      BY <1>9, <1>10, <2>1, <3>1, <3>2
  <2>2. CASE z \notin D
    BY <1>2, <1>5, <2>2
  <2> QED
    BY <2>1, <2>2
<1>12. Extreme(E, a, b, x, y)
  BY <1>2, <1>11 DEF Extreme
<1> QED
  BY <1>7, <1>12

LEMMA IndexBetween ==
  ASSUME NEW E, IsFiniteSet(E), NEW e \in E, E \subseteq Record,
         NEW f, \A x \in E : f[x.product] \in Nat,
         \A x \in E : f[x.product] = 0 => x.price = 0,
         NEW S, NEW d, E = {x \in S : x.day = d}
  PROVE  \E x, y \in E :
           /\ AtMost(EntryPcts(f, x), BasketPcts(S, f, d))
           /\ AtMost(BasketPcts(S, f, d), EntryPcts(f, y))
<1> DEFINE a == [x \in E |-> x.price]
           b == [x \in E |-> f[x.product]]
           current == MapThenSumSet(LAMBDA x : x.price, E)
           sum     == SumFirsts(f, E)
<1>1. a \in [E -> Nat] /\ b \in [E -> Nat]
  OBVIOUS
<1>2. PICK i : Sums(i, a, E) /\ current = i[E]
  BY SumOfPrices
<1>3. PICK j : Sums(j, b, E) /\ sum = j[E]
  BY SumOfFirsts
<1>4. BasketPcts(S, f, d) = IF sum > 0 THEN Percents(current - sum, sum) ELSE {0}
  BY DEF BasketPcts, SumFirsts
<1>5. \A x \in E : /\ a[x] = x.price /\ b[x] = f[x.product]
                   /\ EntryPcts(f, x) =
                        IF b[x] > 0 THEN Percents(a[x] - b[x], b[x]) ELSE {0}
  BY DEF EntryPcts
<1>6. \A x \in E : b[x] = 0 => a[x] = 0
  OBVIOUS
<1> HIDE DEF a, b, current, sum
<1>7. \A m, n \in Nat : (\A x \in E : a[x] * m <= b[x] * n) => current * m <= sum * n
  BY <1>1, <1>2, <1>3, SumsBound
<1>8. \A m, n \in Nat : (\A x \in E : b[x] * m <= a[x] * n) => sum * m <= current * n
  BY <1>1, <1>2, <1>3, SumsBound
<1>9. current \in Nat /\ sum \in Nat
  <2>1. 0 \in Nat /\ \A x \in E : a[x] * 0 <= b[x] * 0
    BY <1>1
  <2> QED
    BY <1>1, <1>2, <1>3, <2>1, SumsBound
<1>10. CASE \E x \in E : b[x] # 0
  <2>1. PICK x \in E, y \in E : Extreme(E, a, b, x, y)
    <3>1. PICK z \in E : b[z] # 0
      BY <1>10
    <3> QED
      BY <1>1, <1>6, <3>1, Extremes
  <2>2. a[x] \in Nat /\ a[y] \in Nat /\ b[x] \in Nat \ {0} /\ b[y] \in Nat \ {0}
    BY <1>1, <2>1 DEF Extreme
  <2>3. sum # 0
    BY <1>1, <1>3, <2>2, SumsPositive
  <2>4. sum * a[x] <= current * b[x] /\ current * b[y] <= sum * a[y]
    BY <1>7, <1>8, <2>1, <2>2 DEF Extreme
  <2>5. /\ AtMost(Percents(a[x] - b[x], b[x]), Percents(current - sum, sum))
        /\ AtMost(Percents(current - sum, sum), Percents(a[y] - b[y], b[y]))
    <3>1. /\ (a[x] - b[x]) * sum = a[x] * sum - b[x] * sum
          /\ (current - sum) * b[x] = current * b[x] - b[x] * sum
          /\ (current - sum) * b[y] = current * b[y] - b[y] * sum
          /\ (a[y] - b[y]) * sum = a[y] * sum - b[y] * sum
      BY <1>9, <2>2
    <3>2. /\ a[x] * sum \in Int /\ b[x] * sum \in Int /\ current * b[x] \in Int
          /\ a[y] * sum \in Int /\ b[y] * sum \in Int /\ current * b[y] \in Int
          /\ a[x] * sum = sum * a[x] /\ a[y] * sum = sum * a[y]
      BY <1>9, <2>2
    <3>3. /\ (a[x] - b[x]) * sum <= (current - sum) * b[x]
          /\ (current - sum) * b[y] <= (a[y] - b[y]) * sum
      BY <2>4, <3>1, <3>2
    <3>4. a[x] - b[x] \in Int /\ a[y] - b[y] \in Int /\ current - sum \in Int
          /\ sum \in Nat \ {0}
      BY <1>9, <2>2, <2>3
    <3> QED
      BY <2>2, <3>3, <3>4, PercentsMonotone
  <2> QED
    BY <1>4, <1>5, <1>9, <2>2, <2>3, <2>5
<1>11. CASE \A x \in E : b[x] = 0
  <2>1. sum = 0
    <3>1. \A x \in E : b[x] * 1 <= a[x] * 0
      BY <1>1, <1>11
    <3>2. sum * 1 <= current * 0
      BY <1>8, <3>1
    <3> QED
      BY <1>9, <3>2
  <2>2. EntryPcts(f, e) = {0} /\ BasketPcts(S, f, d) = {0}
    BY <1>4, <1>5, <1>11, <2>1
  <2> QED
    BY <2>2 DEF AtMost
<1> QED
  BY <1>10, <1>11

LEMMA IndexHolds == TypeOK /\ FiniteRows => IndexWithinProducts
<1> SUFFICES ASSUME TypeOK, FiniteRows, NEW S \in Analysed,
                    NEW f \in FirstPrices(S), NEW e \in S
             PROVE  LET E == {x \in S : x.day = e.day}
                    IN  (\A x \in E : f[x.product] = 0 => x.price = 0) =>
                          \E x, y \in E :
                            /\ AtMost(EntryPcts(f, x), BasketPcts(S, f, e.day))
                            /\ AtMost(BasketPcts(S, f, e.day), EntryPcts(f, y))
  BY DEF IndexWithinProducts
<1> DEFINE E == {x \in S : x.day = e.day}
<1>1. S \subseteq Record /\ IsFiniteSet(S)
  BY AnalysedFinite
<1>2. E \subseteq S /\ e \in E
  OBVIOUS
<1>3. \A x \in S : f[x.product] \in Nat
  <2>1. Prices(S) \subseteq Nat
    BY <1>1 DEF Prices
  <2> QED
    BY <2>1 DEF FirstPrices, Bought
<1>4. IsFiniteSet(E)
  <2> HIDE DEF E
  <2> QED
    BY <1>1, <1>2, FS_Subset
<1> QED
  BY <1>1, <1>2, <1>3, <1>4, IndexBetween

-----------------------------------------------------------------------------
\* For any receipts, users and households, the pages tell one story of a
\* product's price and, but for ties, of how much it rose, and their lists are
\* ranked, but for what is lost in rounding
\* (SearchProducts, GetProductByID, GetMostPurchased,
\* GetBiggestPriceIncreases, GetBasketInflation).
THEOREM QueriesAgreeHolds == Spec => []QueriesAgree
<1>1. Init => TypeOK /\ FiniteRows
  BY FS_EmptySet DEF Init, TypeOK, FiniteRows
<1>2. TypeOK /\ FiniteRows /\ [Next]_vars => TypeOK' /\ FiniteRows'
  BY TypeStep, FiniteStep
<1>3. TypeOK /\ FiniteRows => QueriesAgree
  BY Agreement
<1> QED
  BY <1>1, <1>2, <1>3, PTL DEF Spec

\* For any prices, the basket index of a date lies between the changes of the
\* products bought on it, but for ties of its rounding (GetBasketInflation).
THEOREM IndexHoldsAlways == Spec => []IndexWithinProducts
<1>1. Init => TypeOK /\ FiniteRows
  BY FS_EmptySet DEF Init, TypeOK, FiniteRows
<1>2. TypeOK /\ FiniteRows /\ [Next]_vars => TypeOK' /\ FiniteRows'
  BY TypeStep, FiniteStep
<1>3. TypeOK /\ FiniteRows => IndexWithinProducts
  BY IndexHolds
<1> QED
  BY <1>1, <1>2, <1>3, PTL DEF Spec
=============================================================================
