--------------------------- MODULE RateLimitProofs ---------------------------
(***************************************************************************)
(* RateLimit is a token bucket, and keeps every address within its rate,   *)
(* for any burst and rate and any idle time that is long enough.           *)
(***************************************************************************)
EXTENDS RateLimit, TLAPS

IInv == TypeOK /\ Spent /\ WithinRate

LEMMA FullIsNat == Full \in Nat /\ Full >= Period /\ MaxIdle >= Full
BY BurstAssumption, PeriodAssumption, IdleAssumption, SMT DEF Full

LEMMA OneMore == \A n \in Int : (n + 1) * Period = n * Period + Period
BY PeriodAssumption, SMT

LEMMA ProductIsInt == \A n \in Int : n * Period \in Int
BY PeriodAssumption, SMT

LEMMA Times ==
  ASSUME NEW s \in Seq(0..MaxTime), NEW j \in DOMAIN s
  PROVE  j \in Nat /\ 1 <= j /\ j <= Len(s) /\ Len(s) \in Nat /\ s[j] \in Nat
BY TimeAssumption

\* What a kept entry holds, and what is filled of it.
LEMMA FilledRange ==
  ASSUME TypeOK, NEW e \in Entry, e.at <= now
  PROVE  /\ Filled(e) \in 0..Full
         /\ Filled(e) <= e.tokens + (now - e.at)
         /\ now - e.at >= Full => Filled(e) = Full
BY FullIsNat, TimeAssumption DEF TypeOK, Entry, Filled, Capped

LEMMA EntryOfIp ==
  ASSUME TypeOK, NEW i \in Ip, visitors[i] # NoEntry
  PROVE  visitors[i] \in Entry /\ visitors[i].at <= now
BY TimeAssumption DEF TypeOK, Entry

LEMMA AvailableRange ==
  ASSUME TypeOK, NEW i \in Ip
  PROVE  Available(i) \in 0..Full
BY EntryOfIp, FilledRange, FullIsNat DEF Available

\* The entry allow works on holds what is available.
LEMMA LookupAvailable ==
  ASSUME TypeOK, NEW i \in Ip
  PROVE  /\ Lookup(i) \in Entry /\ Lookup(i).at <= now
         /\ Filled(Lookup(i)) = Available(i)
<1>1. CASE visitors[i] # NoEntry
  BY <1>1, EntryOfIp DEF Lookup, Available
<1>2. CASE visitors[i] = NoEntry
  <2>1. Lookup(i) = [tokens |-> Full, at |-> now, lastSeen |-> now]
    BY <1>2 DEF Lookup
  <2>2. Lookup(i) \in Entry /\ Lookup(i).at = now /\ Lookup(i).tokens = Full
    BY <2>1, FullIsNat DEF TypeOK, Entry
  <2>3. Filled(Lookup(i)) = Full
    BY <2>2, FullIsNat DEF Filled, Capped, TypeOK
  <2> QED
    BY <1>2, <2>2, <2>3, TimeAssumption DEF Available, TypeOK
<1> QED
  BY <1>1, <1>2

-----------------------------------------------------------------------------
LEMMA NoEntryIsNone == NoEntry \notin Entry
BY DEF NoEntry, Entry

LEMMA TypeStep == TypeOK /\ [Next]_vars => TypeOK'
<1> SUFFICES ASSUME TypeOK, [Next]_vars PROVE TypeOK'
  OBVIOUS
<1>1. CASE Tick
  BY <1>1, TimeAssumption, NoEntryIsNone DEF TypeOK, Tick, Entry
<1>2. CASE Cleanup
  BY <1>2 DEF TypeOK, Cleanup
<1>3. CASE Restart
  BY <1>3, TimeAssumption DEF TypeOK, Restart
<1>4. ASSUME NEW i \in Ip, Allow(i) PROVE TypeOK'
  <2> DEFINE e == Lookup(i)
             ok == Filled(e) >= Period
             kept == IF ok THEN [tokens |-> Filled(e) - Period, at |-> now, lastSeen |-> now]
                     ELSE [e EXCEPT !.lastSeen = now]
  <2>1. e \in Entry /\ e.at <= now /\ Filled(e) \in 0..Full
    BY LookupAvailable, AvailableRange
  <2>2. kept \in Entry /\ kept.at <= kept.lastSeen /\ kept.lastSeen <= now
    <3>1. CASE ok
      BY <2>1, <3>1, FullIsNat, PeriodAssumption, TimeAssumption DEF Entry, TypeOK
    <3>2. CASE ~ok
      <4>1. \A x \in Entry : [x EXCEPT !.lastSeen = now] \in Entry
              /\ [x EXCEPT !.lastSeen = now].at = x.at
              /\ [x EXCEPT !.lastSeen = now].lastSeen = now
        BY TimeAssumption DEF Entry, TypeOK
      <4>2. kept = [e EXCEPT !.lastSeen = now]
        BY <3>2
      <4> HIDE DEF e, ok, kept
      <4> QED
        BY <2>1, <4>1, <4>2, TimeAssumption DEF TypeOK
    <3> QED
      BY <3>1, <3>2
  <2>3. /\ visitors' = [visitors EXCEPT ![i] = kept]
        /\ decision' = <<i, ok>>
        /\ passed' = IF ok THEN [passed EXCEPT ![i] = Append(@, now)] ELSE passed
        /\ now' = now
    BY <1>4 DEF Allow
  <2>4. passed' \in [Ip -> Seq(0..MaxTime)]
    BY <2>3 DEF TypeOK
  <2>5. decision' \in Ip \X BOOLEAN
    <3>1. ok \in BOOLEAN
      OBVIOUS
    <3> HIDE DEF ok
    <3> QED
      BY <2>3, <3>1
  <2> HIDE DEF kept, e, ok
  <2> QED
    BY <2>2, <2>3, <2>4, <2>5 DEF TypeOK
<1>5. CASE UNCHANGED vars
  BY <1>5 DEF TypeOK, vars
<1> QED
  BY <1>1, <1>2, <1>3, <1>4, <1>5 DEF Next

-----------------------------------------------------------------------------
(* What a step does to the tokens of each address. *)

LEMMA TickFills ==
  ASSUME TypeOK, Tick, NEW i \in Ip
  PROVE  Available(i)' = IF Available(i) < Full THEN Available(i) + 1 ELSE Full
<1>1. CASE visitors[i] = NoEntry
  BY <1>1, FullIsNat DEF Tick, Available
<1>2. CASE visitors[i] # NoEntry
  BY <1>2, EntryOfIp, FullIsNat, TimeAssumption
     DEF TypeOK, Tick, Available, Filled, Capped, Entry
<1> QED
  BY <1>1, <1>2

LEMMA CleanupKeeps ==
  ASSUME TypeOK, Cleanup, NEW i \in Ip
  PROVE  Available(i)' = Available(i)
<1>1. CASE visitors'[i] = visitors[i]
  BY <1>1 DEF Cleanup, Available, Filled
<1>2. CASE visitors'[i] # visitors[i]
  <2>1. visitors[i] # NoEntry /\ visitors'[i] = NoEntry
        /\ now - visitors[i].lastSeen > MaxIdle
    BY <1>2 DEF Cleanup
  <2>2. visitors[i] \in Entry /\ now - visitors[i].at >= Full
    BY <2>1, EntryOfIp, FullIsNat, TimeAssumption, IdleAssumption DEF TypeOK, Entry
  <2> QED
    BY <2>1, <2>2, EntryOfIp, FilledRange DEF Available
<1> QED
  BY <1>1, <1>2

LEMMA AllowTakes ==
  ASSUME TypeOK, NEW i \in Ip, Allow(i), NEW h \in Ip
  PROVE  /\ Available(h)' = IF h = i /\ Available(i) >= Period
                            THEN Available(h) - Period ELSE Available(h)
         /\ passed'[h] = IF h = i /\ Available(i) >= Period
                         THEN Append(passed[h], now) ELSE passed[h]
         /\ decision' = <<i, Available(i) >= Period>>
         /\ now' = now
<1> DEFINE e == Lookup(i)
<1>1. e \in Entry /\ e.at <= now /\ Filled(e) = Available(i) /\ Available(i) \in 0..Full
  BY LookupAvailable, AvailableRange
<1>2. now' = now /\ decision' = <<i, Available(i) >= Period>>
  BY <1>1 DEF Allow
<1>3. passed'[h] = IF h = i /\ Available(i) >= Period
                   THEN Append(passed[h], now) ELSE passed[h]
  BY <1>1 DEF Allow, TypeOK
<1>4. CASE h # i
  BY <1>2, <1>3, <1>4 DEF Allow, TypeOK, Available, Filled
<1>5. CASE h = i /\ Available(i) >= Period
  <2>1. visitors'[i] = [tokens |-> Available(i) - Period, at |-> now, lastSeen |-> now]
    BY <1>1, <1>5 DEF Allow, TypeOK
  <2>2. visitors'[i] # NoEntry /\ visitors'[i].tokens = Available(i) - Period
        /\ visitors'[i].at = now
    <3>1. visitors'[i] \in Entry
      BY <1>1, <1>5, <2>1, FullIsNat, PeriodAssumption DEF Entry, TypeOK
    <3> QED
      BY <2>1, <3>1, NoEntryIsNone
  <2>3. Available(i)' = Capped(Available(i) - Period + (now - now))
    BY <1>2, <2>2 DEF Available, Filled, Capped
  <2> QED
    BY <1>1, <1>2, <1>3, <1>5, <2>3, FullIsNat, PeriodAssumption DEF Capped, TypeOK
<1>6. CASE h = i /\ ~(Available(i) >= Period)
  <2>1. visitors'[i] = [e EXCEPT !.lastSeen = now]
    BY <1>1, <1>6 DEF Allow, TypeOK
  <2>2. visitors'[i] \in Entry /\ visitors'[i].tokens = e.tokens /\ visitors'[i].at = e.at
    BY <1>1, <2>1 DEF Entry, TypeOK
  <2>3. Available(i)' = Filled(e)
    BY <1>2, <2>2, NoEntryIsNone DEF Available, Filled, Capped
  <2> QED
    BY <1>1, <1>2, <1>3, <1>6, <2>3
<1> QED
  BY <1>4, <1>5, <1>6

-----------------------------------------------------------------------------
LEMMA InitInv == Init => IInv
<1> SUFFICES ASSUME Init PROVE IInv
  OBVIOUS
<1>1. TypeOK
  BY TimeAssumption DEF Init, TypeOK
<1> QED
  BY <1>1 DEF Init, IInv, Spent, WithinRate

LEMMA AllowStep ==
  ASSUME IInv, NEW i \in Ip, Allow(i)
  PROVE  Spent' /\ WithinRate'
<1> USE DEF IInv
<1>1. now \in Nat /\ now' = now /\ \A h \in Ip : Available(h) \in 0..Full
  BY AvailableRange, AllowTakes, TimeAssumption DEF TypeOK
<1>2. ASSUME NEW h \in Ip, h # i \/ ~(Available(i) >= Period)
      PROVE  passed'[h] = passed[h] /\ Available(h)' = Available(h)
  BY <1>2, AllowTakes
<1>3. ASSUME NEW h \in Ip, NEW j \in DOMAIN passed'[h]
      PROVE  /\ passed'[h][j] <= now'
             /\ (Len(passed'[h]) - j + 1) * Period + Available(h)'
                  <= Full + (now' - passed'[h][j])
  <2>1. CASE h # i \/ ~(Available(i) >= Period)
    BY <1>1, <1>2, <1>3, <2>1 DEF Spent
  <2>2. CASE h = i /\ Available(i) >= Period
    <3>1. /\ passed'[h] = Append(passed[h], now)
          /\ Available(h)' = Available(h) - Period
      BY <2>2, AllowTakes
    <3>2. passed[h] \in Seq(0..MaxTime) /\ Len(passed[h]) \in Nat
      BY DEF TypeOK
    <3>3. Len(passed'[h]) = Len(passed[h]) + 1
      BY <3>1, <3>2
    <3>4. CASE j \in DOMAIN passed[h]
      <4>0. j \in Nat /\ passed[h][j] \in Nat
        BY <3>2, <3>4, Times
      <4>1. passed'[h][j] = passed[h][j] /\ j \in Nat /\ passed[h][j] \in Nat
        BY <3>1, <3>2, <3>4, <4>0
      <4>2. (Len(passed'[h]) - j + 1) * Period
              = (Len(passed[h]) - j + 1) * Period + Period
        <5>1. Len(passed'[h]) - j + 1 = (Len(passed[h]) - j + 1) + 1
          BY <3>2, <3>3, <4>1
        <5>0. Len(passed[h]) - j + 1 \in Int
          BY <3>2, <4>1
        <5>2. PICK n \in Int : n = Len(passed[h]) - j + 1
          BY <5>0, Zenon
        <5>3. (n + 1) * Period = n * Period + Period
          BY OneMore
        <5> QED
          BY <5>1, <5>2, <5>3, Zenon
      <4>3. (Len(passed[h]) - j + 1) * Period + Available(h)
              <= Full + (now - passed[h][j])
            /\ passed[h][j] <= now
        BY <3>4 DEF Spent
      <4>4. (Len(passed[h]) - j + 1) * Period \in Int
        BY <3>2, <4>1, ProductIsInt
      <4>5. PICK w \in Int : w = (Len(passed[h]) - j + 1) * Period
        BY <4>4
      <4>6. w + Available(h) <= Full + (now - passed[h][j])
        BY <4>3, <4>5
      <4>7. w + Period + Available(h)' <= Full + (now - passed[h][j])
        BY <1>1, <3>1, <4>1, <4>6, FullIsNat, PeriodAssumption
      <4> QED
        BY <1>1, <4>1, <4>2, <4>3, <4>5, <4>7
    <3>5. CASE j \notin DOMAIN passed[h]
      <4>1. j = Len(passed[h]) + 1 /\ passed'[h][j] = now
        BY <1>3, <3>1, <3>2, <3>5
      <4>2. (Len(passed'[h]) - j + 1) * Period = Period
        BY <3>2, <3>3, <4>1, PeriodAssumption
      <4> QED
        BY <1>1, <3>1, <4>1, <4>2, FullIsNat, PeriodAssumption
    <3> QED
      BY <3>4, <3>5
  <2> QED
    BY <2>1, <2>2
<1>4. ASSUME NEW h \in Ip, NEW j \in DOMAIN passed'[h], NEW k \in DOMAIN passed'[h],
             j <= k
      PROVE  (k - j + 1) * Period <= Full + (passed'[h][k] - passed'[h][j])
  <2>1. CASE h # i \/ ~(Available(i) >= Period)
    BY <1>2, <1>4, <2>1 DEF WithinRate
  <2>2. CASE h = i /\ Available(i) >= Period
    <3>1. passed'[h] = Append(passed[h], now) /\ Available(h)' = Available(h) - Period
      BY <2>2, AllowTakes
    <3>2. passed[h] \in Seq(0..MaxTime) /\ Len(passed[h]) \in Nat
      BY DEF TypeOK
    <3>3. CASE k \in DOMAIN passed[h]
      <4>1. j \in DOMAIN passed[h]
        BY <1>4, <3>1, <3>2, <3>3
      <4>2. passed'[h][j] = passed[h][j] /\ passed'[h][k] = passed[h][k]
        BY <3>1, <3>2, <3>3, <4>1
      <4> QED
        BY <1>4, <3>3, <4>1, <4>2 DEF WithinRate
    <3>4. CASE k \notin DOMAIN passed[h]
      <4>1. k = Len(passed'[h]) /\ passed'[h][k] = now
        BY <1>4, <3>1, <3>2, <3>4
      <4>2. (k - j + 1) * Period + Available(h)' <= Full + (now - passed'[h][j])
        BY <1>1, <1>3, <4>1
      <4>3. Available(h)' \in Nat
        BY <1>1, <2>2, <3>1, PeriodAssumption
      <4>4. (k - j + 1) * Period \in Int /\ passed'[h][j] \in Int
        <5>1. j \in Int /\ k \in Int
          BY <3>1, <3>2
        <5>2. passed'[h][j] \in Int
          <6>1. passed'[h] \in Seq(0..MaxTime)
            BY <3>1, <3>2 DEF TypeOK
          <6> QED
            BY <6>1, Times
        <5> QED
          BY <5>1, <5>2, ProductIsInt
      <4> QED
        BY <1>1, <4>1, <4>2, <4>3, <4>4, FullIsNat
    <3> QED
      BY <3>3, <3>4
  <2> QED
    BY <2>1, <2>2
<1> QED
  BY <1>3, <1>4 DEF Spent, WithinRate

LEMMA InductiveStep == IInv /\ [Next]_vars => IInv'
<1> SUFFICES ASSUME IInv, [Next]_vars PROVE IInv'
  OBVIOUS
<1> USE DEF IInv
<1>1. TypeOK'
  BY TypeStep
<1>2. now \in Nat /\ \A i \in Ip : Available(i) \in 0..Full
  BY AvailableRange, TimeAssumption DEF TypeOK
<1>3. \A i \in Ip : passed[i] \in Seq(0..MaxTime) /\ Len(passed[i]) \in Nat
  BY DEF TypeOK
<1>4. CASE Tick
  <2>1. now' = now + 1 /\ passed' = passed
    BY <1>4 DEF Tick
  <2>2. ASSUME NEW i \in Ip, NEW j \in DOMAIN passed[i]
        PROVE  /\ passed[i][j] <= now + 1
               /\ (Len(passed[i]) - j + 1) * Period + Available(i)'
                    <= Full + ((now + 1) - passed[i][j])
    <3>1. Available(i)' <= Available(i) + 1 /\ Available(i)' \in Nat
      BY <1>2, <1>4, TickFills, FullIsNat
    <3>2. j \in Int /\ passed[i][j] \in Nat
      BY <1>3, <2>2, Times
    <3>3. (Len(passed[i]) - j + 1) * Period \in Int
      BY <1>3, <3>2, ProductIsInt
    <3>4. passed[i][j] <= now
          /\ (Len(passed[i]) - j + 1) * Period + Available(i)
               <= Full + (now - passed[i][j])
      BY DEF Spent
    <3>5. PICK w \in Int : w = (Len(passed[i]) - j + 1) * Period
      BY <3>3
    <3>6. w + Available(i) <= Full + (now - passed[i][j])
      BY <3>4, <3>5
    <3>7. w + Available(i)' <= Full + ((now + 1) - passed[i][j])
      BY <1>2, <3>1, <3>2, <3>6, FullIsNat
    <3>8. passed[i][j] <= now + 1
      BY <1>2, <3>2, <3>4
    <3> QED
      BY <3>5, <3>7, <3>8
  <2>3. Spent'
    BY <2>1, <2>2 DEF Spent
  <2> QED
    BY <1>1, <2>1, <2>3 DEF WithinRate
<1>5. CASE Cleanup
  BY <1>1, <1>5, CleanupKeeps DEF Cleanup, Spent, WithinRate
<1>6. CASE Restart
  <2>1. \A i \in Ip : DOMAIN passed'[i] = {}
    BY <1>6 DEF Restart
  <2> QED
    BY <1>1, <2>1 DEF Spent, WithinRate
<1>7. ASSUME NEW i \in Ip, Allow(i) PROVE IInv'
  BY <1>1, <1>7, AllowStep
<1>8. CASE UNCHANGED vars
  BY <1>1, <1>8 DEF vars, Spent, WithinRate, Available, Filled, Capped
<1> QED
  BY <1>4, <1>5, <1>6, <1>7, <1>8 DEF Next

\* Type correctness of RateLimit.
THEOREM TypeCorrect == Spec => []TypeOK
<1>1. Init => IInv
  BY InitInv
<1>2. IInv => TypeOK
  BY DEF IInv
<1> QED
  BY <1>1, <1>2, InductiveStep, PTL DEF Spec

\* No address gets more requests through, in any time, than its burst and
\* what was filled in that time, although its entry may be pruned.
THEOREM RateHolds == Spec => []WithinRate
<1>1. Init => IInv
  BY InitInv
<1>2. IInv => WithinRate
  BY DEF IInv
<1> QED
  BY <1>1, <1>2, InductiveStep, PTL DEF Spec

-----------------------------------------------------------------------------
(* RateLimit implements TokenBucket. *)

LEMMA InitIsBucketInit == Init => Bucket!Init
BY DEF Init, Bucket!Init, Available, Full, Bucket!Full

LEMMA StepIsBucketStep ==
  TypeOK /\ [Next]_vars => [Bucket!Next]_<<[i \in Ip |-> Available(i)], decision>>
<1> DEFINE credit == [i \in Ip |-> Available(i)]
<1> SUFFICES ASSUME TypeOK, [Next]_vars
             PROVE  Bucket!Next \/ UNCHANGED <<credit, decision>>
  OBVIOUS
<1>1. CASE Tick
  <2>1. Bucket!Tick
    BY <1>1, TickFills DEF Tick, Bucket!Tick, Bucket!Full, Full
  <2> QED
    BY <2>1 DEF Bucket!Next
<1>2. CASE Cleanup
  BY <1>2, CleanupKeeps DEF Cleanup
<1>3. CASE Restart
  <2>1. \A i \in Ip : Available(i)' = Full
    BY <1>3 DEF Restart, Available, Full
  <2>2. Bucket!Restart
    BY <1>3, <2>1 DEF Restart, Bucket!Restart, Bucket!Full, Full
  <2> QED
    BY <2>2 DEF Bucket!Next
<1>4. ASSUME NEW i \in Ip, Allow(i) PROVE Bucket!Next
  <2>1. Bucket!Allow(i)
    BY <1>4, AllowTakes DEF Bucket!Allow
  <2> QED
    BY <2>1 DEF Bucket!Next
<1>5. CASE UNCHANGED vars
  BY <1>5 DEF vars, Available, Filled, Capped
<1> QED
  BY <1>1, <1>2, <1>3, <1>4, <1>5 DEF Next

\* Pruning the map of visitors, and filling buckets only when they are looked
\* at, cannot be told from a bucket for each address that fills all the time.
THEOREM Implementation == Spec => ImplementsBucket
<1>1. Spec => []TypeOK
  BY TypeCorrect
<1> QED
  BY <1>1, InitIsBucketInit, StepIsBucketStep, PTL
     DEF Spec, ImplementsBucket, Bucket!Spec
=============================================================================
