------------------------ MODULE CandleDownloadProofs ------------------------
(***************************************************************************)
(* What fetch_candles returns and the download stores, for any exchange,   *)
(* interval, page size and range.  First the candles, which are multiples  *)
(* of Interval, then the pages, then the files.                            *)
(***************************************************************************)
EXTENDS CandleDownload, FiniteSetTheorems, TLAPS

-----------------------------------------------------------------------------
(* Sets of candles                                                         *)

\* The least of a set of natural numbers.
LEMMA MinProperties ==
  ASSUME NEW S \in SUBSET Nat, S # {}
  PROVE  Min(S) \in S /\ \A x \in S : Min(S) <= x
<1> DEFINE less == {pair \in Nat \X Nat : pair[1] < pair[2]}
<1>1. IsWellFoundedOn(less, Nat)
  BY NatLessThanWellFounded DEF OpToRel
<1>2. PICK m \in S : \A y \in S : <<y, m>> \notin less
  BY <1>1, WFMin
<1>3. ASSUME NEW y \in S
      PROVE  m <= y
  <2>1. m \in Nat /\ y \in Nat
    OBVIOUS
  <2>2. CASE y < m
    <3>1. <<y, m>> \in less
      BY <2>1, <2>2
    <3> QED
      BY <1>2, <3>1
  <2> QED
    BY <2>1, <2>2
<1> QED
  BY <1>3 DEF Min

\* The greatest of a bounded set of natural numbers.
LEMMA MaxProperties ==
  ASSUME NEW bound \in Nat, NEW S \in SUBSET (0..bound), S # {}
  PROVE  Max(S) \in S /\ \A x \in S : x <= Max(S)
<1> DEFINE T == {n \in Nat : \A x \in S : x <= n}
<1>1. T \in SUBSET Nat /\ bound \in T
  OBVIOUS
<1>2. Min(T) \in T /\ \A n \in T : Min(T) <= n
  <2> HIDE DEF T
  <2> QED
    BY <1>1, MinProperties
<1> DEFINE m == Min(T)
<1>3. m \in Nat /\ \A x \in S : x <= m
  BY <1>2
<1>4. m \in S
  <2>1. CASE m = 0
    <3>1. PICK x \in S : TRUE
      OBVIOUS
    <3>2. x = 0
      BY <1>3, <2>1, <3>1
    <3> QED
      BY <2>1, <3>2
  <2>2. CASE m > 0
    <3>1. m - 1 \in Nat /\ m - 1 \notin T
      BY <1>2, <1>3, <2>2
    <3>2. PICK x \in S : ~(x <= m - 1)
      BY <3>1
    <3>3. x = m
      BY <1>3, <3>1, <3>2
    <3> QED
      BY <3>3
  <2> QED
    BY <1>3, <2>1, <2>2
<1>5. \A x \in S : m >= x
  BY <1>3
<1> HIDE DEF m
<1> QED
  BY <1>4, <1>5 DEF Max

\* A candle starts at a multiple of Interval.
LEMMA StartIsMultiple ==
  ASSUME NEW t \in Starts
  PROVE  /\ t \in Nat /\ t <= Horizon
         /\ t \div Interval \in Nat /\ t = (t \div Interval) * Interval
BY PaginationAssumption DEF Starts

\* Between two candles there is room for one.
LEMMA NextStart ==
  ASSUME NEW t \in Starts, NEW u \in Starts, t < u
  PROVE  t + Interval <= u
<1> DEFINE a == t \div Interval
           b == u \div Interval
<1>1. /\ a \in Nat /\ b \in Nat /\ t = a * Interval /\ u = b * Interval
      /\ Interval \in Nat \ {0}
  BY StartIsMultiple, PaginationAssumption
<1> HIDE DEF a, b
<1>2. CASE a < b
  <2>1. (a + 1) * Interval <= b * Interval
    BY <1>1, <1>2
  <2> QED
    BY <1>1, <2>1
<1>3. CASE b <= a
  <2>1. b * Interval <= a * Interval
    BY <1>1, <1>3
  <2> QED
    BY <1>1, <2>1
<1> QED
  BY <1>1, <1>2, <1>3

\* A multiple divides without a rest.
LEMMA MultipleDivided ==
  ASSUME NEW n \in Nat
  PROVE  (n * Interval) \div Interval = n
<1> DEFINE p == n * Interval
           q == p \div Interval
<1>1. Interval \in Nat \ {0} /\ p \in Nat
  BY PaginationAssumption
<1>2. q \in Int /\ q * Interval <= p /\ p < q * Interval + Interval
  BY <1>1
<1> HIDE DEF q
<1>3. CASE q < n
  <2>1. (q + 1) * Interval <= n * Interval
    BY <1>1, <1>2, <1>3
  <2>2. (q + 1) * Interval = q * Interval + Interval
    BY <1>1, <1>2
  <2> QED
    BY <1>1, <1>2, <2>1, <2>2
<1>4. CASE q > n
  <2>1. (n + 1) * Interval <= q * Interval
    BY <1>1, <1>2, <1>4
  <2>2. (n + 1) * Interval = p + Interval
    BY <1>1
  <2> QED
    BY <1>1, <1>2, <2>1, <2>2
<1> QED
  BY <1>2, <1>3, <1>4 DEF q

\* Candles that validate_candles accepts fill the range between the first and
\* the last of them.
LEMMA ValidIsGapless ==
  ASSUME NEW S \in SUBSET Starts, Valid(S)
  PROVE  Cardinality(S) = 1 + (Max(S) - Min(S)) \div Interval
<1> DEFINE m == Min(S)
           M == Max(S)
           a == m \div Interval
           b == M \div Interval
<1>1. S # {} /\ \A t \in S : t # M => t + Interval \in S
  BY DEF Valid
<1>2. S \in SUBSET Nat /\ S \in SUBSET (0..Horizon) /\ Horizon \in Nat /\ Interval \in Nat \ {0}
  BY PaginationAssumption, StartIsMultiple
<1>3. m \in S /\ M \in S /\ \A t \in S : t \in Nat /\ m <= t /\ t <= M
  BY <1>1, <1>2, MinProperties, MaxProperties
<1> HIDE DEF m, M
<1>4. a \in Nat /\ b \in Nat /\ m = a * Interval /\ M = b * Interval
  BY <1>3, StartIsMultiple
<1> HIDE DEF a, b
<1>5. ASSUME NEW j \in a..b
      PROVE  j * Interval \in S
  <2> DEFINE p == j * Interval
             B == {t \in S : t < p}
  <2>1. j \in Nat /\ p \in Nat /\ m <= p /\ p <= M
    <3>1. j \in Nat /\ a <= j /\ j <= b
      BY <1>4
    <3>2. a * Interval <= j * Interval /\ j * Interval <= b * Interval
      BY <1>2, <1>4, <3>1
    <3> QED
      BY <1>2, <1>4, <3>1, <3>2
  <2>2. ASSUME p \notin S
        PROVE  FALSE
    <3>1. m \in B /\ B \in SUBSET (0..Horizon)
      <4>1. m \in Nat /\ m # p
        BY <1>3, <2>2
      <4>2. m < p
        BY <2>1, <4>1
      <4> HIDE DEF p
      <4> QED
        BY <1>2, <1>3, <4>2
    <3>2. PICK q \in B : \A t \in B : t <= q
      <4> HIDE DEF B
      <4> QED
        BY <1>2, <3>1, MaxProperties
    <3>3. q \in S /\ q < p /\ q + Interval \in S
      BY <1>1, <1>3, <2>1, <3>2
    <3> DEFINE c == q \div Interval
    <3>4. c \in Nat /\ q = c * Interval
      BY <3>3, StartIsMultiple
    <3> HIDE DEF c
    <3>5. c + 1 <= j
      <4>1. CASE j <= c
        <5>1. j * Interval <= c * Interval
          BY <1>2, <2>1, <3>4, <4>1
        <5> QED
          BY <1>2, <2>1, <3>3, <3>4, <5>1
      <4> QED
        BY <2>1, <3>4, <4>1
    <3>6. (c + 1) * Interval <= j * Interval /\ (c + 1) * Interval = q + Interval
      BY <1>2, <2>1, <3>4, <3>5
    <3>7. q + Interval < p
      BY <1>2, <1>3, <2>1, <2>2, <3>3, <3>6
    <3>8. q + Interval \in B
      BY <3>3, <3>7
    <3> QED
      BY <1>2, <1>3, <3>2, <3>3, <3>8
  <2> QED
    BY <2>2
<1>6. ASSUME NEW t \in S
      PROVE  \E j \in a..b : t = j * Interval
  <2> DEFINE j == t \div Interval
  <2>1. j \in Nat /\ t = j * Interval /\ m <= t /\ t <= M
    BY <1>3, StartIsMultiple
  <2> HIDE DEF j
  <2>2. CASE j < a
    <3>1. (j + 1) * Interval <= a * Interval /\ (j + 1) * Interval = j * Interval + Interval
      BY <1>2, <1>4, <2>1, <2>2
    <3> QED
      BY <1>2, <1>4, <2>1, <3>1
  <2>3. CASE j > b
    <3>1. (b + 1) * Interval <= j * Interval /\ (b + 1) * Interval = b * Interval + Interval
      BY <1>2, <1>4, <2>1, <2>3
    <3> QED
      BY <1>2, <1>4, <2>1, <3>1
  <2> QED
    BY <1>4, <2>1, <2>2, <2>3
<1> DEFINE f == [j \in a..b |-> j * Interval]
<1>7. ASSUME NEW i \in a..b, NEW j \in a..b, i # j
      PROVE  i * Interval # j * Interval
  <2>1. i \in Nat /\ j \in Nat
    BY <1>4
  <2>2. CASE i < j
    <3>1. (i + 1) * Interval <= j * Interval /\ (i + 1) * Interval = i * Interval + Interval
      BY <1>2, <2>1, <2>2
    <3> QED
      BY <1>2, <2>1, <3>1
  <2>3. CASE j < i
    <3>1. (j + 1) * Interval <= i * Interval /\ (j + 1) * Interval = j * Interval + Interval
      BY <1>2, <2>1, <2>3
    <3> QED
      BY <1>2, <2>1, <3>1
  <2> QED
    BY <1>7, <2>1, <2>2, <2>3
<1>8. f \in Bijection(a..b, S)
  BY <1>5, <1>6, <1>7 DEF Bijection, Injection, Surjection, IsInjective
<1>9. a <= b
  <2>1. PICK j \in a..b : m = j * Interval
    BY <1>3, <1>6
  <2> QED
    BY <1>4, <2>1
<1>10. Cardinality(S) = b - a + 1
  <2>1. IsFiniteSet(a..b) /\ Cardinality(a..b) = b - a + 1
    BY <1>4, <1>9, FS_Interval
  <2>2. ExistsBijection(a..b, S)
    BY <1>8 DEF ExistsBijection
  <2> QED
    BY <2>1, <2>2, FS_Bijection
<1>11. (M - m) \div Interval = b - a
  <2>1. b - a \in Nat /\ M - m = (b - a) * Interval
    BY <1>2, <1>4, <1>9
  <2> QED
    BY <2>1, MultipleDivided
<1> QED
  BY <1>4, <1>10, <1>11 DEF m, M

-----------------------------------------------------------------------------
(* The pages                                                               *)

LEMMA StartsFinite ==
  ASSUME NEW S \in SUBSET Starts
  PROVE  IsFiniteSet(S)
<1>1. S \in SUBSET (0..(Horizon - 1))
  BY DEF Starts
<1>2. IsFiniteSet(0..(Horizon - 1))
  BY PaginationAssumption, FS_Interval
<1> QED
  BY <1>1, <1>2, FS_Subset

\* With a candle a page has all the newer ones, and it is empty only if there
\* is nothing to serve.
LEMMA NewestProperties ==
  ASSUME NEW S \in SUBSET Starts
  PROVE  /\ Newest(S) \subseteq S
         /\ \A t \in Newest(S), u \in S : t <= u => u \in Newest(S)
         /\ S # {} => Newest(S) # {}
<1> DEFINE Above(t) == {u \in S : u > t}
<1>1. \A t \in S : Above(t) \in SUBSET Starts /\ IsFiniteSet(Above(t)) /\ t \in Nat
  BY StartsFinite, StartIsMultiple
<1>2. ASSUME NEW t \in Newest(S), NEW u \in S, t <= u
      PROVE  u \in Newest(S)
  <2>1. t \in S /\ Cardinality(Above(t)) < PageSize
    BY DEF Newest
  <2>2. Above(u) \in SUBSET Above(t)
    <3>1. t \in Nat /\ u \in Nat /\ \A x \in S : x \in Nat
      BY <1>1, <2>1
    <3>2. \A x \in S : x > u => x > t
      BY <1>2, <3>1
    <3> QED
      BY <3>2
  <2>3. Cardinality(Above(u)) <= Cardinality(Above(t))
    BY <1>1, <2>1, <2>2, FS_Subset
  <2>4. Cardinality(Above(u)) \in Nat /\ Cardinality(Above(t)) \in Nat
    BY <1>1, <2>1, FS_CardinalityType
  <2>5. Cardinality(Above(u)) < PageSize
    BY <2>1, <2>3, <2>4, PaginationAssumption
  <2> QED
    BY <2>5 DEF Newest
<1>3. ASSUME S # {}
      PROVE  Newest(S) # {}
  <2>1. S \in SUBSET (0..Horizon) /\ Horizon \in Nat
    BY PaginationAssumption, StartIsMultiple
  <2>2. Max(S) \in S /\ \A x \in S : x <= Max(S)
    BY <1>3, <2>1, MaxProperties
  <2>3. Above(Max(S)) = {}
    <3> DEFINE m == Max(S)
    <3>1. m \in Nat /\ \A x \in S : x \in Nat /\ x <= m
      BY <1>1, <2>2
    <3> HIDE DEF m
    <3>2. \A x \in S : ~(x > m)
      BY <3>1
    <3> QED
      BY <3>2 DEF m
  <2>4. Cardinality(Above(Max(S))) = 0
    BY <2>3, FS_EmptySet
  <2>5. Max(S) \in Newest(S)
    BY <2>2, <2>4, PaginationAssumption DEF Newest
  <2> QED
    BY <2>5
<1> QED
  BY <1>2, <1>3 DEF Newest

\* The candles the exchange has and the client keeps.
Wanted == {t \in listed : startMs <= t /\ t < endMs /\ Confirmed(t)}

\* An honest page holds every candle from its oldest up to the cursor, all of
\* them if it reaches the start or is empty.
LEMMA HonestPage ==
  ASSUME TypeOK, cursorEnd >= startMs, NEW rows \in HonestPages
  PROVE  /\ rows \subseteq listed
         /\ \A t \in rows : t <= cursorEnd
         /\ \A t \in listed : startMs <= t /\ t <= cursorEnd =>
              rows # {} /\ (Min(rows) <= t => t \in rows)
<1> DEFINE within == StartsIn(startMs, cursorEnd)
           covering == Covering(startMs)
<1>1. /\ listed \in SUBSET Starts /\ startMs \in Nat /\ cursorEnd \in Int
      /\ \A t \in listed : t \in Nat
  BY StartIsMultiple DEF TypeOK
<1>2. PICK S \in {within, within \union covering} : rows = Newest(S)
  BY DEF HonestPages
<1>3. S \in SUBSET Starts /\ S \subseteq listed /\ within \subseteq S
  BY <1>1, <1>2 DEF StartsIn, Covering
<1>4. \A t \in S : t <= cursorEnd
  BY <1>1, <1>2 DEF StartsIn, Covering
<1>5. ASSUME NEW t \in listed, startMs <= t, t <= cursorEnd
      PROVE  rows # {} /\ (Min(rows) <= t => t \in rows)
  <2>1. t \in S
    BY <1>3, <1>5 DEF StartsIn
  <2>2. rows # {} /\ rows \in SUBSET Nat
    BY <1>1, <1>2, <1>3, <2>1, NewestProperties
  <2>3. Min(rows) \in rows
    BY <2>2, MinProperties
  <2> QED
    BY <1>2, <1>3, <2>1, <2>2, <2>3, NewestProperties
<1>6. rows \subseteq S
  BY <1>2, <1>3, NewestProperties
<1> QED
  BY <1>3, <1>4, <1>5, <1>6

\* The invariant of the fetching: what is kept can be used, and of an honest
\* exchange's candles none beyond the cursor is missing.
FetchInv ==
  /\ TypeOK /\ startMs < endMs
  /\ \A t \in byStart : startMs <= t /\ t < endMs /\ Confirmed(t)
  /\ honest => /\ byStart \subseteq listed
               /\ \A t \in Wanted : t > cursorEnd => t \in byStart
  /\ outcome = "ok" => Valid(byStart) /\ (honest => byStart = Wanted)

\* A page is made of candles.
LEMMA PageType ==
  ASSUME TypeOK, NEW rows \in Pages
  PROVE  rows \in SUBSET Starts
<1>1. CASE honest
  <2>1. /\ StartsIn(startMs, cursorEnd) \in SUBSET Starts
        /\ StartsIn(startMs, cursorEnd) \union Covering(startMs) \in SUBSET Starts
    BY DEF TypeOK, StartsIn, Covering
  <2> QED
    BY <1>1, <2>1, NewestProperties DEF Pages, HonestPages
<1>2. CASE ~honest
  BY <1>2 DEF Pages, AnyPages
<1> QED
  BY <1>1, <1>2

LEMMA InitFetchInv ==
  ASSUME Init
  PROVE  FetchInv
<1>1. TypeOK
  BY PaginationAssumption DEF Init, TypeOK
<1>2. \A t \in listed : t \in Nat
  BY <1>1, StartIsMultiple DEF TypeOK
<1> QED
  BY <1>1, <1>2 DEF Init, TypeOK, FetchInv, Wanted

LEMMA FetchPageKeeps ==
  ASSUME FetchInv, FetchPage
  PROVE  FetchInv' /\ (honest => outcome' # "error")
<1>1. PICK rows \in Pages \ {{}} :
        /\ ~ReachesStart(rows)
        /\ byStart' = byStart \union Kept(rows)
        /\ IF MakesProgress(rows)
           THEN cursorEnd' = NextEnd(rows) /\ UNCHANGED outcome
           ELSE outcome' = "error" /\ UNCHANGED cursorEnd
  BY DEF FetchPage
<1>2. /\ UNCHANGED <<startMs, endMs, serverTime, listed, honest>>
      /\ outcome = "fetching" /\ cursorEnd >= startMs /\ TypeOK /\ startMs < endMs
      /\ startMs \in Nat /\ endMs \in Nat /\ cursorEnd \in Int /\ cursorEnd <= endMs - 1
      /\ byStart \subseteq Starts /\ Wanted' = Wanted
  BY DEF FetchPage, request, FetchInv, TypeOK, Wanted, Confirmed
<1>3. rows \in SUBSET Starts /\ rows # {}
  BY <1>2, PageType
<1>4. rows \in SUBSET Nat
  BY <1>3, StartIsMultiple
<1>5. Min(rows) \in rows /\ Min(rows) \in Nat /\ \A t \in rows : Min(rows) <= t
  BY <1>3, <1>4, MinProperties
<1>6. Min(rows) > startMs
  BY <1>1, <1>2, <1>5 DEF ReachesStart
<1>7. cursorEnd' \in (startMs - 1)..(endMs - 1) /\ cursorEnd' <= cursorEnd
  BY <1>1, <1>2, <1>5, <1>6 DEF NextEnd, MakesProgress
<1>8. TypeOK' /\ startMs' < endMs'
  BY <1>1, <1>2, <1>3, <1>7 DEF TypeOK, Kept
<1>9. \A t \in byStart' : startMs' <= t /\ t < endMs' /\ Confirmed(t)'
  BY <1>1, <1>2 DEF FetchInv, Kept, Confirmed
<1>10. ASSUME honest
       PROVE  /\ byStart' \subseteq listed /\ outcome' # "error"
              /\ \A t \in Wanted : t > cursorEnd' => t \in byStart'
  <2>1. /\ rows \subseteq listed /\ \A t \in rows : t <= cursorEnd
        /\ \A t \in listed : startMs <= t /\ t <= cursorEnd =>
             (Min(rows) <= t => t \in rows)
    BY <1>2, <1>10, HonestPage DEF Pages
  <2>2. NextEnd(rows) < cursorEnd
    BY <1>2, <1>5, <2>1 DEF NextEnd
  <2>3. cursorEnd' = Min(rows) - 1 /\ outcome' = "fetching"
    BY <1>1, <1>2, <2>2 DEF MakesProgress, NextEnd
  <2>4. ASSUME NEW t \in Wanted, t > cursorEnd'
        PROVE  t \in byStart'
    <3>1. t \in listed /\ t \in Nat /\ startMs <= t /\ t < endMs /\ Confirmed(t)
      BY <1>2, StartIsMultiple DEF Wanted, TypeOK
    <3>2. CASE t > cursorEnd
      BY <1>1, <1>10, <3>2 DEF FetchInv
    <3>3. CASE t <= cursorEnd
      <4>1. t \in rows
        BY <1>5, <2>1, <2>3, <2>4, <3>1, <3>3
      <4> QED
        BY <1>1, <3>1, <4>1 DEF Kept
    <3> QED
      BY <1>2, <3>1, <3>2, <3>3
  <2> QED
    BY <1>1, <1>10, <2>1, <2>3, <2>4 DEF FetchInv, Kept
<1>11. outcome' # "ok"
  BY <1>1, <1>2
<1> QED
  BY <1>2, <1>8, <1>9, <1>10, <1>11 DEF FetchInv

LEMMA LastPageKeeps ==
  ASSUME FetchInv, LastPage
  PROVE  FetchInv' /\ (honest /\ outcome' = "error" => ~Valid(Wanted))
<1>1. /\ UNCHANGED <<startMs, endMs, serverTime, listed, honest, cursorEnd>>
      /\ TypeOK /\ startMs < endMs /\ startMs \in Nat /\ endMs \in Nat /\ cursorEnd \in Int
      /\ Wanted' = Wanted /\ listed \subseteq Starts /\ \A t \in listed : t \in Nat
      /\ outcome' = IF Valid(byStart') THEN "ok" ELSE "error"
  BY StartIsMultiple DEF LastPage, request, FetchInv, TypeOK, Wanted, Confirmed
<1> DEFINE Usable(S) == \A t \in S : /\ t \in Starts /\ startMs <= t /\ t < endMs
                                     /\ Confirmed(t)
<1>2. Usable(byStart')
  BY <1>1, PageType DEF LastPage, FetchInv, TypeOK, Kept
<1>3. ASSUME honest
      PROVE  byStart' = Wanted
  <2>1. byStart \subseteq Wanted /\ \A t \in Wanted : t > cursorEnd => t \in byStart
    BY <1>3 DEF FetchInv, Wanted
  <2>2. CASE cursorEnd < startMs /\ UNCHANGED byStart
    BY <1>1, <2>1, <2>2 DEF Wanted
  <2>3. CASE ~(cursorEnd < startMs /\ UNCHANGED byStart)
    <3>1. PICK rows \in Pages :
            /\ rows # {} => ReachesStart(rows)
            /\ byStart' = byStart \union Kept(rows)
      BY <2>3 DEF LastPage
    <3>2. cursorEnd >= startMs
      BY <2>3 DEF LastPage
    <3>3. /\ rows \subseteq listed
          /\ \A t \in listed : startMs <= t /\ t <= cursorEnd =>
               rows # {} /\ (Min(rows) <= t => t \in rows)
      BY <1>1, <1>3, <3>1, <3>2, HonestPage DEF Pages
    <3>4. Kept(rows) \subseteq Wanted
      BY <3>3 DEF Kept, Wanted
    <3>5. ASSUME NEW t \in Wanted, t <= cursorEnd
          PROVE  t \in Kept(rows)
      <4>1. t \in listed /\ startMs <= t /\ t < endMs /\ Confirmed(t) /\ t \in Nat
        BY <1>1 DEF Wanted
      <4>2. rows # {} /\ rows \in SUBSET Nat
        BY <1>1, <3>3, <3>5, <4>1
      <4>3. Min(rows) \in Nat /\ Min(rows) <= startMs
        BY <3>1, <4>2, MinProperties DEF ReachesStart
      <4>4. t \in rows
        BY <1>1, <3>3, <3>5, <4>1, <4>3
      <4> QED
        BY <4>1, <4>4 DEF Kept
    <3>6. \A t \in Wanted : t > cursorEnd \/ t <= cursorEnd
      BY <1>1 DEF Wanted
    <3> QED
      BY <2>1, <3>1, <3>4, <3>5, <3>6
  <2> QED
    BY <2>2, <2>3
<1>4. TypeOK' /\ \A t \in byStart' : startMs' <= t /\ t < endMs' /\ Confirmed(t)'
  BY <1>1, <1>2 DEF TypeOK, Confirmed
<1>5. honest' => byStart' \subseteq listed' /\ (\A t \in Wanted' : t > cursorEnd' => t \in byStart')
  BY <1>1, <1>3 DEF Wanted
<1>6. outcome' = "ok" => Valid(byStart') /\ (honest' => byStart' = Wanted')
  BY <1>1, <1>3
<1>7. honest /\ outcome' = "error" => ~Valid(Wanted)
  BY <1>1, <1>3
<1>8. Valid(byStart)' = Valid(byStart')
  BY DEF Valid
<1> QED
  BY <1>1, <1>4, <1>5, <1>6, <1>7, <1>8 DEF FetchInv

LEMMA NextKeeps ==
  ASSUME FetchInv, Next
  PROVE  FetchInv'
<1>1. CASE FetchPage
  BY <1>1, FetchPageKeeps
<1>2. CASE LastPage
  BY <1>2, LastPageKeeps
<1>3. CASE CallFails
  BY <1>3 DEF CallFails, request, FetchInv, TypeOK, Wanted, Confirmed
<1> QED
  BY <1>1, <1>2, <1>3 DEF Next

-----------------------------------------------------------------------------
(* The files                                                               *)

\* The first candles of a gapless sequence are one.
LEMMA FirstLinesValid ==
  ASSUME NEW S \in SUBSET Starts, Valid(S),
         NEW lines \in SUBSET S, lines # {},
         \A t \in lines, u \in S : u < t => u \in lines
  PROVE  Valid(lines)
<1>1. /\ S \in SUBSET (0..Horizon) /\ lines \in SUBSET (0..Horizon)
      /\ Horizon \in Nat /\ Interval \in Nat \ {0}
  BY PaginationAssumption, StartIsMultiple
<1>2. Max(S) \in S /\ \A x \in S : x <= Max(S)
  BY <1>1, MaxProperties
<1>3. Max(lines) \in lines /\ \A x \in lines : x <= Max(lines)
  BY <1>1, MaxProperties
<1>4. ASSUME NEW t \in lines, t # Max(lines)
      PROVE  t + Interval \in lines
  <2> DEFINE M == Max(lines)
             N == Max(S)
  <2>1. t \in Starts /\ M \in Starts /\ t \in Nat /\ M \in Nat /\ N \in Nat
    BY <1>2, <1>3, StartIsMultiple
  <2>2. t < M /\ M <= N
    <3>1. t <= M /\ M \in S
      BY <1>3
    <3> QED
      BY <1>2, <1>4, <2>1, <3>1
  <2>3. t + Interval \in S
    BY <2>1, <2>2 DEF Valid
  <2>4. t + Interval <= M
    BY <2>1, <2>2, NextStart
  <2>5. CASE t + Interval = M
    BY <1>3, <2>5
  <2>6. CASE t + Interval # M
    <3>1. t + Interval < M
      BY <1>1, <2>1, <2>4, <2>6
    <3> QED
      BY <1>3, <2>3, <3>1
  <2> QED
    BY <2>5, <2>6
<1> QED
  BY <1>4 DEF Valid

\* What is stored, whole or not, can be used.
StoredInv ==
  \A n \in DOMAIN files :
    /\ \A t \in files[n].stored : startMs <= t /\ t < endMs /\ Confirmed(t)
    /\ files[n].stored # {} => Valid(files[n].stored)

\* The invariant of the download.
DownloadInv == FetchInv /\ TypeOKDownload /\ StoredInv

\* Each file has its contents.
LEMMA FileType ==
  ASSUME TypeOKDownload, NEW n \in DOMAIN files
  PROVE  files[n] \in Contents
BY DEF TypeOKDownload, Range

LEMMA InitDownloadInv ==
  ASSUME InitDownload
  PROVE  DownloadInv
<1>1. DOMAIN files = {} /\ Range(files) = {}
  BY DEF InitDownload, Range
<1>2. FetchInv
  BY InitFetchInv DEF InitDownload
<1> QED
  BY <1>1, <1>2, DownloadAssumption
     DEF InitDownload, DownloadInv, TypeOKDownload, StoredInv, FetchInv

LEMMA FetchKeeps ==
  ASSUME DownloadInv, Fetch
  PROVE  DownloadInv'
<1>1. FetchInv'
  BY NextKeeps DEF Fetch, DownloadInv
<1>2. /\ UNCHANGED <<files, name, downloads, startMs, endMs, serverTime>>
      /\ stage = "fetch" /\ stage' \in {"fetch", "ended"}
  BY DEF Fetch, disk, Next, FetchPage, LastPage, CallFails, request
<1>3. TypeOKDownload'
  BY <1>1, <1>2 DEF DownloadInv, FetchInv, TypeOKDownload
<1>4. StoredInv'
  BY <1>2 DEF DownloadInv, StoredInv, Confirmed, Valid
<1> QED
  BY <1>1, <1>3, <1>4 DEF DownloadInv

LEMMA CreateFileKeeps ==
  ASSUME DownloadInv, CreateFile
  PROVE  DownloadInv'
<1>1. /\ UNCHANGED <<startMs, endMs, serverTime, listed, honest, cursorEnd, byStart,
                     outcome, downloads>>
      /\ stage = "fetch" /\ outcome = "ok" /\ name = None
  BY DEF CreateFile, vars, DownloadInv, TypeOKDownload
<1>2. FetchInv'
  BY <1>1 DEF DownloadInv, FetchInv, TypeOK, Wanted, Confirmed, Valid
<1>3. PICK n \in Names :
        IF OpensNew(n)
        THEN /\ files' = [m \in DOMAIN files \union {n} |->
                            IF m = n THEN [stored |-> {}, torn |-> FALSE] ELSE files[m]]
             /\ stage' = "write" /\ name' = n
        ELSE stage' = "ended" /\ UNCHANGED disk
  BY DEF CreateFile
<1>4. CASE OpensNew(n)
  <2>1. /\ DOMAIN files' = DOMAIN files \union {n}
        /\ files'[n] = [stored |-> {}, torn |-> FALSE]
        /\ \A m \in DOMAIN files : files'[m] = files[m]
    BY <1>3, <1>4 DEF OpensNew
  <2>2. \A m \in DOMAIN files' : files'[m] \in Contents
    <3>1. [stored |-> {}, torn |-> FALSE] \in Contents
      BY DEF Contents
    <3>2. \A m \in DOMAIN files : files[m] \in Contents
      BY FileType DEF DownloadInv
    <3> QED
      BY <2>1, <3>1, <3>2
  <2>3. TypeOKDownload'
    BY <1>1, <1>2, <1>3, <1>4, <2>1, <2>2
       DEF TypeOKDownload, DownloadInv, FetchInv, Range
  <2>4. StoredInv'
    BY <1>1, <2>1 DEF StoredInv, DownloadInv, Confirmed, Valid
  <2> QED
    BY <1>2, <2>3, <2>4 DEF DownloadInv
<1>5. CASE ~OpensNew(n)
  <2>1. UNCHANGED <<files, name>> /\ stage' = "ended"
    BY <1>3, <1>5 DEF disk
  <2>2. TypeOKDownload'
    BY <1>1, <1>2, <2>1 DEF TypeOKDownload, DownloadInv, FetchInv
  <2>3. StoredInv'
    BY <1>1, <2>1 DEF StoredInv, DownloadInv, Confirmed, Valid
  <2> QED
    BY <1>2, <2>2, <2>3 DEF DownloadInv
<1> QED
  BY <1>4, <1>5

LEMMA WritePieceKeeps ==
  ASSUME DownloadInv, WritePiece
  PROVE  DownloadInv'
<1>1. /\ UNCHANGED <<startMs, endMs, serverTime, listed, honest, cursorEnd, byStart,
                     outcome, downloads>>
      /\ stage = "write" /\ outcome = "ok" /\ name \in DOMAIN files
  BY DEF WritePiece, vars, DownloadInv, TypeOKDownload
<1>2. FetchInv'
  BY <1>1 DEF DownloadInv, FetchInv, TypeOK, Wanted, Confirmed, Valid
<1>3. PICK lines \in Longer(files[name].stored), torn \in BOOLEAN :
        /\ files' = [files EXCEPT ![name] = [stored |-> lines, torn |-> torn]]
        /\ stage' = IF lines = byStart THEN "ended" ELSE "write"
        /\ name' = IF lines = byStart THEN None ELSE name
  BY DEF WritePiece
<1>4. /\ byStart \in SUBSET Starts /\ Valid(byStart)
      /\ \A t \in byStart : startMs <= t /\ t < endMs /\ Confirmed(t)
  BY <1>1 DEF DownloadInv, FetchInv, TypeOK
<1>5. lines \in SUBSET byStart /\ \A t \in lines, u \in byStart : u < t => u \in lines
  BY DEF Longer
<1>6. /\ DOMAIN files' = DOMAIN files
      /\ files'[name] = [stored |-> lines, torn |-> torn]
      /\ \A m \in DOMAIN files : m # name => files'[m] = files[m]
  BY <1>1, <1>3
<1>7. lines # {} => Valid(lines)
  BY <1>4, <1>5, FirstLinesValid
<1>8. \A m \in DOMAIN files' : files'[m] \in Contents
  BY <1>4, <1>5, <1>6, FileType DEF DownloadInv, Contents
<1>9. TypeOKDownload'
  BY <1>1, <1>2, <1>3, <1>6, <1>8 DEF TypeOKDownload, DownloadInv, FetchInv, Range
<1>10. StoredInv'
  BY <1>1, <1>4, <1>5, <1>6, <1>7 DEF StoredInv, DownloadInv, Confirmed, Valid
<1> QED
  BY <1>2, <1>9, <1>10 DEF DownloadInv

LEMMA AgainKeeps ==
  ASSUME DownloadInv, Again
  PROVE  DownloadInv'
<1>1. /\ UNCHANGED <<startMs, endMs, honest, files, name>>
      /\ serverTime' \in serverTime..Horizon /\ serverTime \in 0..Horizon
      /\ listed' \subseteq Starts /\ cursorEnd' = endMs - 1 /\ byStart' = {}
      /\ stage' = "fetch" /\ outcome' = "fetching" /\ stage = "ended"
      /\ downloads' = downloads + 1 /\ downloads < MaxDownloads
      /\ downloads \in 1..MaxDownloads /\ name = None
      /\ startMs \in 0..Horizon /\ endMs \in 0..Horizon /\ startMs < endMs /\ Horizon \in Nat
      /\ honest \in BOOLEAN
  BY PaginationAssumption
     DEF Again, disk, DownloadInv, TypeOKDownload, FetchInv, TypeOK
<1>2. TypeOK'
  BY <1>1 DEF TypeOK
<1>3. \A t \in Wanted' : t \in Nat /\ t < endMs
  BY <1>1, StartIsMultiple DEF Wanted
<1>4. FetchInv'
  BY <1>1, <1>2, <1>3 DEF FetchInv
<1>5. TypeOKDownload'
  BY <1>1, <1>2, DownloadAssumption DEF TypeOKDownload, DownloadInv
<1>6. ASSUME NEW n \in DOMAIN files, NEW t \in files[n].stored
      PROVE  Confirmed(t)'
  <2>1. t \in Starts /\ Confirmed(t)
    BY FileType DEF DownloadInv, StoredInv, Contents
  <2>2. t \in Nat /\ Interval \in Nat
    BY <2>1, StartIsMultiple, PaginationAssumption
  <2> QED
    BY <1>1, <2>1, <2>2 DEF Confirmed
<1>7. StoredInv'
  BY <1>1, <1>6 DEF StoredInv, DownloadInv, Valid
<1> QED
  BY <1>4, <1>5, <1>7 DEF DownloadInv

LEMMA DownloadInvHolds ==
  SpecDownload => []DownloadInv
<1>1. InitDownload => DownloadInv
  BY InitDownloadInv
<1>2. DownloadInv /\ [NextDownload]_allVars => DownloadInv'
  <2> SUFFICES ASSUME DownloadInv, [NextDownload]_allVars
               PROVE  DownloadInv'
    OBVIOUS
  <2>1. CASE Fetch
    BY <2>1, FetchKeeps
  <2>2. CASE CreateFile
    BY <2>2, CreateFileKeeps
  <2>3. CASE WritePiece
    BY <2>3, WritePieceKeeps
  <2>4. CASE Interrupted
    BY <2>4 DEF Interrupted, vars, DownloadInv, FetchInv, TypeOK, Wanted, Confirmed, Valid,
                TypeOKDownload, StoredInv
  <2>5. CASE Again
    BY <2>5, AgainKeeps
  <2>6. CASE UNCHANGED allVars
    BY <2>6 DEF allVars, vars, DownloadInv, FetchInv, TypeOK, Wanted, Confirmed, Valid,
                TypeOKDownload, StoredInv
  <2> QED
    BY <2>1, <2>2, <2>3, <2>4, <2>5, <2>6 DEF NextDownload
<1> QED
  BY <1>1, <1>2, PTL DEF SpecDownload

-----------------------------------------------------------------------------
(* Theorems                                                                *)

\* The download is type correct: among others, the cursor stays within the
\* range, only what was fetched whole is written, and only to a file of its
\* own.
THEOREM DownloadTypeCorrect ==
  SpecDownload => []TypeOKDownload
<1>1. DownloadInv => TypeOKDownload
  BY DEF DownloadInv
<1> QED
  BY <1>1, DownloadInvHolds, PTL

\* Whatever an exchange answers, the candles returned are confirmed, in range
\* and without a gap.
THEOREM FetchedIsUsable ==
  SpecDownload => []ResultUsable
<1>1. DownloadInv => ResultUsable
  <2> SUFFICES ASSUME DownloadInv, outcome = "ok"
               PROVE  /\ byStart # {}
                      /\ \A t \in byStart :
                           startMs <= t /\ t < endMs /\ t + Interval - 1 < serverTime
                      /\ Cardinality(byStart)
                           = 1 + (Max(byStart) - Min(byStart)) \div Interval
    BY DEF ResultUsable
  <2>1. byStart \in SUBSET Starts /\ Valid(byStart)
    BY DEF DownloadInv, FetchInv, TypeOK
  <2>2. byStart # {}
    BY <2>1 DEF Valid
  <2>3. \A t \in byStart : startMs <= t /\ t < endMs /\ t + Interval - 1 < serverTime
    BY DEF DownloadInv, FetchInv, Confirmed
  <2> QED
    BY <2>1, <2>2, <2>3, ValidIsGapless
<1> QED
  BY <1>1, DownloadInvHolds, PTL

\* Of an honest exchange's candles none is missed between two pages.
THEOREM FetchedIsComplete ==
  SpecDownload => []ResultComplete
<1>1. DownloadInv => ResultComplete
  BY DEF DownloadInv, FetchInv, ResultComplete, Wanted, Confirmed
<1> QED
  BY <1>1, DownloadInvHolds, PTL

\* The whole lines of any file, cut short or not, are confirmed candles of the
\* range without a gap.
THEOREM StoredIsUsable ==
  SpecDownload => []StoredUsable
<1>1. DownloadInv => StoredUsable
  <2> SUFFICES ASSUME DownloadInv, NEW n \in DOMAIN files, files[n].stored # {}
               PROVE  /\ \A t \in files[n].stored :
                           startMs <= t /\ t < endMs /\ t + Interval - 1 < serverTime
                      /\ Cardinality(files[n].stored)
                           = 1 + (Max(files[n].stored) - Min(files[n].stored)) \div Interval
    BY DEF StoredUsable
  <2>1. files[n].stored \in SUBSET Starts
    BY FileType DEF DownloadInv, Contents
  <2>2. /\ Valid(files[n].stored)
        /\ \A t \in files[n].stored : startMs <= t /\ t < endMs /\ Confirmed(t)
    BY DEF DownloadInv, StoredInv
  <2> QED
    BY <2>1, <2>2, ValidIsGapless DEF Confirmed
<1> QED
  BY <1>1, DownloadInvHolds, PTL

\* A range that an honest exchange has whole fails only if a call does.
THEOREM NoFalseAlarmRaised ==
  SpecDownload => NoFalseAlarm
<1> DEFINE Alarmed == honest /\ outcome' = "error" /\ ~CallFails
             => ~Valid({t \in listed : startMs <= t /\ t < endMs /\ Confirmed(t)})
<1>1. DownloadInv /\ [NextDownload]_allVars => [Alarmed]_vars
  <2> SUFFICES ASSUME DownloadInv, [NextDownload]_allVars, vars' # vars,
                      honest, outcome' = "error", ~CallFails
               PROVE  ~Valid(Wanted)
    BY DEF Wanted
  <2>1. Next
    BY DEF NextDownload, Fetch, CreateFile, WritePiece, Interrupted, Again, allVars
  <2>2. FetchInv
    BY DEF DownloadInv
  <2>3. ~FetchPage
    BY <2>2, FetchPageKeeps
  <2>4. LastPage
    BY <2>1, <2>3 DEF Next
  <2> QED
    BY <2>2, <2>4, LastPageKeeps
<1> QED
  BY <1>1, DownloadInvHolds, PTL DEF SpecDownload, NoFalseAlarm

\* A file that is not being written any more stays as it is.
THEOREM StoreIsImmutable ==
  SpecDownload => StoreImmutable
<1> DEFINE FilesStay == \A n \in DOMAIN files :
             n \in DOMAIN files' /\ (n # name => files'[n] = files[n])
<1>1. DownloadInv /\ [NextDownload]_allVars => [FilesStay]_files
  <2> SUFFICES ASSUME DownloadInv, [NextDownload]_allVars, files' # files
               PROVE  \A n \in DOMAIN files :
                        n \in DOMAIN files' /\ (n # name => files'[n] = files[n])
    OBVIOUS
  <2>1. CASE CreateFile
    BY <2>1 DEF CreateFile, OpensNew, disk
  <2>2. CASE WritePiece
    <3>1. name \in DOMAIN files
      BY <2>2 DEF WritePiece, DownloadInv, TypeOKDownload
    <3> QED
      BY <2>2, <3>1 DEF WritePiece
  <2> QED
    BY <2>1, <2>2 DEF NextDownload, Fetch, Interrupted, Again, disk, allVars
<1> QED
  BY <1>1, DownloadInvHolds, PTL DEF SpecDownload, StoreImmutable
=============================================================================
