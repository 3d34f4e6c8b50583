--------------------------- MODULE ListingsProofs ---------------------------
(***************************************************************************)
(* The lists of Listings for any number of rows, any page size and limits  *)
(* and any filters.  A row that a walk through the pages has not shown yet *)
(* has at least as many rows before it as the walk has passed: arriving    *)
(* rows can only push it back, and rows that leave are older.              *)
(***************************************************************************)
EXTENDS Listings, FiniteSetTheorems, TLAPS

---------------------------------------------------------------------------
(* Places of rows *)

LEMMA Sizes ==
  ASSUME NEW S \in SUBSET (1..Rows)
  PROVE  /\ IsFiniteSet(S) /\ Cardinality(S) \in 0..Rows
         /\ \A r : Before(S, r) \in SUBSET S /\ Cardinality(Before(S, r)) \in 0..Rows
<1>1. IsFiniteSet(1..Rows) /\ Cardinality(1..Rows) = Rows
  <2>1. 1 \in Int /\ Rows \in Int /\ Rows >= 0
    BY SizesAssumption
  <2>2. Cardinality(1..Rows) = IF 1 > Rows THEN 0 ELSE Rows - 1 + 1
    BY <2>1, FS_Interval
  <2> QED
    BY <2>1, <2>2, FS_Interval
<1>2. \A T \in SUBSET (1..Rows) : IsFiniteSet(T) /\ Cardinality(T) \in 0..Rows
  <2> TAKE T \in SUBSET (1..Rows)
  <2>1. IsFiniteSet(T) /\ Cardinality(T) <= Cardinality(1..Rows)
    BY <1>1, FS_Subset
  <2>2. Cardinality(T) \in Nat
    BY <2>1, FS_CardinalityType
  <2> QED
    BY <1>1, <2>1, <2>2, SizesAssumption
<1>3. \A r : Before(S, r) \in SUBSET S
  BY DEF Before
<1> QED
  BY <1>2, <1>3

LEMMA Grows ==
  ASSUME NEW T \in SUBSET (1..Rows), NEW S \in SUBSET T
  PROVE  Cardinality(S) <= Cardinality(T)
BY Sizes, FS_Subset

LEMMA BehindFewer ==
  ASSUME NEW S \in SUBSET (1..Rows), NEW r \in S
  PROVE  Cardinality(Before(S, r)) < Cardinality(S)
<1>1. Before(S, r) \in SUBSET S /\ r \notin Before(S, r)
  BY SizesAssumption DEF Before
<1>2. Cardinality(Before(S, r)) <= Cardinality(S)
  BY <1>1, Grows
<1>3. Cardinality(Before(S, r)) # Cardinality(S)
  BY <1>1, Sizes, FS_Subset
<1> QED
  BY <1>2, <1>3, Sizes

LEMMA BeforeChain ==
  ASSUME NEW S \in SUBSET (1..Rows), NEW r \in S, NEW s \in Before(S, r)
  PROVE  /\ s \in S /\ s \notin Before(S, s)
         /\ Before(S, s) \in SUBSET Before(S, r)
         /\ Before(S, r) \in SUBSET (1..Rows)
<1>1. S \subseteq Int /\ s \in S /\ s > r
  BY SizesAssumption DEF Before
<1>2. \A t \in S : t > s => t > r
  BY <1>1
<1>3. \A t \in Before(S, s) : t \in Before(S, r)
  BY <1>2 DEF Before
<1>4. ~ (s > s)
  BY <1>1
<1>5. s \notin Before(S, s)
  BY <1>4 DEF Before
<1>6. \A t \in Before(S, r) : t \in 1..Rows
  BY DEF Before
<1> QED
  BY <1>1, <1>3, <1>5, <1>6

\* Who is among the newest has all that come before it there.
LEMMA NewestBefore ==
  ASSUME NEW S \in SUBSET (1..Rows), NEW n \in Nat, NEW r \in Newest(S, n)
  PROVE  Before(Newest(S, n), r) = Before(S, r)
<1> SUFFICES ASSUME NEW s \in Before(S, r) PROVE s \in Newest(S, n)
  BY DEF Before, Newest
<1>1. /\ Before(S, s) \in SUBSET Before(S, r) /\ Before(S, r) \in SUBSET (1..Rows)
      /\ s \in S
  BY BeforeChain DEF Newest
<1>2. Cardinality(Before(S, s)) <= Cardinality(Before(S, r))
  BY <1>1, Grows
<1>3. Cardinality(Before(S, r)) < n
  BY DEF Newest
<1>4. Cardinality(Before(S, s)) < n
  BY <1>2, <1>3, Sizes
<1> QED
  BY <1>1, <1>4 DEF Newest

\* Fewer than the limit are all.
LEMMA FewAreAll ==
  ASSUME NEW S \in SUBSET (1..Rows), NEW n \in Nat, Cardinality(Newest(S, n)) < n
  PROVE  Newest(S, n) = S
<1> DEFINE Rest == S \ Newest(S, n)
<1> SUFFICES ASSUME Rest # {} PROVE FALSE
  BY DEF Newest
<1> DEFINE Befores == {Before(S, r) : r \in Rest}
<1>1. IsFiniteSet(S)
  BY Sizes
<1>2. PICK B \in Befores : \A C \in Befores : ~ (C \in SUBSET B /\ C # B)
  <2>1. IsWellFoundedOn(StrictSubsetOrdering(S), FiniteSubsetsOf(S))
    BY FS_StrictSubsetOrderingWellFounded
  <2>2. Befores \subseteq FiniteSubsetsOf(S) /\ Befores # {}
    <3>1. \A x \in Rest : Before(S, x) \in SUBSET S /\ IsFiniteSet(Before(S, x))
      BY Sizes, FS_Subset, <1>1
    <3> QED
      BY <3>1 DEF FiniteSubsetsOf
  <2>3. PICK B \in Befores : \A C \in Befores : ~ (<<C, B>> \in StrictSubsetOrdering(S))
    BY <2>1, <2>2, WFMin
  <2>4. \A C \in Befores : C \subseteq S
    BY <2>2 DEF FiniteSubsetsOf
  <2>5. \A C \in Befores : ~ (C \in SUBSET B /\ C # B)
    <3> SUFFICES ASSUME NEW C \in Befores, C \in SUBSET B, C # B PROVE FALSE
      OBVIOUS
    <3>1. <<C, B>> \in StrictSubsetOrdering(S)
      BY <2>4 DEF StrictSubsetOrdering
    <3> QED
      BY <2>3, <3>1
  <2> QED
    BY <2>5
<1>3. PICK r \in Rest : B = Before(S, r)
  OBVIOUS
<1>4. Before(S, r) \in SUBSET Newest(S, n)
  <2> SUFFICES ASSUME NEW s \in Before(S, r), s \notin Newest(S, n) PROVE FALSE
    OBVIOUS
  <2>1. /\ s \in Rest /\ s \notin Before(S, s)
        /\ Before(S, s) \in SUBSET Before(S, r)
    BY BeforeChain
  <2>2. Before(S, s) \in Befores /\ Before(S, s) # Before(S, r)
    BY <2>1
  <2> QED
    BY <2>1, <2>2, <1>2, <1>3
<1>5. Cardinality(Before(S, r)) <= Cardinality(Newest(S, n))
  BY <1>4, Grows DEF Newest
<1>6. ~ (Cardinality(Before(S, r)) < n)
  BY DEF Newest
<1>7. Newest(S, n) \in SUBSET (1..Rows)
  BY DEF Newest
<1> QED
  BY <1>5, <1>6, <1>7, Sizes

---------------------------------------------------------------------------
(* Numbers of pages *)

LEMMA Times ==
  ASSUME NEW a \in Nat, NEW b \in Nat, NEW m \in Nat, a <= b
  PROVE  a * m \in Nat /\ a * m <= b * m /\ (a + 1) * m = a * m + m
BY SMT

LEMMA PagesCover ==
  ASSUME NEW t \in Nat
  PROVE  /\ Pages(t) \in Nat \ {0}
         /\ t <= Pages(t) * PageSize
         /\ \A u \in Nat : t <= u * PageSize /\ u # 0 => Pages(t) <= u
<1>1. CASE t = 0
  BY <1>1, SizesAssumption DEF Pages
<1>2. CASE t # 0
  <2> DEFINE q == (t + PageSize - 1) \div PageSize
  <2>1. Pages(t) = q
    BY <1>2 DEF Pages
  <2>2. t + PageSize - 1 \in Nat /\ PageSize \in Nat /\ PageSize > 0
    BY SizesAssumption
  <2>3. q \in Int /\ q * PageSize <= t + PageSize - 1 /\ t + PageSize - 1 < (q + 1) * PageSize
    BY <2>2, SMT
  <2> HIDE DEF q
  <2>4. q >= 1
    BY <1>2, <2>2, <2>3, SMT
  <2>5. (q + 1) * PageSize = q * PageSize + PageSize /\ q * PageSize \in Nat
    BY <2>2, <2>3, <2>4, SMT
  <2>6. t <= q * PageSize
    BY <2>2, <2>3, <2>5
  <2>7. ASSUME NEW u \in Nat, t <= u * PageSize, u # 0 PROVE q <= u
    <3>1. SUFFICES ASSUME u + 1 <= q PROVE FALSE
      BY <2>3
    <3>2. (u + 1) * PageSize <= q * PageSize /\ (u + 1) * PageSize = u * PageSize + PageSize
      BY <3>1, <2>2, <2>3, <2>4, SMT
    <3>3. u * PageSize \in Nat
      BY <2>2, SMT
    <3> QED
      BY <3>2, <3>3, <2>2, <2>3, <2>5, <2>7
  <2> QED
    BY <2>1, <2>3, <2>4, <2>6, <2>7
<1> QED
  BY <1>1, <1>2

LEMMA PagesType ==
  /\ MaxPage \in Nat \ {0}
  /\ \A t \in 0..Rows : Pages(t) \in 1..MaxPage
<1>1. MaxPage \in Nat \ {0} /\ Rows <= MaxPage * PageSize
  BY PagesCover, SizesAssumption DEF MaxPage
<1>2. ASSUME NEW t \in 0..Rows PROVE Pages(t) \in 1..MaxPage
  <2>1. MaxPage * PageSize \in Nat
    BY <1>1, Times, SizesAssumption
  <2>2. t <= MaxPage * PageSize
    BY <1>1, <2>1, SizesAssumption
  <2> QED
    BY <1>1, <2>2, PagesCover, SizesAssumption
<1> QED
  BY <1>1, <1>2

\* No row lies behind the last page.
LEMMA NoneBehind ==
  ASSUME NEW S \in SUBSET (1..Rows), NEW p \in Nat, Pages(Cardinality(S)) <= p,
         NEW r \in S, Cardinality(Before(S, r)) >= p * PageSize
  PROVE  FALSE
<1> DEFINE c == Cardinality(S)
           b == Cardinality(Before(S, r))
<1>1. c \in Nat /\ b \in Nat /\ b < c
  BY Sizes, BehindFewer
<1>2. Pages(c) \in Nat /\ c <= Pages(c) * PageSize
  BY <1>1, PagesCover
<1>3. Pages(c) * PageSize <= p * PageSize /\ Pages(c) * PageSize \in Nat /\ p * PageSize \in Nat
  BY <1>2, Times, SizesAssumption
<1> QED
  BY <1>1, <1>2, <1>3

---------------------------------------------------------------------------
(* What is listed *)

LEMMA EntriesFacts ==
  ASSUME NEW f \in Filters
  PROVE  /\ Listed(f) \in SUBSET table
         /\ Listed(f) \in SUBSET (1..Rows)
         /\ Entries(f) \in SUBSET Listed(f)
         /\ \A r \in Entries(f) : Before(Entries(f), r) = Before(Listed(f), r)
<1>1. Listed(f) \in SUBSET table /\ Listed(f) \in SUBSET (1..Rows)
  BY MatchingAssumption DEF Listed
<1>2. Entries(f) \in SUBSET Listed(f)
  BY DEF Entries, Newest
<1>3. \A r \in Entries(f) : Before(Entries(f), r) = Before(Listed(f), r)
  BY <1>1, NewestBefore, SizesAssumption DEF Entries
<1> QED
  BY <1>1, <1>2, <1>3

LEMMA KeysFacts ==
  ASSUME TypeOK
  PROVE  /\ Key \in Keys
         /\ \A f \in Filters, p \in 1..MaxPage : <<p, f>> \in Keys
         /\ \A k \in Keys : k[1] \in 1..MaxPage /\ k[2] \in Filters
BY DEF TypeOK, Key, Keys

---------------------------------------------------------------------------
(* The inductive invariant *)

\* The fetches and errors once the page shows k.
LEMMA ObservedType ==
  ASSUME TypeOK, NEW k \in Keys, NEW fs \in [Keys -> Running \cup {Idle}],
         NEW gs \in Observed(fs, k)
  PROVE  /\ gs \in [Keys -> Running \cup {Idle}]
         /\ Cleared(gs) \in [Keys -> {"none", "unavailable", "other"}]
<1>1. Start(k) \in Running
  BY KeysFacts, SizesAssumption DEF Start, Run, Running
<1>2. gs \in [Keys -> Running \cup {Idle}]
  BY <1>1 DEF Observed
<1>3. Cleared(gs) \in [Keys -> {"none", "unavailable", "other"}]
  BY DEF Cleared, TypeOK
<1> QED
  BY <1>2, <1>3

LEMMA AnswerType ==
  ASSUME TypeOK, NEW k \in Keys, Answered(k)
  PROVE  /\ Answer(k) \in Data
         /\ fetch[k] \in Running
         /\ Answer(k).rows \subseteq Listed(k[2])
         /\ Pages(Answer(k).total) \in 1..MaxPage
<1>1. fetch[k] \in Running
  BY DEF TypeOK, Answered, Idle
<1>2. /\ Entries(k[2]) \in SUBSET Listed(k[2]) /\ Entries(k[2]) \in SUBSET (1..Rows)
      /\ Cardinality(Entries(k[2])) \in 0..Rows
  <2>1. k[2] \in Filters
    BY KeysFacts
  <2>2. Entries(k[2]) \in SUBSET Listed(k[2]) /\ Entries(k[2]) \in SUBSET (1..Rows)
    BY <2>1, EntriesFacts
  <2> QED
    BY <2>2, Sizes
<1>3. /\ Slice(Entries(k[2]), fetch[k].page) \subseteq Listed(k[2])
      /\ Slice(Entries(k[2]), fetch[k].page) \in SUBSET (1..Rows)
  BY <1>2 DEF Slice
<1>4. Answer(k) \in Data
  BY <1>1, <1>2, <1>3 DEF Answer, Data, Running
<1> QED
  BY <1>1, <1>3, <1>4, PagesType DEF Answer, Data

LEMMA InitIInv == Init => IInv
<1> SUFFICES ASSUME Init PROVE IInv
  OBVIOUS
<1>1. MaxPage \in Nat \ {0} /\ 1 \in 1..MaxPage
  BY PagesType
<1>2. Key \in Keys
  BY <1>1 DEF Init, Key, Keys
<1>3. Start(Key) \in Running
  BY <1>1, SizesAssumption DEF Init, Key, Start, Run, Running
<1>4. fetch \in [Keys -> Running \cup {Idle}]
  BY <1>2, <1>3 DEF Init
<1>5. table \subseteq 1..Rows /\ low \in 0..Rows
  BY SizesAssumption DEF Init
<1>6. TypeOK
  BY <1>1, <1>4, <1>5, SizesAssumption DEF Init, TypeOK
<1>7. DueComesLater /\ WalkMissesNothing
  BY DEF Init, DueComesLater, WalkMissesNothing
<1>8. DataStay
  BY DEF Init, DataStay, NoData
<1> QED
  BY <1>6, <1>7, <1>8 DEF IInv

LEMMA WalkType ==
  ASSUME TypeOK, UNCHANGED walk \/ NoWalk
  PROVE  walked' \in 0..MaxPage /\ due' \subseteq 1..Rows /\ kept' \subseteq 1..MaxPage
<1>1. CASE UNCHANGED walk
  BY <1>1 DEF walk, TypeOK
<1>2. CASE NoWalk
  <2>1. 0 \in 0..MaxPage
    BY PagesType
  <2> QED
    BY <1>2, <2>1 DEF NoWalk
<1> QED
  BY <1>1, <1>2

LEMMA TypeStep ==
  ASSUME IInv, [Next]_vars
  PROVE  TypeOK'
<1> USE KeysFacts, PagesType DEF IInv
<1>1. ASSUME NEW k \in Keys, Count(k) PROVE TypeOK'
  <2>1. Cardinality(Listed(k[2])) \in 0..Rows
    BY EntriesFacts, Sizes
  <2>2. fetch[k] \in Running
    BY <1>1 DEF Count, TypeOK, Idle
  <2>3. [fetch[k] EXCEPT !.at = "counted", !.total = Cardinality(Listed(k[2]))] \in Running
    BY <2>1, <2>2 DEF Running
  <2>4. fetch' \in [Keys -> Running \cup {Idle}]
    BY <1>1, <2>3 DEF Count, TypeOK
  <2> QED
    BY <1>1, <2>4 DEF Count, TypeOK, server, view, walk
<1>2. ASSUME NEW k \in Keys, Correct(k) PROVE TypeOK'
  <2>1. /\ Answered(k)
        /\ page' \in 1..MaxPage
        /\ fetch[k] \in Running
    BY <1>2, AnswerType DEF Correct
  <2>2. Run(page', fetch[k].left, TRUE) \in Running
    BY <2>1, SizesAssumption DEF Run, Running
  <2>3. [fetch EXCEPT ![k] = Run(page', fetch[k].left, TRUE)] \in [Keys -> Running \cup {Idle}]
    BY <2>2 DEF TypeOK
  <2>4. <<page', filter>> \in Keys
    BY <2>1 DEF TypeOK
  <2>5. PICK gs : /\ gs \in Observed([fetch EXCEPT ![k] = Run(page', fetch[k].left, TRUE)],
                                    <<page', filter>>)
                  /\ fetch' = gs
    BY <1>2 DEF Correct
  <2>6. fetch' \in [Keys -> Running \cup {Idle}] /\ error' \in [Keys -> {"none", "unavailable", "other"}]
    BY <1>2, <2>3, <2>4, <2>5, ObservedType DEF Correct
  <2> QED
    BY <1>2, <2>1, <2>6 DEF Correct, NoWalk, TypeOK, server
<1>3. ASSUME NEW k \in Keys, Store(k) PROVE TypeOK'
  <2>1. Answered(k) /\ Answer(k) \in Data
    BY <1>3, AnswerType DEF Store
  <2>2. cache' \in [Keys -> Data \cup {NoData}]
    BY <1>3, <2>1 DEF Store, TypeOK
  <2>3. fetch' \in [Keys -> Running \cup {Idle}] /\ error' \in [Keys -> {"none", "unavailable", "other"}]
    BY <1>3 DEF Store, TypeOK
  <2>4. Entries(filter) \subseteq 1..Rows
    BY EntriesFacts DEF TypeOK
  <2>5. walked' \in 0..MaxPage /\ due' \subseteq 1..Rows /\ kept' \subseteq 1..MaxPage
    <3>1. CASE UNCHANGED walk
      BY <3>1, WalkType
    <3>2. CASE NoWalk
      BY <3>2, WalkType
    <3>3. CASE FirstPage(Answer(k))
      <4>1. walked' = 1 /\ due' \subseteq 1..Rows /\ kept' = {}
        BY <2>4, <3>3 DEF FirstPage
      <4> QED
        BY <4>1, PagesType
    <3>4. CASE walked' = page /\ due' = due \ Answer(k).rows /\ UNCHANGED kept
      <4>1. page \in 0..MaxPage
        BY PagesType DEF TypeOK
      <4>2. due' \subseteq 1..Rows /\ kept' \subseteq 1..MaxPage
        BY <3>4 DEF TypeOK
      <4> QED
        BY <3>4, <4>1, <4>2
    <3>5. Walk(k, Answer(k))
      BY <1>3 DEF Store
    <3> QED
      BY <3>1, <3>2, <3>3, <3>4, <3>5 DEF Walk
  <2> QED
    BY <1>3, <2>2, <2>3, <2>5 DEF Store, TypeOK, server, view
<1>4. ASSUME NEW k \in Keys, Fail(k) PROVE TypeOK'
  <2>1. fetch[k] \in Running
    BY <1>4 DEF Fail, TypeOK
  <2>2. fetch[k].left > 0 => Run(k[1], fetch[k].left - 1, FALSE) \in Running
    BY <2>1, SizesAssumption DEF Run, Running
  <2>3. fetch' \in [Keys -> Running \cup {Idle}] /\ error' \in [Keys -> {"none", "unavailable", "other"}]
    BY <1>4, <2>2 DEF Fail, TypeOK
  <2> QED
    BY <1>4, <2>3 DEF Fail, TypeOK, server, view, walk
<1>5. ASSUME NEW k \in Keys, Collect(k) PROVE TypeOK'
  BY <1>5 DEF Collect, TypeOK, server, view, walk
<1>6. ASSUME NEW p \in 1..MaxPage, NEW on \in BOOLEAN, Turn(p, on) PROVE TypeOK'
  <2>1. PICK gs : gs \in Observed(fetch, <<p, filter>>) /\ fetch' = gs
    BY <1>6 DEF Turn
  <2>2. <<p, filter>> \in Keys
    BY DEF TypeOK
  <2>3. fetch' \in [Keys -> Running \cup {Idle}] /\ error' \in [Keys -> {"none", "unavailable", "other"}]
    BY <1>6, <2>1, <2>2, ObservedType DEF Turn, TypeOK
  <2>4. walked' \in 0..MaxPage /\ due' \subseteq 1..Rows /\ kept' \subseteq 1..MaxPage
    <3>1. CASE UNCHANGED walk \/ NoWalk
      BY <3>1, WalkType
    <3>2. CASE /\ walked' = p
               /\ due' = due \ cache[<<p, filter>>].rows
               /\ kept' = kept \cup {p}
      <4>1. p \in 0..MaxPage
        BY PagesType
      <4>2. due' \subseteq 1..Rows
        BY <3>2 DEF TypeOK
      <4>3. kept' \subseteq 1..MaxPage
        BY <3>2 DEF TypeOK
      <4> QED
        BY <3>2, <4>1, <4>2, <4>3
    <3>3. \/ UNCHANGED walk \/ NoWalk
          \/ WalkTo(<<p, filter>>)
      BY <1>6 DEF Turn
    <3>4. <<p, filter>>[1] = p
      OBVIOUS
    <3> QED
      BY <3>1, <3>2, <3>3, <3>4 DEF WalkTo
  <2> QED
    BY <1>6, <2>3, <2>4 DEF Turn, TypeOK, server
<1>7. ASSUME NEW f \in Filters, Submit(f) PROVE TypeOK'
  <2>1. PICK gs : gs \in Observed(fetch, <<1, f>>) /\ fetch' = gs
    BY <1>7 DEF Submit
  <2>2. <<1, f>> \in Keys
    OBVIOUS
  <2>3. fetch' \in [Keys -> Running \cup {Idle}] /\ error' \in [Keys -> {"none", "unavailable", "other"}]
    BY <1>7, <2>1, <2>2, ObservedType DEF Submit, TypeOK
  <2>4. walked' \in 0..MaxPage /\ due' \subseteq 1..Rows /\ kept' \subseteq 1..MaxPage
    <3>1. UNCHANGED walk \/ NoWalk
      BY <1>7 DEF Submit
    <3> QED
      BY <3>1, WalkType
  <2> QED
    BY <1>7, <2>3, <2>4 DEF Submit, TypeOK, server
<1>8. Start(Key) \in Running
  BY SizesAssumption DEF Start, Run, Running
<1>9. ASSUME Again PROVE TypeOK'
  <2>1. fetch' \in [Keys -> Running \cup {Idle}] /\ error' \in [Keys -> {"none", "unavailable", "other"}]
    BY <1>8, <1>9 DEF Again, TypeOK, Cleared
  <2> QED
    BY <1>9, <2>1 DEF Again, TypeOK, server, view, walk
<1>10. ASSUME Invalidate PROVE TypeOK'
  BY <1>8, <1>10 DEF Invalidate, TypeOK, server, view, walk
<1>11. ASSUME NEW r \in 1..Rows, Arrive(r) PROVE TypeOK'
  BY <1>11 DEF Arrive, TypeOK, view, walk
<1>12. ASSUME Expire PROVE TypeOK'
  BY <1>12, SizesAssumption DEF Expire, TypeOK, view, walk
<1>13. CASE UNCHANGED vars
  BY <1>13 DEF vars, TypeOK, server, view, walk
<1>14. NextPage \/ PreviousPage => \E p \in 1..MaxPage, on \in BOOLEAN : Turn(p, on)
  <2>1. TotalPages \in 1..MaxPage \/ cache[Key] = NoData
    BY DEF TotalPages, TypeOK, Data
  <2>2. cache[Key] # NoData => Label \in 1..MaxPage /\ Label <= TotalPages
    BY <2>1 DEF Label, TypeOK
  <2>3. ASSUME NextPage PROVE \E p \in 1..MaxPage, on \in BOOLEAN : Turn(p, on)
    <3>1. Label < TotalPages /\ Turn(Label + 1, TRUE)
      BY <2>3 DEF NextPage
    <3>2. Label + 1 \in 1..MaxPage
      BY <2>1, <2>2, <3>1 DEF Turn, Displayed, Fetched
    <3> HIDE DEF IInv
    <3> QED
      BY <3>1, <3>2, Zenon
  <2>4. ASSUME PreviousPage PROVE \E p \in 1..MaxPage, on \in BOOLEAN : Turn(p, on)
    <3>1. Label > 1 /\ Turn(Label - 1, FALSE)
      BY <2>4 DEF PreviousPage
    <3>2. Label - 1 \in 1..MaxPage
      BY <2>1, <2>2, <3>1 DEF Turn, Displayed, Fetched
    <3> QED
      BY <3>1, <3>2
  <2> QED
    BY <2>3, <2>4
<1> QED
  BY <1>1, <1>2, <1>3, <1>4, <1>5, <1>6, <1>7, <1>9, <1>10, <1>11, <1>12, <1>13, <1>14
     DEF Next, Ends, Poll, Focus

\* Arriving rows push others back, and rows that leave are older.
LEMMA RowsStep ==
  ASSUME IInv, (\E r \in 1..Rows : Arrive(r)) \/ Expire,
         NEW f \in Filters, NEW r \in table, r \in Entries(f)'
  PROVE  /\ r \in Entries(f)
         /\ Cardinality(Before(Listed(f), r)) <= Cardinality(Before(Listed(f), r))'
<1>1. /\ table \subseteq table' /\ table' \subseteq 1..Rows /\ list' = list
      /\ low \in 0..Rows /\ low' \in 0..Rows /\ low <= low'
      /\ table \subseteq 1..Rows
  <2>1. table \subseteq 1..Rows /\ low \in 0..Rows /\ (list' = list)
    BY DEF IInv, TypeOK, Arrive, Expire
  <2>2. CASE \E x \in 1..Rows : Arrive(x)
    <3>1. PICK x \in 1..Rows : Arrive(x)
      BY <2>2
    <3>2. table' = table \cup {x} /\ low' = low
      BY <3>1 DEF Arrive
    <3> QED
      BY <2>1, <3>2, SizesAssumption
  <2>3. CASE Expire
    <3>1. table' = table /\ low' = low + 1 /\ low < Rows
      BY <2>3 DEF Expire
    <3> QED
      BY <2>1, <3>1, SizesAssumption
  <2> QED
    BY <2>2, <2>3
<1>2. Listed(f)' \in SUBSET (1..Rows)
  BY <1>1 DEF Listed
<1>3. r \in Listed(f)'
  BY DEF Entries, Newest
<1>4. r \in Listed(f)
  BY <1>1, <1>3 DEF Listed
<1>5. ASSUME NEW s \in Listed(f), s > r PROVE s \in Listed(f)'
  <2>1. s \in Int /\ r \in Int /\ r > low'
    BY <1>1, <1>3 DEF Listed
  <2> QED
    BY <1>1, <1>5, <2>1 DEF Listed
<1>6. Before(Listed(f), r) \in SUBSET Before(Listed(f), r)' /\ Before(Listed(f), r)' \in SUBSET (1..Rows)
  BY <1>2, <1>5 DEF Before
<1>7. Cardinality(Before(Listed(f), r)) <= Cardinality(Before(Listed(f), r))'
  BY <1>6, Grows
<1>8. CASE list = "logs"
  <2>1. Cardinality(Before(Listed(f), r))' < MaxLines
    BY <1>1, <1>8 DEF Entries, Newest
  <2>2. /\ Cardinality(Before(Listed(f), r)) \in 0..Rows
        /\ Cardinality(Before(Listed(f), r))' \in 0..Rows
    BY <1>2, EntriesFacts, Sizes
  <2>3. Cardinality(Before(Listed(f), r)) < MaxLines
    BY <1>7, <2>1, <2>2, SizesAssumption
  <2> QED
    BY <1>4, <1>7, <1>8, <2>3 DEF Entries, Newest
<1>9. CASE list # "logs"
  BY <1>4, <1>7, <1>9 DEF Entries
<1> QED
  BY <1>8, <1>9

LEMMA RowsWalk ==
  ASSUME IInv, (\E r \in 1..Rows : Arrive(r)) \/ Expire
  PROVE  (DueComesLater /\ WalkMissesNothing)'
<1>1. /\ UNCHANGED <<page, filter, cache, walked, due, kept>>
      /\ table \subseteq table' /\ table' \subseteq 1..Rows
      /\ filter \in Filters /\ table \subseteq 1..Rows /\ walked \in Nat
  <2>1. filter \in Filters /\ table \subseteq 1..Rows /\ walked \in Nat
    BY PagesType DEF IInv, TypeOK
  <2>2. CASE \E x \in 1..Rows : Arrive(x)
    BY <2>1, <2>2 DEF Arrive, view, walk
  <2>3. CASE Expire
    BY <2>1, <2>3 DEF Expire, view, walk
  <2> QED
    BY <2>1, <2>2, <2>3
<1>2. ASSUME walked # 0, kept = {}, NEW r \in due
      PROVE  /\ r \in table
             /\ r \in Entries(filter)' => /\ r \in Entries(filter)
                                         /\ Cardinality(Before(Listed(filter), r))'
                                              >= walked * PageSize
  <2>1. r \in table
    BY <1>2 DEF IInv, DueComesLater
  <2>2. ASSUME r \in Entries(filter)'
        PROVE  /\ r \in Entries(filter)
               /\ Cardinality(Before(Listed(filter), r))' >= walked * PageSize
    <3>1. /\ r \in Entries(filter)
          /\ Cardinality(Before(Listed(filter), r)) <= Cardinality(Before(Listed(filter), r))'
      <4>1. \A f \in Filters : r \in Entries(f)' =>
              /\ r \in Entries(f)
              /\ Cardinality(Before(Listed(f), r)) <= Cardinality(Before(Listed(f), r))'
        BY <2>1, RowsStep
      <4>2. Entries(filter)' = Entries(filter)' /\ filter' = filter
        BY <1>1
      <4> QED
        BY <4>1, <1>1, <2>2 DEF Entries, Listed
    <3>2. Cardinality(Before(Listed(filter), r)) >= walked * PageSize
      BY <1>2, <3>1 DEF IInv, DueComesLater
    <3>3. /\ Cardinality(Before(Listed(filter), r)) \in Nat
          /\ Cardinality(Before(Listed(filter), r))' \in Nat
          /\ walked * PageSize \in Nat
      <4>1. Listed(filter) \in SUBSET (1..Rows) /\ Listed(filter)' \in SUBSET (1..Rows)
        BY <1>1, MatchingAssumption DEF Listed
      <4>2. Cardinality(Before(Listed(filter), r)) \in Nat
        BY <4>1, Sizes
      <4>3. Before(Listed(filter), r)' = Before(Listed(filter)', r)
        BY DEF Before
      <4>4. Cardinality(Before(Listed(filter)', r)) \in Nat
        BY <4>1, Sizes
      <4>5. walked * PageSize \in Nat
        BY <1>1, Times, SizesAssumption
      <4> QED
        BY <4>2, <4>3, <4>4, <4>5
    <3> QED
      BY <3>1, <3>2, <3>3
  <2> QED
    BY <2>1, <2>2
<1>3. DueComesLater'
  BY <1>1, <1>2 DEF DueComesLater
<1>4. WalkMissesNothing'
  BY <1>1, <1>2 DEF WalkMissesNothing, TotalPages, Key, IInv
<1> QED
  BY <1>3, <1>4

\* Steps that leave the walk where it is.
LEMMA WalkKept ==
  ASSUME IInv, UNCHANGED <<list, table, low, filter, walked, due, kept>>,
         (page' = page /\ (cache[Key])' = cache[Key]) \/ page' # walked
  PROVE  (DueComesLater /\ WalkMissesNothing)'
<1>1. Listed(filter)' = Listed(filter)
  BY DEF Listed
<1>2. Entries(filter)' = Entries(filter)
  BY <1>1 DEF Entries
<1>3. DueComesLater'
  BY <1>1, <1>2 DEF DueComesLater, IInv
<1>4. WalkMissesNothing'
  BY <1>2 DEF WalkMissesNothing, TotalPages, IInv
<1> QED
  BY <1>3, <1>4

\* Nothing is claimed of a walk that is over or was shown a page that was kept.
LEMMA WalkEnds ==
  ASSUME walked' = 0 \/ kept' # {} PROVE (DueComesLater /\ WalkMissesNothing)'
BY DEF DueComesLater, WalkMissesNothing

\* The page that is stored next: what it leaves due comes after it.
LEMMA WalkOn ==
  ASSUME TypeOK, NEW p \in Nat \ {0}, NEW r \in Entries(filter),
         r \notin Slice(Entries(filter), p),
         Cardinality(Before(Listed(filter), r)) >= (p - 1) * PageSize
  PROVE  /\ Cardinality(Before(Listed(filter), r)) >= p * PageSize
         /\ ~ (Pages(Cardinality(Entries(filter))) <= p)
<1>1. /\ Before(Entries(filter), r) = Before(Listed(filter), r)
      /\ Entries(filter) \in SUBSET (1..Rows)
  BY EntriesFacts DEF TypeOK
<1>2. /\ Cardinality(Before(Listed(filter), r)) \in Nat
      /\ p * PageSize \in Nat
  BY <1>1, Sizes, Times, SizesAssumption
<1>3. Cardinality(Before(Listed(filter), r)) >= p * PageSize
  BY <1>1, <1>2 DEF Slice
<1> QED
  BY <1>1, <1>3, NoneBehind

LEMMA StoreWalk ==
  ASSUME IInv, NEW k \in Keys, Store(k)
  PROVE  (DueComesLater /\ WalkMissesNothing)'
<1> DEFINE E == Entries(filter)
<1>1. /\ UNCHANGED <<list, table, low, page, filter>>
      /\ cache' = [cache EXCEPT ![k] = Answer(k)]
      /\ cache \in [Keys -> Data \cup {NoData}]
      /\ page \in Nat \ {0} /\ filter \in Filters /\ walked \in Nat
      /\ Key \in Keys /\ Key' = Key
  BY KeysFacts, PagesType DEF Store, server, view, IInv, TypeOK, Key
<1>2. CASE k # Key
  <2>1. UNCHANGED <<walked, due, kept>>
    BY <1>2 DEF Store, Walk, walk
  <2>2. (cache[Key])' = cache[Key]
    BY <1>1, <1>2
  <2> QED
    BY <1>1, <2>1, <2>2, WalkKept
<1>3. CASE walked' = 0 \/ kept' # {}
  BY <1>3, WalkEnds
<1>4. CASE k = Key /\ walked' # 0 /\ kept' = {}
  <2>1. /\ Answer(k).total = Cardinality(E) /\ Answer(k).page = page
        /\ walked' = page
        /\ Answer(k).rows = Slice(E, page)
    <3>1. /\ Answer(k).total = Cardinality(E) /\ Answer(k).page = page
          /\ walked' = page
      BY <1>4 DEF Store, Walk, FirstPage, NoWalk
    <3>2. Answer(k).page = fetch[k].page /\ Answer(k).rows = Slice(Entries(k[2]), fetch[k].page)
      BY DEF Answer
    <3>3. k[2] = filter
      BY <1>4 DEF Key
    <3> QED
      BY <3>1, <3>2, <3>3
  <2>2. ASSUME NEW r \in due', r \in E
        PROVE  /\ r \notin Slice(E, page)
               /\ Cardinality(Before(Listed(filter), r)) >= (page - 1) * PageSize
    <3>1. Cardinality(Before(Listed(filter), r)) \in Nat
      BY <1>1, EntriesFacts, Sizes
    <3>2. CASE page = 1
      <4>1. due' = E \ Answer(k).rows
        BY <1>4, <2>1, <3>2 DEF Store, Walk, FirstPage, NoWalk
      <4>2. (page - 1) * PageSize = 0
        BY <3>2, SizesAssumption
      <4> QED
        BY <2>1, <2>2, <3>1, <4>1, <4>2
    <3>3. CASE page # 1
      <4>1. due' = due \ Answer(k).rows /\ walked # 0 /\ kept = {} /\ page \in {walked, walked + 1}
        BY <1>4, <2>1, <3>3 DEF Store, Walk, FirstPage, NoWalk
      <4>2. Cardinality(Before(Listed(filter), r)) >= walked * PageSize
        BY <2>2, <4>1 DEF IInv, DueComesLater
      <4>3. page - 1 \in Nat /\ page - 1 <= walked
        BY <1>1, <4>1
      <4>4. (page - 1) * PageSize <= walked * PageSize /\ (page - 1) * PageSize \in Nat
        BY <1>1, <4>3, Times, SizesAssumption
      <4>5. walked * PageSize \in Nat
        BY <1>1, Times, SizesAssumption
      <4> QED
        BY <2>1, <2>2, <3>1, <4>1, <4>2, <4>4, <4>5
    <3> QED
      BY <3>2, <3>3
  <2>3. ASSUME NEW r \in due', r \in E
        PROVE  /\ Cardinality(Before(Listed(filter), r)) >= page * PageSize
               /\ ~ (Pages(Cardinality(E)) <= page)
    BY <1>1, <2>2, <2>3, WalkOn DEF IInv
  <2>4. Listed(filter)' = Listed(filter) /\ Entries(filter)' = E
    BY <1>1 DEF Listed, Entries
  <2>5. \A r \in due' : r \in table
    <3>1. due' \subseteq E \/ (due' \subseteq due /\ walked # 0 /\ kept = {})
      BY <1>4 DEF Store, Walk, FirstPage, NoWalk
    <3> QED
      BY <1>1, <3>1, EntriesFacts DEF IInv, DueComesLater
  <2>6. DueComesLater'
    BY <1>1, <2>1, <2>3, <2>4, <2>5 DEF DueComesLater
  <2>7. (TotalPages)' = Pages(Cardinality(E))
    BY <1>1, <1>4, <2>1 DEF TotalPages
  <2>8. WalkMissesNothing'
    BY <1>1, <2>1, <2>3, <2>4, <2>7 DEF WalkMissesNothing
  <2> QED
    BY <2>6, <2>8
<1> QED
  BY <1>2, <1>3, <1>4

LEMMA WalkStep ==
  ASSUME IInv, [Next]_vars
  PROVE  (DueComesLater /\ WalkMissesNothing)'
<1> DEFINE Stays == /\ UNCHANGED <<list, table, low, page, filter, walked, due, kept>>
                    /\ (cache[Key])' = cache[Key]
<1>1. ASSUME Stays PROVE (DueComesLater /\ WalkMissesNothing)'
  BY <1>1, WalkKept
<1>2. ASSUME NEW k \in Keys, Count(k) PROVE Stays
  BY <1>2 DEF Count, server, view, walk, Key
<1>3. ASSUME NEW k \in Keys, Correct(k) PROVE (DueComesLater /\ WalkMissesNothing)'
  BY <1>3, WalkEnds DEF Correct, NoWalk
<1>4. ASSUME NEW k \in Keys, Fail(k) PROVE Stays
  BY <1>4 DEF Fail, server, view, walk, Key
<1>5. ASSUME NEW k \in Keys, Collect(k) PROVE Stays
  <2>1. k # Key /\ cache' = [cache EXCEPT ![k] = NoData] /\ Key' = Key
    BY <1>5 DEF Collect, view, Key
  <2>2. (cache[Key])' = cache[Key]
    BY <2>1, KeysFacts DEF IInv, TypeOK
  <2> QED
    BY <1>5, <2>2 DEF Collect, server, view, walk
<1>6. ASSUME NextPage PROVE (DueComesLater /\ WalkMissesNothing)'
  <2>1. /\ Label < TotalPages /\ page' = Label + 1
        /\ UNCHANGED <<list, table, low, filter>>
        /\ (page = walked /\ UNCHANGED walk) \/ walked' = 0 \/ kept' # {}
    BY <1>6 DEF NextPage, Turn, WalkTo, NoWalk, server
  <2>2. Label = page /\ page \in Nat
    <3>1. cache[Key] \in Data
      BY <1>6, KeysFacts DEF NextPage, Turn, Displayed, Fetched, IInv, TypeOK
    <3>2. TotalPages \in Int /\ page \in Nat
      BY <3>1, PagesType DEF TotalPages, Data, IInv, TypeOK
    <3> QED
      BY <2>1, <3>2 DEF Label
  <2>3. CASE page = walked /\ UNCHANGED walk
    <3>1. page' # walked
      BY <2>1, <2>2, <2>3
    <3> QED
      BY <2>1, <2>3, <3>1, WalkKept DEF walk
  <2>4. CASE walked' = 0 \/ kept' # {}
    BY <2>4, WalkEnds
  <2> QED
    BY <2>1, <2>3, <2>4
<1>7. ASSUME PreviousPage PROVE (DueComesLater /\ WalkMissesNothing)'
  BY <1>7, WalkEnds DEF PreviousPage, Turn, NoWalk
<1>8. ASSUME NEW f \in Filters, Submit(f) PROVE (DueComesLater /\ WalkMissesNothing)'
  <2>1. CASE <<1, f>> = Key
    <3>1. Stays
      BY <1>8, <2>1 DEF Submit, Key, server, walk
    <3> QED
      BY <3>1, <1>1
  <2>2. CASE <<1, f>> # Key
    BY <1>8, <2>2, WalkEnds DEF Submit, NoWalk
  <2> QED
    BY <2>1, <2>2
<1>9. ASSUME Again PROVE Stays
  BY <1>9 DEF Again, server, view, walk, Key
<1>10. ASSUME Invalidate PROVE Stays
  BY <1>10 DEF Invalidate, server, view, walk, Key
<1>11. CASE UNCHANGED vars
  <2>1. Stays
    BY <1>11 DEF vars, server, view, walk, Key
  <2> QED
    BY <2>1, <1>1
<1> HIDE DEF Stays
<1>12. ASSUME NEW k \in Keys, Count(k) \/ Ends(k) \/ Collect(k)
       PROVE  (DueComesLater /\ WalkMissesNothing)'
  BY <1>1, <1>2, <1>3, <1>4, <1>5, <1>12, StoreWalk DEF Ends
<1> QED
  BY <1>1, <1>6, <1>7, <1>8, <1>9, <1>10, <1>11, <1>12, RowsWalk DEF Next, Poll, Focus

LEMMA DataStep ==
  ASSUME IInv, [Next]_vars
  PROVE  DataStay'
<1> SUFFICES ASSUME list' # "logs"
             PROVE  low' = 0 /\ \A k \in Keys : (cache[k])'.rows \subseteq Listed(k[2])'
  BY DEF DataStay
<1>1. list' = list
  BY DEF Next, vars, server, view, walk, Count, Ends, Correct, Store, Fail, Collect,
         NextPage, PreviousPage, Turn, Submit, Poll, Focus, Again, Invalidate, Arrive, Expire
<1>2. /\ low = 0 /\ cache \in [Keys -> Data \cup {NoData}]
      /\ \A k \in Keys : cache[k].rows \subseteq Listed(k[2])
  BY <1>1 DEF IInv, TypeOK, DataStay
<1>3. low' = low /\ table \subseteq table'
  BY <1>1 DEF Next, vars, server, view, walk, Count, Ends, Correct, Store, Fail, Collect,
         NextPage, PreviousPage, Turn, Submit, Poll, Focus, Again, Invalidate, Arrive, Expire
<1>4. \A f \in Filters : Listed(f) \subseteq Listed(f)'
  BY <1>3 DEF Listed
<1>5. ASSUME NEW k \in Keys PROVE (cache[k])'.rows \subseteq Listed(k[2])
  <2>1. CASE cache' = cache
    BY <1>2, <2>1
  <2>2. CASE \E j \in Keys : Store(j)
    <3>1. PICK j \in Keys : Store(j)
      BY <2>2
    <3>2. cache' = [cache EXCEPT ![j] = Answer(j)] /\ Answer(j).rows \subseteq Listed(j[2])
      BY <3>1, AnswerType DEF Store, IInv
    <3> QED
      BY <1>2, <3>2
  <2>3. CASE \E j \in Keys : Collect(j)
    <3>1. PICK j \in Keys : cache' = [cache EXCEPT ![j] = NoData]
      BY <2>3 DEF Collect
    <3> QED
      BY <1>2, <3>1 DEF NoData
  <2>4. cache' = cache \/ (\E j \in Keys : Store(j)) \/ (\E j \in Keys : Collect(j))
    BY DEF Next, vars, Count, Ends, Correct, Fail, NextPage, PreviousPage, Turn, Submit,
           Poll, Focus, Again, Invalidate, Arrive, Expire
  <2> QED
    BY <2>1, <2>2, <2>3, <2>4
<1> QED
  BY <1>2, <1>3, <1>4, <1>5, KeysFacts DEF IInv

\* Every reachable state of the lists satisfies the inductive invariant: what a walk
\* has still to show comes after the pages it has passed, and rows found stay listed.
THEOREM ListingsInvariant == Spec => []IInv
<1>1. ASSUME IInv, [Next]_vars PROVE IInv'
  BY <1>1, TypeStep, WalkStep, DataStep DEF IInv
<1> QED
  BY InitIInv, <1>1, PTL DEF Spec

\* The lists, their cached queries and the runs of these are always well formed.
THEOREM ListingsType == Spec => []TypeOK
<1>1. IInv => TypeOK
  BY DEF IInv
<1> QED
  BY ListingsInvariant, <1>1, PTL

\* Turning the pages from the first to the last, each fetched for the walk and none
\* shown from the cache, shows every row the list had at the start (UsersPage,
\* AuditLogsPage and LogsPage), for any number of rows that arrive meanwhile and any
\* page size.
THEOREM NothingMissed == Spec => []WalkMissesNothing
<1>1. IInv => WalkMissesNothing
  BY DEF IInv
<1> QED
  BY ListingsInvariant, <1>1, PTL

\* An export of the audit log without a truncation note has every row that the list
\* shows (export_audit_logs_csv), for any number of rows and any limit.
THEOREM ExportsAgree == Spec => []ExportAgrees
<1>1. ASSUME IInv PROVE ExportAgrees
  <2> SUFFICES ASSUME list = "audit", ~ExportNote(filter)
               PROVE  cache[Key].rows \subseteq ExportedRows(filter)
    BY DEF ExportAgrees
  <2>1. Key \in Keys /\ Key[2] = filter /\ filter \in Filters
    BY <1>1, KeysFacts DEF IInv, TypeOK, Key
  <2>2. cache[Key].rows \subseteq Listed(filter)
    BY <1>1, <2>1 DEF IInv, DataStay
  <2>3. Listed(filter) \in SUBSET (1..Rows)
    BY <2>1, EntriesFacts
  <2>4. Newest(Listed(filter), MaxRows) \in SUBSET (1..Rows)
    BY <2>3 DEF Newest
  <2>5. Cardinality(Newest(Listed(filter), MaxRows)) < MaxRows
    BY <2>4, Sizes, SizesAssumption DEF ExportNote, ExportedRows
  <2> QED
    BY <2>2, <2>3, <2>5, FewAreAll, SizesAssumption DEF ExportedRows
<1> QED
  BY ListingsInvariant, <1>1, PTL
=============================================================================
