-------------------------- MODULE RateLimitProofs --------------------------
(***************************************************************************)
(* The limit of RateLimit for every number of clients and requests, every  *)
(* limit and every length of the window.  Requests that pass on time hold  *)
(* different numbers between 1 and Limit, because their counter counts all *)
(* of them and cannot expire before its window ends.                       *)
(***************************************************************************)
EXTENDS RateLimit, FiniteSetTheorems, TLAPS

---------------------------------------------------------------------------
(* Windows *)

\* Window numbers and the clock.
LEMMA WindowIff ==
  ASSUME NEW t \in Nat, NEW w \in Nat
  PROVE  /\ Window(t) \in Nat
         /\ w <= Window(t) <=> w * Minute <= t
BY RateAssumption, SMT DEF Window

LEMMA Times ==
  ASSUME NEW a \in Nat, NEW b \in Nat, NEW m \in Nat, a <= b
  PROVE  a * m \in Nat /\ a * m <= b * m
BY SMT

LEMMA WindowsNat == Windows \subseteq Nat /\ \A k \in Keys : k[2] \in Nat
BY RateAssumption, WindowIff DEF Windows, Keys, Window

\* The clock never leaves the windows that keys are made of.
LEMMA WindowType ==
  ASSUME NEW t \in 0..Horizon PROVE Window(t) \in Windows
<1>1. /\ Window(t) \in Nat /\ Window(Horizon) \in Nat
      /\ Window(t) * Minute <= t
  BY RateAssumption, WindowIff
<1>2. Window(t) * Minute <= Horizon
  BY <1>1, RateAssumption, Times
<1>3. Window(t) <= Window(Horizon)
  BY <1>1, <1>2, RateAssumption, WindowIff
<1> QED
  BY <1>1, <1>3 DEF Windows, Window

\* A key without a time to live counts as outliving its window.
LEMMA NeverIsLate ==
  ASSUME NEW w \in Windows PROVE Never \in Nat /\ (w + 1) * Minute <= Never
<1>1. w \in Nat /\ w <= Window(Horizon)
  BY WindowsNat DEF Windows, Window
<1>2. w * Minute <= Horizon
  BY <1>1, RateAssumption, WindowIff
<1>3. (w + 1) * Minute = w * Minute + Minute /\ w * Minute \in Nat
  BY <1>1, RateAssumption, SMT
<1> QED
  BY <1>2, <1>3, RateAssumption DEF Never

---------------------------------------------------------------------------
(* The inductive invariant *)

LEMMA InitIInv == Init => IInv
<1> SUFFICES ASSUME Init PROVE IInv
  OBVIOUS
<1>1. Never \in Nat
  BY RateAssumption DEF Never
<1>2. TypeOK
  BY <1>1, RateAssumption DEF Init, TypeOK
<1>3. CountsAll
  BY NeverIsLate DEF Init, CountsAll, Counted, Keys
<1>4. Numbered
  <2>1. 0 <= Window(now)
    BY RateAssumption, WindowIff DEF Init
  <2> QED
    BY <2>1 DEF Init, Numbered
<1>5. Distinct
  BY DEF Init, Distinct, Counted
<1> QED
  BY <1>2, <1>3, <1>4, <1>5 DEF IInv

LEMMA NextTyped == TypeOK /\ [Next]_vars => TypeOK'
<1> SUFFICES ASSUME TypeOK, [Next]_vars PROVE TypeOK'
  OBVIOUS
<1> USE RateAssumption DEF TypeOK
<1>1. ASSUME NEW r \in Requests, NEW c \in Clients, Arrive(r, c) PROVE TypeOK'
  <2>1. <<c, Window(now)>> \in Keys
    BY WindowType DEF Keys
  <2> QED
    BY <1>1, <2>1 DEF Arrive
<1>2. ASSUME NEW r \in Requests, Incr(r) PROVE TypeOK'
  BY <1>2 DEF Incr, Verdict
<1>3. ASSUME NEW r \in Requests, Expire(r) PROVE TypeOK'
  BY <1>3 DEF Expire, Verdict
<1>4. ASSUME NEW r \in Requests, Unavailable(r) \/ Crash(r) PROVE TypeOK'
  BY <1>4 DEF Unavailable, Crash
<1>5. CASE RedisStops \/ RedisResumes
  BY <1>5 DEF RedisStops, RedisResumes
<1>6. CASE Tick
  BY <1>6 DEF Tick, Never
<1>7. CASE UNCHANGED vars
  BY <1>7 DEF vars
<1> QED
  BY <1>1, <1>2, <1>3, <1>4, <1>5, <1>6, <1>7 DEF Next

\* Nothing counts before INCR.
LEMMA ArriveInv ==
  ASSUME IInv, NEW r \in Requests, NEW c \in Clients, Arrive(r, c)
  PROVE  CountsAll' /\ Numbered' /\ Distinct'
<1>1. /\ pc[r] = "idle" /\ value[r] = 0 /\ r \in Requests
      /\ pc' = [pc EXCEPT ![r] = "incr"]
      /\ key' = [key EXCEPT ![r] = <<c, Window(now)>>]
      /\ UNCHANGED <<now, count, expires, value, late>>
  BY DEF Arrive, IInv, Numbered
<1>2. Window(now) \in Nat
  BY WindowIff, RateAssumption DEF IInv, TypeOK
<1>3. /\ key'[r][2] = Window(now)
      /\ \A q \in Requests \ {r} : key'[q] = key[q] /\ pc'[q] = pc[q]
      /\ pc'[r] = "incr"
  BY <1>1 DEF IInv, TypeOK
<1>4. CountsAll'
  BY <1>1, <1>3 DEF IInv, CountsAll, Counted, Window
<1>5. Numbered'
  BY <1>1, <1>2, <1>3 DEF IInv, Numbered, Window
<1>6. Distinct'
  BY <1>1, <1>3 DEF IInv, Distinct, Counted
<1> QED
  BY <1>4, <1>5, <1>6

\* A request that is counted on time gets a number no other has.
LEMMA IncrInv ==
  ASSUME IInv, NEW r \in Requests, Incr(r)
  PROVE  CountsAll' /\ Numbered' /\ Distinct'
<1> DEFINE k == key[r]
           n == count[key[r]] + 1
<1>1. /\ pc[r] = "incr" /\ value[r] = 0
      /\ count' = [count EXCEPT ![k] = n]
      /\ value' = [value EXCEPT ![r] = n]
      /\ late' = IF Window(now) = k[2] THEN late ELSE late \cup {r}
      /\ pc' = [pc EXCEPT ![r] = IF First(n) THEN "expire" ELSE Verdict(n)]
      /\ UNCHANGED <<now, expires, key>>
  BY DEF Incr, IInv, Numbered
<1>2. /\ k \in Keys /\ count[k] \in Nat /\ n \in Nat /\ k[2] \in Nat
      /\ \A q \in Requests : /\ key[q] \in Keys /\ value[q] \in Nat
                             /\ count[key[q]] \in Nat /\ key[q][2] \in Nat
      /\ Window(now) \in Nat
  BY WindowIff, WindowsNat, RateAssumption DEF IInv, TypeOK
<1>3. /\ value'[r] = n
      /\ \A q \in Requests \ {r} : value'[q] = value[q] /\ pc'[q] = pc[q]
      /\ count'[k] = n
      /\ \A j \in Keys \ {k} : count'[j] = count[j]
  BY <1>1, <1>2 DEF IInv, TypeOK
<1>4. \A q \in Requests \ {r} : Counted(q)' => Counted(q)
  BY <1>1, <1>3 DEF Counted
<1> HIDE DEF k, n
<1>5. CountsAll'
  <2>1. \A q \in Requests \ {r} :
          Counted(q)' /\ Window(now) <= key[q][2]
            => value'[q] <= count'[key[q]]
    BY <1>2, <1>3, <1>4 DEF IInv, CountsAll, n, k
  <2>2. value'[r] <= count'[key[r]]
    BY <1>2, <1>3 DEF k
  <2> QED
    BY <1>1, <2>1, <2>2 DEF IInv, CountsAll, Window
<1>6. Numbered'
  <2>1. /\ pc'[r] \in {"expire", "passed", "limited"}
        /\ pc'[r] = "passed" => n <= Limit
    BY <1>1, <1>2, RateAssumption DEF Verdict, IInv, TypeOK
  <2>2. n > 0
    BY <1>2 DEF n
  <2> QED
    BY <1>1, <1>3, <2>1, <2>2 DEF IInv, Numbered, Window
<1>7. Distinct'
  <2>1. ASSUME NEW q \in Requests \ {r}, Counted(q)', Counted(r)', key[q] = k
        PROVE  value'[q] # n
    <3>1. Window(now) = k[2]
      BY <1>1, <2>1 DEF Counted
    <3>2. value[q] <= count[k]
      BY <1>2, <1>4, <2>1, <3>1 DEF IInv, CountsAll
    <3> QED
      BY <1>2, <1>3, <3>2 DEF n, k
  <2> QED
    BY <1>1, <1>3, <1>4, <2>1 DEF IInv, Distinct, k
<1> QED
  BY <1>5, <1>6, <1>7

\* A life of one window, given within the window or later, outlasts it.
LEMMA ExpireInv ==
  ASSUME IInv, NEW r \in Requests, Expire(r)
  PROVE  CountsAll' /\ Numbered' /\ Distinct'
<1> DEFINE k == key[r]
<1>1. /\ pc[r] = "expire"
      /\ expires' = [expires EXCEPT ![k] = now + Minute]
      /\ pc' = [pc EXCEPT ![r] = Verdict(value[r])]
      /\ UNCHANGED <<now, count, key, value, late>>
  BY DEF Expire
<1>2. k \in Keys /\ k[2] \in Nat /\ now \in Nat /\ Minute \in Nat
      /\ value[r] \in Nat
  BY WindowsNat, RateAssumption DEF IInv, TypeOK
<1>3. (k[2] + 1) * Minute <= now + Minute
  <2>1. k[2] * Minute <= now
    BY <1>2, WindowIff DEF IInv, Numbered
  <2>2. (k[2] + 1) * Minute = k[2] * Minute + Minute /\ k[2] * Minute \in Nat
    BY <1>2, SMT
  <2> QED
    BY <1>2, <2>1, <2>2
<1>4. CountsAll'
  BY <1>1, <1>2, <1>3 DEF IInv, CountsAll, Counted, Window, TypeOK
<1>5. Numbered'
  <2>1. /\ pc'[r] \in {"passed", "limited"}
        /\ pc'[r] = "passed" => value[r] <= Limit
        /\ \A q \in Requests \ {r} : pc'[q] = pc[q]
    BY <1>1, <1>2, RateAssumption DEF Verdict, IInv, TypeOK
  <2> QED
    BY <1>1, <2>1 DEF IInv, Numbered, Window
<1>6. Distinct'
  BY <1>1 DEF IInv, Distinct, Counted
<1> QED
  BY <1>4, <1>5, <1>6

\* A counter that expires is one whose window is over.
LEMMA TickInv ==
  ASSUME IInv, Tick
  PROVE  CountsAll' /\ Numbered' /\ Distinct'
<1>1. /\ now \in Nat /\ now' = now + 1 /\ now' \in Nat
      /\ count' = [k \in Keys |-> IF expires[k] <= now' THEN 0 ELSE count[k]]
      /\ expires' = [k \in Keys |-> IF expires[k] <= now' THEN Never
                                                          ELSE expires[k]]
      /\ UNCHANGED <<pc, key, value, late>>
  BY RateAssumption DEF Tick, IInv, TypeOK
<1>2. Window(now) \in Nat /\ Window(now') \in Nat /\ Window(now) <= Window(now')
  <2>1. Window(now) \in Nat /\ Window(now) * Minute <= now
    BY <1>1, WindowIff
  <2>2. Window(now) * Minute <= now'
    BY <1>1, <2>1, RateAssumption, Times
  <2> QED
    BY <1>1, <2>1, <2>2, WindowIff
<1>3. ASSUME NEW k \in Keys, Window(now') <= k[2] PROVE ~(expires[k] <= now')
  <2>1. k[2] \in Nat /\ k[2] + 1 \in Nat /\ expires[k] \in Nat
    BY WindowsNat, RateAssumption DEF IInv, TypeOK, Never
  <2>2. ~((k[2] + 1) * Minute <= now')
    BY <1>1, <1>2, <1>3, <2>1, WindowIff
  <2>3. (k[2] + 1) * Minute <= expires[k]
    BY DEF IInv, CountsAll
  <2>4. (k[2] + 1) * Minute \in Nat
    BY <2>1, RateAssumption, Times
  <2> QED
    BY <1>1, <2>1, <2>2, <2>3, <2>4
<1>4. CountsAll'
  <2>1. \A k \in Keys : expires'[k] >= (k[2] + 1) * Minute
    BY <1>1, NeverIsLate, WindowsNat, RateAssumption, Times
       DEF IInv, CountsAll, Keys
  <2>2. ASSUME NEW r \in Requests, Counted(r), Window(now') <= key[r][2]
        PROVE  value[r] <= count'[key[r]]
    <3>1. key[r] \in Keys /\ key[r][2] \in Nat
      BY WindowsNat DEF IInv, TypeOK
    <3>2. Window(now) <= key[r][2]
      BY <1>2, <2>2, <3>1
    <3>3. count'[key[r]] = count[key[r]]
      BY <1>1, <1>3, <2>2, <3>1
    <3> QED
      BY <2>2, <3>2, <3>3 DEF IInv, CountsAll
  <2> QED
    BY <1>1, <2>1, <2>2 DEF CountsAll, Counted, Window
<1>5. Numbered'
  <2>1. \A r \in Requests : key[r][2] \in Nat
    BY WindowsNat DEF IInv, TypeOK
  <2>2. \A r \in Requests : key[r][2] <= Window(now')
    BY <1>2, <2>1 DEF IInv, Numbered
  <2> QED
    BY <1>1, <2>2 DEF IInv, Numbered, Window
<1>6. Distinct'
  BY <1>1 DEF IInv, Distinct, Counted
<1> QED
  BY <1>4, <1>5, <1>6

LEMMA NextIInv == IInv /\ [Next]_vars => IInv'
<1> SUFFICES ASSUME IInv, [Next]_vars PROVE IInv'
  OBVIOUS
<1>t. TypeOK'
  BY NextTyped DEF IInv
<1>s. SUFFICES CountsAll' /\ Numbered' /\ Distinct'
  BY <1>t DEF IInv
<1>1. ASSUME NEW r \in Requests, NEW c \in Clients, Arrive(r, c)
      PROVE  CountsAll' /\ Numbered' /\ Distinct'
  BY <1>1, ArriveInv
<1>2. ASSUME NEW r \in Requests, Incr(r) \/ Expire(r)
      PROVE  CountsAll' /\ Numbered' /\ Distinct'
  BY <1>2, IncrInv, ExpireInv
<1>3. ASSUME NEW r \in Requests, Unavailable(r) \/ Crash(r)
      PROVE  CountsAll' /\ Numbered' /\ Distinct'
  <2>1. /\ pc'[r] \in {"unavailable", "lost"}
        /\ \A q \in Requests \ {r} : pc'[q] = pc[q]
        /\ UNCHANGED <<now, count, expires, key, value, late>>
    BY <1>3 DEF Unavailable, Crash, IInv, TypeOK
  <2> QED
    BY <2>1 DEF IInv, CountsAll, Numbered, Distinct, Counted, Window
<1>4. CASE UNCHANGED <<now, count, expires, pc, key, value, late>>
  BY <1>4 DEF IInv, CountsAll, Numbered, Distinct, Counted, Window
<1>5. CASE Tick
  BY <1>5, TickInv
<1> QED
  BY <1>1, <1>2, <1>3, <1>4, <1>5
     DEF Next, RedisStops, RedisResumes, vars

---------------------------------------------------------------------------
(* The theorems *)

\* The counters count every request on time, and number them apart.
THEOREM RateLimitInvariant == Spec => []IInv
BY InitIInv, NextIInv, PTL DEF Spec

\* The variables keep their types.
THEOREM RateLimitType == Spec => []TypeOK
<1>1. IInv => TypeOK
  BY DEF IInv
<1> QED
  BY <1>1, RateLimitInvariant, PTL

\* Different numbers up to Limit: at most Limit requests.
LEMMA Pigeonhole == IInv => AtMostLimit
<1> SUFFICES ASSUME IInv, NEW k \in Keys PROVE Cardinality(Passed(k)) <= Limit
  BY DEF AtMostLimit
<1> DEFINE f == [r \in Passed(k) |-> value[r]]
<1>1. IsFiniteSet(1..Limit) /\ Cardinality(1..Limit) = Limit
  BY FS_Interval, RateAssumption
<1>2. f \in Injection(Passed(k), 1..Limit)
  <2>1. \A r \in Passed(k) : value[r] \in 1..Limit
    BY RateAssumption DEF Passed, IInv, Numbered, TypeOK
  <2>2. \A r, q \in Passed(k) : value[r] = value[q] => r = q
    BY DEF Passed, IInv, Numbered, Distinct, Counted
  <2> QED
    BY <2>1, <2>2 DEF Injection, IsInjective
<1>3. Cardinality(Passed(k)) <= Cardinality(1..Limit)
  BY <1>1, <1>2, FS_Injection DEF ExistsInjection
<1> QED
  BY <1>1, <1>3

\* At most rate_limit_per_minute requests of a client pass in one minute.
THEOREM LimitHolds == Spec => []AtMostLimit
BY RateLimitInvariant, Pigeonhole, PTL

\* Every counter without a time to live has a request that is about to set
\* it, or that failed to.
THEOREM CountersAreGivenLives == Spec => []CountersExpire
<1>1. Init => CountersExpire
  BY DEF Init, CountersExpire
<1>2. TypeOK /\ CountersExpire /\ [Next]_vars => CountersExpire'
  <2> SUFFICES ASSUME TypeOK, CountersExpire, [Next]_vars,
                      NEW k \in Keys, count'[k] > 0, expires'[k] = Never
               PROVE  \E r \in Requests :
                        /\ key'[r] = k /\ value'[r] = 1
                        /\ pc'[r] \in {"expire", "lost", "unavailable"}
    BY DEF CountersExpire
  <2> DEFINE Witness(r) == key[r] = k /\ value[r] = 1
                           /\ pc[r] \in {"expire", "lost", "unavailable"}
  <2>1. ASSUME NEW r \in Requests, NEW c \in Clients, Arrive(r, c)
        PROVE  \E q \in Requests : Witness(q)'
    BY <2>1 DEF Arrive, CountersExpire, TypeOK
  <2>2. ASSUME NEW r \in Requests, Incr(r)
        PROVE  \E q \in Requests : Witness(q)'
    <3>1. CASE k = key[r] /\ count[k] = 0
      <4>1. value'[r] = 1 /\ pc'[r] = "expire" /\ key'[r] = k
        BY <2>2, <3>1 DEF Incr, First, TypeOK
      <4> QED
        BY <4>1
    <3>2. CASE count[k] > 0
      <4>1. PICK q \in Requests : Witness(q)
        BY <2>2, <3>2 DEF Incr, CountersExpire
      <4>2. q # r
        BY <2>2, <4>1 DEF Incr
      <4> QED
        BY <2>2, <4>1, <4>2 DEF Incr, TypeOK
    <3> QED
      BY <2>2, <3>1, <3>2 DEF Incr, TypeOK
  <2>3. ASSUME NEW r \in Requests, Expire(r)
        PROVE  \E q \in Requests : Witness(q)'
    <3>1. k # key[r]
      BY <2>3, RateAssumption DEF Expire, TypeOK, Never
    <3>2. PICK q \in Requests : Witness(q)
      BY <2>3, <3>1 DEF Expire, CountersExpire, TypeOK
    <3>3. q # r
      BY <3>1, <3>2
    <3> QED
      BY <2>3, <3>2, <3>3 DEF Expire, TypeOK
  <2>4. ASSUME NEW r \in Requests, Unavailable(r) \/ Crash(r)
        PROVE  \E q \in Requests : Witness(q)'
    BY <2>4 DEF Unavailable, Crash, CountersExpire, TypeOK
  <2>5. CASE UNCHANGED <<count, expires, pc, key, value>>
    BY <2>5 DEF CountersExpire
  <2>6. CASE Tick
    <3>1. count[k] > 0 /\ expires[k] = Never
      BY <2>6, RateAssumption DEF Tick, TypeOK
    <3> QED
      BY <2>6, <3>1 DEF Tick, CountersExpire
  <2> QED
    BY <2>1, <2>2, <2>3, <2>4, <2>5, <2>6
       DEF Next, RedisStops, RedisResumes, vars
<1> QED
  BY <1>1, <1>2, RateLimitType, PTL DEF Spec

---------------------------------------------------------------------------
(* Who uses the limit up *)

\* The requests that a counter has counted, now or before it expired.
Served(k) == {q \in Requests : value[q] > 0 /\ key[q] = k}

\* A counter never exceeds the requests it has counted, and a request that is
\* refused finds Limit others among them.
Backed ==
  /\ \A k \in Keys : IsFiniteSet(Served(k)) /\ count[k] <= Cardinality(Served(k))
  /\ \A r \in Requests : /\ pc[r] = "expire" => value[r] = 1
                         /\ pc[r] = "limited" => Limit <= Cardinality(Served(key[r]) \ {r})

\* Sizes of the sets of requests that were counted.
LEMMA Sizes ==
  ASSUME NEW S, IsFiniteSet(S), NEW r
  PROVE  /\ Cardinality(S) \in Nat /\ IsFiniteSet(S \ {r})
         /\ Cardinality(S \ {r}) \in Nat /\ Cardinality(S \ {r}) <= Cardinality(S)
<1>1. Cardinality(S) \in Nat
  BY FS_CardinalityType
<1>2. /\ IsFiniteSet(S \ {r})
      /\ Cardinality(S \ {r}) = IF r \in S THEN Cardinality(S) - 1 ELSE Cardinality(S)
  BY FS_RemoveElement
<1>3. Cardinality(S \ {r}) \in Nat
  BY <1>2, FS_CardinalityType
<1> QED
  BY <1>1, <1>2, <1>3

\* The same set after a step, of a key that the step does not change.
After(k) == {q \in Requests : value'[q] > 0 /\ key'[q] = k}

LEMMA BackedAfter ==
  ASSUME \A k \in Keys : IsFiniteSet(After(k)) /\ count'[k] <= Cardinality(After(k)),
         \A r \in Requests : /\ pc'[r] = "expire" => value'[r] = 1
                             /\ pc'[r] = "limited" => Limit <= Cardinality(After(key'[r]) \ {r})
  PROVE  Backed'
BY DEF Backed, After, Served

\* The requests counted stay the same in every step but INCR.
LEMMA SameServed ==
  ASSUME Backed, TypeOK, TypeOK',
         \A k \in Keys : After(k) = Served(k) /\ count'[k] <= count[k],
         \A r \in Requests : /\ pc'[r] = "expire" => pc[r] = "expire" /\ value'[r] = value[r]
                             /\ pc'[r] = "limited" => \/ pc[r] = "limited" /\ key'[r] = key[r]
                                                      \/ Limit = 0
  PROVE  Backed'
<1>1. \A k \in Keys : IsFiniteSet(After(k)) /\ count'[k] <= Cardinality(After(k))
  <2> TAKE k \in Keys
  <2>1. Cardinality(Served(k)) \in Nat
    BY FS_CardinalityType DEF Backed
  <2>2. IsFiniteSet(Served(k)) /\ count[k] <= Cardinality(Served(k))
    BY DEF Backed
  <2>3. count'[k] <= count[k] /\ count'[k] \in Nat /\ count[k] \in Nat
    BY DEF TypeOK
  <2> QED
    BY <2>1, <2>2, <2>3
<1>2. ASSUME NEW r \in Requests, pc'[r] = "limited"
      PROVE  Limit <= Cardinality(After(key'[r]) \ {r})
  <2>1. key'[r] \in Keys
    BY DEF TypeOK
  <2>2. CASE pc[r] = "limited" /\ key'[r] = key[r]
    <3>1. Limit <= Cardinality(Served(key[r]) \ {r})
      BY <2>2 DEF Backed
    <3> QED
      BY <2>1, <2>2, <3>1
  <2>3. CASE Limit = 0
    <3>1. Cardinality(After(key'[r]) \ {r}) \in Nat
      BY <1>1, <2>1, Sizes
    <3> QED
      BY <2>3, <3>1
  <2> QED
    BY <1>2, <2>2, <2>3
<1>3. \A r \in Requests : pc'[r] = "expire" => value'[r] = 1
  BY DEF Backed
<1> QED
  BY <1>1, <1>2, <1>3, BackedAfter

\* INCR adds the request to those its counter has counted.
LEMMA IncrBacked ==
  ASSUME Backed, IInv, TypeOK', NEW r \in Requests, Incr(r)
  PROVE  Backed'
<1>k. PICK k \in Keys : k = key[r]
  BY DEF IInv, TypeOK
<1>n. PICK n \in Nat : n = count[k] + 1
  BY DEF IInv, TypeOK
<1>1. /\ pc[r] = "incr" /\ value[r] = 0 /\ n > 0
      /\ count' = [count EXCEPT ![k] = n] /\ value' = [value EXCEPT ![r] = n]
      /\ pc' = [pc EXCEPT ![r] = IF First(n) THEN "expire" ELSE Verdict(n)]
      /\ key' = key
  BY <1>k, <1>n DEF Incr, IInv, Numbered, TypeOK
<1>2. /\ value'[r] = n /\ \A q \in Requests \ {r} : value'[q] = value[q]
      /\ count'[k] = n /\ \A j \in Keys \ {k} : count'[j] = count[j]
      /\ \A q \in Requests \ {r} : pc'[q] = pc[q]
      /\ pc'[r] = IF First(n) THEN "expire" ELSE Verdict(n)
  BY <1>1 DEF IInv, TypeOK
<1>3. r \notin Served(k) /\ After(k) = Served(k) \cup {r}
  BY <1>k, <1>1, <1>2 DEF Served, After
<1>4. \A j \in Keys \ {k} : After(j) = Served(j)
  BY <1>k, <1>1, <1>2 DEF Served, After
<1>5. IsFiniteSet(Served(k)) /\ count[k] <= Cardinality(Served(k)) /\ Cardinality(Served(k)) \in Nat
  BY FS_CardinalityType DEF Backed
<1>6. IsFiniteSet(After(k)) /\ Cardinality(After(k)) = Cardinality(Served(k)) + 1
  BY <1>3, <1>5, FS_AddElement
<1>c. count[k] \in Nat
  BY DEF IInv, TypeOK
<1>7. \A j \in Keys : IsFiniteSet(After(j)) /\ count'[j] <= Cardinality(After(j))
  <2>1. count'[k] <= Cardinality(After(k))
    BY <1>n, <1>2, <1>5, <1>6, <1>c
  <2>2. \A j \in Keys \ {k} : IsFiniteSet(After(j)) /\ count'[j] <= Cardinality(After(j))
    BY <1>2, <1>4 DEF Backed
  <2> QED
    BY <1>6, <2>1, <2>2
<1>8. ASSUME NEW q \in Requests, pc'[q] = "limited"
      PROVE  Limit <= Cardinality(After(key'[q]) \ {q})
  <2>0. key'[q] = key[q] /\ key[q] \in Keys
    BY <1>1 DEF IInv, TypeOK
  <2>1. CASE q = r
    <3>1. n > Limit
      BY <1>2, <1>8, <2>1 DEF Verdict
    <3>2. After(k) \ {r} = Served(k)
      BY <1>3
    <3>3. Limit <= Cardinality(Served(k))
      BY <1>n, <1>c, <1>5, <3>1, RateAssumption
    <3> QED
      BY <1>k, <2>0, <2>1, <3>2, <3>3
  <2>2. CASE q # r /\ key[q] = k
    <3>1. Limit <= Cardinality(Served(key[q]) \ {q})
      BY <1>2, <1>8, <2>2 DEF Backed
    <3>2. After(k) \ {q} = (Served(k) \ {q}) \cup {r}
      BY <1>3, <2>2
    <3>3. IsFiniteSet(Served(k) \ {q}) /\ Cardinality(Served(k) \ {q}) \in Nat
      BY <1>5, Sizes
    <3>4. Cardinality((Served(k) \ {q}) \cup {r}) = Cardinality(Served(k) \ {q}) + 1
      BY <1>3, <3>3, FS_AddElement
    <3>5. Limit <= Cardinality(After(k) \ {q})
      BY <2>2, <3>1, <3>2, <3>3, <3>4, RateAssumption
    <3> QED
      BY <2>0, <2>2, <3>5
  <2>3. CASE q # r /\ key[q] # k
    <3>1. Limit <= Cardinality(Served(key[q]) \ {q})
      BY <1>2, <1>8, <2>3 DEF Backed
    <3>2. After(key[q]) = Served(key[q])
      BY <1>4, <2>0, <2>3
    <3> QED
      BY <2>0, <3>1, <3>2
  <2> QED
    BY <2>1, <2>2, <2>3
<1>9. \A q \in Requests : pc'[q] = "expire" => value'[q] = 1
  <2>1. pc'[r] = "expire" => n = 1
    BY <1>2 DEF First, Verdict
  <2> QED
    BY <1>2, <2>1 DEF Backed
<1> QED
  BY <1>7, <1>8, <1>9, BackedAfter

LEMMA NextBacked == IInv /\ IInv' /\ Backed /\ [Next]_vars => Backed'
<1> SUFFICES ASSUME IInv, IInv', Backed, [Next]_vars PROVE Backed'
  OBVIOUS
<1>0. TypeOK /\ TypeOK' /\ Numbered
  BY DEF IInv
<1>1. ASSUME NEW r \in Requests, NEW c \in Clients, Arrive(r, c) PROVE Backed'
  <2>1. pc[r] = "idle" /\ value[r] = 0 /\ UNCHANGED <<count, value>>
    BY <1>0, <1>1 DEF Arrive, Numbered
  <2>2. /\ \A q \in Requests \ {r} : pc'[q] = pc[q] /\ key'[q] = key[q]
        /\ pc'[r] = "incr"
    BY <1>0, <1>1 DEF Arrive, TypeOK
  <2>3. \A k \in Keys : After(k) = Served(k)
    BY <2>1, <2>2 DEF After, Served
  <2>4. \A k \in Keys : count'[k] <= count[k]
    BY <1>0, <2>1 DEF TypeOK
  <2> QED
    BY <1>0, <2>1, <2>2, <2>3, <2>4, SameServed
<1>2. ASSUME NEW r \in Requests, Incr(r) PROVE Backed'
  BY <1>0, <1>2, IncrBacked
<1>3. ASSUME NEW r \in Requests, Expire(r) PROVE Backed'
  <2>1. pc[r] = "expire" /\ value[r] = 1 /\ UNCHANGED <<count, key, value>>
    BY <1>3 DEF Expire, Backed
  <2>2. /\ \A q \in Requests \ {r} : pc'[q] = pc[q]
        /\ pc'[r] = Verdict(1)
    BY <1>0, <1>3, <2>1 DEF Expire, TypeOK
  <2>3. pc'[r] = "limited" => Limit = 0
    BY <2>2, RateAssumption DEF Verdict
  <2>4. pc'[r] # "expire"
    BY <2>2 DEF Verdict
  <2>5. \A k \in Keys : After(k) = Served(k)
    BY <2>1 DEF After, Served
  <2>6. \A k \in Keys : count'[k] <= count[k]
    BY <1>0, <2>1 DEF TypeOK
  <2> QED
    BY <1>0, <2>1, <2>2, <2>3, <2>4, <2>5, <2>6, SameServed
<1>4. ASSUME NEW r \in Requests, Unavailable(r) \/ Crash(r) PROVE Backed'
  <2>1. /\ UNCHANGED <<count, key, value>> /\ pc'[r] \in {"unavailable", "lost"}
        /\ \A q \in Requests \ {r} : pc'[q] = pc[q]
    BY <1>0, <1>4 DEF Unavailable, Crash, TypeOK
  <2>2. \A k \in Keys : After(k) = Served(k)
    BY <2>1 DEF After, Served
  <2>3. \A k \in Keys : count'[k] <= count[k]
    BY <1>0, <2>1 DEF TypeOK
  <2> QED
    BY <1>0, <2>1, <2>2, <2>3, SameServed
<1>5. CASE RedisStops \/ RedisResumes \/ Tick \/ UNCHANGED vars
  <2>1. UNCHANGED <<key, value, pc>>
    BY <1>5 DEF RedisStops, RedisResumes, Tick, vars
  <2>2. \A k \in Keys : count'[k] <= count[k]
    BY <1>0, <1>5 DEF RedisStops, RedisResumes, Tick, vars, TypeOK
  <2>3. \A k \in Keys : After(k) = Served(k)
    BY <2>1 DEF After, Served
  <2> QED
    BY <1>0, <2>1, <2>2, <2>3, SameServed
<1> QED
  BY <1>1, <1>2, <1>3, <1>4, <1>5 DEF Next

\* A client is refused only after Limit other requests of its own in the same
\* minute, for any limit, clients and requests.
THEOREM OnlyOwnRequests == Spec => []LimitedOnlyByOwn
<1>1. Init => Backed
  <2> SUFFICES ASSUME Init PROVE Backed
    OBVIOUS
  <2>1. \A k \in Keys : Served(k) = {}
    BY DEF Init, Served
  <2>2. IsFiniteSet({}) /\ Cardinality({}) = 0
    BY FS_EmptySet
  <2> QED
    BY <2>1, <2>2 DEF Init, Backed
<1>2. Backed /\ TypeOK => LimitedOnlyByOwn
  <2> SUFFICES ASSUME Backed, TypeOK, NEW r \in Requests, pc[r] = "limited"
               PROVE  Cardinality({q \in Requests \ {r} : value[q] > 0 /\ key[q] = key[r]}) >= Limit
    BY DEF LimitedOnlyByOwn
  <2>1. Served(key[r]) \ {r} = {q \in Requests \ {r} : value[q] > 0 /\ key[q] = key[r]}
    BY DEF Served
  <2>2. Limit <= Cardinality(Served(key[r]) \ {r})
    BY DEF Backed
  <2>3. Cardinality(Served(key[r]) \ {r}) \in Nat
    BY Sizes DEF Backed, TypeOK
  <2> QED
    BY <2>1, <2>2, <2>3, RateAssumption
<1> QED
  BY <1>1, <1>2, NextBacked, RateLimitInvariant, RateLimitType, PTL DEF Spec
============================================================================
