-------------------------- MODULE OperationsProofs --------------------------
(***************************************************************************)
(* Theorems of the two modules about operating the system:  RollingUpdate, *)
(* for any finite set of replicas, and Overviews, for any dashboards and   *)
(* Celery requests, any finite set of accounts and any number of threads.  *)
(* The modules share no state.                                             *)
(***************************************************************************)
EXTENDS RollingUpdate, Overviews, FiniteSetTheorems, SequenceTheorems, TLAPS

---------------------------------------------------------------------------
(* RollingUpdate: counts of replicas *)

\* A full count is a count of every replica.
LEMMA FullCount ==
  ASSUME Cardinality(Reported) >= All
  PROVE  Reported = Replicas
<1>1. Reported \in SUBSET Replicas
  BY DEF Reported, In
<1>2. Cardinality(Reported) \in Nat /\ All \in Nat
  BY <1>1, ReplicasFinite, FS_Subset, FS_CardinalityType DEF All
<1>3. Cardinality(Reported) <= All
  BY <1>1, ReplicasFinite, FS_Subset DEF All
<1>4. Cardinality(Reported) = All
  BY <1>2, <1>3
<1> QED
  BY <1>1, <1>4, ReplicasFinite, FS_Subset DEF All

\* Of two replicas one is left when the script replaces one.
LEMMA AnotherReplica ==
  ASSUME All >= 2, NEW C \in {{}} \cup {{r} : r \in Replicas}
  PROVE  Replicas \ C # {}
<1>1. Cardinality(Replicas) \in Nat
  BY ReplicasFinite, FS_CardinalityType
<1>2. CASE C = {}
  BY <1>2, ReplicasFinite, FS_EmptySet DEF All
<1>3. CASE \E r \in Replicas : C = {r}
  <2>1. PICK r \in Replicas : C = {r}
    BY <1>3
  <2>2. Cardinality(Replicas \ {r}) = Cardinality(Replicas) - 1
    BY ReplicasFinite, FS_RemoveElement
  <2>3. Cardinality(Replicas \ {r}) # 0
    BY <1>1, <2>2 DEF All
  <2> QED
    BY <2>1, <2>3, FS_EmptySet
<1> QED
  BY <1>2, <1>3

---------------------------------------------------------------------------
(* RollingUpdate: the steps *)

\* Who is healthy after a step that changes neither containers nor `failed'.
LEMMA SameContainers ==
  ASSUME RUInv, UNCHANGED <<cur, state, routes, failed>>,
         line' \in Loop \cup {"list", "proxyUp"} =>
           \/ line \in Loop \cup {"list", "proxyUp"} /\ line' \in {"aborted"}
           \/ line \in {"proxyUp", "list", "next", "proxy"} /\ line' \in {"list", "next", "done"}
           \/ line \in {"spare", "spareOne"} /\ line' \in {"start", "spareOne", "aborted"}
  PROVE  Noticed' /\ Known' /\ Others'
  BY DEF RUInv, Noticed, Known, Others, In, Loop

LEMMA InitRUInv == RUInit => RUInv
  BY DEF RUInit, RUInv, RUTypeOK, Noticed, Known, Others, Enough, In, Loop, States

\* The waits of the script keep the invariant; a full count establishes it.
LEMMA WaitHealthyFull ==
  ASSUME RUInv, NEW from, NEW ok, NEW timeout,
         WaitHealthy(from, All, ok, timeout),
         <<from, ok, timeout>> \in {<<"allUp", "proxyUp", "refused">>,
           <<"count", "stop", "aborted">>, <<"ready", "proxy", "aborted">>}
  PROVE  RUInv'
<1>1. CASE Cardinality(Reported) >= All
  <2>1. line = from /\ line' = ok /\ failed' = (In({"sick"}) # {})
    BY <1>1 DEF WaitHealthy, Moves
  <2>2. In({"healthy", "sick"}) = Replicas
    BY <1>1, FullCount DEF Reported
  <2>3. UNCHANGED <<todo, cur, state, routes>>
    BY DEF WaitHealthy
  <2>4. RUTypeOK'
    BY <2>1, <2>3 DEF RUInv, RUTypeOK, Loop
  <2>5. Noticed' /\ Known'
    BY <2>1, <2>3 DEF RUInv, Noticed, Known, In
  <2>6. failed' \/ Replicas \subseteq In({"healthy"})'
    BY <2>1, <2>2, <2>3 DEF In
  <2>7. Others'
    BY <2>6 DEF Others, In
  <2>8. Enough'
    BY <2>1 DEF RUInv, Enough
  <2> QED
    BY <2>4, <2>5, <2>7, <2>8 DEF RUInv
<1>2. CASE ~(Cardinality(Reported) >= All)
  <2>1. line = from /\ line' = timeout /\ UNCHANGED <<todo, cur, state, routes, failed>>
    BY <1>2 DEF WaitHealthy, Moves
  <2>2. RUTypeOK'
    BY <2>1 DEF RUInv, RUTypeOK, Loop
  <2>3. Noticed' /\ Known' /\ Others'
    BY <2>1, SameContainers DEF Loop
  <2>4. Enough'
    BY <2>1 DEF RUInv, Enough
  <2> QED
    BY <2>2, <2>3, <2>4 DEF RUInv
<1> QED
  BY <1>1, <1>2

LEMMA WaitHealthyRest ==
  ASSUME RUInv, NEW min, NEW from, NEW ok, NEW timeout, WaitHealthy(from, min, ok, timeout),
         <<from, ok, timeout>> \in {<<"spare", "start", "spareOne">>,
                                    <<"spareOne", "start", "aborted">>},
         min # All
  PROVE  RUInv'
<1>1. line = from /\ line' \in {ok, timeout} /\ UNCHANGED <<todo, cur, state, routes, failed>>
  BY DEF WaitHealthy, Moves
<1>2. RUTypeOK'
  BY <1>1 DEF RUInv, RUTypeOK, Loop
<1>3. Noticed' /\ Known' /\ Others'
  BY <1>1, SameContainers DEF Loop
<1>4. Enough'
  BY <1>1 DEF RUInv, Enough
<1> QED
  BY <1>2, <1>3, <1>4 DEF RUInv

LEMMA ProxyStep ==
  ASSUME RUInv, NEW from, NEW ok, NEW timeout, WaitProxy(from, ok, timeout),
         <<from, ok, timeout>> \in {<<"proxyUp", "list", "refused">>,
                                    <<"proxy", "next", "aborted">>}
  PROVE  RUInv'
<1>1. line = from /\ line' \in {ok, timeout} /\ UNCHANGED <<todo, cur, state, routes, failed>>
  BY DEF WaitProxy, Moves
<1>2. RUTypeOK'
  BY <1>1 DEF RUInv, RUTypeOK, Loop
<1>3. Noticed' /\ Known' /\ Others'
  BY <1>1, SameContainers DEF Loop
<1>4. Enough'
  BY <1>1 DEF RUInv, Enough
<1> QED
  BY <1>2, <1>3, <1>4 DEF RUInv

LEMMA ScriptInv == RUInv /\ Script => RUInv'
<1> SUFFICES ASSUME RUInv, Script PROVE RUInv'
  OBVIOUS
<1>0. All \in Nat
  BY ReplicasFinite, FS_CardinalityType DEF All
<1>1. CASE Begin
  BY <1>0, <1>1 DEF Begin, Moves, RUInv, RUTypeOK, Noticed, Known, Others, Enough, In, Loop
<1>2. CASE Up
  <2>1. line = "up" /\ line' = "allUp" /\ UNCHANGED <<todo, cur, failed>>
    BY <1>2 DEF Up, Moves
  <2>2. PICK R \in SUBSET Replicas : Started(R)
    BY <1>2 DEF Up, In
  <2>3. RUTypeOK'
    BY <2>1, <2>2 DEF Started, RUInv, RUTypeOK, States
  <2>4. Noticed' /\ Known'
    BY <2>1, <2>2 DEF Started, RUInv, RUTypeOK, Noticed, Known, In
  <2>5. Others' /\ Enough'
    BY <2>1 DEF RUInv, Others, Enough, Loop
  <2> QED
    BY <2>3, <2>4, <2>5 DEF RUInv
<1>3. CASE List
  <2>1. line = "list" /\ line' \in {"refused", "next"} /\ UNCHANGED <<cur, state, routes, failed>>
    BY <1>3 DEF List
  <2>2. todo' \in SUBSET Replicas
    BY <1>3 DEF List
  <2>3. RUTypeOK' /\ Enough'
    BY <2>1, <2>2 DEF RUInv, RUTypeOK, Enough, Loop
  <2> QED
    BY <2>1, <2>3, SameContainers DEF RUInv, Loop
<1>4. CASE NextContainer
  <2>1. CASE todo = {}
    <3>1. line = "next" /\ line' = "done" /\ UNCHANGED <<todo, cur, state, routes, failed>>
      BY <1>4, <2>1 DEF NextContainer
    <3>2. RUTypeOK' /\ Enough'
      BY <3>1 DEF RUInv, RUTypeOK, Enough, Loop
    <3> QED
      BY <3>1, <3>2, SameContainers DEF RUInv, Loop
  <2>2. CASE todo # {}
    <3>1. PICK r \in todo : cur' = {r} /\ todo' = todo \ {r} /\ line' = "count"
      BY <1>4, <2>2 DEF NextContainer
    <3>2. line = "next" /\ UNCHANGED <<state, routes, failed>>
      BY <1>4 DEF NextContainer
    <3>3. RUTypeOK' /\ Enough'
      BY <3>1, <3>2 DEF RUInv, RUTypeOK, Enough, Loop
    <3>4. Noticed' /\ Known' /\ Others'
      BY <3>1, <3>2 DEF RUInv, Noticed, Known, Others, In, Loop
    <3> QED
      BY <3>3, <3>4 DEF RUInv
  <2> QED
    BY <2>1, <2>2
<1>5. CASE Stop \/ Remove
  <2>1. PICK c \in {"stopped", "absent"} :
           state' = [r \in Replicas |-> IF r \in cur THEN c ELSE state[r]]
    BY <1>5 DEF Stop, Remove
  <2>2. /\ <<line, line'>> \in {<<"stop", "remove">>, <<"remove", "spare">>}
        /\ UNCHANGED <<todo, cur, routes, failed>>
    BY <1>5 DEF Stop, Remove, Moves
  <2>3. RUTypeOK' /\ Enough'
    BY <2>1, <2>2 DEF RUInv, RUTypeOK, Enough, States, Loop
  <2>4. Noticed' /\ Known'
    BY <2>1, <2>2 DEF RUInv, RUTypeOK, Noticed, Known, In
  <2>5. Others'
    BY <2>1, <2>2 DEF RUInv, RUTypeOK, Others, In, Loop
  <2> QED
    BY <2>3, <2>4, <2>5 DEF RUInv
<1>6. CASE Start
  <2>1. line = "start" /\ line' = "ready" /\ UNCHANGED <<todo, cur, failed>>
    BY <1>6 DEF Start, Moves
  <2>2. Started(In({"absent", "stopped"}))
    BY <1>6 DEF Start
  <2>3. RUTypeOK' /\ Enough'
    BY <2>1, <2>2 DEF Started, RUInv, RUTypeOK, Enough, States, Loop
  <2>4. Noticed' /\ Known'
    BY <2>1, <2>2 DEF Started, RUInv, RUTypeOK, Noticed, Known, In
  <2>5. Others'
    BY <2>1, <2>2 DEF Started, RUInv, RUTypeOK, Others, In, Loop
  <2> QED
    BY <2>3, <2>4, <2>5 DEF RUInv
<1>7. CASE \/ WaitHealthy("allUp", All, "proxyUp", "refused")
           \/ WaitHealthy("count", All, "stop", "aborted")
           \/ WaitHealthy("ready", All, "proxy", "aborted")
  BY <1>7, WaitHealthyFull
<1>8. CASE WaitHealthy("spare", All - 1, "start", "spareOne")
  BY <1>0, <1>8, WaitHealthyRest
<1>9. CASE WaitHealthy("spareOne", 1, "start", "aborted")
  <2>1. All >= 2
    BY <1>9 DEF WaitHealthy, Moves, RUInv, Enough
  <2> QED
    BY <1>0, <1>9, <2>1, WaitHealthyRest
<1>10. CASE WaitProxy("proxyUp", "list", "refused") \/ WaitProxy("proxy", "next", "aborted")
  BY <1>10, ProxyStep
<1> QED
  BY <1>1, <1>2, <1>3, <1>4, <1>5, <1>6, <1>7, <1>8, <1>9, <1>10 DEF Script

LEMMA EnvironmentInv ==
  ASSUME RUInv, Lookup \/ \E r \in Replicas : Healthy(r) \/ Fails(r) \/ Unhealthy(r)
  PROVE  RUInv'
<1>1. CASE Lookup
  BY <1>1 DEF Lookup, RUInv, RUTypeOK, Noticed, Known, Others, Enough, In, States
<1>2. ASSUME NEW r \in Replicas, Healthy(r) PROVE RUInv'
  BY <1>2 DEF Healthy, Becomes, RUInv, RUTypeOK, Noticed, Known, Others, Enough, In, States
<1>3. ASSUME NEW r \in Replicas, Fails(r) PROVE RUInv'
  BY <1>3 DEF Fails, Becomes, RUInv, RUTypeOK, Noticed, Known, Others, Enough, In, States
<1>4. ASSUME NEW r \in Replicas, Unhealthy(r) PROVE RUInv'
  BY <1>4 DEF Unhealthy, Becomes, RUInv, RUTypeOK, Noticed, Known, Others, Enough, In, States
<1> QED
  BY <1>1, <1>2, <1>3, <1>4

LEMMA NextRUInv == RUInv /\ [RUNext]_RUvars => RUInv'
<1>1. ASSUME RUInv, UNCHANGED RUvars PROVE RUInv'
  BY <1>1 DEF RUvars, RUInv, RUTypeOK, Noticed, Known, Others, Enough, In, Loop
<1> QED
  BY <1>1, ScriptInv, EnvironmentInv DEF RUNext

---------------------------------------------------------------------------
(* RollingUpdate: theorems *)

\* Containers are known to the proxy, and all but the one being replaced are
\* healthy unless one has failed by itself.
THEOREM RollingInvariant == RUSpec => []RUInv
  BY InitRUInv, NextRUInv, PTL DEF RUSpec

\* The variables keep their types.
THEOREM RollingType == RUSpec => []RUTypeOK
<1>1. RUInv => RUTypeOK
  BY DEF RUInv
<1> QED
  BY <1>1, RollingInvariant, PTL

LEMMA Serves == RUInv => TrafficServed
<1> SUFFICES ASSUME RUInv, line \in Loop, ~failed
             PROVE  routes \cap In({"healthy"}) # {}
  BY DEF TrafficServed
<1>1. All >= 2
  BY DEF RUInv, Enough, Loop
<1>2. Replicas \ cur # {}
  BY <1>1, AnotherReplica DEF RUInv, RUTypeOK
<1>3. Replicas \ cur \subseteq In({"healthy"})
  BY DEF RUInv, Others
<1>4. In({"healthy"}) \subseteq routes
  BY DEF RUInv, Known, In
<1> QED
  BY <1>2, <1>3, <1>4

\* While containers are replaced the proxy always has one that answers, unless
\* one has failed by itself since the last full count: the loop of
\* scripts/rolling_update.sh never takes the last one away, for any number of
\* replicas.
THEOREM TrafficServedHolds == RUSpec => []TrafficServed
  BY RollingInvariant, Serves, PTL

---------------------------------------------------------------------------
(* RollingUpdate: its length *)

\* Numbers of containers.
LEMMA Containers ==
  /\ All \in Nat
  /\ \A T \in SUBSET Replicas : IsFiniteSet(T) /\ Cardinality(T) \in 0 .. All
  /\ \A T \in SUBSET Replicas : \A r \in T : Cardinality(T \ {r}) = Cardinality(T) - 1
<1>1. All \in Nat
  BY ReplicasFinite, FS_CardinalityType DEF All
<1>2. \A T \in SUBSET Replicas : IsFiniteSet(T) /\ Cardinality(T) <= All
  BY ReplicasFinite, FS_Subset DEF All
<1>3. \A T \in SUBSET Replicas : Cardinality(T) \in Nat
  BY <1>2, FS_CardinalityType
<1>4. \A T \in SUBSET Replicas : \A r \in T : Cardinality(T \ {r}) = Cardinality(T) - 1
  BY <1>2, FS_RemoveElement
<1> QED
  BY <1>1, <1>2, <1>3, <1>4

\* A command that leaves the list alone takes the script on.
LEMMA GoesOn ==
  ASSUME RUTypeOK, UNCHANGED todo,
         \/ <<line, line'>> \in {<<"begin", "up">>, <<"begin", "refused">>, <<"up", "allUp">>,
              <<"allUp", "proxyUp">>, <<"allUp", "refused">>, <<"proxyUp", "list">>,
              <<"proxyUp", "refused">>, <<"next", "done">>, <<"count", "stop">>}
         \/ <<line, line'>> \in {<<"count", "aborted">>, <<"stop", "remove">>,
              <<"remove", "spare">>, <<"spare", "start">>, <<"spare", "spareOne">>,
              <<"spareOne", "start">>, <<"spareOne", "aborted">>, <<"start", "ready">>}
         \/ <<line, line'>> \in {<<"ready", "proxy">>, <<"ready", "aborted">>,
              <<"proxy", "next">>, <<"proxy", "aborted">>}
  PROVE  Left' < Left /\ line' # line
<1>1. Cardinality(todo) \in Nat /\ All \in Nat
  BY Containers DEF RUTypeOK
<1>2. Place[line'] < Place[line] /\ Place[line'] \in Int /\ Place[line] \in Int
  BY <1>1 DEF Place
<1>3. Place' = Place
  BY DEF Place
<1>4. line' # line
  OBVIOUS
<1> QED
  BY <1>1, <1>2, <1>3, <1>4 DEF Left

LEMMA ScriptStepShortens ==
  RUInv /\ [RUNext]_RUvars => IF UNCHANGED line THEN Left' = Left ELSE Left' < Left
<1> SUFFICES ASSUME RUTypeOK, [RUNext]_RUvars
             PROVE  IF UNCHANGED line THEN Left' = Left ELSE Left' < Left
  BY DEF RUInv
<1>1. All \in Nat /\ Cardinality(todo) \in 0 .. All
  BY Containers DEF RUTypeOK
<1>2. CASE UNCHANGED <<line, todo>>
  BY <1>2 DEF Left, Place
<1>3. CASE Begin \/ Up \/ Stop \/ Remove \/ Start
  BY <1>3, GoesOn DEF Begin, Up, Stop, Remove, Start, Moves
<1>4. ASSUME NEW min, NEW from, NEW ok, NEW timeout, WaitHealthy(from, min, ok, timeout),
             <<from, ok, timeout>> \in {<<"allUp", "proxyUp", "refused">>,
               <<"count", "stop", "aborted">>, <<"spare", "start", "spareOne">>,
               <<"spareOne", "start", "aborted">>, <<"ready", "proxy", "aborted">>}
      PROVE  Left' < Left /\ line' # line
  <2>1. line = from /\ line' \in {ok, timeout} /\ UNCHANGED todo
    BY <1>4 DEF WaitHealthy, Moves
  <2> QED
    BY <1>4, <2>1, GoesOn
<1>5. ASSUME NEW from, NEW ok, NEW timeout, WaitProxy(from, ok, timeout),
             <<from, ok, timeout>> \in {<<"proxyUp", "list", "refused">>,
                                        <<"proxy", "next", "aborted">>}
      PROVE  Left' < Left /\ line' # line
  <2>1. line = from /\ line' \in {ok, timeout} /\ UNCHANGED todo
    BY <1>5 DEF WaitProxy, Moves
  <2> QED
    BY <1>5, <2>1, GoesOn
<1>6. CASE List
  <2>1. PICK L \in SUBSET Replicas : /\ line = "list"
                                     /\ \/ line' = "refused" /\ todo' = {}
                                        \/ line' = "next" /\ todo' = L
    BY <1>6 DEF List
  <2>2. Cardinality(L) \in 0 .. All /\ Cardinality({}) = 0
    BY Containers, FS_EmptySet
  <2>3. Cardinality(todo') \in 0 .. All /\ (line' = "refused" => Cardinality(todo') = 0)
    BY <1>1, <2>1, <2>2
  <2>4. Left = 9 * Cardinality(todo) + (9 * All + 2)
    BY <2>1 DEF Left, Place
  <2>5. Left' = 9 * Cardinality(todo') + (IF line' = "next" THEN 1 ELSE 0)
    BY <2>1 DEF Left, Place
  <2>6. line' # line
    BY <2>1
  <2> QED
    BY <1>1, <2>3, <2>4, <2>5, <2>6
<1>7. CASE NextContainer
  <2>1. CASE todo = {}
    BY <1>7, <2>1, GoesOn DEF NextContainer
  <2>2. CASE todo # {}
    <3>1. PICK r \in todo : todo' = todo \ {r} /\ line' = "count" /\ line = "next"
      BY <1>7, <2>2 DEF NextContainer
    <3>2. Cardinality(todo') = Cardinality(todo) - 1
      BY <3>1, Containers DEF RUTypeOK
    <3>3. Left = 9 * Cardinality(todo) + 1 /\ Left' = 9 * Cardinality(todo') + 9
      BY <3>1 DEF Left, Place
    <3>4. line' # line
      BY <3>1
    <3> QED
      BY <1>1, <3>2, <3>3, <3>4
  <2> QED
    BY <2>1, <2>2
<1>8. CASE Lookup \/ \E r \in Replicas : Healthy(r) \/ Fails(r) \/ Unhealthy(r)
  BY <1>2, <1>8 DEF Lookup, Healthy, Fails, Unhealthy
<1>9. CASE UNCHANGED RUvars
  BY <1>2, <1>9 DEF RUvars
<1> QED
  BY <1>3, <1>4, <1>5, <1>6, <1>7, <1>8, <1>9 DEF RUNext, Script

\* The script runs nine commands for each container and six besides at most,
\* whatever the number of replicas and whatever befalls them: its loop
\* (scripts/rolling_update.sh:70) runs over a list that it reads once.
THEOREM ScriptIsBounded == RUSpec => ScriptShortens
<1>1. RUInv /\ [RUNext]_RUvars => [IF UNCHANGED line THEN Left' = Left ELSE Left' < Left]_RUvars
  BY ScriptStepShortens
<1> QED
  BY <1>1, RollingInvariant, PTL DEF RUSpec, ScriptShortens

---------------------------------------------------------------------------
(* Overviews: counts of accounts *)

\* Numbers of accounts.
LEMMA Counted ==
  /\ Cardinality(Users) \in Nat
  /\ \A S \in SUBSET Users : IsFiniteSet(S) /\ Cardinality(S) \in 0 .. Cardinality(Users)
  /\ \A S, T \in SUBSET Users : S \subseteq T => Cardinality(S) <= Cardinality(T)
  /\ \A S \in SUBSET Users : \A u \in Users \ S : Cardinality(S \cup {u}) = Cardinality(S) + 1
<1>1. Cardinality(Users) \in Nat
  BY UsersFinite, FS_CardinalityType
<1>2. \A S \in SUBSET Users : IsFiniteSet(S) /\ Cardinality(S) <= Cardinality(Users)
  BY UsersFinite, FS_Subset
<1>3. \A S \in SUBSET Users : Cardinality(S) \in Nat
  BY <1>2, FS_CardinalityType
<1>4. \A S, T \in SUBSET Users : S \subseteq T => Cardinality(S) <= Cardinality(T)
  BY <1>2, FS_Subset
<1>5. \A S \in SUBSET Users : \A u \in Users \ S : Cardinality(S \cup {u}) = Cardinality(S) + 1
  BY <1>2, FS_AddElement
<1> QED
  BY <1>1, <1>2, <1>3, <1>4, <1>5

---------------------------------------------------------------------------
(* Overviews: what a step leaves alone of the records and calls *)

\* The record of a dashboard that a step leaves alone.
LEMMA SameRecord ==
  ASSUME NEW d \in Dashboards, Recorded(d), UNCHANGED <<accounts, up>>, pc'[d] = pc[d],
         d \in pinged' <=> d \in pinged, d \in lost' <=> d \in lost,
         d \in together' <=> d \in together,
         total'[d] = total[d], active'[d] = active[d], since'[d] = since[d],
         found'[d] = found[d]
  PROVE  Recorded(d)'
<1>1. Blank(d)' /\ WorldSeen(d)'
  BY DEF Recorded, Blank, WorldSeen, Open
<1>2. CountsInOrder(d)'
  BY DEF Recorded, CountsInOrder, Is
<1>3. OutageFound(d)' /\ BrokenStays(d)'
  BY DEF Recorded, OutageFound, BrokenStays
<1> QED
  BY <1>1, <1>2, <1>3 DEF Recorded

\* The executor under a step that neither adds nor removes a call.
LEMMA SameCalls ==
  ASSUME IInv, UNCHANGED executor,
         \A r \in Requests : pc[r] # "idle" => pc'[r] # "idle",
         \A o \in Inspections : pc'[o] = pc[o] \/ pc'[o] = "answered"
  PROVE  Accounted' /\ IsFiniteSet(running)'
<1>1. \A i \in 1 .. Len(jobs) : jobs[i] \in Requests
  BY DEF IInv, TypeOK
<1>2. \A o \in Inspections : Open(o)' => Open(o) /\ pc'[o] = pc[o]
  BY DEF Open
<1>3. jobs' = jobs /\ running' = running /\ heard' = heard /\ running \subseteq Requests
  BY DEF executor, IInv, TypeOK
<1>4. \A o \in Inspections : Waits(o) => Waits(o)'
  BY <1>3 DEF Waits
<1>5. \A i \in 1 .. Len(jobs) : pc[jobs[i]] # "idle" => pc'[jobs[i]] # "idle"
  BY <1>1
<1>6. (\A i, j \in 1 .. Len(jobs) : jobs[i] = jobs[j] => i = j)'
  BY <1>3 DEF IInv, Accounted
<1>7. (\A i \in 1 .. Len(jobs) : jobs[i] \notin running /\ pc[jobs[i]] # "idle")'
  BY <1>3, <1>5 DEF IInv, Accounted
<1>8. (\A r \in running : pc[r] # "idle")' /\ (heard \subseteq running)' /\ IsFiniteSet(running)'
  BY <1>3 DEF IInv, Accounted
<1>9. (\A o \in Inspections : Open(o) => pc[o] = "inspect" /\ (Waits(o) \/ o \in running))'
  BY <1>2, <1>3, <1>4 DEF IInv, Accounted
<1> QED
  BY <1>6, <1>7, <1>8, <1>9 DEF Accounted

\* The records of the other dashboards under a step of one.
LEMMA OtherRecords ==
  ASSUME IInv, NEW d \in Dashboards, UNCHANGED <<accounts, up>>,
         \A e \in Dashboards \ {d} :
           /\ pc'[e] = pc[e]
           /\ e \in pinged' <=> e \in pinged
           /\ e \in lost' <=> e \in lost
           /\ e \in together' <=> e \in together
           /\ total'[e] = total[e] /\ active'[e] = active[e] /\ since'[e] = since[e]
           /\ found'[e] = found[e]
  PROVE  \A e \in Dashboards \ {d} : Recorded(e)'
<1> TAKE e \in Dashboards \ {d}
<1>1. Recorded(e)
  BY DEF IInv
<1> QED
  BY <1>1, SameRecord

\* The records of all dashboards under a step of the executor.
LEMMA AllRecords ==
  ASSUME IInv, UNCHANGED <<accounts, up, reads, history>>,
         \A d \in Dashboards : pc'[d] = pc[d]
  PROVE  \A d \in Dashboards : Recorded(d)'
<1> TAKE d \in Dashboards
<1>1. Recorded(d)
  BY DEF IInv
<1> QED
  BY <1>1, SameRecord DEF reads, history

LEMMA InitIInv == Init => IInv
<1> SUFFICES ASSUME Init PROVE IInv
  OBVIOUS
<1>1. Cardinality(Users) \in Nat
  BY Counted
<1>2. Cardinality(running) = 0 /\ IsFiniteSet(running)
  BY FS_EmptySet DEF Init
<1>3. jobs \in Seq(Requests) /\ Len(jobs) = 0
  BY EmptySeq DEF Init
<1>4. TypeOK
  BY <1>1, <1>2, <1>3, SomeThreads DEF Init, TypeOK, Points, Services
<1>5. Accounted
  BY <1>3 DEF Init, Accounted, Open, Waits, Requests
<1>6. \A d \in Dashboards : Recorded(d)
  BY DEF Init, Recorded, Blank, WorldSeen, CountsInOrder, OutageFound, BrokenStays, Open,
         Requests
<1> QED
  BY <1>2, <1>4, <1>5, <1>6 DEF IInv

---------------------------------------------------------------------------
(* Overviews: the steps of a dashboard *)

LEMMA DashboardInv ==
  ASSUME IInv, NEW d \in Dashboards, Dashboard(d)
  PROVE  IInv'
<1> USE DEF Requests
<1>1. /\ "database" \in up /\ pc[d] = "idle" /\ pc' = [pc EXCEPT ![d] = "countAll"]
      /\ jobs' = Append(jobs, d)
      /\ together' = IF up = Services THEN together \cup {d} ELSE together
      /\ UNCHANGED <<accounts, up, atHead, beat, pinged, lost, total, active, found,
                     status, running, heard, since>>
  BY DEF Dashboard, Goto, world, reads
<1>2. pc \in [Requests -> Points] /\ jobs \in Seq(Requests) /\ Recorded(d)
  BY DEF IInv, TypeOK
<1>3. /\ jobs' \in Seq(Requests) /\ Len(jobs') = Len(jobs) + 1 /\ Len(jobs) \in Nat
      /\ \A i \in 1 .. Len(jobs) : jobs'[i] = jobs[i]
      /\ jobs'[Len(jobs) + 1] = d
  BY <1>1, <1>2, AppendProperties, LenProperties
<1>4. TypeOK'
  BY <1>1, <1>2, <1>3 DEF IInv, TypeOK, Points
<1>5. \A e \in Dashboards \ {d} : Recorded(e)'
  BY <1>1, <1>2, OtherRecords
<1>6. Recorded(d)'
  <2>1. /\ d \notin pinged /\ d \notin lost /\ d \notin together
        /\ total[d] = 0 /\ active[d] = 0 /\ since[d] = 0 /\ found[d] = {}
    BY <1>1, <1>2 DEF Recorded, Blank, Open
  <2>2. pc'[d] = "countAll"
    BY <1>1, <1>2
  <2> QED
    BY <1>1, <2>1, <2>2
       DEF Recorded, Blank, WorldSeen, CountsInOrder, OutageFound, BrokenStays, Open
<1>7. Accounted'
  <2>1. \A r \in Requests : pc[r] # "idle" => pc'[r] = pc[r]
    BY <1>1, <1>2
  <2>2. \A i \in 1 .. Len(jobs) : jobs[i] \in Requests /\ jobs[i] # d
    BY <1>1, <1>2 DEF IInv, Accounted
  <2>3. d \notin running /\ pc'[d] = "countAll"
    BY <1>1, <1>2 DEF IInv, Accounted
  <2>4. (\A i, j \in 1 .. Len(jobs) : jobs[i] = jobs[j] => i = j)'
    BY <1>3, <2>2 DEF IInv, Accounted
  <2>5. (\A i \in 1 .. Len(jobs) : jobs[i] \notin running /\ pc[jobs[i]] # "idle")'
    BY <1>1, <1>3, <2>1, <2>2, <2>3 DEF IInv, Accounted
  <2>6. (\A r \in running : pc[r] # "idle")' /\ (heard \subseteq running)'
    BY <1>1, <2>1 DEF IInv, TypeOK, Accounted
  <2>7. \A o \in Inspections : Waits(o) => Waits(o)'
    BY <1>3 DEF Waits
  <2>8. \A o \in Inspections : pc'[o] = pc[o]
    BY <1>1, <1>2, KindsDiffer
  <2>9. (\A o \in Inspections : Open(o) => pc[o] = "inspect" /\ (Waits(o) \/ o \in running))'
    BY <1>1, <2>7, <2>8 DEF IInv, Accounted, Open
  <2> QED
    BY <2>4, <2>5, <2>6, <2>9 DEF Accounted
<1> QED
  BY <1>1, <1>4, <1>5, <1>6, <1>7 DEF IInv

\* The executor's part of the invariant under the steps of a dashboard in its
\* time, and the others' records.
LEMMA DashboardMoves ==
  ASSUME IInv, NEW d \in Dashboards, Open(d), UNCHANGED <<world, status, executor>>,
         NEW to \in Points \ {"idle"}, pc' = [pc EXCEPT ![d] = to] \/ pc' = pc
  PROVE  /\ pc' \in [Requests -> Points] /\ \A e \in Dashboards \ {d} : pc'[e] = pc[e]
         /\ Accounted' /\ IsFiniteSet(running)'
<1>1. pc \in [Requests -> Points] /\ d \in Requests
  BY DEF IInv, TypeOK, Requests
<1>2. pc' \in [Requests -> Points] /\ \A e \in Requests \ {d} : pc'[e] = pc[e]
  BY <1>1
<1>3. \A r \in Requests : pc[r] # "idle" => pc'[r] # "idle"
  BY <1>1, <1>2
<1>4. \A o \in Inspections : pc'[o] = pc[o]
  BY <1>2, KindsDiffer DEF Requests
<1>5. Accounted' /\ IsFiniteSet(running)'
  BY <1>3, <1>4, SameCalls
<1> QED
  BY <1>2, <1>5 DEF Requests

LEMMA CountAllInv ==
  ASSUME IInv, NEW d \in Dashboards, CountAll(d)
  PROVE  IInv'
<1>1. /\ pc[d] = "countAll" /\ pc' = [pc EXCEPT ![d] = "countActive"]
      /\ total' = [total EXCEPT ![d] = Cardinality(Is({"active", "inactive"}))]
      /\ UNCHANGED <<accounts, up, atHead, beat, pinged, lost, active, found, status,
                     jobs, running, heard, since, together>>
  BY DEF CountAll, Count, Goto, world, executor, history
<1>2. Open(d) /\ Recorded(d)
  BY <1>1 DEF IInv, Open
<1>3. /\ pc' \in [Requests -> Points] /\ \A e \in Dashboards \ {d} : pc'[e] = pc[e]
      /\ Accounted' /\ IsFiniteSet(running)'
  BY <1>1, <1>2, DashboardMoves DEF Points, world, executor
<1>4. Cardinality(Is({"active", "inactive"})) \in 0 .. Cardinality(Users)
  BY Counted DEF Is
<1>5. TypeOK'
  BY <1>1, <1>3, <1>4 DEF IInv, TypeOK
<1>6. \A e \in Dashboards \ {d} : Recorded(e)'
  BY <1>1, <1>3, OtherRecords DEF IInv, TypeOK
<1>7. pc'[d] = "countActive" /\ total'[d] = Cardinality(Is({"active", "inactive"}))
  BY <1>1 DEF IInv, TypeOK, Requests
<1>8. CountsInOrder(d)'
  BY <1>1, <1>2, <1>4, <1>7 DEF Recorded, CountsInOrder, Is
<1>9. Blank(d)' /\ WorldSeen(d)' /\ OutageFound(d)' /\ BrokenStays(d)'
  BY <1>1, <1>2, <1>7 DEF Recorded, Blank, WorldSeen, OutageFound, BrokenStays, Open
<1> QED
  BY <1>3, <1>5, <1>6, <1>8, <1>9 DEF IInv, Recorded

LEMMA CountActiveInv ==
  ASSUME IInv, NEW d \in Dashboards, CountActive(d)
  PROVE  IInv'
<1>1. /\ pc[d] = "countActive" /\ pc' = [pc EXCEPT ![d] = "select1"]
      /\ active' = [active EXCEPT ![d] = Cardinality(Is({"active"}))]
      /\ UNCHANGED <<accounts, up, atHead, beat, pinged, lost, total, found, status,
                     jobs, running, heard, since, together>>
  BY DEF CountActive, Count, Goto, world, executor, history
<1>2. Open(d) /\ Recorded(d)
  BY <1>1 DEF IInv, Open
<1>3. /\ pc' \in [Requests -> Points] /\ \A e \in Dashboards \ {d} : pc'[e] = pc[e]
      /\ Accounted' /\ IsFiniteSet(running)'
  BY <1>1, <1>2, DashboardMoves DEF Points, world, executor
<1>4. /\ Cardinality(Is({"active"})) \in 0 .. Cardinality(Users)
      /\ Cardinality(Is({"active"})) <= Cardinality(Is({"active", "inactive"}))
  BY Counted DEF Is
<1>5. TypeOK'
  BY <1>1, <1>3, <1>4 DEF IInv, TypeOK
<1>6. \A e \in Dashboards \ {d} : Recorded(e)'
  BY <1>1, <1>3, OtherRecords DEF IInv, TypeOK
<1>7. pc'[d] = "select1" /\ active'[d] = Cardinality(Is({"active"}))
  BY <1>1 DEF IInv, TypeOK, Requests
<1>8. CountsInOrder(d)'
  BY <1>1, <1>2, <1>4, <1>7 DEF Recorded, CountsInOrder
<1>9. Blank(d)' /\ WorldSeen(d)' /\ OutageFound(d)' /\ BrokenStays(d)'
  BY <1>1, <1>2, <1>7 DEF Recorded, Blank, WorldSeen, OutageFound, BrokenStays, Open
<1> QED
  BY <1>3, <1>5, <1>6, <1>8, <1>9 DEF IInv, Recorded

\* What holds of a dashboard after any of its checks.
LEMMA CheckKeeps ==
  ASSUME IInv, NEW d \in Dashboards, NEW from, NEW to, NEW fault \in Faults,
         NEW wrong \in BOOLEAN, Check(d, from, to, fault, wrong),
         <<from, to>> \in {<<"select1", "select1Again">>, <<"select1Again", "ping">>,
                           <<"ping", "migration">>, <<"migration", "beat">>,
                           <<"beat", "gather">>},
         Recorded(d) => OutageFound(d)' /\ BrokenStays(d)'
  PROVE  IInv'
<1>1. /\ pc[d] = from /\ pc' = [pc EXCEPT ![d] = to]
      /\ found' = [found EXCEPT ![d] = IF wrong THEN @ \cup {fault} ELSE @]
      /\ UNCHANGED <<accounts, up, atHead, beat, pinged, lost, total, active, status,
                     jobs, running, heard, since, together>>
  BY DEF Check, Goto, Finds, world, executor, history
<1>2. Open(d) /\ Recorded(d)
  BY <1>1 DEF IInv, Open
<1>3. to \in Points \ {"idle"}
  BY DEF Points
<1>4. /\ pc' \in [Requests -> Points] /\ \A e \in Dashboards \ {d} : pc'[e] = pc[e]
      /\ Accounted' /\ IsFiniteSet(running)'
  BY <1>1, <1>2, <1>3, DashboardMoves DEF world, executor
<1>5. TypeOK'
  BY <1>1, <1>4 DEF IInv, TypeOK
<1>6. \A e \in Dashboards \ {d} : Recorded(e)'
  BY <1>1, <1>4, OtherRecords DEF IInv, TypeOK
<1>7. pc'[d] = to
  BY <1>1 DEF IInv, TypeOK, Requests
<1>8. CountsInOrder(d)'
  BY <1>1, <1>2, <1>7 DEF Recorded, CountsInOrder
<1>9. Blank(d)' /\ WorldSeen(d)'
  BY <1>1, <1>2, <1>7 DEF Recorded, Blank, WorldSeen, Open
<1> QED
  BY <1>2, <1>4, <1>5, <1>6, <1>8, <1>9 DEF IInv, Recorded

LEMMA ChecksInv ==
  ASSUME IInv, NEW d \in Dashboards, Checks(d)
  PROVE  IInv'
<1>0. found \in [Dashboards -> SUBSET Faults] /\ pc \in [Requests -> Points]
  BY DEF IInv, TypeOK
<1>1. Faults = {<<"services", "database">>, <<"services", "redis">>, <<"system", "database">>,
                <<"system", "redis">>, <<"system", "migration">>, <<"system", "beat">>}
  BY DEF Faults, Services
<1>2. CASE Check(d, "select1", "select1Again", <<"services", "database">>, ~Connected(d))
  <2>1. /\ pc'[d] = "select1Again" /\ UNCHANGED <<lost, together>>
        /\ found'[d] = IF d \in lost THEN found[d] \cup {<<"services", "database">>} ELSE found[d]
    BY <1>0, <1>2 DEF Check, Goto, Finds, Connected, reads, history, Requests
  <2>2. pc[d] = "select1"
    BY <1>2 DEF Check, Goto
  <2>3. Recorded(d) => OutageFound(d)' /\ BrokenStays(d)'
    BY <2>1, <2>2 DEF Recorded, OutageFound, BrokenStays
  <2> QED
    BY <1>1, <1>2, <2>3, CheckKeeps DEF Connected
<1>3. CASE Check(d, "select1Again", "ping", <<"system", "database">>, ~Connected(d))
  <2>1. /\ pc'[d] = "ping" /\ UNCHANGED <<lost, together>>
        /\ found'[d] = IF d \in lost THEN found[d] \cup {<<"system", "database">>} ELSE found[d]
    BY <1>0, <1>3 DEF Check, Goto, Finds, Connected, reads, history, Requests
  <2>2. Recorded(d) => OutageFound(d)' /\ BrokenStays(d)'
    BY <2>1 DEF Recorded, OutageFound, BrokenStays
  <2> QED
    BY <1>1, <1>3, <2>2, CheckKeeps DEF Connected
<1>4. CASE Check(d, "ping", "migration", <<"system", "redis">>, "redis" \notin up)
  <2>1. /\ pc[d] = "ping" /\ pc'[d] = "migration" /\ UNCHANGED <<lost, together>>
        /\ found'[d] = IF "redis" \notin up THEN found[d] \cup {<<"system", "redis">>}
                                            ELSE found[d]
    BY <1>0, <1>4 DEF Check, Goto, Finds, reads, history, Requests
  <2>2. Recorded(d) /\ d \notin together /\ d \notin lost => "redis" \notin up
    BY <1>0, <2>1 DEF Recorded, WorldSeen, Open, IInv, TypeOK, Services
  <2>3. Recorded(d) => OutageFound(d)'
    BY <2>1, <2>2 DEF OutageFound
  <2>4. Recorded(d) => BrokenStays(d)'
    BY <2>1 DEF Recorded, BrokenStays
  <2> QED
    BY <1>1, <1>4, <2>3, <2>4, CheckKeeps
<1>5. CASE Check(d, "migration", "beat", <<"system", "migration">>, ~Connected(d) \/ ~atHead)
  <2>1. /\ pc[d] = "migration" /\ pc'[d] = "beat" /\ UNCHANGED <<lost, together>>
        /\ found'[d] = IF ~Connected(d) \/ ~atHead THEN found[d] \cup {<<"system", "migration">>}
                                                   ELSE found[d]
    BY <1>0, <1>5 DEF Check, Goto, Finds, reads, history, Requests
  <2>2. Recorded(d) => OutageFound(d)'
    BY <2>1 DEF Recorded, OutageFound, Connected
  <2>3. Recorded(d) => BrokenStays(d)'
    BY <2>1 DEF Recorded, BrokenStays
  <2>4. (~Connected(d) \/ ~atHead) \in BOOLEAN
    BY DEF Connected
  <2> QED
    BY <1>1, <1>5, <2>2, <2>3, <2>4, CheckKeeps
<1>6. CASE Check(d, "beat", "gather", <<"system", "beat">>, "redis" \notin up \/ ~beat)
  <2>1. /\ pc[d] = "beat" /\ pc'[d] = "gather" /\ UNCHANGED <<lost, together>>
        /\ found'[d] \in {found[d], found[d] \cup {<<"system", "beat">>}}
    BY <1>0, <1>6 DEF Check, Goto, Finds, reads, history, Requests
  <2>2. Recorded(d) => OutageFound(d)' /\ BrokenStays(d)'
    BY <2>1 DEF Recorded, OutageFound, BrokenStays
  <2>3. ("redis" \notin up \/ ~beat) \in BOOLEAN
    OBVIOUS
  <2> QED
    BY <1>1, <1>6, <2>2, <2>3, CheckKeeps
<1> QED
  BY <1>2, <1>3, <1>4, <1>5, <1>6 DEF Checks

LEMMA PingServicesInv ==
  ASSUME IInv, NEW d \in Dashboards, PingServices(d)
  PROVE  IInv'
<1>1. /\ pc[d] \in {"select1Again", "ping", "migration", "beat", "gather"}
      /\ pinged' = pinged \cup {d}
      /\ found' = [found EXCEPT ![d] = IF "redis" \notin up
                                       THEN @ \cup {<<"services", "redis">>} ELSE @]
      /\ UNCHANGED <<accounts, up, atHead, beat, pc, lost, total, active, status,
                     jobs, running, heard, since, together>>
  BY DEF PingServices, Finds, world, executor, history
<1>2. Open(d) /\ Recorded(d)
  BY <1>1 DEF IInv, Open
<1>3. Accounted' /\ IsFiniteSet(running)'
  BY <1>1, SameCalls DEF executor
<1>4. <<"services", "redis">> \in Faults
  BY DEF Faults, Services
<1>5. found' \in [Dashboards -> SUBSET Faults]
  BY <1>1, <1>4 DEF IInv, TypeOK
<1>6. TypeOK'
  BY <1>1, <1>5 DEF IInv, TypeOK
<1>7. \A e \in Dashboards \ {d} : Recorded(e)'
  BY <1>1, OtherRecords DEF IInv, TypeOK
<1>8. found'[d] \in {found[d], found[d] \cup {<<"services", "redis">>}}
  BY <1>1 DEF IInv, TypeOK
<1>9. Recorded(d)'
  <2>1. CountsInOrder(d)'
    BY <1>1, <1>2 DEF Recorded, CountsInOrder, Is
  <2>2. Blank(d)' /\ WorldSeen(d)' /\ OutageFound(d)' /\ BrokenStays(d)'
    BY <1>1, <1>2, <1>8 DEF Recorded, Blank, WorldSeen, OutageFound, BrokenStays, Open
  <2> QED
    BY <2>1, <2>2 DEF Recorded
<1> QED
  BY <1>3, <1>6, <1>7, <1>9 DEF IInv

LEMMA EndsInv ==
  ASSUME IInv, NEW d \in Dashboards, NEW from, NEW to \in {"answered", "failed"},
         from \in {"countAll", "countActive", "gather"}, Ends(d, from, to)
  PROVE  IInv'
<1>1. /\ pc[d] = from /\ pc' = [pc EXCEPT ![d] = to]
      /\ pinged' = pinged \ {d} /\ lost' = lost \ {d} /\ together' = together \ {d}
      /\ total' = [total EXCEPT ![d] = 0] /\ active' = [active EXCEPT ![d] = 0]
      /\ since' = [since EXCEPT ![d] = 0] /\ found' = [found EXCEPT ![d] = {}]
      /\ UNCHANGED <<accounts, up, atHead, beat, status, jobs, running, heard>>
  BY DEF Ends, Goto, world, executor
<1>2. Open(d)
  BY <1>1 DEF Open
<1>3. to \in Points \ {"idle"}
  BY DEF Points
<1>4. /\ pc' \in [Requests -> Points] /\ \A e \in Dashboards \ {d} : pc'[e] = pc[e]
      /\ Accounted' /\ IsFiniteSet(running)'
  BY <1>1, <1>2, <1>3, DashboardMoves DEF world, executor
<1>5. 0 \in 0 .. Cardinality(Users)
  BY Counted
<1>6. TypeOK'
  BY <1>1, <1>4, <1>5 DEF IInv, TypeOK
<1>7. \A e \in Dashboards \ {d} : Recorded(e)'
  BY <1>1, <1>4, OtherRecords DEF IInv, TypeOK
<1>8. /\ pc'[d] = to /\ total'[d] = 0 /\ active'[d] = 0 /\ since'[d] = 0 /\ found'[d] = {}
      /\ d \notin pinged' \cup lost' \cup together'
  BY <1>1 DEF IInv, TypeOK, Requests
<1>9. Recorded(d)'
  BY <1>8 DEF Recorded, Blank, WorldSeen, CountsInOrder, OutageFound, BrokenStays, Open
<1> QED
  BY <1>4, <1>6, <1>7, <1>9 DEF IInv

LEMMA DashboardStepInv ==
  ASSUME IInv, NEW d \in Dashboards, Dashboard(d) \/ DashboardStep(d)
  PROVE  IInv'
<1>1. CASE CountFails(d) \/ Answer(d)
  BY <1>1, EndsInv DEF CountFails, Answer
<1> QED
  BY <1>1, DashboardInv, CountAllInv, CountActiveInv, ChecksInv, PingServicesInv
     DEF DashboardStep

---------------------------------------------------------------------------
(* Overviews: the steps of the executor *)

LEMMA InspectInv ==
  ASSUME IInv, NEW o \in Inspections, Inspect(o)
  PROVE  IInv'
<1> USE DEF Requests
<1>1. /\ pc[o] = "idle" /\ pc' = [pc EXCEPT ![o] = "inspect"] /\ jobs' = Append(jobs, o)
      /\ UNCHANGED <<accounts, up, atHead, beat, pinged, lost, total, active, found,
                     status, running, heard, since, together>>
  BY DEF Inspect, Goto, world, reads, history
<1>2. pc \in [Requests -> Points] /\ jobs \in Seq(Requests)
  BY DEF IInv, TypeOK
<1>3. /\ jobs' \in Seq(Requests) /\ Len(jobs') = Len(jobs) + 1 /\ Len(jobs) \in Nat
      /\ \A i \in 1 .. Len(jobs) : jobs'[i] = jobs[i]
      /\ jobs'[Len(jobs) + 1] = o
  BY <1>1, <1>2, AppendProperties, LenProperties
<1>4. TypeOK'
  BY <1>1, <1>2, <1>3 DEF IInv, TypeOK, Points
<1>5. \A d \in Dashboards : pc'[d] = pc[d]
  BY <1>1, <1>2, KindsDiffer
<1>6. \A d \in Dashboards : Recorded(d)'
  BY <1>1, <1>5, AllRecords DEF reads, history
<1>7. Accounted'
  <2>1. \A r \in Requests : r # o => pc'[r] = pc[r]
    BY <1>1, <1>2
  <2>2. \A i \in 1 .. Len(jobs) : jobs[i] \in Requests /\ jobs[i] # o
    BY <1>1, <1>2 DEF IInv, Accounted
  <2>3. o \notin running /\ pc'[o] = "inspect"
    BY <1>1, <1>2 DEF IInv, Accounted
  <2>4. (\A i, j \in 1 .. Len(jobs) : jobs[i] = jobs[j] => i = j)'
    BY <1>3, <2>2 DEF IInv, Accounted
  <2>5. (\A i \in 1 .. Len(jobs) : jobs[i] \notin running /\ pc[jobs[i]] # "idle")'
    BY <1>1, <1>3, <2>1, <2>2, <2>3 DEF IInv, Accounted
  <2>6. (\A r \in running : pc[r] # "idle")' /\ (heard \subseteq running)'
    BY <1>1, <2>1, <2>3 DEF IInv, TypeOK, Accounted
  <2>7. \A p \in Inspections : Waits(p) => Waits(p)'
    BY <1>3 DEF Waits
  <2>8. Waits(o)'
    BY <1>3 DEF Waits
  <2>9. (\A p \in Inspections : Open(p) => pc[p] = "inspect" /\ (Waits(p) \/ p \in running))'
    BY <1>1, <2>1, <2>3, <2>7, <2>8 DEF IInv, Accounted, Open
  <2> QED
    BY <2>4, <2>5, <2>6, <2>9 DEF Accounted
<1> QED
  BY <1>1, <1>4, <1>6, <1>7 DEF IInv

LEMMA TimesOutInv ==
  ASSUME IInv, NEW o \in Inspections, TimesOut(o)
  PROVE  IInv'
<1>1. /\ pc[o] = "inspect" /\ pc' = [pc EXCEPT ![o] = "answered"]
      /\ status' = [status EXCEPT ![o] = "degraded"]
      /\ UNCHANGED <<accounts, up, atHead, beat, pinged, lost, total, active, found,
                     jobs, running, heard, since, together>>
  BY DEF TimesOut, Goto, world, reads, executor, history
<1>2. pc \in [Requests -> Points]
  BY DEF IInv, TypeOK
<1>3. \A r \in Requests : pc'[r] = IF r = o THEN "answered" ELSE pc[r]
  BY <1>1, <1>2
<1>4. TypeOK'
  BY <1>1, <1>2 DEF IInv, TypeOK, Points
<1>5. \A d \in Dashboards : Recorded(d)'
  BY <1>1, <1>3, KindsDiffer, AllRecords DEF reads, history, Requests
<1>6. Accounted' /\ IsFiniteSet(running)'
  BY <1>1, <1>3, SameCalls DEF executor, Requests
<1> QED
  BY <1>4, <1>5, <1>6 DEF IInv

LEMMA TakeThreadInv ==
  ASSUME IInv, TakeThread
  PROVE  IInv'
<1> DEFINE r == Head(jobs)
<1>1. /\ jobs # <<>> /\ Cardinality(running) < Threads /\ jobs' = Tail(jobs)
      /\ running' = IF Cancelled(r) THEN running ELSE running \cup {r}
      /\ UNCHANGED <<accounts, up, atHead, beat, pc, pinged, lost, total, active, found,
                     status, heard, since, together>>
  BY DEF TakeThread, world, reads, history
<1>2. jobs \in Seq(Requests) /\ running \subseteq Requests /\ IsFiniteSet(running)
  BY DEF IInv, TypeOK
<1>3. /\ r \in Requests /\ r = jobs[1]
      /\ jobs' \in Seq(Requests) /\ Len(jobs') = Len(jobs) - 1 /\ Len(jobs) \in Nat \ {0}
      /\ \A i \in 1 .. Len(jobs') : jobs'[i] = jobs[i + 1]
  BY <1>1, <1>2, HeadTailProperties, LenProperties, EmptySeq
<1>4. r \notin running /\ pc[r] # "idle"
  BY <1>3 DEF IInv, Accounted
<1>5. /\ IsFiniteSet(running') /\ running' \subseteq Requests
      /\ Cardinality(running') <= Threads
  <2>1. /\ IsFiniteSet(running \cup {r})
        /\ Cardinality(running \cup {r}) = Cardinality(running) + 1
    BY <1>2, <1>4, FS_AddElement
  <2>2. Cardinality(running) \in Nat
    BY <1>2, FS_CardinalityType
  <2> QED
    BY <1>1, <1>2, <1>3, <2>1, <2>2, SomeThreads
<1>6. TypeOK'
  BY <1>1, <1>3, <1>5 DEF IInv, TypeOK
<1>7. \A d \in Dashboards : Recorded(d)'
  BY <1>1, AllRecords DEF reads, history
<1>8. Accounted'
  <2>1. (\A i, j \in 1 .. Len(jobs) : jobs[i] = jobs[j] => i = j)'
    BY <1>3 DEF IInv, Accounted
  <2>2. \A i \in 1 .. Len(jobs') : jobs'[i] # r /\ jobs'[i] \notin running
                                   /\ pc[jobs'[i]] # "idle"
    BY <1>3 DEF IInv, Accounted
  <2>3. (\A i \in 1 .. Len(jobs) : jobs[i] \notin running /\ pc[jobs[i]] # "idle")'
    BY <1>1, <2>2
  <2>4. (\A q \in running : pc[q] # "idle")' /\ (heard \subseteq running)'
    BY <1>1, <1>4 DEF IInv, Accounted
  <2>5. ASSUME NEW o \in Inspections, Open(o)
        PROVE  pc[o] = "inspect" /\ (Waits(o)' \/ o \in running')
    <3>1. pc[o] = "inspect" /\ (Waits(o) \/ o \in running)
      BY <2>5 DEF IInv, Accounted
    <3>2. CASE o \in running
      BY <1>1, <3>1, <3>2
    <3>3. CASE Waits(o)
      <4>1. PICK i \in 1 .. Len(jobs) : jobs[i] = o
        BY <3>3 DEF Waits
      <4>2. CASE i = 1
        BY <1>1, <1>3, <3>1, <4>1, <4>2 DEF Cancelled
      <4>3. CASE i # 1
        <5>1. i - 1 \in 1 .. Len(jobs') /\ jobs'[i - 1] = o
          BY <1>3, <4>1, <4>3
        <5> QED
          BY <3>1, <5>1 DEF Waits
      <4> QED
        BY <4>2, <4>3
    <3> QED
      BY <3>1, <3>2, <3>3
  <2>6. (\A o \in Inspections : Open(o) => pc[o] = "inspect" /\ (Waits(o) \/ o \in running))'
    BY <1>1, <2>5 DEF Open
  <2> QED
    BY <2>1, <2>3, <2>4, <2>6 DEF Accounted
<1> QED
  BY <1>5, <1>6, <1>7, <1>8 DEF IInv

\* What holds when a thread is through with r, whose request does not wait.
LEMMA ThreadFreed ==
  ASSUME IInv, NEW r \in running, running' = running \ {r}, heard' \subseteq heard \ {r},
         UNCHANGED <<jobs, accounts, up, reads, history>>,
         pc' = pc \/ (r \in Inspections /\ pc' = [pc EXCEPT ![r] = "answered"]),
         r \in Inspections => pc'[r] # "inspect"
  PROVE  /\ Accounted' /\ \A d \in Dashboards : Recorded(d)'
         /\ IsFiniteSet(running)' /\ Cardinality(running') <= Threads
<1>1. /\ pc \in [Requests -> Points] /\ jobs \in Seq(Requests) /\ running \subseteq Requests
      /\ IsFiniteSet(running) /\ Cardinality(running) <= Threads
  BY DEF IInv, TypeOK
<1>2. IsFiniteSet(running') /\ Cardinality(running') <= Threads
  <2>1. Cardinality(running \ {r}) <= Cardinality(running) /\ IsFiniteSet(running \ {r})
    BY <1>1, FS_Subset
  <2>2. Cardinality(running) \in Nat /\ Cardinality(running \ {r}) \in Nat
    BY <1>1, <2>1, FS_CardinalityType
  <2> QED
    BY <1>1, <2>1, <2>2, SomeThreads
<1>3. \A d \in Dashboards : pc'[d] = pc[d]
  BY <1>1, KindsDiffer DEF Requests
<1>4. \A q \in Requests : pc[q] # "idle" => pc'[q] # "idle"
  BY <1>1
<1>5. \A i \in 1 .. Len(jobs) : jobs[i] \in Requests
  BY <1>1
<1>6. (\A i, j \in 1 .. Len(jobs) : jobs[i] = jobs[j] => i = j)'
  BY DEF IInv, Accounted
<1>7. (\A i \in 1 .. Len(jobs) : jobs[i] \notin running /\ pc[jobs[i]] # "idle")'
  BY <1>4, <1>5 DEF IInv, Accounted
<1>8. (\A q \in running : pc[q] # "idle")' /\ (heard \subseteq running)'
  BY <1>1, <1>4 DEF IInv, Accounted
<1>9. ASSUME NEW o \in Inspections, Open(o)'
      PROVE  o # r /\ pc'[o] = pc[o] /\ Open(o)
  <2>1. CASE o = r
    BY <1>1, <1>9, <2>1 DEF IInv, Accounted, Open, Requests
  <2>2. CASE o # r
    BY <1>1, <1>9, <2>2 DEF Open, Requests
  <2> QED
    BY <2>1, <2>2
<1>10. \A o \in Inspections : Waits(o) => Waits(o)'
  BY DEF Waits
<1>11. (\A o \in Inspections : Open(o) => pc[o] = "inspect" /\ (Waits(o) \/ o \in running))'
  BY <1>9, <1>10 DEF IInv, Accounted
<1>12. \A d \in Dashboards : Recorded(d)'
  BY <1>3, AllRecords
<1> QED
  BY <1>2, <1>6, <1>7, <1>8, <1>11, <1>12 DEF Accounted

LEMMA InspectedInv ==
  ASSUME IInv, NEW o \in Inspections, NEW s \in {"ok", "degraded", "unavailable"},
         Inspected(o, s)
  PROVE  IInv'
<1>1. /\ o \in running /\ running' = running \ {o} /\ heard' = heard \ {o}
      /\ IF pc[o] = "inspect"
         THEN pc' = [pc EXCEPT ![o] = "answered"] /\ status' = [status EXCEPT ![o] = s]
         ELSE UNCHANGED <<pc, status>>
      /\ UNCHANGED <<accounts, up, atHead, beat, jobs, reads, history>>
  BY DEF Inspected, world
<1>2. pc \in [Requests -> Points]
  BY DEF IInv, TypeOK
<1>3. pc'[o] # "inspect"
  BY <1>1, <1>2 DEF Requests
<1>4. /\ Accounted' /\ \A d \in Dashboards : Recorded(d)'
      /\ IsFiniteSet(running)' /\ Cardinality(running') <= Threads
  BY <1>1, <1>3, ThreadFreed
<1>5. TypeOK'
  BY <1>1, <1>4 DEF IInv, TypeOK, Points, reads, history
<1> QED
  BY <1>4, <1>5 DEF IInv

LEMMA ReturnInv ==
  ASSUME IInv, NEW r \in Requests, Return(r)
  PROVE  IInv'
<1>1. CASE r \in Dashboards /\ MetricsCollected(r)
  <2>1. /\ r \in running /\ running' = running \ {r}
        /\ UNCHANGED <<accounts, up, atHead, beat, pc, reads, status, jobs, heard, history>>
    BY <1>1 DEF MetricsCollected, world
  <2>2. heard' \subseteq heard \ {r} /\ r \notin Inspections
    BY <1>1, <2>1, KindsDiffer DEF IInv, TypeOK
  <2>3. /\ Accounted' /\ \A d \in Dashboards : Recorded(d)'
        /\ IsFiniteSet(running)' /\ Cardinality(running') <= Threads
    BY <2>1, <2>2, ThreadFreed
  <2>4. TypeOK'
    BY <2>1, <2>3 DEF IInv, TypeOK, reads, history
  <2> QED
    BY <2>3, <2>4 DEF IInv
<1>2. CASE r \in Inspections /\ PingReplied(r)
  <2>1. /\ r \in running /\ heard' = heard \cup {r}
        /\ UNCHANGED <<accounts, up, atHead, beat, pc, reads, status, jobs, running, history>>
    BY <1>2 DEF PingReplied, world
  <2>2. TypeOK'
    BY <1>2, <2>1 DEF IInv, TypeOK, reads, history
  <2>3. \A d \in Dashboards : Recorded(d)'
    BY <2>1, AllRecords
  <2>4. \A o \in Inspections : Waits(o)' <=> Waits(o)
    BY <2>1 DEF Waits
  <2>5. Accounted'
    BY <2>1, <2>4 DEF IInv, Accounted, Open
  <2> QED
    BY <2>1, <2>2, <2>3, <2>5 DEF IInv
<1>3. CASE r \in Inspections /\ InspectionEnds(r)
  BY <1>3, InspectedInv DEF InspectionEnds
<1> QED
  BY <1>1, <1>2, <1>3 DEF Return

---------------------------------------------------------------------------
(* Overviews: the steps of what they ask about *)

\* The executor's part of the invariant under the steps of the others.
LEMMA OutsideCalls ==
  ASSUME IInv, UNCHANGED <<pc, executor>>
  PROVE  Accounted' /\ IsFiniteSet(running)'
  BY SameCalls

LEMMA RegistersInv ==
  ASSUME IInv, NEW u \in Users, Registers(u)
  PROVE  IInv'
<1> DEFINE n == Cardinality(Is({"active", "inactive"}))
<1>1. /\ accounts[u] = "none" /\ accounts' = [accounts EXCEPT ![u] = "active"]
      /\ since' = [d \in Dashboards |-> since[d] + (IF pc[d] = "countActive" THEN 1 ELSE 0)]
      /\ UNCHANGED <<up, atHead, beat, pc, pinged, lost, total, active, found, status,
                     jobs, running, heard, together>>
  BY DEF Registers, reads, executor
<1>2. accounts \in [Users -> {"none", "active", "inactive"}]
  BY DEF IInv, TypeOK
<1>3. n' = n + 1 /\ n \in Nat /\ n' \in 0 .. Cardinality(Users)
  <2>1. Is({"active", "inactive"})' = Is({"active", "inactive"}) \cup {u}
    BY <1>1, <1>2 DEF Is
  <2>2. Is({"active", "inactive"}) \in SUBSET Users /\ u \notin Is({"active", "inactive"})
    BY <1>1 DEF Is
  <2>3. Is({"active", "inactive"}) \cup {u} \in SUBSET Users
    BY <2>2
  <2> QED
    BY <2>1, <2>2, <2>3, Counted
<1>4. Cardinality(Users) \in Nat
  BY Counted
<1>5. /\ since \in [Dashboards -> 0 .. Cardinality(Users)]
      /\ total \in [Dashboards -> 0 .. Cardinality(Users)]
      /\ active \in [Dashboards -> 0 .. Cardinality(Users)]
      /\ \A d \in Dashboards : Recorded(d)
  BY DEF IInv, TypeOK
<1>6. \A d \in Dashboards : since'[d] = since[d] + (IF pc[d] = "countActive" THEN 1 ELSE 0)
  BY <1>1
<1>7. \A d \in Dashboards : CountsInOrder(d)'
  <2> TAKE d \in Dashboards
  <2>1. CountsInOrder(d) /\ total'[d] = total[d] /\ active'[d] = active[d] /\ pc'[d] = pc[d]
    BY <1>1, <1>5 DEF Recorded
  <2>2. CASE pc[d] = "countActive"
    <3>1. total'[d] + since'[d] = n'
      BY <1>3, <1>4, <1>5, <1>6, <2>1, <2>2 DEF CountsInOrder
    <3> QED
      BY <2>1, <2>2, <3>1 DEF CountsInOrder
  <2>3. CASE pc[d] # "countActive"
    <3>1. since'[d] = since[d]
      BY <1>4, <1>5, <1>6, <2>3
    <3> QED
      BY <2>1, <2>3, <3>1 DEF CountsInOrder
  <2> QED
    BY <2>2, <2>3
<1>8. \A d \in Dashboards : since'[d] \in 0 .. Cardinality(Users)
  <2> TAKE d \in Dashboards
  <2>1. CASE pc[d] = "countActive"
    <3>1. total[d] + since'[d] = n'
      BY <1>1, <1>7, <2>1 DEF CountsInOrder
    <3>2. since'[d] = since[d] + 1
      BY <1>6, <2>1
    <3> QED
      BY <1>3, <1>4, <1>5, <3>1, <3>2
  <2>2. CASE pc[d] # "countActive"
    BY <1>4, <1>5, <1>6, <2>2
  <2> QED
    BY <2>1, <2>2
<1>9. since' \in [Dashboards -> 0 .. Cardinality(Users)]
  BY <1>1, <1>8
<1>10. TypeOK'
  BY <1>1, <1>2, <1>9 DEF IInv, TypeOK
<1>11. \A d \in Dashboards : Blank(d)'
  <2> TAKE d \in Dashboards
  <2>1. Blank(d) /\ (Open(d)' <=> Open(d))
    BY <1>1, <1>5 DEF Recorded, Open
  <2>2. ~Open(d) => since'[d] = since[d]
    BY <1>4, <1>5, <1>6 DEF Open
  <2> QED
    BY <1>1, <2>1, <2>2 DEF Blank
<1>12. \A d \in Dashboards : WorldSeen(d)' /\ OutageFound(d)' /\ BrokenStays(d)'
  BY <1>1, <1>5 DEF Recorded, WorldSeen, OutageFound, BrokenStays, Open
<1>13. Accounted' /\ IsFiniteSet(running)'
  BY <1>1, OutsideCalls DEF executor
<1> QED
  BY <1>7, <1>10, <1>11, <1>12, <1>13 DEF IInv, Recorded

LEMMA TogglesInv ==
  ASSUME IInv, NEW u \in Users, Toggles(u)
  PROVE  IInv'
<1>1. /\ accounts[u] # "none"
      /\ accounts' = [accounts EXCEPT ![u] = IF @ = "active" THEN "inactive" ELSE "active"]
      /\ UNCHANGED <<up, atHead, beat, pc, pinged, lost, total, active, found, status,
                     jobs, running, heard, since, together>>
  BY DEF Toggles, reads, executor, history
<1>2. accounts \in [Users -> {"none", "active", "inactive"}]
  BY DEF IInv, TypeOK
<1>3. Is({"active", "inactive"})' = Is({"active", "inactive"})
  BY <1>1, <1>2 DEF Is
<1>4. TypeOK'
  BY <1>1, <1>2 DEF IInv, TypeOK
<1>5. ASSUME NEW d \in Dashboards PROVE Recorded(d)'
  <2>1. Recorded(d)
    BY DEF IInv
  <2>2. CountsInOrder(d)'
    BY <1>1, <1>3, <2>1 DEF Recorded, CountsInOrder
  <2>3. Blank(d)' /\ WorldSeen(d)' /\ OutageFound(d)' /\ BrokenStays(d)'
    BY <1>1, <2>1 DEF Recorded, Blank, WorldSeen, OutageFound, BrokenStays, Open
  <2> QED
    BY <2>2, <2>3 DEF Recorded
<1>6. Accounted' /\ IsFiniteSet(running)'
  BY <1>1, OutsideCalls DEF executor
<1> QED
  BY <1>4, <1>5, <1>6 DEF IInv

\* A service stops or returns.
LEMMA ServiceInv ==
  ASSUME IInv, NEW s \in Services, Stops(s) \/ Returns(s)
  PROVE  IInv'
<1>1. /\ UNCHANGED <<accounts, atHead, beat, pc, pinged, total, active, found, status,
                     jobs, running, heard, since>>
      /\ up' \subseteq Services /\ lost' \subseteq Dashboards /\ together' \subseteq Dashboards
  BY DEF Stops, Returns, reads, executor, history, IInv, TypeOK
<1>2. TypeOK'
  BY <1>1 DEF IInv, TypeOK
<1>3. ASSUME NEW d \in Dashboards
      PROVE  /\ WorldSeen(d)' /\ lost \subseteq lost' /\ together \subseteq together'
             /\ d \in lost' \cup together' => d \in lost \cup together \/ Open(d)
  <2>1. WorldSeen(d) /\ up \subseteq Services
    BY DEF IInv, Recorded, TypeOK
  <2>2. CASE Stops(s)
    BY <2>1, <2>2 DEF Stops, WorldSeen, Open, Services, history
  <2>3. CASE Returns(s)
    BY <2>1, <2>3 DEF Returns, WorldSeen, Open, Services, reads
  <2> QED
    BY <2>2, <2>3
<1>4. ASSUME NEW d \in Dashboards PROVE Recorded(d)'
  <2>1. Recorded(d)
    BY DEF IInv
  <2>2. CountsInOrder(d)'
    BY <1>1, <2>1 DEF Recorded, CountsInOrder, Is
  <2>3. Blank(d)' /\ OutageFound(d)' /\ BrokenStays(d)'
    BY <1>1, <1>3, <2>1 DEF Recorded, Blank, OutageFound, BrokenStays, Open
  <2> QED
    BY <1>3, <2>2, <2>3 DEF Recorded
<1>5. Accounted' /\ IsFiniteSet(running)'
  BY <1>1, OutsideCalls DEF executor
<1> QED
  BY <1>2, <1>4, <1>5 DEF IInv

LEMMA BeatInv ==
  ASSUME IInv, Migrates \/ Heartbeats
  PROVE  IInv'
<1>1. /\ UNCHANGED <<accounts, up, pc, reads, status, executor, history>>
      /\ atHead' \in BOOLEAN /\ beat' \in BOOLEAN
  BY DEF Migrates, Heartbeats, IInv, TypeOK
<1>2. TypeOK'
  BY <1>1 DEF IInv, TypeOK, reads, executor, history
<1>3. \A d \in Dashboards : Recorded(d)'
  BY <1>1, AllRecords
<1> QED
  BY <1>1, <1>2, <1>3, OutsideCalls DEF IInv

LEMMA NextIInv == IInv /\ [Next]_vars => IInv'
<1> SUFFICES ASSUME IInv, [Next]_vars PROVE IInv'
  OBVIOUS
<1>1. CASE UNCHANGED vars
  <2>1. UNCHANGED <<accounts, up, atHead, beat, pc, reads, status, executor, history>>
    BY <1>1 DEF vars, world
  <2>2. TypeOK'
    BY <2>1 DEF IInv, TypeOK, reads, executor, history
  <2> QED
    BY <2>1, <2>2, AllRecords, OutsideCalls DEF IInv
<1>2. ASSUME NEW o \in Inspections, Inspect(o) \/ TimesOut(o) PROVE IInv'
  BY <1>2, InspectInv, TimesOutInv
<1>3. ASSUME NEW u \in Users, Registers(u) \/ Toggles(u) PROVE IInv'
  BY <1>3, RegistersInv, TogglesInv
<1> QED
  BY <1>1, <1>2, <1>3, DashboardStepInv, TakeThreadInv, ReturnInv, ServiceInv, BeatInv
     DEF Next

---------------------------------------------------------------------------
(* Overviews: theorems *)

\* What a dashboard has on record is what it has seen, and the executor has
\* every call once.
THEOREM OverviewsInvariant == Spec => []IInv
  BY InitIInv, NextIInv, PTL DEF Spec

\* The executor loses no call and takes none twice: that of an inspection whose
\* request waits is queued or has a thread until it is given up
\* (services/admin_celery.py:59).
THEOREM CallsAccounted == Spec => []Accounted
<1>1. IInv => Accounted
  BY DEF IInv
<1> QED
  BY <1>1, OverviewsInvariant, PTL

LEMMA Holds == IInv => DashboardHolds
<1> SUFFICES ASSUME IInv, NEW d \in Dashboards, Gathered(d)
             PROVE  /\ active[d] <= total[d] + since[d]
                    /\ ReadyStatus(d) = "ok" => d \in together
                    /\ <<"services", "database">> \in found[d] => ReadyStatus(d) = "error"
  BY DEF IInv, DashboardHolds, CountsExplained, OkWasSo, DatabaseAgrees
<1>1. pc[d] = "gather" /\ Recorded(d)
  BY DEF IInv, Gathered
<1>2. active[d] <= total[d] + since[d]
  BY <1>1 DEF Recorded, CountsInOrder
<1>3. ASSUME d \notin together PROVE ReadyStatus(d) \in {"error", "degraded"}
  BY <1>1, <1>3 DEF Recorded, OutageFound, ReadyStatus, Services
<1>4. ASSUME <<"services", "database">> \in found[d] PROVE ReadyStatus(d) = "error"
  <2>1. <<"system", "database">> \in found[d]
    BY <1>1, <1>4 DEF Recorded, BrokenStays
  <2>2. found[d] \cap ({"system"} \X Services) # {}
    BY <2>1 DEF Services
  <2> QED
    BY <2>2 DEF ReadyStatus
<1> QED
  BY <1>2, <1>3, <1>4

\* What a dashboard shows, put together from moments that are not one, holds
\* together, for any number of dashboards, inspections, accounts and threads: its
\* counts differ by registrations in between, its "ok" was so at one moment, and
\* the two checks of the database agree (services/admin_dashboard.py:24-94).
THEOREM DashboardHoldsAlways == Spec => []DashboardHolds
  BY OverviewsInvariant, Holds, PTL
=============================================================================
