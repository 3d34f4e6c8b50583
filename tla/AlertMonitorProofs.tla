------------------------ MODULE AlertMonitorProofs ------------------------
(***************************************************************************)
(* What AlertMonitor shows on small instances, for every set of worker     *)
(* processes, every set of conditions that may fail and all durations.     *)
(* The inductive invariant is IInv of AlertMonitor.                        *)
(***************************************************************************)
EXTENDS AlertMonitor, TLAPS

---------------------------------------------------------------------------
(* Facts about the helpers *)

\* A check that ends a stage goes on to the next one or to the commit, and
\* keeps what it has found.
LEMMA AfterStageFacts ==
  ASSUME NEW r \in CheckRecord
  PROVE  /\ AfterStage(r) \in CheckRecord
         /\ AfterStage(r).pc \in {"read", "clearZero", "readZero", "commit"}
         /\ AfterStage(r).found = r.found
         /\ Shaped(AfterStage(r))
<1>1. CASE r.stage = "ready"
  BY <1>1 DEF AfterStage, CheckRecord, Points, RedisPoints, DatabasePoints,
              Stages, Shaped
<1>2. CASE r.stage = "beat" /\ WorkerZeroEnabled
  BY <1>2 DEF AfterStage, CheckRecord, Points, RedisPoints, DatabasePoints,
              Stages, Well, Needs, Shaped
<1>3. CASE r.stage # "ready" /\ ~(r.stage = "beat" /\ WorkerZeroEnabled)
  BY <1>3 DEF AfterStage, CheckRecord, Points, RedisPoints, DatabasePoints,
              Shaped
<1> QED
  BY <1>1, <1>2, <1>3

LEMMA IdleType == Idle \in CheckRecord /\ Idle.pc = "idle"
BY DEF Idle, CheckRecord, Points, RedisPoints, DatabasePoints, Stages

\* A countdown stays a natural number within its bound.
LEMMA Minus1Type ==
  ASSUME NEW m \in Nat, NEW n \in 0..m PROVE Minus1(n) \in 0..m
BY DEF Minus1

LEMMA Minus1Nat == ASSUME NEW n \in Nat PROVE Minus1(n) \in Nat
BY DEF Minus1

\* Two countdowns keep their order.
LEMMA Minus1Monotone ==
  ASSUME NEW m \in Nat, NEW n \in Nat, m <= n
  PROVE  Minus1(m) <= Minus1(n)
BY DEF Minus1

\* Every label is a point.
LEMMA PointsListed ==
  {"idle", "settings", "select1", "ping", "heartbeat", "inspect", "read",
   "set", "dedupe", "post", "mark", "record", "readZero", "startZero",
   "clearZero", "commit"} = Points
BY DEF Points, RedisPoints, DatabasePoints

\* Moving a check, or replacing its record, keeps the type.
LEMMA CheckUpdate ==
  ASSUME check \in [Checks -> CheckRecord], NEW c \in Checks,
         NEW r \in CheckRecord
  PROVE  [check EXCEPT ![c] = r] \in [Checks -> CheckRecord]
OBVIOUS

LEMMA GotoType ==
  ASSUME check \in [Checks -> CheckRecord], NEW c \in Checks,
         NEW l \in Points, Goto(c, l)
  PROVE  check' \in [Checks -> CheckRecord]
<1> DEFINE r == [check[c] EXCEPT !.pc = l]
<1>1. r \in CheckRecord
  BY DEF CheckRecord
<1>2. check' = [check EXCEPT ![c] = r]
  BY DEF Goto
<1> HIDE DEF r
<1> QED
  BY <1>1, <1>2, CheckUpdate

LEMMA EndStageType ==
  ASSUME check \in [Checks -> CheckRecord], NEW c \in Checks, EndStage(c)
  PROVE  check' \in [Checks -> CheckRecord]
BY AfterStageFacts DEF EndStage

---------------------------------------------------------------------------
(* Typing *)

LEMMA InitTyped == Init => TypeOK
BY IdleType, Durations DEF Init, TypeOK, Tasks, Stages, Conditions

LEMMA NextTyped == TypeOK /\ [Next]_vars => TypeOK'
<1> SUFFICES ASSUME TypeOK, [Next]_vars PROVE TypeOK'
  OBVIOUS
<1> USE Durations DEF TypeOK, beat, redis, history
<1>1. ASSUME NEW t \in Tasks, Publish(t) PROVE TypeOK'
  BY <1>1 DEF Publish
<1>2. CASE RunHeartbeat
  BY <1>2 DEF RunHeartbeat, HeartbeatLife, Tasks
<1>3. ASSUME NEW c \in Checks, Start(c) PROVE TypeOK'
  BY <1>3, GotoType, PointsListed DEF Start, Tasks
<1>4. ASSUME NEW c \in Checks, Step(c) PROVE TypeOK'
  <2>1. CASE LoadSettings(c)
    <3>0. "select1" \in Points
      BY PointsListed
    <3>1. [check[c] EXCEPT !.pc = "select1"] \in CheckRecord
      BY <3>0 DEF CheckRecord
    <3>2. \E r \in CheckRecord : check' = [check EXCEPT ![c] = r]
      BY <2>1, <3>1, IdleType DEF LoadSettings
    <3> QED
      BY <2>1, <3>2 DEF LoadSettings
  <2>2. CASE Snapshot(c)
    <3>1. ASSUME NEW x \in {"db", "redis", "beat", "workers"}, NEW h, NEW w,
                 NEW n \in Points, Look(c, h, x, w, n)
          PROVE  TypeOK'
      <4> DEFINE r == [check[c] EXCEPT !.pc = n,
                         !.found = IF w THEN @ \cup {x} ELSE @]
      <4>1. r \in CheckRecord
        BY <3>1 DEF CheckRecord
      <4>2. check' = [check EXCEPT ![c] = r]
        BY <3>1 DEF Look
      <4> HIDE DEF r
      <4>3. check' \in [Checks -> CheckRecord]
        BY <4>1, <4>2, CheckUpdate
      <4> QED
        BY <4>3, <3>1 DEF Look
    <3> QED
      BY <2>2, <3>1, PointsListed DEF Snapshot
  <2>3. CASE ReadState(c)
    <3>1. \A b \in BOOLEAN, l \in Points :
            [check[c] EXCEPT !.prev = b, !.pc = l] \in CheckRecord
      BY DEF CheckRecord
    <3>2. \E b \in BOOLEAN, l \in {"post", "set"} :
            check' = [check EXCEPT ![c] = [check[c] EXCEPT !.prev = b,
                                                           !.pc = l]]
      BY <2>3 DEF ReadState
    <3>3. check' \in [Checks -> CheckRecord]
      BY <3>1, <3>2, PointsListed
    <3> QED
      BY <2>3, <3>3 DEF ReadState
  <2>4. CASE WriteState(c)
    <3>1. check' \in [Checks -> CheckRecord]
      BY <2>4, GotoType, EndStageType, PointsListed DEF WriteState
    <3> QED
      BY <2>4, <3>1 DEF WriteState, CheckRecord
  <2>5. CASE ReadDedupe(c)
    BY <2>5, GotoType, EndStageType, PointsListed DEF ReadDedupe
  <2>6. CASE Post(c)
    <3>1. check' \in [Checks -> CheckRecord]
      BY <2>6, GotoType, PointsListed DEF Post
    <3>2. check[c].stage \in Stages
          /\ Event(check[c]) \in {"alert", "recovery"}
      BY DEF CheckRecord, Event
    <3> QED
      BY <2>6, <3>1, <3>2 DEF Post
  <2>7. CASE Mark(c)
    <3>1. check' \in [Checks -> CheckRecord] /\ check[c].stage \in Stages
      BY <2>7, GotoType, PointsListed DEF Mark, CheckRecord
    <3> QED
      BY <2>7, <3>1 DEF Mark
  <2>8. CASE Record(c)
    <3>1. check[c] \in CheckRecord
      BY DEF TypeOK
    <3>2. [check[c] EXCEPT !.pc = "set"] \in CheckRecord
      BY <3>1, PointsListed DEF CheckRecord
    <3>3. AfterStage(check[c]) \in CheckRecord
      BY <3>1, AfterStageFacts
    <3>4. check' = [check EXCEPT ![c] = [check[c] EXCEPT !.pc = "set"]]
          \/ check' = [check EXCEPT ![c] = AfterStage(check[c])]
      BY <2>8 DEF Record
    <3>5. check' \in [Checks -> CheckRecord]
      BY <3>2, <3>3, <3>4, CheckUpdate
    <3> QED
      BY <2>8, <3>5 DEF Record
  <2>9. CASE ReadZero(c)
    BY <2>9, GotoType, EndStageType, PointsListed DEF ReadZero
  <2>10. CASE StartZero(c)
    BY <2>10, EndStageType DEF StartZero
  <2>11. CASE ClearZero(c)
    BY <2>11, GotoType, PointsListed DEF ClearZero
  <2>12. CASE Commit(c)
    BY <2>12, IdleType DEF Commit
  <2>13. CASE Abort(c)
    BY <2>13, IdleType DEF Abort, Ends, CheckRecord
  <2> QED
    BY <1>4, <2>1, <2>2, <2>3, <2>4, <2>5, <2>6, <2>7, <2>8, <2>9, <2>10,
       <2>11, <2>12, <2>13 DEF Step
<1>5. ASSUME NEW c \in Checks, Die(c) PROVE TypeOK'
  BY <1>5, IdleType DEF Die, Ends, CheckRecord
<1>6. CASE DatabaseStops
  <2>1. \A c \in Checks : [check[c] EXCEPT !.broken = TRUE] \in CheckRecord
    BY DEF CheckRecord
  <2>2. check' \in [Checks -> CheckRecord]
    BY <1>6, <2>1 DEF DatabaseStops
  <2> QED
    BY <1>6, <2>2 DEF DatabaseStops
<1>7. CASE WorkersStop
  BY <1>7, IdleType DEF WorkersStop, CheckRecord
<1>8. ASSUME NEW x \in Conditions, Stops(x) \/ Resumes(x) PROVE TypeOK'
  BY <1>8 DEF Stops, Resumes
<1>9. CASE Tick
  BY <1>9, Minus1Type, Minus1Nat DEF Tick
<1>10. CASE UNCHANGED vars
  BY <1>10 DEF vars
<1> QED
  BY <1>1, <1>2, <1>3, <1>4, <1>5, <1>6, <1>7, <1>8, <1>9, <1>10 DEF Next

---------------------------------------------------------------------------
(* The shape of a stage *)

\* Moving a check, or replacing its record, keeps the shape of the others.
LEMMA ShapedUpdate ==
  ASSUME check \in [Checks -> CheckRecord], StageShape, NEW c \in Checks,
         NEW r \in CheckRecord, Shaped(r), check' = [check EXCEPT ![c] = r]
  PROVE  StageShape'
BY DEF StageShape, Shaped, Well

LEMMA ShapedGoto ==
  ASSUME check \in [Checks -> CheckRecord], StageShape, NEW c \in Checks,
         NEW l \in Points, Goto(c, l), Shaped([check[c] EXCEPT !.pc = l])
  PROVE  StageShape'
<1> DEFINE r == [check[c] EXCEPT !.pc = l]
<1>1. r \in CheckRecord
  BY DEF CheckRecord
<1>2. check' = [check EXCEPT ![c] = r]
  BY DEF Goto
<1>3. Shaped(r)
  OBVIOUS
<1> HIDE DEF r
<1> QED
  BY <1>1, <1>2, <1>3, ShapedUpdate

LEMMA ShapedEndStage ==
  ASSUME check \in [Checks -> CheckRecord], StageShape, NEW c \in Checks,
         EndStage(c)
  PROVE  StageShape'
BY AfterStageFacts, ShapedUpdate DEF EndStage

LEMMA ShapedIdle == Shaped(Idle)
BY DEF Shaped, Idle

LEMMA NextShaped == TypeOK /\ StageShape /\ [Next]_vars => StageShape'
<1> SUFFICES ASSUME TypeOK, StageShape, [Next]_vars PROVE StageShape'
  OBVIOUS
<1>t. check \in [Checks -> CheckRecord]
  BY DEF TypeOK
<1>1. CASE UNCHANGED check
  BY <1>1 DEF StageShape, Shaped, Well
<1>2. ASSUME NEW c \in Checks, Start(c) PROVE StageShape'
  <2>1. Shaped([check[c] EXCEPT !.pc = "settings"])
    BY <1>2, <1>t DEF Start, Running, StageShape, Shaped, CheckRecord
  <2> QED
    BY <1>2, <1>t, <2>1, ShapedGoto, PointsListed DEF Start
<1>3. ASSUME NEW c \in Checks, Step(c) PROVE StageShape'
  <2> DEFINE r == check[c]
  <2>r. r \in CheckRecord /\ Shaped(r)
    BY <1>t DEF StageShape
  <2>g. ASSUME NEW l \in Points, Goto(c, l), Shaped([r EXCEPT !.pc = l])
        PROVE  StageShape'
    BY <2>g, <1>t, ShapedGoto
  <2>1. CASE LoadSettings(c)
    <3>1. CASE "url" \in up
      BY <2>1, <3>1, <2>g, <2>r, PointsListed
         DEF LoadSettings, Goto, Shaped, CheckRecord
    <3>2. CASE "url" \notin up
      BY <2>1, <3>2, <1>t, ShapedUpdate, ShapedIdle, IdleType
         DEF LoadSettings
    <3> QED
      BY <3>1, <3>2
  <2>2. CASE Snapshot(c)
    <3>1. ASSUME NEW x \in {"db", "redis", "beat", "workers"}, NEW w,
                 NEW h \in {"select1", "ping", "heartbeat", "inspect"},
                 NEW n \in {"ping", "heartbeat", "inspect", "read"},
                 Look(c, h, x, w, n)
          PROVE  StageShape'
      <4> DEFINE q == [r EXCEPT !.pc = n,
                                !.found = IF w THEN @ \cup {x} ELSE @]
      <4>1. q \in CheckRecord
        BY <2>r, PointsListed DEF CheckRecord
      <4>2. Shaped(q)
        BY <3>1, <2>r DEF Look, Shaped, CheckRecord
      <4>3. check' = [check EXCEPT ![c] = q]
        BY <3>1 DEF Look
      <4> HIDE DEF q
      <4> QED
        BY <4>1, <4>2, <4>3, <1>t, ShapedUpdate
    <3> QED
      BY <2>2, <3>1 DEF Snapshot
  <2>3. CASE ReadState(c)
    <3> DEFINE q(b, l) == [r EXCEPT !.prev = b, !.pc = l]
    <3>1. \E b \in BOOLEAN, l \in {"post", "set"} :
            check' = [check EXCEPT ![c] = q(b, l)]
      BY <2>3 DEF ReadState
    <3>2. \A b \in BOOLEAN, l \in {"post", "set"} :
            q(b, l) \in CheckRecord /\ Shaped(q(b, l))
      BY <2>r, PointsListed DEF CheckRecord, Shaped
    <3> HIDE DEF q
    <3> QED
      BY <3>1, <3>2, <1>t, ShapedUpdate
  <2>4. CASE WriteState(c)
    <3>1. ~Well(r) => Shaped([r EXCEPT !.pc = "dedupe"])
      BY <2>r DEF Shaped, Well, CheckRecord
    <3>2. Shaped([r EXCEPT !.pc = "post"])
      BY <2>r DEF Shaped, CheckRecord
    <3> QED
      BY <2>4, <3>1, <3>2, <1>t, <2>g, ShapedEndStage, PointsListed
         DEF WriteState
  <2>5. CASE ReadDedupe(c)
    <3>1. Shaped([r EXCEPT !.pc = "post"])
      BY <2>r DEF Shaped, CheckRecord
    <3> QED
      BY <2>5, <3>1, <1>t, <2>g, ShapedEndStage, PointsListed DEF ReadDedupe
  <2>6. CASE Post(c)
    <3>1. /\ Shaped([r EXCEPT !.pc = "record"])
          /\ ~Well(r) => Shaped([r EXCEPT !.pc = "mark"])
      BY <2>r DEF Shaped, Well, CheckRecord
    <3> QED
      BY <2>6, <3>1, <2>g, PointsListed DEF Post
  <2>7. CASE Mark(c)
    <3>1. Shaped([r EXCEPT !.pc = "record"])
      BY <2>r DEF Shaped, CheckRecord
    <3> QED
      BY <2>7, <3>1, <2>g, PointsListed DEF Mark
  <2>8. CASE Record(c)
    <3>2. [r EXCEPT !.pc = "set"] \in CheckRecord
          /\ Shaped([r EXCEPT !.pc = "set"])
      BY <2>r, PointsListed DEF CheckRecord, Shaped
    <3>3. AfterStage(r) \in CheckRecord /\ Shaped(AfterStage(r))
      BY <2>r, AfterStageFacts
    <3>4. \/ check' = [check EXCEPT ![c] = [r EXCEPT !.pc = "set"]]
          \/ check' = [check EXCEPT ![c] = AfterStage(r)]
      BY <2>8 DEF Record
    <3> QED
      BY <3>2, <3>3, <3>4, <1>t, ShapedUpdate
  <2>9. CASE ReadZero(c)
    <3>1. /\ r.pc = "readZero" => Shaped([r EXCEPT !.pc = "startZero"])
          /\ Shaped([r EXCEPT !.pc = "set"])
      BY <2>r DEF Shaped, Well, CheckRecord
    <3> QED
      BY <2>9, <3>1, <1>t, <2>g, ShapedEndStage, PointsListed DEF ReadZero
  <2>10. CASE StartZero(c)
    BY <2>10, <1>t, ShapedEndStage DEF StartZero
  <2>11. CASE ClearZero(c)
    <3>1. r.pc = "clearZero" => Shaped([r EXCEPT !.pc = "read"])
      BY <2>r DEF Shaped, Well, CheckRecord
    <3> QED
      BY <2>11, <3>1, <2>g, PointsListed DEF ClearZero
  <2>12. CASE Commit(c) \/ Abort(c)
    BY <2>12, <1>t, ShapedUpdate, ShapedIdle, IdleType DEF Commit, Abort
  <2> QED
    BY <1>3, <2>1, <2>2, <2>3, <2>4, <2>5, <2>6, <2>7, <2>8, <2>9, <2>10,
       <2>11, <2>12 DEF Step
<1>4. ASSUME NEW c \in Checks, Die(c) PROVE StageShape'
  BY <1>4, <1>t, ShapedUpdate, ShapedIdle, IdleType DEF Die
<1>5. CASE DatabaseStops
  <2>1. \A q \in CheckRecord :
          Shaped(q) => Shaped([q EXCEPT !.broken = TRUE])
    BY DEF Shaped, Well, CheckRecord
  <2>2. \A c \in Checks : \/ check'[c] = check[c]
                          \/ check'[c] = [check[c] EXCEPT !.broken = TRUE]
    BY <1>5 DEF DatabaseStops
  <2>3. \A c \in Checks : Shaped(check'[c])
    BY <1>t, <2>1, <2>2 DEF StageShape
  <2> QED
    BY <2>3 DEF StageShape, Shaped, Well
<1>6. CASE WorkersStop
  BY <1>6 DEF WorkersStop, StageShape, Shaped, Well, Idle
<1> QED
  BY <1>1, <1>2, <1>3, <1>4, <1>5, <1>6 DEF Next, Publish, RunHeartbeat,
     Stops, Resumes, Tick, vars
---------------------------------------------------------------------------
(* Where a step of a check leads *)

LEMMA GotoEffect ==
  ASSUME check \in [Checks -> CheckRecord], NEW c \in Checks, NEW l,
         Goto(c, l)
  PROVE  /\ \A d \in Checks \ {c} : check'[d] = check[d]
         /\ check'[c].pc = l
         /\ check'[c].stage = check[c].stage
         /\ check'[c].found = check[c].found
         /\ check'[c].prev = check[c].prev
BY DEF Goto, CheckRecord

LEMMA EndStageEffect ==
  ASSUME check \in [Checks -> CheckRecord], NEW c \in Checks, EndStage(c)
  PROVE  /\ \A d \in Checks \ {c} : check'[d] = check[d]
         /\ check'[c].pc \in {"read", "clearZero", "readZero", "commit"}
BY AfterStageFacts DEF EndStage

\* The processes other than c are not moved, and c reaches the points that the
\* invariants speak of only as follows.
Effect(c) ==
  LET r == check[c]
      q == check'[c]
  IN /\ \A d \in Checks \ {c} : check'[d] = check[d]
     /\ q.pc = "post" /\ ~Well(q) =>
          ReadDedupe(c) /\ q.stage = r.stage /\ dedupe[r.stage] = 0
     /\ q.pc = "mark" => Post(c) /\ q.stage = r.stage /\ ~Well(r)
     /\ q.pc = "set" /\ q.stage # "workers" =>
          ReadState(c) /\ q.stage = r.stage
          /\ (q.prev => state[r.stage] = "bad")
     /\ q.pc = "post" /\ Well(q) /\ q.stage # "workers" =>
          WriteState(c) /\ q.stage = r.stage /\ Well(r) /\ r.prev
     /\ q.stage = "workers" /\ ~Well(q) /\ q.pc \in {"set", "dedupe", "post"} =>
          \/ /\ r.stage = "workers" /\ ~Well(r)
             /\ WriteState(c) \/ ReadDedupe(c)
          \/ ReadZero(c) /\ zeroSince # 0 /\ zeroSince <= ZeroTicks
     /\ q.pc = "startZero" => ReadZero(c) /\ zeroSince = 0

LEMMA StepEffect ==
  ASSUME TypeOK, StageShape, NEW c \in Checks, Step(c)
  PROVE  Effect(c)
<1> DEFINE r == check[c]
           q == check'[c]
<1>t. /\ check \in [Checks -> CheckRecord]
      /\ r \in CheckRecord
      /\ Shaped(r)
      /\ zeroSince \in Nat /\ ZeroTicks \in Nat
  BY Durations DEF TypeOK, StageShape
<1>o. ASSUME \A d \in Checks \ {c} : check'[d] = check[d],
             q.pc \notin {"post", "mark", "set", "dedupe", "startZero"}
      PROVE  Effect(c)
  BY <1>o DEF Effect
<1>e. ASSUME EndStage(c) PROVE Effect(c)
  BY <1>e, <1>t, <1>o, EndStageEffect
<1>1. CASE LoadSettings(c)
  BY <1>1, <1>t, <1>o DEF LoadSettings, CheckRecord, Idle
<1>2. CASE Snapshot(c)
  BY <1>2, <1>t, <1>o DEF Snapshot, Look, CheckRecord
<1>3. CASE ReadState(c)
  <2>1. /\ \A d \in Checks \ {c} : check'[d] = check[d]
        /\ q.pc = IF r.stage = "workers" /\ state[r.stage] = "bad" /\ Recovery
                  THEN "post" ELSE "set"
        /\ q.stage = r.stage /\ q.found = r.found
        /\ q.prev = (state[r.stage] = "bad")
    BY <1>3, <1>t DEF ReadState, CheckRecord
  <2>2. r.stage = "workers" => Well(r)
    BY <1>3, <1>t DEF ReadState, Shaped
  <2> QED
    BY <1>3, <2>1, <2>2 DEF Effect, Well
<1>4. CASE WriteState(c)
  <2>1. CASE EndStage(c)
    BY <2>1, <1>e
  <2>2. CASE ~Well(r) /\ Goto(c, "dedupe")
    BY <1>4, <2>2, <1>t, GotoEffect DEF Effect, Well
  <2>3. CASE Well(r) /\ r.stage # "workers" /\ r.prev /\ Goto(c, "post")
    BY <1>4, <2>3, <1>t, GotoEffect DEF Effect, Well
  <2> QED
    BY <1>4, <2>1, <2>2, <2>3 DEF WriteState
<1>5. CASE ReadDedupe(c)
  <2>1. CASE EndStage(c)
    BY <2>1, <1>e
  <2>2. CASE dedupe[r.stage] = 0 /\ Goto(c, "post")
    <3>1. ~Well(r)
      BY <1>5, <1>t DEF ReadDedupe, Shaped
    <3> QED
      BY <1>5, <2>2, <3>1, <1>t, GotoEffect DEF Effect, Well
  <2>3. r.stage \in Stages /\ dedupe[r.stage] \in Nat
    BY <1>t, Durations DEF CheckRecord, TypeOK
  <2> QED
    BY <1>5, <2>1, <2>2, <2>3 DEF ReadDedupe
<1>6. CASE Post(c)
  <2>1. CASE Well(r) /\ Goto(c, "record")
    BY <2>1, <1>t, <1>o, GotoEffect
  <2>2. CASE ~Well(r) /\ Goto(c, "mark")
    BY <1>6, <2>2, <1>t, GotoEffect DEF Effect
  <2> QED
    BY <1>6, <2>1, <2>2 DEF Post
<1>7. CASE Mark(c)
  BY <1>7, <1>t, <1>o, GotoEffect DEF Mark
<1>8. CASE Record(c)
  <2>2. CASE r.stage = "workers" /\ Well(r)
    <3>1. q = [r EXCEPT !.pc = "set"]
          /\ \A d \in Checks \ {c} : check'[d] = check[d]
      BY <1>8, <2>2, <1>t DEF Record
    <3>2. q.pc = "set" /\ q.stage = "workers" /\ q.found = r.found
      BY <3>1, <1>t, <2>2 DEF CheckRecord
    <3> QED
      BY <2>2, <3>1, <3>2 DEF Effect, Well
  <2>3. CASE ~(r.stage = "workers" /\ Well(r))
    <3>1. q = AfterStage(r)
          /\ \A d \in Checks \ {c} : check'[d] = check[d]
      BY <1>8, <2>3, <1>t DEF Record
    <3> QED
      BY <3>1, <1>t, AfterStageFacts, <1>o
  <2> QED
    BY <2>2, <2>3
<1>9. CASE ReadZero(c)
  <2>1. CASE EndStage(c)
    BY <2>1, <1>e
  <2>2. CASE zeroSince = 0 /\ Goto(c, "startZero")
    BY <1>9, <2>2, <1>t, GotoEffect DEF Effect
  <2>3. CASE zeroSince # 0 /\ zeroSince <= ZeroTicks /\ Goto(c, "set")
    <3>1. r.stage = "workers"
      BY <1>9, <1>t DEF ReadZero, Shaped
    <3> QED
      BY <1>9, <2>3, <3>1, <1>t, GotoEffect DEF Effect
  <2> QED
    BY <1>9, <1>t, <2>1, <2>2, <2>3 DEF ReadZero
<1>10. CASE StartZero(c)
  BY <1>10, <1>e DEF StartZero
<1>11. CASE ClearZero(c)
  BY <1>11, <1>t, <1>o, GotoEffect DEF ClearZero
<1>12. CASE Commit(c) \/ Abort(c)
  BY <1>12, <1>t, <1>o, IdleType DEF Commit, Abort
<1> QED
  BY <1>1, <1>2, <1>3, <1>4, <1>5, <1>6, <1>7, <1>8, <1>9, <1>10, <1>11,
     <1>12 DEF Step
---------------------------------------------------------------------------
(* The dedupe key covers the time in which an alert must not be repeated *)

\* Killed or failed checks: who dies before the dedupe key is set is released.
LEMMA EndCovers ==
  ASSUME TypeOK, DedupeCovers, NEW c \in Checks,
         check' = [check EXCEPT ![c] = Idle], Ends(c), dedupe' = dedupe
  PROVE  DedupeCovers'
<1>1. /\ check'[c].pc = "idle"
      /\ \A d \in Checks \ {c} : check'[d] = check[d]
  BY IdleType DEF TypeOK
<1>2. CASE check[c].pc = "mark"
  <2> DEFINE s == check[c].stage
  <2>1. s \in Stages /\ quiet' = [quiet EXCEPT ![c][s] = 0]
    BY <1>2 DEF TypeOK, CheckRecord, Ends
  <2>2. /\ quiet'[c][s] = 0
        /\ \A z \in Stages \ {s} : quiet'[c][z] = quiet[c][z]
        /\ \A d \in Checks \ {c} : quiet'[d] = quiet[d]
    BY <2>1 DEF TypeOK
  <2>3. dedupe[s] \in Nat
    BY <2>1, Durations DEF TypeOK
  <2> HIDE DEF s
  <2> QED
    BY <1>1, <2>2, <2>3 DEF DedupeCovers, Well, s
<1>3. CASE check[c].pc # "mark"
  <2>1. quiet' = quiet
    BY <1>3 DEF Ends
  <2> QED
    BY <1>1, <1>3, <2>1 DEF DedupeCovers, Well
<1> QED
  BY <1>2, <1>3

LEMMA StepCovers ==
  ASSUME TypeOK, StageShape, DedupeCovers, NEW c \in Checks, Step(c)
  PROVE  DedupeCovers'
<1> DEFINE r == check[c]
           q == check'[c]
           s == check[c].stage
<1>t. /\ s \in Stages
      /\ \A d \in Checks, z \in Stages : quiet[d][z] \in 0..DedupeTicks
      /\ \A z \in Stages : dedupe[z] \in 0..DedupeTicks
      /\ DedupeTicks \in Nat
  BY Durations DEF TypeOK, CheckRecord
<1>e. Effect(c)
  BY StepEffect
<1>1. CASE Post(c)
  <2>1. CASE Well(r)
    <3>1. /\ quiet' = quiet /\ dedupe' = dedupe
          /\ r.pc = "post" /\ q.pc = "record"
          /\ \A d \in Checks \ {c} : check'[d] = check[d]
      BY <1>1, <2>1, GotoEffect DEF Post, redis, TypeOK
    <3> QED
      BY <3>1 DEF DedupeCovers, Well
  <2>2. CASE ~Well(r)
    <3>1. /\ quiet' = [quiet EXCEPT ![c][s] = DedupeTicks]
          /\ dedupe' = dedupe
          /\ r.pc = "post" /\ q.pc = "mark" /\ q.stage = s
          /\ \A d \in Checks \ {c} : check'[d] = check[d]
      BY <1>1, <2>2, GotoEffect DEF Post, redis, TypeOK
    <3>2. /\ \A z \in Stages \ {s} : quiet'[c][z] = quiet[c][z]
          /\ \A d \in Checks \ {c} : quiet'[d] = quiet[d]
      BY <3>1, <1>t DEF TypeOK
    <3> HIDE DEF s
    <3> QED
      BY <3>1, <3>2 DEF DedupeCovers, Well
  <2> QED
    BY <2>1, <2>2
<1>2. CASE Mark(c)
  <2>1. /\ quiet' = quiet
        /\ dedupe'[s] = DedupeTicks
        /\ \A z \in Stages \ {s} : dedupe'[z] = dedupe[z]
        /\ r.pc = "mark" /\ q.pc = "record"
        /\ \A d \in Checks \ {c} : check'[d] = check[d]
    BY <1>2, <1>t, GotoEffect DEF Mark, history, TypeOK
  <2> HIDE DEF s
  <2>2. \A d \in Checks, z \in Stages :
          quiet'[d][z] <= dedupe'[z]
          \/ (check'[d].pc = "mark" /\ check'[d].stage = z)
    BY <2>1, <1>t DEF DedupeCovers, s
  <2>3. \A d \in Checks : check'[d].pc = "post" /\ ~Well(check'[d])
                           => quiet'[d][check'[d].stage] = 0
    BY <2>1 DEF DedupeCovers, Well
  <2> QED
    BY <2>2, <2>3 DEF DedupeCovers, Well
<1>3. CASE Abort(c)
  BY <1>3, EndCovers DEF Abort, redis
<1>4. CASE ~Post(c) /\ ~Mark(c) /\ ~Abort(c)
  <2>1. /\ quiet' = quiet /\ dedupe' = dedupe
        /\ r.pc # "mark"
    BY <1>4 DEF Step, LoadSettings, Snapshot, Look, ReadState, WriteState,
       ReadDedupe, Record, ReadZero, StartZero, ClearZero, Commit, redis,
       history
  <2>2. \A d \in Checks \ {c} : check'[d] = check[d]
    BY <1>e DEF Effect
  <2>3. q.pc = "post" /\ ~Well(q) => quiet[c][q.stage] = 0
    BY <1>e, <1>t, <2>1 DEF Effect, DedupeCovers
  <2>4. q.pc # "mark"
    BY <1>e, <1>4 DEF Effect
  <2> QED
    BY <2>1, <2>2, <2>3, <2>4 DEF DedupeCovers, Well
<1> QED
  BY <1>1, <1>2, <1>3, <1>4

LEMMA NextCovers ==
  TypeOK /\ StageShape /\ DedupeCovers /\ [Next]_vars => DedupeCovers'
<1> SUFFICES ASSUME TypeOK, StageShape, DedupeCovers, [Next]_vars
             PROVE  DedupeCovers'
  OBVIOUS
<1>1. CASE UNCHANGED <<quiet, dedupe, check>>
  BY <1>1 DEF DedupeCovers, Well
<1>2. ASSUME NEW c \in Checks, Start(c) PROVE DedupeCovers'
  <2>1. /\ quiet' = quiet /\ dedupe' = dedupe
        /\ check[c].pc = "idle" /\ check'[c].pc = "settings"
        /\ \A d \in Checks \ {c} : check'[d] = check[d]
    BY <1>2, GotoEffect DEF Start, TypeOK, Running, redis, history
  <2> QED
    BY <2>1 DEF DedupeCovers, Well
<1>3. ASSUME NEW c \in Checks, Step(c) PROVE DedupeCovers'
  BY <1>3, StepCovers
<1>4. ASSUME NEW c \in Checks, Die(c) PROVE DedupeCovers'
  BY <1>4, EndCovers DEF Die, redis
<1>5. CASE DatabaseStops
  <2>1. /\ quiet' = quiet /\ dedupe' = dedupe
        /\ \A c \in Checks : /\ check'[c].pc = check[c].pc
                             /\ check'[c].stage = check[c].stage
                             /\ check'[c].found = check[c].found
    BY <1>5 DEF DatabaseStops, TypeOK, CheckRecord, redis, history
  <2> QED
    BY <2>1 DEF DedupeCovers, Well
<1>6. CASE WorkersStop
  <2>1. dedupe' = dedupe /\ \A c \in Checks : check'[c].pc = "idle"
    BY <1>6, IdleType DEF WorkersStop, redis
  <2>2. ASSUME NEW c \in Checks, NEW s \in Stages
        PROVE  quiet'[c][s] <= dedupe[s]
    <3>1. CASE check[c].pc = "mark"
      <4>1. /\ quiet'[c] = [quiet[c] EXCEPT ![check[c].stage] = 0]
            /\ check[c].stage \in Stages
        BY <1>6, <3>1 DEF WorkersStop, TypeOK, CheckRecord
      <4>2. quiet'[c][s] = IF s = check[c].stage THEN 0 ELSE quiet[c][s]
        BY <4>1 DEF TypeOK
      <4>3. dedupe[s] \in Nat
        BY Durations DEF TypeOK
      <4> QED
        BY <4>2, <4>3 DEF DedupeCovers
    <3>2. CASE check[c].pc # "mark"
      BY <1>6, <3>2 DEF WorkersStop, DedupeCovers
    <3> QED
      BY <3>1, <3>2
  <2> QED
    BY <2>1, <2>2 DEF DedupeCovers
<1>7. CASE Tick
  <2>1. /\ check' = check
        /\ \A s \in Stages : dedupe'[s] = Minus1(dedupe[s])
        /\ \A c \in Checks, s \in Stages :
             quiet'[c][s] = Minus1(quiet[c][s])
    BY <1>7 DEF Tick
  <2>2. \A c \in Checks, s \in Stages :
          quiet[c][s] \in Nat /\ dedupe[s] \in Nat
    BY Durations DEF TypeOK
  <2>3. \A c \in Checks, s \in Stages :
          quiet[c][s] <= dedupe[s] => quiet'[c][s] <= dedupe'[s]
    BY <2>1, <2>2, Minus1Monotone
  <2>4. \A c \in Checks : check[c].stage \in Stages
    BY DEF TypeOK, CheckRecord
  <2>5. \A c \in Checks, s \in Stages : quiet[c][s] = 0 => quiet'[c][s] = 0
    BY <2>1 DEF Minus1
  <2> QED
    BY <2>1, <2>3, <2>4, <2>5 DEF DedupeCovers, Well
<1> QED
  BY <1>1, <1>2, <1>3, <1>4, <1>5, <1>6, <1>7 DEF Next, Publish,
     RunHeartbeat, Stops, Resumes, vars, redis, history
---------------------------------------------------------------------------
(* One process: a bad state is owed a recovery *)

LEMMA StepOwes ==
  ASSUME TypeOK, StageShape, Alone, BadIsOwed, NEW c \in Checks, Step(c)
  PROVE  BadIsOwed'
<1> DEFINE r == check[c]
           q == check'[c]
           s == check[c].stage
<1>t. s \in Stages /\ state \in [Stages -> {"none", "bad", "ok"}]
  BY DEF TypeOK, CheckRecord
<1>e. Effect(c)
  BY StepEffect
<1>c. \A d \in Checks : d = c
  BY DEF Alone
<1>s. SUFFICES
        /\ \A z \in Stages \ {"workers"} : state'[z] = "bad" => z \in owed'
        /\ q.pc = "set" /\ q.prev /\ q.stage # "workers" => q.stage \in owed'
        /\ q.pc = "post" /\ Well(q) /\ q.stage # "workers"
             => q.stage \in owed' /\ state'[q.stage] # "bad"
  BY <1>c DEF BadIsOwed, Well
<1>1. CASE WriteState(c)
  <2>1. /\ state' = [state EXCEPT ![s] = IF Well(r) THEN "ok" ELSE "bad"]
        /\ owed' = IF Well(r) THEN owed ELSE owed \cup {s}
        /\ r.pc = "set"
    BY <1>1 DEF WriteState
  <2>2. \A z \in Stages \ {"workers"} : state'[z] = "bad" => z \in owed'
    BY <2>1, <1>t DEF BadIsOwed
  <2>3. q.pc = "post" /\ Well(q) /\ q.stage # "workers"
          => /\ q.stage = s /\ Well(r) /\ r.prev /\ s # "workers"
             /\ state'[s] = "ok" /\ s \in owed
    BY <1>e, <2>1, <1>t DEF Effect, BadIsOwed
  <2>4. ~(q.pc = "set" /\ q.stage # "workers")
    BY <1>e, <1>1 DEF Effect, WriteState, ReadState
  <2> HIDE DEF s
  <2> QED
    BY <2>1, <2>2, <2>3, <2>4
<1>2. CASE Post(c)
  <2>1. /\ state' = state
        /\ owed' = IF Well(r) THEN owed \ {s} ELSE owed
        /\ r.pc = "post"
    BY <1>2 DEF Post, redis
  <2>2. q.pc \in {"record", "mark"}
    BY <1>2, GotoEffect DEF Post, TypeOK
  <2>3. Well(r) /\ s # "workers" => state[s] # "bad"
    BY <2>1 DEF BadIsOwed
  <2> HIDE DEF s
  <2> QED
    BY <2>1, <2>2, <2>3 DEF BadIsOwed
<1>3. CASE ~WriteState(c) /\ ~Post(c)
  <2>1. owed' = owed /\ state' = state
    BY <1>3 DEF Step, LoadSettings, Snapshot, Look, ReadState, ReadDedupe,
       Mark, Record, ReadZero, StartZero, ClearZero, Commit, Abort, Ends,
       redis, history
  <2>2. q.pc = "set" /\ q.prev /\ q.stage # "workers"
          => q.stage = s /\ state[s] = "bad"
    BY <1>e DEF Effect
  <2>3. ~(q.pc = "post" /\ Well(q) /\ q.stage # "workers")
    BY <1>e, <1>3 DEF Effect
  <2> QED
    BY <2>1, <2>2, <2>3, <1>t DEF BadIsOwed
<1> QED
  BY <1>1, <1>2, <1>3

\* A step that moves checks only to idle, or nowhere, keeps what they owe.
LEMMA RestOwes ==
  ASSUME BadIsOwed, UNCHANGED <<state, owed>>,
         \A c \in Checks :
           \/ check'[c].pc \in {"idle", "settings"}
           \/ /\ check'[c].pc = check[c].pc
              /\ check'[c].stage = check[c].stage
              /\ check'[c].found = check[c].found
              /\ check'[c].prev = check[c].prev
  PROVE  BadIsOwed'
BY DEF BadIsOwed, Alone, Well

---------------------------------------------------------------------------
(* One process: the time without workers *)

LEMMA StepYounger ==
  ASSUME TypeOK, StageShape, Alone, ZeroIsYounger, NEW c \in Checks, Step(c)
  PROVE  ZeroIsYounger'
<1> DEFINE r == check[c]
           q == check'[c]
           Silent(x) == x.stage = "workers" /\ ~Well(x)
                        /\ x.pc \in {"set", "dedupe", "post"}
<1>t. /\ zeroSince \in Nat /\ lastSeen \in Nat /\ ZeroTicks \in Nat \ {0}
      /\ lastSeen <= ZeroTicks
  BY Durations DEF TypeOK
<1>e. Effect(c)
  BY StepEffect
<1>c. \A d \in Checks : d = c
  BY DEF Alone
<1>s. SUFFICES /\ zeroSince' > 0 =>
                    lastSeen' = 0 \/ lastSeen' + ZeroTicks <= zeroSince'
               /\ Silent(q) => lastSeen' = 0
               /\ q.pc = "startZero" => zeroSince' = 0
  BY <1>c DEF ZeroIsYounger, Well
<1>1. CASE ClearZero(c)
  <2>1. zeroSince' = 0 /\ q.pc = "read"
    BY <1>1, GotoEffect DEF ClearZero, TypeOK
  <2> QED
    BY <2>1
<1>2. CASE StartZero(c)
  <2>1. /\ zeroSince' = 2 * ZeroTicks /\ lastSeen' = lastSeen
        /\ q.pc \in {"read", "clearZero", "readZero", "commit"}
    BY <1>2, EndStageEffect DEF StartZero, history, TypeOK
  <2> QED
    BY <2>1, <1>t
<1>3. CASE ~ClearZero(c) /\ ~StartZero(c)
  <2>1. zeroSince' = zeroSince /\ lastSeen' = lastSeen
    BY <1>3 DEF Step, LoadSettings, Snapshot, Look, ReadState, WriteState,
       ReadDedupe, Post, Mark, Record, ReadZero, Commit, Abort, Ends, redis,
       history
  <2>2. zeroSince # 0 /\ zeroSince <= ZeroTicks => lastSeen = 0
    BY <1>t DEF ZeroIsYounger
  <2>3. CASE Silent(q)
    <3>1. CASE ReadZero(c) /\ zeroSince # 0 /\ zeroSince <= ZeroTicks
      BY <3>1, <2>1, <2>2, <2>3 DEF ZeroIsYounger
    <3>2. CASE Silent(r)
      BY <3>2, <2>1, <2>3 DEF ZeroIsYounger
    <3>3. Silent(r) \/ (ReadZero(c) /\ zeroSince # 0 /\ zeroSince <= ZeroTicks)
      BY <2>3, <1>e DEF Effect, WriteState, ReadDedupe
    <3> QED
      BY <3>1, <3>2, <3>3
  <2>4. CASE ~Silent(q)
    BY <2>1, <2>4, <1>e DEF Effect, ZeroIsYounger
  <2> QED
    BY <2>3, <2>4
<1> QED
  BY <1>1, <1>2, <1>3

LEMMA RestYounger ==
  ASSUME ZeroIsYounger, UNCHANGED <<zeroSince, lastSeen>>,
         \A c \in Checks :
           \/ check'[c].pc \in {"idle", "settings"}
           \/ /\ check'[c].pc = check[c].pc
              /\ check'[c].stage = check[c].stage
              /\ check'[c].found = check[c].found
  PROVE  ZeroIsYounger'
BY DEF ZeroIsYounger, Alone, Well

LEMMA TickYounger == TypeOK /\ ZeroIsYounger /\ Tick => ZeroIsYounger'
<1> SUFFICES ASSUME TypeOK, ZeroIsYounger, Tick, Alone PROVE ZeroIsYounger'
  BY DEF ZeroIsYounger, Alone
<1>1. /\ zeroSince \in Nat /\ lastSeen \in Nat /\ ZeroTicks \in Nat
      /\ zeroSince' = Minus1(zeroSince) /\ lastSeen' = Minus1(lastSeen)
      /\ check' = check
  BY Durations DEF TypeOK, Tick
<1>2. zeroSince' > 0 => lastSeen' = 0 \/ lastSeen' + ZeroTicks <= zeroSince'
  BY <1>1 DEF ZeroIsYounger, Minus1
<1>3. /\ lastSeen = 0 => lastSeen' = 0
      /\ zeroSince = 0 => zeroSince' = 0
  BY <1>1 DEF Minus1
<1> QED
  BY <1>1, <1>2, <1>3 DEF ZeroIsYounger, Well

---------------------------------------------------------------------------
(* One process that is not disturbed: what is owed is kept *)

LEMMA StepKeeps ==
  ASSUME TypeOK, StageShape, Undisturbed, OwedIsKept, NEW c \in Checks, Step(c)
  PROVE  OwedIsKept'
<1> DEFINE r == check[c]
           q == check'[c]
           s == check[c].stage
           Remembers == \A z \in Stages : told'[z] = "alert" => z \in owed'
           Awaits == \A z \in owed' :
             \/ state'[z] = "bad"
             \/ z # "workers" /\ q.pc = "post" /\ q.stage = z /\ Well(q)
           SetPoint == /\ q.pc = "set" /\ q.stage # "workers"
                            => (q.prev <=> (state'[q.stage] = "bad"))
                       /\ q.pc \in {"set", "record"} /\ q.stage = "workers" /\ Well(q)
                            => "workers" \notin owed'
           AlertPoint == q.pc \in {"dedupe", "post"} /\ ~Well(q) => q.stage \in owed'
<1>t. /\ s \in Stages /\ state \in [Stages -> {"none", "bad", "ok"}]
      /\ told \in [Stages -> {"nothing", "alert", "recovery"}] /\ owed \subseteq Stages
      /\ check \in [Checks -> CheckRecord] /\ r \in CheckRecord /\ Shaped(r)
  BY DEF TypeOK, CheckRecord, StageShape
<1>c. \A d \in Checks : d = c
  BY DEF Undisturbed, Alone
<1>r. Recovery /\ "webhook" \in up
  BY DEF Undisturbed, OwedIsKept
<1>k. /\ \A z \in Stages : told[z] = "alert" => z \in owed
      /\ \A z \in owed : \/ state[z] = "bad"
                         \/ z # "workers" /\ r.pc = "post" /\ s = z /\ Well(r)
      /\ r.pc = "set" /\ s # "workers" => (r.prev <=> (state[s] = "bad"))
      /\ r.pc \in {"set", "record"} /\ s = "workers" /\ Well(r) => "workers" \notin owed
      /\ r.pc \in {"dedupe", "post"} /\ ~Well(r) => s \in owed
  BY <1>c DEF OwedIsKept, Recovering
<1>u. up' = up
  BY DEF Step, LoadSettings, Snapshot, Look, ReadState, WriteState, ReadDedupe, Post, Mark,
         Record, ReadZero, StartZero, ClearZero, Commit, Abort
<1>s. SUFFICES Remembers /\ Awaits /\ SetPoint /\ AlertPoint
  BY <1>c, <1>r, <1>u DEF OwedIsKept, Recovering, Well
<1>w. q.found = r.found /\ q.stage = s => (Well(q) <=> Well(r))
  BY DEF Well
<1>o. ASSUME r.pc # "post", UNCHANGED <<told, state, owed>>,
             q.pc \notin {"set", "record", "dedupe", "post"}
      PROVE  Remembers /\ Awaits /\ SetPoint /\ AlertPoint
  BY <1>k, <1>o
<1>e. ASSUME EndStage(c) PROVE q.pc \in {"read", "clearZero", "readZero", "commit"}
  BY <1>e, <1>t, EndStageEffect
<1>g. ASSUME NEW l, Goto(c, l)
      PROVE  q.pc = l /\ q.stage = s /\ q.prev = r.prev /\ (Well(q) <=> Well(r))
  BY <1>g, <1>t, <1>w, GotoEffect
<1>1. CASE LoadSettings(c)
  BY <1>1, <1>o, <1>t DEF LoadSettings, Idle, CheckRecord, redis, history
<1>2. CASE Snapshot(c)
  <2>1. r.pc # "post" /\ q.pc \in {"ping", "heartbeat", "inspect", "read"}
    BY <1>2, <1>t DEF Snapshot, Look, CheckRecord
  <2>2. UNCHANGED <<told, state, owed>>
    BY <1>2 DEF Snapshot, Look, redis, history
  <2> QED
    BY <2>1, <2>2, <1>o
<1>3. CASE ReadState(c)
  <2>1. /\ r.pc = "read" /\ UNCHANGED <<told, state, owed>>
        /\ q.pc = IF s = "workers" /\ state[s] = "bad" THEN "post" ELSE "set"
        /\ q.stage = s /\ q.found = r.found
        /\ q.prev = (state[s] = "bad")
    BY <1>3, <1>t, <1>r DEF ReadState, CheckRecord, redis, history
  <2>2. s = "workers" => Well(r)
    BY <2>1, <1>t DEF Shaped
  <2>3. Remembers /\ Awaits
    BY <2>1, <1>k
  <2>4. SetPoint
    BY <2>1, <1>k
  <2>5. AlertPoint
    BY <2>1, <2>2, <1>w
  <2> QED
    BY <2>3, <2>4, <2>5
<1>4. CASE WriteState(c)
  <2>1. /\ r.pc = "set" /\ told' = told
        /\ state' = [state EXCEPT ![s] = IF Well(r) THEN "ok" ELSE "bad"]
        /\ owed' = IF Well(r) THEN owed ELSE owed \cup {s}
    BY <1>4 DEF WriteState
  <2>2. \A z \in owed : state[z] = "bad"
    BY <2>1, <1>k
  <2>3. Remembers
    BY <2>1, <1>k
  <2>4. CASE ~Well(r)
    <3>1. q.pc = "dedupe" /\ q.stage = s
      BY <1>4, <2>4, <1>g DEF WriteState
    <3>2. Awaits
      BY <2>1, <2>2, <2>4, <1>t
    <3> QED
      BY <3>1, <3>2, <2>1, <2>3, <2>4
  <2>5. CASE Well(r) /\ s # "workers" /\ r.prev
    <3>1. q.pc = "post" /\ q.stage = s /\ Well(q)
      BY <1>4, <2>5, <1>g, <1>r DEF WriteState
    <3>2. Awaits
      BY <2>1, <2>2, <2>5, <3>1, <1>t
    <3> QED
      BY <3>1, <3>2, <2>3
  <2>6. CASE Well(r) /\ ~(s # "workers" /\ r.prev)
    <3>1. q.pc \in {"read", "clearZero", "readZero", "commit"}
      BY <1>4, <2>6, <1>e DEF WriteState
    <3>2. s \notin owed
      BY <2>1, <2>2, <2>6, <1>k
    <3>3. Awaits
      BY <2>1, <2>2, <2>6, <3>2, <1>t
    <3> QED
      BY <3>1, <3>3, <2>3
  <2> QED
    BY <2>4, <2>5, <2>6
<1>5. CASE ReadDedupe(c)
  <2>1. r.pc = "dedupe" /\ ~Well(r) /\ UNCHANGED <<told, state, owed>>
    BY <1>5, <1>t DEF ReadDedupe, Shaped, redis, history
  <2>2. CASE EndStage(c)
    BY <2>1, <2>2, <1>e, <1>o
  <2>3. CASE Goto(c, "post")
    <3>1. q.pc = "post" /\ q.stage = s
      BY <2>3, <1>g
    <3> QED
      BY <2>1, <3>1, <1>k
  <2> QED
    BY <1>5, <2>2, <2>3 DEF ReadDedupe
<1>6. CASE Post(c)
  <2>1. /\ r.pc = "post" /\ state' = state
        /\ told' = [told EXCEPT ![s] = IF Well(r) THEN "recovery" ELSE "alert"]
    BY <1>6, <1>r DEF Post, redis, Event
  <2>2. CASE Well(r)
    <3>1. owed' = owed \ {s} /\ q.pc = "record" /\ q.stage = s
      BY <1>6, <2>2, <1>g DEF Post
    <3>2. Remembers /\ Awaits
      BY <2>1, <2>2, <3>1, <1>k, <1>t
    <3> QED
      BY <3>1, <3>2
  <2>3. CASE ~Well(r)
    <3>1. owed' = owed /\ q.pc = "mark"
      BY <1>6, <2>3, <1>g DEF Post
    <3>2. Remembers /\ Awaits
      BY <2>1, <2>3, <3>1, <1>k, <1>t
    <3> QED
      BY <3>1, <3>2
  <2> QED
    BY <2>2, <2>3
<1>7. CASE Mark(c)
  <2>1. r.pc = "mark" /\ ~Well(r) /\ UNCHANGED <<told, state, owed>>
    BY <1>7, <1>t DEF Mark, Shaped, history
  <2>2. q.pc = "record" /\ (Well(q) <=> Well(r))
    BY <1>7, <1>g DEF Mark
  <2> QED
    BY <2>1, <2>2, <1>k
<1>8. CASE Record(c)
  <2>1. r.pc = "record" /\ UNCHANGED <<told, state, owed>>
    BY <1>8 DEF Record, redis, history
  <2>2. CASE s = "workers" /\ Well(r)
    <3>1. q.pc = "set" /\ q.stage = s
      BY <1>8, <2>2, <1>t DEF Record, CheckRecord
    <3> QED
      BY <2>1, <2>2, <3>1, <1>k
  <2>3. CASE ~(s = "workers" /\ Well(r))
    <3>1. q = AfterStage(r)
      BY <1>8, <2>3, <1>t DEF Record
    <3>2. q.pc \in {"read", "clearZero", "readZero", "commit"}
      BY <3>1, <1>t, AfterStageFacts
    <3> QED
      BY <2>1, <3>2, <1>o
  <2> QED
    BY <2>2, <2>3
<1>9. CASE ReadZero(c)
  <2>1. /\ r.pc = "readZero" /\ s = "workers" /\ ~Well(r)
        /\ UNCHANGED <<told, state, owed>>
    BY <1>9, <1>t DEF ReadZero, Shaped, redis, history
  <2>2. CASE EndStage(c)
    BY <2>1, <2>2, <1>e, <1>o
  <2>3. CASE Goto(c, "startZero")
    <3>1. q.pc = "startZero"
      BY <2>3, <1>g
    <3> QED
      BY <2>1, <3>1, <1>o
  <2>4. CASE Goto(c, "set")
    <3>1. q.pc = "set" /\ q.stage = s /\ ~Well(q)
      BY <2>1, <2>4, <1>g
    <3> QED
      BY <2>1, <3>1, <1>k
  <2> QED
    BY <1>9, <2>2, <2>3, <2>4 DEF ReadZero
<1>10. CASE StartZero(c)
  <2>1. r.pc = "startZero" /\ EndStage(c) /\ UNCHANGED <<told, state, owed>>
    BY <1>10 DEF StartZero, history
  <2> QED
    BY <2>1, <1>e, <1>o
<1>11. CASE ClearZero(c)
  <2>1. r.pc = "clearZero" /\ Goto(c, "read") /\ UNCHANGED <<told, state, owed>>
    BY <1>11 DEF ClearZero
  <2>2. q.pc = "read"
    BY <2>1, <1>g
  <2> QED
    BY <2>1, <2>2, <1>o
<1>12. CASE Commit(c) \/ Abort(c)
  <2>1. r.pc # "post" /\ q = Idle /\ UNCHANGED <<told, state, owed>>
    BY <1>12, <1>t DEF Commit, Abort, Ends, RedisPoints, DatabasePoints, redis, history
  <2> QED
    BY <2>1, <1>o, IdleType
<1> QED
  BY <1>1, <1>2, <1>3, <1>4, <1>5, <1>6, <1>7, <1>8, <1>9, <1>10, <1>11, <1>12 DEF Step

\* Where no check takes a step of its own, checks only start or stay.
LEMMA RestKeeps ==
  ASSUME OwedIsKept, Undisturbed, UNCHANGED <<state, told, owed>>, "webhook" \in up',
         \A c \in Checks :
           \/ check[c].pc = "idle" /\ check'[c].pc = "settings"
           \/ /\ check'[c].pc = check[c].pc
              /\ check'[c].stage = check[c].stage
              /\ check'[c].found = check[c].found
              /\ check'[c].prev = check[c].prev
  PROVE  OwedIsKept'
<1>1. /\ \A s \in Stages : told[s] = "alert" => s \in owed
      /\ \A s \in owed : state[s] = "bad" \/ (s # "workers" /\ Recovering(s))
      /\ \A c \in Checks :
           /\ check[c].pc = "set" /\ check[c].stage # "workers"
                => (check[c].prev <=> (state[check[c].stage] = "bad"))
           /\ check[c].pc \in {"set", "record"} /\ check[c].stage = "workers"
              /\ Well(check[c]) => "workers" \notin owed
           /\ check[c].pc \in {"dedupe", "post"} /\ ~Well(check[c])
                => check[c].stage \in owed
  BY DEF OwedIsKept
<1>2. \A s \in owed' : state'[s] = "bad" \/ (s # "workers" /\ Recovering(s)')
  BY <1>1 DEF Recovering, Well
<1>3. \A c \in Checks :
        /\ check'[c].pc = "set" /\ check'[c].stage # "workers"
             => (check'[c].prev <=> (state'[check'[c].stage] = "bad"))
        /\ check'[c].pc \in {"set", "record"} /\ check'[c].stage = "workers"
           /\ Well(check'[c]) => "workers" \notin owed'
        /\ check'[c].pc \in {"dedupe", "post"} /\ ~Well(check'[c])
             => check'[c].stage \in owed'
  BY <1>1 DEF Well
<1> QED
  BY <1>1, <1>2, <1>3 DEF OwedIsKept

LEMMA InitKeeps == Init => OwedIsKept
<1> SUFFICES ASSUME Init PROVE OwedIsKept
  OBVIOUS
<1>1. \A c \in Checks : check[c].pc = "idle"
  BY IdleType DEF Init
<1> QED
  BY <1>1 DEF Init, OwedIsKept, Conditions

LEMMA NextKeeps == IInv /\ OwedIsKept /\ [Next]_vars => OwedIsKept'
<1> SUFFICES ASSUME IInv, OwedIsKept, [Next]_vars, Undisturbed PROVE OwedIsKept'
  BY DEF OwedIsKept, Undisturbed, Alone
<1>t. TypeOK /\ StageShape /\ check \in [Checks -> CheckRecord] /\ "webhook" \in up
  BY DEF IInv, TypeOK, OwedIsKept
<1>f. "child" \notin Failing /\ "workers" \notin Failing /\ "webhook" \notin Failing
  BY DEF Undisturbed
<1> DEFINE Stays(c) == /\ check'[c].pc = check[c].pc
                       /\ check'[c].stage = check[c].stage
                       /\ check'[c].found = check[c].found
                       /\ check'[c].prev = check[c].prev
<1>1. ASSUME NEW c \in Checks, Step(c) PROVE OwedIsKept'
  BY <1>1, <1>t, StepKeeps
<1>2. ASSUME NEW c \in Checks, Start(c) PROVE OwedIsKept'
  <2>1. check[c].pc = "idle" /\ check'[c].pc = "settings"
    BY <1>2, <1>t, GotoEffect DEF Start, Running
  <2>2. \A d \in Checks : d # c => Stays(d)
    BY <1>2, <1>t, GotoEffect DEF Start
  <2>3. UNCHANGED <<state, told, owed>> /\ "webhook" \in up'
    BY <1>2, <1>t DEF Start, redis, history
  <2> QED
    BY <2>1, <2>2, <2>3, RestKeeps
<1>3. CASE DatabaseStops
  <2>1. \A d \in Checks : Stays(d)
    BY <1>3, <1>t DEF DatabaseStops, CheckRecord
  <2>2. UNCHANGED <<state, told, owed>> /\ "webhook" \in up'
    BY <1>3, <1>t DEF DatabaseStops, redis, history
  <2> QED
    BY <2>1, <2>2, RestKeeps
<1>4. CASE UNCHANGED <<check, state, told, owed>> /\ "webhook" \in up'
  BY <1>4, RestKeeps
<1>5. ASSUME NEW x \in Conditions, Stops(x) \/ Resumes(x)
      PROVE  UNCHANGED <<check, state, told, owed>> /\ "webhook" \in up'
  BY <1>5, <1>t, <1>f DEF Stops, Resumes, redis, history
<1>6. CASE RunHeartbeat
  BY <1>6, <1>4, <1>t DEF RunHeartbeat, history
<1> QED
  BY <1>1, <1>2, <1>3, <1>4, <1>5, <1>6, <1>t, <1>f
     DEF Next, Die, WorkersStop, Publish, Tick, vars, redis, history

---------------------------------------------------------------------------
(* Where an alert or a recovery is POSTed *)

LEMMA PostStep ==
  ASSUME TypeOK, StageShape, [Next]_vars, NEW c \in Checks,
         check[c].pc = "post", check'[c].pc \in {"mark", "record"}
  PROVE  Post(c)
<1>1. check' # check /\ ~(\E d \in Checks : Start(d) \/ Die(d) \/ WorkersStop)
  <2>1. \A d \in Checks : Start(d) /\ check'[c] # check[c] => c = d
    BY GotoEffect DEF Start, TypeOK
  <2>2. \A d \in Checks : Start(d) => check[d].pc = "idle"
    BY DEF Start, Running
  <2>3. \A d \in Checks : Die(d) => check'[c].pc \in {"idle", check[c].pc}
    BY IdleType DEF Die, TypeOK
  <2>4. WorkersStop => check'[c].pc = "idle"
    BY IdleType DEF WorkersStop
  <2> QED
    BY <2>1, <2>2, <2>3, <2>4
<1>2. ~DatabaseStops
  <2>1. DatabaseStops => check'[c].pc = check[c].pc
    BY DEF DatabaseStops, TypeOK, CheckRecord
  <2> QED
    BY <2>1
<1>3. PICK d \in Checks : Step(d)
  BY <1>1, <1>2 DEF Next, Publish, RunHeartbeat, Stops, Resumes, Tick, vars
<1>4. d = c
  BY <1>3, StepEffect DEF Effect
<1> QED
  BY <1>3, <1>4 DEF Step, LoadSettings, Snapshot, Look, ReadState, WriteState,
     ReadDedupe, Mark, Record, ReadZero, StartZero, ClearZero, Commit, Abort,
     RedisPoints, DatabasePoints

LEMMA PostedAlert ==
  ASSUME TypeOK, StageShape, [Next]_vars, NEW c \in Checks, PostsAlert(c)
  PROVE  check[c].pc = "post" /\ ~Well(check[c])
<1>1. Post(c)
  BY PostStep DEF PostsAlert
<1> QED
  BY <1>1, GotoEffect DEF Post, PostsAlert, TypeOK

LEMMA PostedRecovery ==
  ASSUME TypeOK, StageShape, [Next]_vars, NEW c \in Checks, PostsRecovery(c)
  PROVE  check[c].pc = "post" /\ Well(check[c])
<1>1. Post(c)
  BY PostStep DEF PostsRecovery
<1> QED
  BY <1>1, GotoEffect DEF Post, PostsRecovery, TypeOK

---------------------------------------------------------------------------
(* The inductive invariant *)

LEMMA InitIInv == Init => IInv
<1> SUFFICES ASSUME Init PROVE IInv
  OBVIOUS
<1>1. TypeOK
  BY InitTyped
<1>2. StageShape
  BY ShapedIdle DEF Init, StageShape
<1>3. \A c \in Checks : check[c].pc = "idle"
  BY IdleType DEF Init
<1>4. DedupeCovers
  BY <1>3 DEF Init, DedupeCovers
<1>5. BadIsOwed
  BY <1>3 DEF Init, BadIsOwed
<1>6. ZeroIsYounger
  BY <1>3 DEF Init, ZeroIsYounger
<1> QED
  BY <1>1, <1>2, <1>4, <1>5, <1>6 DEF IInv

LEMMA NextIInv == IInv /\ [Next]_vars => IInv'
<1> SUFFICES ASSUME IInv, [Next]_vars PROVE IInv'
  OBVIOUS
<1> USE DEF IInv
<1>1. TypeOK' /\ StageShape' /\ DedupeCovers'
  BY NextTyped, NextShaped, NextCovers
<1> DEFINE Rests == \A c \in Checks :
             \/ check'[c].pc \in {"idle", "settings"}
             \/ /\ check'[c].pc = check[c].pc
                /\ check'[c].stage = check[c].stage
                /\ check'[c].found = check[c].found
                /\ check'[c].prev = check[c].prev
<1>2. BadIsOwed' /\ ZeroIsYounger'
  <2>1. ASSUME NEW c \in Checks, Step(c)
        PROVE  BadIsOwed' /\ ZeroIsYounger'
    <3>1. CASE Alone
      BY <3>1, <2>1, StepOwes, StepYounger
    <3>2. CASE ~Alone
      BY <3>2 DEF BadIsOwed, ZeroIsYounger, Alone
    <3> QED
      BY <3>1, <3>2
  <2>2. CASE Tick
    <3>1. Rests /\ UNCHANGED <<state, owed>>
      BY <2>2 DEF Tick
    <3> QED
      BY <2>2, <3>1, RestOwes, TickYounger
  <2>3. ASSUME NEW c \in Checks, Start(c) \/ Die(c)
        PROVE  Rests /\ UNCHANGED <<state, owed, zeroSince, lastSeen>>
    <3>1. CASE Start(c)
      BY <3>1, GotoEffect DEF Start, TypeOK, redis, history
    <3>2. CASE Die(c)
      BY <3>2, IdleType DEF Die, Ends, TypeOK, redis
    <3> QED
      BY <2>3, <3>1, <3>2
  <2>4. CASE DatabaseStops
    <3>1. Rests
      BY <2>4 DEF DatabaseStops, TypeOK, CheckRecord
    <3> QED
      BY <2>4, <3>1, RestOwes, RestYounger DEF DatabaseStops, redis, history
  <2>5. CASE WorkersStop
    <3>1. Rests
      BY <2>5, IdleType DEF WorkersStop
    <3> QED
      BY <2>5, <3>1, RestOwes, RestYounger DEF WorkersStop, redis
  <2>6. CASE /\ UNCHANGED <<state, owed, zeroSince, lastSeen, check>>
    <3>1. Rests
      BY <2>6
    <3> QED
      BY <2>6, <3>1, RestOwes, RestYounger
  <2> QED
    BY <2>1, <2>2, <2>3, <2>4, <2>5, <2>6, RestOwes, RestYounger
       DEF Next, Publish, RunHeartbeat, Stops, Resumes, vars, redis, history
<1> QED
  BY <1>1, <1>2

---------------------------------------------------------------------------
(* The theorems *)

\* The inductive invariant holds in every reachable state, for any number of
\* worker processes, any failures and all durations.
THEOREM AlertMonitorInvariant == Spec => []IInv
BY InitIInv, NextIInv, PTL DEF Spec

\* The variables keep their types.
THEOREM AlertMonitorType == Spec => []TypeOK
<1>1. IInv => TypeOK
  BY DEF IInv
<1> QED
  BY <1>1, AlertMonitorInvariant, PTL

\* No worker process POSTs an alert twice within alert_dedupe_seconds.
THEOREM Spacing == Spec => AlertsSpaced
<1> DEFINE A == \A c \in Checks :
                  PostsAlert(c) => quiet[c][check[c].stage] = 0
<1>1. IInv /\ [Next]_vars => [A]_vars
  <2> SUFFICES ASSUME IInv, [Next]_vars, NEW c \in Checks, PostsAlert(c)
               PROVE  quiet[c][check[c].stage] = 0
    OBVIOUS
  <2> QED
    BY PostedAlert DEF IInv, DedupeCovers, PostsAlert
<1> QED
  BY <1>1, AlertMonitorInvariant, PTL DEF Spec, AlertsSpaced

\* With one process, a recovery of readiness or Beat answers a failure.
THEOREM Recoveries == Spec => RecoveryAnswersFailure
<1> DEFINE A == \A c \in Checks :
                  Alone /\ PostsRecovery(c) /\ check[c].stage # "workers"
                    => check[c].stage \in owed
<1>1. IInv /\ [Next]_vars => [A]_vars
  <2> SUFFICES ASSUME IInv, [Next]_vars, NEW c \in Checks, Alone,
                      PostsRecovery(c), check[c].stage # "workers"
               PROVE  check[c].stage \in owed
    OBVIOUS
  <2> QED
    BY PostedRecovery DEF IInv, BadIsOwed, PostsRecovery
<1> QED
  BY <1>1, AlertMonitorInvariant, PTL DEF Spec, RecoveryAnswersFailure

\* With one process, workers_missing is POSTed only after the configured
\* duration without workers.
THEOREM ZeroDuration == Spec => ZeroLasted
<1> DEFINE A == \A c \in Checks :
                  Alone /\ PostsAlert(c) /\ check[c].stage = "workers"
                    => lastSeen = 0
<1>1. IInv /\ [Next]_vars => [A]_vars
  <2> SUFFICES ASSUME IInv, [Next]_vars, NEW c \in Checks, Alone,
                      PostsAlert(c), check[c].stage = "workers"
               PROVE  lastSeen = 0
    OBVIOUS
  <2> QED
    BY PostedAlert DEF IInv, ZeroIsYounger, PostsAlert
<1> QED
  BY <1>1, AlertMonitorInvariant, PTL DEF Spec, ZeroLasted

\* With one process that nothing takes away from its checks, everything that
\* has been alerted is owed a recovery, and what is owed is in the state in
\* Redis or about to be POSTed.
THEOREM OwedKept == Spec => [](IInv /\ OwedIsKept)
BY InitIInv, NextIInv, InitKeeps, NextKeeps, PTL DEF Spec

\* Such a process never forgets an alert: "bad" stays in Redis until the
\* recovery is POSTed, whichever server stops before whichever step.
THEOREM NothingForgotten == Spec => []AlertRemembered
<1>1. IInv /\ OwedIsKept => AlertRemembered
  BY DEF OwedIsKept, AlertRemembered
<1> QED
  BY <1>1, OwedKept, PTL
===========================================================================
