--------------------------- MODULE AlertMonitor ---------------------------
(***************************************************************************)
(* The health alerts: Celery Beat puts heartbeat and check tasks into the  *)
(* broker, which is the same Redis that keeps the monitor's keys; worker   *)
(* processes run them; a check looks at the database, Redis, the heartbeat *)
(* and the workers, and POSTs what is wrong, or is right again, to the     *)
(* webhook.  A check goes through up to three stages, each of which reads  *)
(* and writes its keys one await at a time, so that checks of two worker   *)
(* processes interleave and every dependency may fail in between.          *)
(*                                                                         *)
(* Time is a countdown in every key that expires; Tick lowers them all.    *)
(***************************************************************************)
EXTENDS Integers

CONSTANTS
  Checks,             \* the worker processes that can run a check
  Failing,            \* the conditions that may fail in a behaviour
  CheckInterval,      \* alert_check_interval_seconds
  HeartbeatInterval,  \* celery_beat_heartbeat_interval_seconds
  DedupeTicks,        \* alert_dedupe_seconds
  ZeroTicks,          \* alert_worker_zero_duration_seconds
  WorkerZeroEnabled,  \* alert_worker_zero_enabled
  Recovery,           \* recovery_notifications_enabled
  Prompt,             \* time passes only when nothing is left to do
  QueueBound          \* bound on the messages of one kind in the broker

\* What a behaviour needs to go well: the servers and processes, replies to
\* Celery's inspect, a webhook that answers 2xx, a configured URL; "child"
\* stands for checks that are not taken away: their processes are not killed,
\* and Redis' replies to what it has written are not lost.
Conditions == {"db", "redis", "beat", "workers", "inspect", "webhook",
               "url", "child"}

Tasks  == {"check", "heartbeat"}
Stages == {"ready", "beat", "workers"}

ASSUME ConditionsFail == Failing \subseteq Conditions

ASSUME Durations == /\ CheckInterval \in Nat \ {0}
                    /\ HeartbeatInterval \in Nat \ {0}
                    /\ DedupeTicks \in Nat \ {0}
                    /\ ZeroTicks \in Nat \ {0}
                    /\ QueueBound \in Nat \ {0}

ASSUME Switches == {WorkerZeroEnabled, Recovery, Prompt} \subseteq BOOLEAN

VARIABLES
  up,         \* the conditions that hold
  queue,      \* the messages in the broker, per task
  due,        \* per task, the ticks until Beat's schedule has it due
  \* keys in Redis
  heartbeat,  \* ticks for which the heartbeat remains fresh
  state,      \* alert:state:ready, :beat, :workers
  dedupe,     \* per stage, what its alert:dedupe key has left of its TTL
  zeroSince,  \* what alert:worker_zero_since has left of its TTL
  \* worker processes
  check,      \* the check each process is running
  \* history
  told,       \* per stage, the last event the webhook has received
  quiet,      \* per process and stage, DedupeTicks counted from its POST
  owed,       \* stages found bad since their last recovery was POSTed
  lastSeen    \* ZeroTicks counted from when workers were last noted

redis   == <<heartbeat, state, dedupe, zeroSince>>
beat    == <<queue, due>>
history == <<told, quiet, owed, lastSeen>>
vars    == <<up, beat, redis, check, history>>

---------------------------------------------------------------------------
(* Helpers *)

RedisPoints == {"read", "set", "dedupe", "mark",
                "readZero", "startZero", "clearZero"}
DatabasePoints == {"settings", "record", "commit"}
Points == {"idle", "select1", "ping", "heartbeat", "inspect", "post"}
          \cup RedisPoints \cup DatabasePoints

CheckRecord == [pc : Points, stage : Stages,
                found : SUBSET {"db", "redis", "beat", "workers"},
                prev : BOOLEAN, broken : BOOLEAN]

\* A process that runs no check.
Idle == [pc |-> "idle", stage |-> "ready", found |-> {}, prev |-> FALSE,
         broken |-> FALSE]

Running(c) == check[c].pc # "idle"

\* The snapshot says that the current stage is well.
Needs == [ready |-> {"db", "redis"}, beat |-> {"beat"},
          workers |-> {"workers"}]
Well(r) == Needs[r.stage] \subseteq r.found

Event(r) == IF Well(r) THEN "recovery" ELSE "alert"

Goto(c, l) == check' = [check EXCEPT ![c].pc = l]

\* The record of a check that has finished a stage.
AfterStage(r) ==
  CASE r.stage = "ready" -> [r EXCEPT !.stage = "beat", !.pc = "read"]
    [] r.stage = "beat" /\ WorkerZeroEnabled ->
         [r EXCEPT !.stage = "workers",
                   !.pc = IF "workers" \in r.found THEN "clearZero"
                                                   ELSE "readZero"]
    [] OTHER -> [r EXCEPT !.pc = "commit"]

EndStage(c) == check' = [check EXCEPT ![c] = AfterStage(@)]

\* What becomes of the history when the check of c ends here.
Ends(c) ==
  /\ quiet' = IF check[c].pc = "mark"
              THEN [quiet EXCEPT ![c][check[c].stage] = 0] ELSE quiet
  /\ UNCHANGED <<told, owed, lastSeen>>

\* _write_beat_heartbeat sets the key for two intervals, and _beat_status
\* takes a heartbeat of that age for fresh.  Mutant: one interval.
HeartbeatLifeOnce == HeartbeatInterval
HeartbeatLife == 2 * HeartbeatInterval

\* A countdown, one tick later.
Minus1(n) == IF n = 0 THEN 0 ELSE n - 1

---------------------------------------------------------------------------
(* Beat and the worker processes *)

\* Beat publishes a task that is due and schedules its next time.
Publish(t) ==
  /\ {"beat", "redis"} \subseteq up
  /\ due[t] = 0
  /\ queue[t] < QueueBound
  /\ queue' = [queue EXCEPT ![t] = @ + 1]
  /\ due' = [due EXCEPT ![t] = IF t = "check" THEN CheckInterval
                                              ELSE HeartbeatInterval]
  /\ UNCHANGED <<up, redis, check, history>>

\* The heartbeat task writes its key; if Redis stops after the task was
\* fetched, the failure is swallowed.
RunHeartbeat ==
  /\ {"workers", "redis"} \subseteq up
  /\ queue["heartbeat"] > 0
  /\ queue' = [queue EXCEPT !["heartbeat"] = @ - 1]
  /\ \/ heartbeat' = HeartbeatLife /\ up' = up
     \/ /\ "redis" \in Failing
        /\ up' = up \ {"redis"}
        /\ heartbeat' = heartbeat
  /\ UNCHANGED <<due, state, dedupe, zeroSince, check, history>>

\* A free process takes a check; the message is acknowledged right away.
Start(c) ==
  /\ {"workers", "redis"} \subseteq up
  /\ ~Running(c)
  /\ queue["check"] > 0
  /\ queue' = [queue EXCEPT !["check"] = @ - 1]
  /\ Goto(c, "settings")
  /\ UNCHANGED <<up, due, redis, history>>

---------------------------------------------------------------------------
(* One check: settings and snapshot *)

\* get_or_create; without a URL the check is over.
LoadSettings(c) ==
  /\ check[c].pc = "settings"
  /\ "db" \in up
  /\ check' = [check EXCEPT ![c] = IF "url" \in up
                                   THEN [@ EXCEPT !.pc = "select1"] ELSE Idle]
  /\ UNCHANGED <<up, beat, redis, history>>

\* One look of _collect_snapshot: x is noted if it is well; errors count as
\* not well and end nothing.
Look(c, here, x, well, next) ==
  /\ check[c].pc = here
  /\ check' = [check EXCEPT ![c].pc = next,
                            ![c].found = IF well THEN @ \cup {x} ELSE @]
  /\ UNCHANGED <<up, beat, redis, history>>

Snapshot(c) ==
  \/ Look(c, "select1", "db", "db" \in up /\ ~check[c].broken, "ping")
  \/ Look(c, "ping", "redis", "redis" \in up, "heartbeat")
  \/ Look(c, "heartbeat", "beat", "redis" \in up /\ heartbeat > 0, "inspect")
  \/ Look(c, "inspect", "workers", {"inspect", "redis"} \subseteq up, "read")

---------------------------------------------------------------------------
(* One check: a stage *)

\* Mutant: a recovery is sent before the state is written, in every stage.
ReadStateSendFirst(c) ==
  /\ check[c].pc = "read"
  /\ "redis" \in up
  /\ LET r == check[c]
         bad == state[r.stage] = "bad"
     IN  check' = [check EXCEPT
           ![c].prev = FALSE,
           ![c].pc = IF Well(r) /\ bad /\ Recovery THEN "post" ELSE "set"]
  /\ UNCHANGED <<up, beat, redis, history>>

\* The previous state.  Where workers are found again, the recovery is sent
\* before the new state is written; elsewhere after it.
ReadState(c) ==
  /\ check[c].pc = "read"
  /\ "redis" \in up
  /\ LET r == check[c]
         bad == state[r.stage] = "bad"
     IN  check' = [check EXCEPT
           ![c].prev = bad,
           ![c].pc = IF r.stage = "workers" /\ bad /\ Recovery
                     THEN "post" ELSE "set"]
  /\ UNCHANGED <<up, beat, redis, history>>

\* Mutant: a recovery, too, waits for the dedupe key to expire.
WriteStateDeduping(c) ==
  LET r == check[c]
  IN /\ r.pc = "set"
     /\ "redis" \in up
     /\ state' = [state EXCEPT ![r.stage] = IF Well(r) THEN "ok" ELSE "bad"]
     /\ owed' = IF Well(r) THEN owed ELSE owed \cup {r.stage}
     /\ IF ~Well(r) \/ (r.stage # "workers" /\ r.prev /\ Recovery)
          THEN Goto(c, "dedupe") ELSE EndStage(c)
     /\ UNCHANGED <<up, beat, heartbeat, dedupe, zeroSince,
                    told, quiet, lastSeen>>

\* The new state; then an alert, a recovery, or nothing.
WriteState(c) ==
  LET r == check[c]
  IN /\ r.pc = "set"
     /\ "redis" \in up
     /\ state' = [state EXCEPT ![r.stage] = IF Well(r) THEN "ok" ELSE "bad"]
     /\ owed' = IF Well(r) THEN owed ELSE owed \cup {r.stage}
     /\ IF ~Well(r) THEN Goto(c, "dedupe")
        ELSE IF r.stage # "workers" /\ r.prev /\ Recovery THEN Goto(c, "post")
        ELSE EndStage(c)
     /\ UNCHANGED <<up, beat, heartbeat, dedupe, zeroSince,
                    told, quiet, lastSeen>>

\* An alert is not repeated while its dedupe key lives.
ReadDedupe(c) ==
  /\ check[c].pc = "dedupe"
  /\ "redis" \in up
  /\ IF dedupe[check[c].stage] > 0 THEN EndStage(c) ELSE Goto(c, "post")
  /\ UNCHANGED <<up, beat, redis, history>>

\* The POST; a failing webhook is logged and otherwise treated alike.
Post(c) ==
  LET r == check[c]
  IN /\ r.pc = "post"
     /\ told' = IF "webhook" \in up
                THEN [told EXCEPT ![r.stage] = Event(r)] ELSE told
     /\ IF Well(r)
        THEN /\ Goto(c, "record")
             /\ owed' = owed \ {r.stage}
             /\ quiet' = quiet
        ELSE /\ Goto(c, "mark")
             /\ owed' = owed
             /\ quiet' = [quiet EXCEPT ![c][r.stage] = DedupeTicks]
     /\ UNCHANGED <<up, beat, redis, lastSeen>>

\* Mutant: only a delivered alert is marked.
MarkIfDelivered(c) ==
  /\ check[c].pc = "mark"
  /\ "redis" \in up
  /\ dedupe' = IF "webhook" \in up
               THEN [dedupe EXCEPT ![check[c].stage] = DedupeTicks] ELSE dedupe
  /\ Goto(c, "record")
  /\ UNCHANGED <<up, beat, heartbeat, state, zeroSince, history>>

\* The dedupe key is set once the POST has returned.
Mark(c) ==
  /\ check[c].pc = "mark"
  /\ "redis" \in up
  /\ dedupe' = [dedupe EXCEPT ![check[c].stage] = DedupeTicks]
  /\ Goto(c, "record")
  /\ UNCHANGED <<up, beat, heartbeat, state, zeroSince, history>>

\* The insert into alert_deliveries, in the check's transaction; no check
\* reads the table, so its rows are left out.
Record(c) ==
  LET r == check[c]
  IN /\ r.pc = "record"
     /\ "db" \in up /\ ~r.broken
     /\ check' = [check EXCEPT
          ![c] = IF r.stage = "workers" /\ Well(r)
                 THEN [r EXCEPT !.pc = "set"] ELSE AfterStage(r)]
     /\ UNCHANGED <<up, beat, redis, history>>

\* _process_workers without workers: since when?
ReadZero(c) ==
  /\ check[c].pc = "readZero"
  /\ "redis" \in up
  /\ IF zeroSince = 0 THEN Goto(c, "startZero")
     ELSE IF zeroSince > ZeroTicks THEN EndStage(c)
     ELSE Goto(c, "set")
  /\ UNCHANGED <<up, beat, redis, history>>

\* Mutant: a key without a spare interval.
StartZeroOnce(c) ==
  /\ check[c].pc = "startZero"
  /\ "redis" \in up
  /\ zeroSince' = ZeroTicks
  /\ EndStage(c)
  /\ UNCHANGED <<up, beat, heartbeat, state, dedupe, history>>

StartZero(c) ==
  /\ check[c].pc = "startZero"
  /\ "redis" \in up
  /\ zeroSince' = 2 * ZeroTicks
  /\ EndStage(c)
  /\ UNCHANGED <<up, beat, heartbeat, state, dedupe, history>>

\* Mutant: the key is left to expire.
ClearZeroLater(c) ==
  /\ check[c].pc = "clearZero"
  /\ "redis" \in up
  /\ Goto(c, "read")
  /\ lastSeen' = ZeroTicks
  /\ UNCHANGED <<up, beat, redis, told, quiet, owed>>

\* With workers: the key goes.
ClearZero(c) ==
  /\ check[c].pc = "clearZero"
  /\ "redis" \in up
  /\ zeroSince' = 0
  /\ lastSeen' = ZeroTicks
  /\ Goto(c, "read")
  /\ UNCHANGED <<up, beat, heartbeat, state, dedupe, told, quiet, owed>>

\* One commit for the rows of all stages.
Commit(c) ==
  /\ check[c].pc = "commit"
  /\ "db" \in up /\ ~check[c].broken
  /\ check' = [check EXCEPT ![c] = Idle]
  /\ UNCHANGED <<up, beat, redis, history>>

\* Any other failure ends the check: logged, rolled back, not retried.
Abort(c) ==
  /\ \/ check[c].pc \in RedisPoints /\ "redis" \notin up
     \/ /\ check[c].pc \in DatabasePoints
        /\ "db" \notin up \/ check[c].broken
  /\ check' = [check EXCEPT ![c] = Idle]
  /\ Ends(c)
  /\ UNCHANGED <<up, beat, redis>>

Step(c) ==
  \/ LoadSettings(c) \/ Snapshot(c)
  \/ ReadState(c) \/ WriteState(c) \/ ReadDedupe(c) \/ Post(c) \/ Mark(c)
  \/ Record(c) \/ ReadZero(c) \/ StartZero(c) \/ ClearZero(c)
  \/ Commit(c) \/ Abort(c)

---------------------------------------------------------------------------
(* Failures, repairs and time *)

\* A worker process is killed with its check; or a reply is lost after Redis
\* has written, and the exception ends the check.
Die(c) ==
  /\ "child" \in Failing
  /\ Running(c)
  /\ check' = [check EXCEPT ![c] = Idle]
  /\ Ends(c)
  /\ UNCHANGED <<up, beat, redis>>

\* The database takes the connections of running checks with it.
DatabaseStops ==
  /\ "db" \in Failing \cap up
  /\ up' = up \ {"db"}
  /\ check' = [c \in Checks |->
       IF check[c].pc \in {"idle", "settings"} THEN check[c]
       ELSE [check[c] EXCEPT !.broken = TRUE]]
  /\ UNCHANGED <<beat, redis, history>>

\* The worker takes its processes with it; their messages are not redelivered.
WorkersStop ==
  /\ "workers" \in Failing \cap up
  /\ up' = up \ {"workers"}
  /\ check' = [c \in Checks |-> Idle]
  /\ quiet' = [c \in Checks |->
       IF check[c].pc = "mark" THEN [quiet[c] EXCEPT ![check[c].stage] = 0]
       ELSE quiet[c]]
  /\ UNCHANGED <<beat, redis, told, owed, lastSeen>>

\* Anything else stops without taking a check along.
Stops(x) ==
  /\ x \in (Failing \cap up) \ {"db", "workers", "child"}
  /\ up' = up \ {x}
  /\ UNCHANGED <<beat, redis, check, history>>

Resumes(x) ==
  /\ x \in Failing \ up
  /\ up' = up \cup {x}
  /\ UNCHANGED <<beat, redis, check, history>>

\* Work that is possible now.
Pending ==
  \/ \E c \in Checks : Running(c)
  \/ {"workers", "redis"} \subseteq up /\ \E t \in Tasks : queue[t] > 0
  \/ {"beat", "redis"} \subseteq up /\ \E t \in Tasks : due[t] = 0

Tick ==
  /\ Prompt => ~Pending
  /\ due' = [t \in Tasks |-> Minus1(due[t])]
  /\ heartbeat' = Minus1(heartbeat)
  /\ dedupe' = [s \in Stages |-> Minus1(dedupe[s])]
  /\ zeroSince' = Minus1(zeroSince)
  /\ quiet' = [c \in Checks |-> [s \in Stages |-> Minus1(quiet[c][s])]]
  /\ lastSeen' = Minus1(lastSeen)
  /\ UNCHANGED <<up, queue, state, check, told, owed>>

---------------------------------------------------------------------------

\* A fresh deployment: empty Redis, a new schedule, no check running.
Init ==
  /\ up = Conditions
  /\ queue = [t \in Tasks |-> 0]
  /\ due = [t \in Tasks |-> IF t = "check" THEN CheckInterval
                                           ELSE HeartbeatInterval]
  /\ heartbeat = 0
  /\ state = [s \in Stages |-> "none"]
  /\ dedupe = [s \in Stages |-> 0]
  /\ zeroSince = 0
  /\ check = [c \in Checks |-> Idle]
  /\ told = [s \in Stages |-> "nothing"]
  /\ quiet = [c \in Checks |-> [s \in Stages |-> 0]]
  /\ owed = {}
  /\ lastSeen = 0

Next ==
  \/ \E t \in Tasks : Publish(t)
  \/ RunHeartbeat
  \/ \E c \in Checks : Start(c) \/ Step(c) \/ Die(c)
  \/ DatabaseStops \/ WorkersStop
  \/ \E x \in Conditions : Stops(x) \/ Resumes(x)
  \/ Tick

Spec == Init /\ [][Next]_vars

\* Beat publishes what is due, processes take and run what is queued, time
\* passes.  Nothing that failed need ever be repaired.
FairSpec ==
  /\ Spec
  /\ \A t \in Tasks : WF_vars(Publish(t))
  /\ WF_vars(RunHeartbeat)
  /\ WF_vars(\E c \in Checks : Start(c))
  /\ \A c \in Checks : WF_vars(Step(c))
  /\ WF_vars(Tick)

---------------------------------------------------------------------------
(* Properties *)

\* Every variable keeps its type.
TypeOK ==
  /\ up \in SUBSET Conditions
  /\ queue \in [Tasks -> 0..QueueBound]
  /\ due \in [Tasks -> Nat]
  /\ heartbeat \in Nat
  /\ state \in [Stages -> {"none", "bad", "ok"}]
  /\ dedupe \in [Stages -> 0..DedupeTicks]
  /\ zeroSince \in 0..2 * ZeroTicks
  /\ check \in [Checks -> CheckRecord]
  /\ told \in [Stages -> {"nothing", "alert", "recovery"}]
  /\ quiet \in [Checks -> [Stages -> 0..DedupeTicks]]
  /\ owed \in SUBSET Stages
  /\ lastSeen \in 0..ZeroTicks

\* There is one worker process.
Alone == \A c, d \in Checks : c = d

PostsAlert(c) == check[c].pc = "post" /\ check'[c].pc = "mark"
PostsRecovery(c) == check[c].pc = "post" /\ check'[c].pc = "record"

\* A worker process never POSTs an alert twice within the dedupe time, unless
\* it was killed, or lost Redis, between the POST and the dedupe key.
AlertsSpaced ==
  [][\A c \in Checks : PostsAlert(c) => quiet[c][check[c].stage] = 0]_vars

\* With one process, every recovery of readiness or Beat answers a failure
\* that a check has found since the last one, even if processes are killed.
RecoveryAnswersFailure ==
  [][\A c \in Checks :
       Alone /\ PostsRecovery(c) /\ check[c].stage # "workers"
         => check[c].stage \in owed]_vars

\* With one process, workers_missing is POSTed only if no check has noted a
\* worker for the configured duration.
ZeroLasted ==
  [][\A c \in Checks :
       Alone /\ PostsAlert(c) /\ check[c].stage = "workers"
         => lastSeen = 0]_vars

\* One process, nothing takes a check away after a write, and POSTs arrive.
Undisturbed ==
  Alone /\ Recovery /\ Failing \cap {"child", "workers", "webhook"} = {}

\* A check is about to POST the recovery of stage s.
Recovering(s) ==
  \E c \in Checks : check[c].pc = "post" /\ check[c].stage = s /\ Well(check[c])

\* An alert is not forgotten: until its recovery has been POSTed the state in
\* Redis stays "bad", whichever server stops before whichever step, or the
\* check that has overwritten it is about to POST (services/alert_monitor.py:97).
AlertRemembered ==
  Undisturbed =>
    \A s \in Stages : told[s] = "alert" => state[s] = "bad" \/ Recovering(s)

---------------------------------------------------------------------------
(* Why they hold: the inductive strengthening *)

\* Where a check can be, given its stage and what it has found.
Shaped(r) ==
  /\ r.pc \in {"idle", "settings", "select1", "ping", "heartbeat", "inspect"}
       => r.stage = "ready"
  /\ r.pc = "clearZero" \/ (r.pc = "read" /\ r.stage = "workers")
       => r.stage = "workers" /\ Well(r)
  /\ r.pc \in {"readZero", "startZero"} => r.stage = "workers" /\ ~Well(r)
  /\ r.pc \in {"dedupe", "mark"} => ~Well(r)

StageShape == \A c \in Checks : Shaped(check[c])

\* Unless its process is about to write it, the dedupe key outlives the time
\* in which the process must not repeat its alert, and a process about to
\* POST an alert is past that time.
DedupeCovers ==
  /\ \A c \in Checks : \A s \in Stages :
       quiet[c][s] <= dedupe[s] \/ (check[c].pc = "mark" /\ check[c].stage = s)
  /\ \A c \in Checks :
       check[c].pc = "post" /\ ~Well(check[c]) => quiet[c][check[c].stage] = 0

\* A bad state is owed a recovery, and stays so until it is written and sent.
BadIsOwed == Alone =>
  /\ \A s \in Stages \ {"workers"} : state[s] = "bad" => s \in owed
  /\ \A c \in Checks : LET r == check[c] IN
       /\ r.pc = "set" /\ r.prev /\ r.stage # "workers" => r.stage \in owed
       /\ r.pc = "post" /\ Well(r) /\ r.stage # "workers"
            => r.stage \in owed /\ state[r.stage] # "bad"

\* worker_zero_since is younger than the last worker noted.
ZeroIsYounger == Alone =>
  /\ zeroSince > 0 => lastSeen = 0 \/ lastSeen + ZeroTicks <= zeroSince
  /\ \A c \in Checks : LET r == check[c] IN
       /\ r.stage = "workers" /\ ~Well(r) /\ r.pc \in {"set", "dedupe", "post"}
            => lastSeen = 0
       /\ r.pc = "startZero" => zeroSince = 0

\* The inductive invariant that the theorems of AlertMonitorProofs rest on.
IInv == TypeOK /\ StageShape /\ DedupeCovers /\ BadIsOwed /\ ZeroIsYounger

\* A recovery that is owed is in the state, or on its way; what a check has
\* read of the state is still so when it writes.  Inductive beside IInv.
OwedIsKept == Undisturbed =>
  /\ "webhook" \in up
  /\ \A s \in Stages : told[s] = "alert" => s \in owed
  /\ \A s \in owed : state[s] = "bad" \/ (s # "workers" /\ Recovering(s))
  /\ \A c \in Checks : LET r == check[c] IN
       /\ r.pc = "set" /\ r.stage # "workers" => (r.prev <=> state[r.stage] = "bad")
       /\ r.pc \in {"set", "record"} /\ r.stage = "workers" /\ Well(r)
            => "workers" \notin owed
       /\ r.pc \in {"dedupe", "post"} /\ ~Well(r) => r.stage \in owed

---------------------------------------------------------------------------
(* Liveness *)

\* Workers that go on running checks but no longer answer inspect, while all else
\* works in the end, are alerted for good, however they flapped before: the alert
\* is repeated once its dedupe key expires, and worker_zero_since outlives the
\* check interval (which has to be shorter than twice the configured duration).
\* Nothing is said of workers that have stopped: a check is itself a task of
\* theirs, so with no worker process none runs and nobody is told.
WorkersMissingTold ==
  <>[](up = Conditions \ {"inspect"}) => <>[](told["workers"] = "alert")

\* Once everything works for good, whatever failed before in the servers, in
\* Beat or in inspect, an alert that was delivered is followed by a recovery.
\* (A killed process, a lost reply of Redis or a failing webhook loses
\* recoveries: no retry.)
RecoveriesTold ==
  <>[](up = Conditions) =>
    \A s \in Stages : told[s] = "alert" ~> told[s] = "recovery"

\* An outage of the database, or of Beat, is alerted unless it ends first: the
\* success criterion of the alerts.  But a check that starts in an outage of
\* the database ends at its first query, and it is Beat that publishes the
\* checks.
Outages == [db |-> "ready", beat |-> "beat"]
OutageTold ==
  \A x \in DOMAIN Outages :
    x \notin up ~> (x \in up \/ told[Outages[x]] = "alert")
============================================================================
