----------------------------- MODULE Overviews -----------------------------
(***************************************************************************)
(* What the console's dashboard and Celery pages ask of one API process.   *)
(*                                                                         *)
(* A dashboard request gathers coroutines over one database session, whose *)
(* connection executes one statement at a time, in the order in which the  *)
(* coroutines ask: the two counts, the SELECT 1 of _check_services, and    *)
(* what _build_system_overview asks.  Beside them the Redis ping of        *)
(* _check_services and the collection of the metrics in a thread.          *)
(*                                                                         *)
(* A Celery request inspects the workers in a thread, which it abandons    *)
(* after a time; the thread goes on.  Both kinds of request take their     *)
(* threads from the default executor of the event loop.                    *)
(*                                                                         *)
(* Statements of one request see the tables as committed when each runs.   *)
(* What the answers list of workers, tasks and metrics is left out.        *)
(***************************************************************************)
EXTENDS FiniteSets, Naturals, Sequences

CONSTANTS
  Dashboards,  \* requests for the dashboard
  Inspections, \* requests for the Celery overview
  Users,       \* the accounts there are and may be
  Threads      \* max_workers of the default executor

ASSUME KindsDiffer == Dashboards \cap Inspections = {}
ASSUME SomeThreads == Threads \in Nat \ {0}
ASSUME UsersFinite == IsFiniteSet(Users)

Requests == Dashboards \cup Inspections

VARIABLES
  \* what is asked
  accounts,  \* the state of each account
  up,        \* the services that answer
  atHead,    \* the database's revision is the head revision
  beat,      \* the heartbeat in Redis is there, younger than two intervals
  \* the requests
  pc,        \* what a request, or its main coroutine, does next
  pinged,    \* dashboards whose _check_services has returned
  lost,      \* requests whose database connection is broken
  total,     \* the user_count of a dashboard
  active,    \* its active_user_count
  found,     \* what the checks of a dashboard found wrong
  status,    \* the status of a Celery overview
  \* the default executor
  jobs,      \* the calls that wait for a thread, first come first served
  running,   \* the calls that have one
  heard,     \* the inspections whose ping has been replied to
  \* history
  since,     \* per dashboard, accounts committed between its two counts
  together   \* dashboards in whose time both services answered at once

world    == <<accounts, up, atHead, beat>>
reads    == <<pinged, lost, total, active, found>>
executor == <<jobs, running, heard>>
history  == <<since, together>>
vars     == <<world, pc, reads, status, executor, history>>

Services == {"database", "redis"}

\* The points of a dashboard, in their order, and of an inspection.
Points == {"idle", "countAll", "countActive", "select1", "select1Again", "ping",
           "migration", "beat", "gather", "inspect", "answered", "failed"}

\* The coroutine that found a service wrong, the revision or the heartbeat.
Faults == ({"services", "system"} \X Services) \cup {<<"system", "migration">>, <<"system", "beat">>}

Open(r) == pc[r] \notin {"idle", "answered", "failed"}

TypeOK ==
  /\ accounts \in [Users -> {"none", "active", "inactive"}]
  /\ up \subseteq Services
  /\ atHead \in BOOLEAN
  /\ beat \in BOOLEAN
  /\ pc \in [Requests -> Points]
  /\ pinged \subseteq Dashboards /\ lost \subseteq Dashboards /\ together \subseteq Dashboards
  /\ total \in [Dashboards -> 0 .. Cardinality(Users)]
  /\ active \in [Dashboards -> 0 .. Cardinality(Users)]
  /\ since \in [Dashboards -> 0 .. Cardinality(Users)]
  /\ found \in [Dashboards -> SUBSET Faults]
  /\ status \in [Inspections -> {"none", "ok", "degraded", "unavailable"}]
  /\ jobs \in Seq(Requests)
  /\ running \subseteq Requests /\ Cardinality(running) <= Threads
  /\ heard \subseteq Inspections

Is(S) == {u \in Users : accounts[u] \in S}

Init ==
  /\ accounts \in [Users -> {"none", "active"}]
  /\ up = Services /\ atHead \in BOOLEAN /\ beat \in BOOLEAN
  /\ pc = [r \in Requests |-> "idle"]
  /\ pinged = {} /\ lost = {} /\ together = {}
  /\ total = [d \in Dashboards |-> 0] /\ active = total /\ since = total
  /\ found = [d \in Dashboards |-> {}]
  /\ status = [o \in Inspections |-> "none"]
  /\ jobs = <<>> /\ running = {} /\ heard = {}

Goto(r, from, to) == pc[r] = from /\ pc' = [pc EXCEPT ![r] = to]

---------------------------------------------------------------------------
(* The dashboard *)

\* get_current_user has read the administrator over the same session; then
\* get_stats starts its coroutines, one of which needs a thread.
Dashboard(d) ==
  /\ "database" \in up
  /\ Goto(d, "idle", "countAll")
  /\ jobs' = Append(jobs, d)
  /\ together' = IF up = Services THEN together \cup {d} ELSE together
  /\ UNCHANGED <<world, reads, status, running, heard, since>>

\* Mutant: every statement takes a connection of its own.
ConnectedAnew(d) == "database" \in up

\* The connection is the request's own: once it is broken, every statement
\* that follows fails, also when the database is back.
Connected(d) == d \notin lost

Count(d, from, to) ==
  /\ Connected(d)
  /\ Goto(d, from, to)
  /\ UNCHANGED <<world, pinged, lost, found, status, executor, history>>

\* Mutant: count_all leaves out inactive accounts too.
CountAllActive(d) ==
  /\ Count(d, "countAll", "countActive")
  /\ total' = [total EXCEPT ![d] = Cardinality(Is({"active"}))]
  /\ UNCHANGED active

CountAll(d) ==
  /\ Count(d, "countAll", "countActive")
  /\ total' = [total EXCEPT ![d] = Cardinality(Is({"active", "inactive"}))]
  /\ UNCHANGED active

CountActive(d) ==
  /\ Count(d, "countActive", "select1")
  /\ active' = [active EXCEPT ![d] = Cardinality(Is({"active"}))]
  /\ UNCHANGED total

\* What a check adds to what has been found wrong.
Finds(d, fault, wrong) ==
  found' = [found EXCEPT ![d] = IF wrong THEN @ \cup {fault} ELSE @]

\* A statement or a question to Redis whose failure is caught.
Check(d, from, to, fault, wrong) ==
  /\ Goto(d, from, to)
  /\ Finds(d, fault, wrong)
  /\ UNCHANGED <<world, pinged, lost, total, active, status, executor, history>>

\* The ping of the dashboard's own _check_services, after its SELECT 1.
PingServices(d) ==
  /\ pc[d] \in {"select1Again", "ping", "migration", "beat", "gather"}
  /\ d \notin pinged
  /\ pinged' = pinged \cup {d}
  /\ Finds(d, <<"services", "redis">>, "redis" \notin up)
  /\ UNCHANGED <<world, pc, lost, total, active, status, executor, history>>

\* The statements and questions of the coroutines whose failures are caught.
Checks(d) ==
  \/ Check(d, "select1", "select1Again", <<"services", "database">>, ~Connected(d))
  \/ Check(d, "select1Again", "ping", <<"system", "database">>, ~Connected(d))
  \/ Check(d, "ping", "migration", <<"system", "redis">>, "redis" \notin up)
  \/ Check(d, "migration", "beat", <<"system", "migration">>, ~Connected(d) \/ ~atHead)
  \/ Check(d, "beat", "gather", <<"system", "beat">>, "redis" \notin up \/ ~beat)

\* The request is over, and what it has read is gone.
Ends(d, from, to) ==
  /\ Goto(d, from, to)
  /\ pinged' = pinged \ {d} /\ lost' = lost \ {d} /\ together' = together \ {d}
  /\ total' = [total EXCEPT ![d] = 0] /\ active' = [active EXCEPT ![d] = 0]
  /\ since' = [since EXCEPT ![d] = 0] /\ found' = [found EXCEPT ![d] = {}]
  /\ UNCHANGED <<world, status, executor>>

\* A count that fails is not caught: gather raises, and the answer is 500.
CountFails(d) ==
  ~Connected(d) /\ (Ends(d, "countAll", "failed") \/ Ends(d, "countActive", "failed"))

\* A call waits for a thread.
Waits(r) == \E i \in 1 .. Len(jobs) : jobs[i] = r

\* The coroutines have returned; gather waits for the thread besides.
Gathered(d) == pc[d] = "gather" /\ d \in pinged

Answer(d) ==
  /\ Gathered(d) /\ d \notin running /\ ~Waits(d)
  /\ Ends(d, "gather", "answered")

\* The order of _build_system_overview.
ReadyStatus(d) ==
  IF found[d] \cap ({"system"} \X Services) # {} THEN "error"
  ELSE IF found[d] \cap {<<"system", "migration">>, <<"system", "beat">>} # {} THEN "degraded"
  ELSE "ok"

---------------------------------------------------------------------------
(* The Celery overview and the executor *)

Inspect(o) ==
  /\ "database" \in up
  /\ Goto(o, "idle", "inspect")
  /\ jobs' = Append(jobs, o)
  /\ UNCHANGED <<world, reads, status, running, heard, history>>

\* Mutant: the request waits for its thread, however long that takes.
NeverTimesOut(o) == FALSE /\ UNCHANGED vars

\* wait_for gives up: a call that has a thread goes on unheard, one that waits
\* for a thread is cancelled and stays in the queue.
TimesOut(o) ==
  /\ Goto(o, "inspect", "answered")
  /\ status' = [status EXCEPT ![o] = "degraded"]
  /\ UNCHANGED <<world, reads, executor, history>>

\* The request no longer waits for the call.
Cancelled(r) == r \in Inspections /\ pc[r] # "inspect"

\* A thread that is free takes the first call, and drops it if it is cancelled.
TakeThread ==
  /\ jobs # <<>> /\ Cardinality(running) < Threads
  /\ running' = IF Cancelled(Head(jobs)) THEN running ELSE running \cup {Head(jobs)}
  /\ jobs' = Tail(jobs)
  /\ UNCHANGED <<world, pc, reads, status, heard, history>>

\* _collect_metrics_summary
MetricsCollected(d) ==
  /\ d \in running
  /\ running' = running \ {d}
  /\ UNCHANGED <<world, pc, reads, status, jobs, heard, history>>

\* Some worker replies to the ping in time.
PingReplied(o) ==
  /\ o \in running \ heard /\ "redis" \in up
  /\ heard' = heard \cup {o}
  /\ UNCHANGED <<world, pc, reads, status, jobs, running, history>>

\* The thread is through, with the status s if its request still waits.
Inspected(o, s) ==
  /\ o \in running
  /\ running' = running \ {o} /\ heard' = heard \ {o}
  /\ IF pc[o] = "inspect"
     THEN /\ pc' = [pc EXCEPT ![o] = "answered"]
          /\ status' = [status EXCEPT ![o] = s]
     ELSE UNCHANGED <<pc, status>>
  /\ UNCHANGED <<world, reads, jobs, history>>

\* No worker replies to the ping; or the four broadcasts return, stats with
\* replies or without; or the broker fails.
InspectionEnds(o) ==
  \/ o \notin heard /\ "redis" \in up /\ Inspected(o, "unavailable")
  \/ o \in heard /\ "redis" \in up /\ \E s \in {"ok", "degraded"} : Inspected(o, s)
  \/ "redis" \notin up /\ Inspected(o, "degraded")

---------------------------------------------------------------------------
(* What they ask about *)

\* A registration commits.
Registers(u) ==
  /\ accounts[u] = "none"
  /\ accounts' = [accounts EXCEPT ![u] = "active"]
  /\ since' = [d \in Dashboards |-> since[d] + (IF pc[d] = "countActive" THEN 1 ELSE 0)]
  /\ UNCHANGED <<up, atHead, beat, pc, reads, status, executor, together>>

\* An administrator deactivates or activates an account.
Toggles(u) ==
  /\ accounts[u] # "none"
  /\ accounts' = [accounts EXCEPT ![u] = IF @ = "active" THEN "inactive" ELSE "active"]
  /\ UNCHANGED <<up, atHead, beat, pc, reads, status, executor, history>>

Stops(s) ==
  /\ s \in up
  /\ up' = up \ {s}
  /\ lost' = IF s = "database" THEN lost \cup {d \in Dashboards : Open(d)} ELSE lost
  /\ UNCHANGED <<accounts, atHead, beat, pc, pinged, total, active, found, status,
                 executor, history>>

Returns(s) ==
  /\ s \notin up
  /\ up' = up \cup {s}
  /\ together' = IF up' = Services THEN together \cup {d \in Dashboards : Open(d)}
                                   ELSE together
  /\ UNCHANGED <<accounts, atHead, beat, pc, reads, status, executor, since>>

\* A migration brings the database to the head of this process's image, or to
\* that of a newer one.
Migrates ==
  /\ atHead' = ~atHead
  /\ UNCHANGED <<accounts, up, beat, pc, reads, status, executor, history>>

\* The heartbeat task writes; or time passes without one.
Heartbeats ==
  /\ beat' = ~beat
  /\ beat' => "redis" \in up
  /\ UNCHANGED <<accounts, up, atHead, pc, reads, status, executor, history>>

---------------------------------------------------------------------------

\* The event loop's steps for a request that is open.
DashboardStep(d) ==
  CountAll(d) \/ CountActive(d) \/ CountFails(d) \/ Checks(d) \/ PingServices(d) \/ Answer(d)

\* The thread's steps.
Return(r) ==
  \/ r \in Dashboards /\ MetricsCollected(r)
  \/ r \in Inspections /\ (PingReplied(r) \/ InspectionEnds(r))

Next ==
  \/ \E d \in Dashboards : Dashboard(d) \/ DashboardStep(d)
  \/ \E o \in Inspections : Inspect(o) \/ TimesOut(o)
  \/ TakeThread \/ \E r \in Requests : Return(r)
  \/ \E u \in Users : Registers(u) \/ Toggles(u)
  \/ \E s \in Services : Stops(s) \/ Returns(s)
  \/ Migrates \/ Heartbeats

Spec == Init /\ [][Next]_vars

\* Statements and questions to Redis return or fail, and timers expire; calls
\* that run in threads need not return.
FairSpec ==
  /\ Spec
  /\ \A d \in Dashboards : WF_vars(DashboardStep(d))
  /\ \A o \in Inspections : WF_vars(TimesOut(o))
  /\ WF_vars(TakeThread)

---------------------------------------------------------------------------
(* Properties *)

\* Accounts are never deleted, but the counts are of two moments: the active
\* ones exceed all of them by no more than were registered in between.
CountsExplained ==
  \A d \in Dashboards : Gathered(d) => active[d] <= total[d] + since[d]

\* "ok" is answered only if the database and Redis both answered at one moment
\* of the request, although they are asked one after the other.
OkWasSo ==
  \A d \in Dashboards : Gathered(d) /\ ReadyStatus(d) = "ok" => d \in together

\* The two checks of the database are of different moments, yet a card that
\* says that it failed is never beside a ready status other than "error".
DatabaseAgrees ==
  \A d \in Dashboards :
    Gathered(d) /\ <<"services", "database">> \in found[d] => ReadyStatus(d) = "error"

\* What a dashboard says, put together from several moments, holds together
\* (services/admin_dashboard.py:24-94).
DashboardHolds == TypeOK /\ CountsExplained /\ OkWasSo /\ DatabaseAgrees

\* Calls that have a thread return some time.
ThreadsReturn == \A r \in Requests : WF_vars(Return(r))

\* The Celery page gets its answer whatever becomes of the threads; the
\* dashboard, which needs one too, gets its own if they return some time
\* (services/admin_celery.py:59, services/admin_dashboard.py:28).
PagesAnswered ==
  /\ \A o \in Inspections : Open(o) ~> ~Open(o)
  /\ ThreadsReturn => \A d \in Dashboards : Open(d) ~> ~Open(d)

---------------------------------------------------------------------------
(* Why it holds: the inductive strengthening *)

\* A dashboard that is not open has nothing on record.
Blank(d) ==
  ~Open(d) => /\ d \notin pinged \cup lost \cup together
              /\ total[d] = 0 /\ active[d] = 0 /\ since[d] = 0 /\ found[d] = {}

\* A connection that is not lost is to a database that answers; and a service
\* that has not answered together with the other is down or the other is.
WorldSeen(d) ==
  Open(d) => /\ d \notin lost => "database" \in up
             /\ d \notin together => up # Services

\* The first count and what was committed since make up all the accounts.
CountsInOrder(d) ==
  /\ pc[d] = "countAll" => since[d] = 0
  /\ pc[d] = "countActive" => total[d] + since[d] = Cardinality(Is({"active", "inactive"}))
  /\ pc[d] \in {"select1", "select1Again", "ping", "migration", "beat", "gather"} =>
       active[d] <= total[d] + since[d]

\* Of two services of which one is always down, one is found so.
OutageFound(d) ==
  d \notin together =>
    /\ pc[d] = "migration" => <<"system", "redis">> \in found[d] \/ d \in lost
    /\ pc[d] \in {"beat", "gather"} =>
         <<"system", "redis">> \in found[d] \/ <<"system", "migration">> \in found[d]

\* A connection found broken is found broken again.
BrokenStays(d) ==
  <<"services", "database">> \in found[d] =>
    \/ pc[d] = "select1Again" /\ d \in lost
    \/ <<"system", "database">> \in found[d]

\* The executor has each call once, and that of every inspection that is open.
Accounted ==
  /\ \A i, j \in 1 .. Len(jobs) : jobs[i] = jobs[j] => i = j
  /\ \A i \in 1 .. Len(jobs) : jobs[i] \notin running /\ pc[jobs[i]] # "idle"
  /\ \A r \in running : pc[r] # "idle"
  /\ \A o \in Inspections : Open(o) => pc[o] = "inspect" /\ (Waits(o) \/ o \in running)
  /\ heard \subseteq running

\* What is on record for a dashboard.
Recorded(d) ==
  Blank(d) /\ WorldSeen(d) /\ CountsInOrder(d) /\ OutageFound(d) /\ BrokenStays(d)

IInv ==
  /\ TypeOK /\ IsFiniteSet(running) /\ Accounted
  /\ \A d \in Dashboards : Recorded(d)
=============================================================================
