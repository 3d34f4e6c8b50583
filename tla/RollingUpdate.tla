--------------------------- MODULE RollingUpdate ---------------------------
(***************************************************************************)
(* scripts/rolling_update.sh: it brings the stack up with the new image    *)
(* and then replaces the API containers one at a time, going on when       *)
(* Docker reports enough of them healthy.  Beside it the containers, which *)
(* Docker restarts and checks in its own time, and the proxy, which looks  *)
(* up their addresses every few seconds.                                   *)
(*                                                                         *)
(* A replica is the place of one container of the service; SCALE_API is    *)
(* the number of replicas.  Docker's report lags: a replica that has       *)
(* stopped answering is reported healthy until its checks have failed.     *)
(***************************************************************************)
EXTENDS FiniteSets, Integers

CONSTANT Replicas   \* the places of the API's containers

ASSUME ReplicasFinite == IsFiniteSet(Replicas)

VARIABLES line,     \* the next command of the script
          todo,     \* the containers that it has still to replace
          cur,      \* the one that it is replacing: a set of at most one
          state,    \* the container in each place
          routes,   \* the places whose containers the proxy sends requests to
          failed    \* a container has failed since the last full count

RUvars == <<line, todo, cur, state, routes, failed>>

States == {"absent", "stopped", "starting", "healthy", "sick", "unhealthy"}

\* The commands of the loop, and where it ends.
Loop == {"next", "count", "stop", "remove", "spare", "spareOne", "start",
         "ready", "proxy", "done", "aborted"}

RUTypeOK ==
  /\ line \in {"begin", "up", "allUp", "proxyUp", "list", "refused"} \cup Loop
  /\ todo \in SUBSET Replicas
  /\ cur \in {{}} \cup {{r} : r \in Replicas}
  /\ state \in [Replicas -> States]
  /\ routes \in SUBSET Replicas
  /\ failed \in BOOLEAN

All == Cardinality(Replicas)

In(S) == {r \in Replicas : state[r] \in S}

\* Mutant: a pattern that "unhealthy" and "health: starting" match too.
ReportedLoosely == In({"healthy", "sick", "unhealthy", "starting"})

\* What count_healthy_api counts.
Reported == In({"healthy", "sick"})

\* New containers in the places R; the proxy does not know them yet.
Started(R) ==
  /\ state' = [r \in Replicas |-> IF r \in R THEN "starting" ELSE state[r]]
  /\ routes' = routes \ R

Moves(from, to) == line = from /\ line' = to

RUInit ==
  /\ line = "begin" /\ todo = {} /\ cur = {} /\ failed = FALSE
  /\ state \in [Replicas -> {"absent", "healthy"}]
  /\ routes = In({"healthy"})

---------------------------------------------------------------------------
(* The script *)

\* With fewer than two replicas it refuses.
Begin ==
  /\ Moves("begin", IF All < 2 THEN "refused" ELSE "up")
  /\ UNCHANGED <<todo, cur, state, routes, failed>>

\* docker compose up --build: when the image has changed every container is
\* recreated, all of them at once.
Up ==
  /\ Moves("up", "allUp")
  /\ \/ Started(Replicas)
     \/ Started(In({"absent"}))
  /\ UNCHANGED <<todo, cur, failed>>

\* wait_min_healthy_api: polls until min containers are reported healthy, or
\* gives up.
WaitHealthy(from, min, ok, timeout) ==
  /\ IF Cardinality(Reported) >= min
     THEN /\ Moves(from, ok)
          /\ failed' = IF min = All THEN In({"sick"}) # {} ELSE failed
     ELSE /\ Moves(from, timeout)
          /\ UNCHANGED failed
  /\ UNCHANGED <<todo, cur, state, routes>>

\* wait_proxy_healthy: a request through the proxy.
WaitProxy(from, ok, timeout) ==
  /\ Moves(from, IF routes \cap In({"healthy"}) # {} THEN ok ELSE timeout)
  /\ UNCHANGED <<todo, cur, state, routes, failed>>

\* The containers that run now; one that Docker restarts may be missing.
List ==
  /\ line = "list"
  /\ \E L \in SUBSET Replicas :
       /\ In(States \ {"absent", "stopped", "starting"}) \subseteq L
       /\ IF Cardinality(L) < 2 THEN line' = "refused" /\ todo' = {}
                                ELSE line' = "next" /\ todo' = L
  /\ UNCHANGED <<cur, state, routes, failed>>

\* Mutant: the list is read again in every round.
NextListed ==
  /\ line = "next"
  /\ \E r \in todo : cur' = {r} /\ line' = "count"
  /\ UNCHANGED <<todo, state, routes, failed>>

\* The next round of the loop, or its end.
NextContainer ==
  /\ line = "next"
  /\ IF todo = {} THEN line' = "done" /\ UNCHANGED <<todo, cur>>
     ELSE \E r \in todo : cur' = {r} /\ todo' = todo \ {r} /\ line' = "count"
  /\ UNCHANGED <<state, routes, failed>>

\* docker stop: requests under way are answered, no new ones are taken.
Stop ==
  /\ Moves("stop", "remove")
  /\ state' = [r \in Replicas |-> IF r \in cur THEN "stopped" ELSE state[r]]
  /\ UNCHANGED <<todo, cur, routes, failed>>

Remove ==
  /\ Moves("remove", "spare")
  /\ state' = [r \in Replicas |-> IF r \in cur THEN "absent" ELSE state[r]]
  /\ UNCHANGED <<todo, cur, routes, failed>>

\* docker compose up --no-deps --scale: what is missing is created.
Start ==
  /\ Moves("start", "ready")
  /\ Started(In({"absent", "stopped"}))
  /\ UNCHANGED <<todo, cur, failed>>

Script ==
  \/ Begin \/ Up
  \/ WaitHealthy("allUp", All, "proxyUp", "refused")
  \/ WaitProxy("proxyUp", "list", "refused")
  \/ List
  \/ NextContainer
  \/ WaitHealthy("count", All, "stop", "aborted")
  \/ Stop \/ Remove
  \/ WaitHealthy("spare", All - 1, "start", "spareOne")
  \/ WaitHealthy("spareOne", 1, "start", "aborted")
  \/ Start
  \/ WaitHealthy("ready", All, "proxy", "aborted")
  \/ WaitProxy("proxy", "next", "aborted")

---------------------------------------------------------------------------
(* Containers and proxy *)

Becomes(r, from, to) == state[r] \in from /\ state' = [state EXCEPT ![r] = to]

\* The first health check that succeeds; it comes an interval after the start,
\* by when the proxy has looked up the container's address.
Healthy(r) ==
  /\ r \in routes
  /\ Becomes(r, {"starting", "sick", "unhealthy"}, "healthy")
  /\ UNCHANGED <<line, todo, cur, routes, failed>>

\* The process ends and is restarted, or stops answering.
Fails(r) ==
  /\ \/ Becomes(r, {"healthy", "sick", "unhealthy"}, "starting")
     \/ Becomes(r, {"healthy"}, "sick")
  /\ failed' = TRUE
  /\ UNCHANGED <<line, todo, cur, routes>>

\* Its health checks have failed as often as they may.
Unhealthy(r) ==
  /\ Becomes(r, {"starting", "sick"}, "unhealthy")
  /\ UNCHANGED <<line, todo, cur, routes, failed>>

\* The proxy looks up the addresses of the service.
Lookup ==
  /\ routes' = In(States \ {"absent", "stopped"})
  /\ UNCHANGED <<line, todo, cur, state, failed>>

RUNext == Script \/ Lookup \/ \E r \in Replicas : Healthy(r) \/ Fails(r) \/ Unhealthy(r)

RUSpec == RUInit /\ [][RUNext]_RUvars

\* Every command of the script returns: each of its waits is bounded.
RUFairSpec == RUSpec /\ WF_RUvars(Script)

---------------------------------------------------------------------------

\* Once the loop has begun the proxy always has a container that answers, unless
\* one has failed by itself since the script last saw all of them healthy: the
\* script never takes the last one away (scripts/rolling_update.sh:76).
TrafficServed == line \in Loop /\ ~failed => routes \cap In({"healthy"}) # {}

\* The script ends, whatever becomes of the containers.
UpdateEnds == <>(line \in {"done", "aborted", "refused"})

---------------------------------------------------------------------------
(* Why it holds: the inductive strengthening *)

\* The last full count was of containers that answered.
Noticed == In({"sick"}) # {} => failed

\* A container that has been healthy is known to the proxy.
Known == In({"healthy", "sick"}) \subseteq routes

\* Who is healthy, unless a container has failed.
Others ==
  line \in Loop \cup {"proxyUp", "list"} =>
    \/ failed
    \/ (IF line \in {"remove", "spare", "spareOne", "start", "ready", "aborted"}
        THEN Replicas \ cur ELSE Replicas) \subseteq In({"healthy"})

\* The loop runs with two replicas or more.
Enough == line \notin {"begin", "refused"} => All >= 2

RUInv == RUTypeOK /\ Noticed /\ Known /\ Others /\ Enough

---------------------------------------------------------------------------
(* Why the script ends: what every command of it takes away *)

\* The commands that are left to the end of a round, or to its first round.
Place ==
  [next |-> 1, proxy |-> 2, ready |-> 3, start |-> 4, spareOne |-> 5, spare |-> 6,
   remove |-> 7, stop |-> 8, count |-> 9, done |-> 0, aborted |-> 0, refused |-> 0,
   list |-> 9 * All + 2, proxyUp |-> 9 * All + 3, allUp |-> 9 * All + 4,
   up |-> 9 * All + 5, begin |-> 9 * All + 6]

\* The commands that the script can still run: nine for each container on its
\* list, and those of the round that it is in.
Left == 9 * Cardinality(todo) + Place[line]

\* The script runs nine commands for each container and six besides at most: no
\* command repeats a round, and nothing that befalls the containers adds to them
\* (scripts/rolling_update.sh:70).
ScriptShortens == [][IF UNCHANGED line THEN Left' = Left ELSE Left' < Left]_RUvars
============================================================================
