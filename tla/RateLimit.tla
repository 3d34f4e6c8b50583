----------------------------- MODULE RateLimit -----------------------------
(***************************************************************************)
(* RateLimitMiddleware: every request under /api/v1 reads the clock, adds  *)
(* one to the counter of its client and minute in Redis, gives a new       *)
(* counter a time to live, and then passes or is refused.  The three steps *)
(* are separate awaits of many API processes; Redis or a process may fail  *)
(* between them, and keys expire by Redis' own clock.                      *)
(***************************************************************************)
EXTENDS FiniteSets, Naturals

CONSTANTS Clients,   \* the addresses get_client_ip yields
          Requests,  \* the requests of a behaviour
          Limit,     \* rate_limit_per_minute
          Minute,    \* the ticks of a window, and of a counter's life
          PoolSize,  \* max_connections of the Redis pool
          Horizon    \* bound on the clock

ASSUME RateAssumption == /\ Limit \in Nat
                         /\ Minute \in Nat \ {0}
                         /\ PoolSize \in Nat
                         /\ Horizon \in Nat

Never == Horizon + Minute + 1  \* the expiry time of a key without one

Windows == 0 .. Horizon \div Minute
Keys == Clients \X Windows

VARIABLES
  now,       \* the clock of the API processes and of Redis
  redis,     \* whether Redis answers
  count,     \* the counters; 0 where there is no key
  expires,   \* when each counter expires
  pc,        \* what a request does next, or how it ended
  key,       \* the key a request has computed
  value,     \* what INCR returned to it; 0 before
  late       \* requests whose INCR came after the end of their window

vars == <<now, redis, count, expires, pc, key, value, late>>

---------------------------------------------------------------------------

Window(t) == t \div Minute

\* Mutants: off by one, either way.
VerdictOffByOne(n) == IF n > Limit + 1 THEN "limited" ELSE "passed"
VerdictTooStrict(n) == IF n >= Limit THEN "limited" ELSE "passed"

Verdict(n) == IF n > Limit THEN "limited" ELSE "passed"

\* The request computes its key.
Arrive(r, c) ==
  /\ pc[r] = "idle"
  /\ pc' = [pc EXCEPT ![r] = "incr"]
  /\ key' = [key EXCEPT ![r] = <<c, Window(now)>>]
  /\ UNCHANGED <<now, redis, count, expires, value, late>>

\* Mutant: the life is set with the second request.
FirstOffByOne(n) == n = 2

\* The counter is new.
First(n) == n = 1

\* INCR, and the verdict unless the counter is new.
Incr(r) ==
  LET k == key[r]
      n == count[k] + 1
  IN /\ pc[r] = "incr"
     /\ redis
     /\ count' = [count EXCEPT ![k] = n]
     /\ value' = [value EXCEPT ![r] = n]
     /\ late' = IF Window(now) = k[2] THEN late ELSE late \cup {r}
     /\ pc' = [pc EXCEPT ![r] = IF First(n) THEN "expire" ELSE Verdict(n)]
     /\ UNCHANGED <<now, redis, expires, key>>

\* Mutant: the counter lives for one tick.
ExpireEarly(r) ==
  /\ pc[r] = "expire"
  /\ redis
  /\ expires' = [expires EXCEPT ![key[r]] = now + 1]
  /\ pc' = [pc EXCEPT ![r] = Verdict(value[r])]
  /\ UNCHANGED <<now, redis, count, key, value, late>>

\* EXPIRE, a minute from now, and the verdict.
Expire(r) ==
  /\ pc[r] = "expire"
  /\ redis
  /\ expires' = [expires EXCEPT ![key[r]] = now + Minute]
  /\ pc' = [pc EXCEPT ![r] = Verdict(value[r])]
  /\ UNCHANGED <<now, redis, count, key, value, late>>

\* The pool does not wait for a free connection: it raises when the requests
\* of a process hold them all.
PoolExhausted(r) ==
  Cardinality({q \in Requests \ {r} : pc[q] \in {"incr", "expire"}}) >= PoolSize

\* Any error of Redis or its pool is answered with 503.
Unavailable(r) ==
  /\ pc[r] \in {"incr", "expire"}
  /\ ~redis \/ PoolExhausted(r)
  /\ pc' = [pc EXCEPT ![r] = "unavailable"]
  /\ UNCHANGED <<now, redis, count, expires, key, value, late>>

\* The API process dies with the request.
Crash(r) ==
  /\ pc[r] \in {"incr", "expire"}
  /\ pc' = [pc EXCEPT ![r] = "lost"]
  /\ UNCHANGED <<now, redis, count, expires, key, value, late>>

\* Redis stops answering; its keys stay.
RedisStops ==
  /\ redis
  /\ redis' = FALSE
  /\ UNCHANGED <<now, count, expires, pc, key, value, late>>

RedisResumes ==
  /\ ~redis
  /\ redis' = TRUE
  /\ UNCHANGED <<now, count, expires, pc, key, value, late>>

\* Time passes and counters expire.
Tick ==
  /\ now < Horizon
  /\ now' = now + 1
  /\ count' = [k \in Keys |-> IF expires[k] <= now' THEN 0 ELSE count[k]]
  /\ expires' = [k \in Keys |-> IF expires[k] <= now' THEN Never
                                                      ELSE expires[k]]
  /\ UNCHANGED <<redis, pc, key, value, late>>

Init ==
  /\ now = 0
  /\ redis \in BOOLEAN
  /\ count = [k \in Keys |-> 0]
  /\ expires = [k \in Keys |-> Never]
  /\ pc = [r \in Requests |-> "idle"]
  /\ key \in [Requests -> {k \in Keys : k[2] = 0}]
  /\ \A r, q \in Requests : key[r] = key[q]
  /\ value = [r \in Requests |-> 0]
  /\ late = {}

Next ==
  \/ \E r \in Requests :
       \/ \E c \in Clients : Arrive(r, c)
       \/ Incr(r) \/ Expire(r) \/ Unavailable(r) \/ Crash(r)
  \/ RedisStops \/ RedisResumes \/ Tick

Spec == Init /\ [][Next]_vars

---------------------------------------------------------------------------
(* Properties *)

\* Every variable keeps its type; a counter that expires does so within the
\* next minute.
TypeOK ==
  /\ now \in 0..Horizon
  /\ redis \in BOOLEAN
  /\ count \in [Keys -> Nat]
  /\ expires \in [Keys -> ((now + 1)..(now + Minute)) \cup {Never}]
  /\ pc \in [Requests -> {"idle", "incr", "expire", "passed", "limited",
                          "unavailable", "lost"}]
  /\ key \in [Requests -> Keys]
  /\ value \in [Requests -> Nat]
  /\ late \in SUBSET Requests

\* At most Limit requests of a client pass in one minute, however their steps
\* interleave and whatever fails, not counting those whose INCR was delayed
\* beyond that minute (which may find their counter expired).
Passed(k) == {r \in Requests : pc[r] = "passed" /\ key[r] = k /\ r \notin late}

AtMostLimit == \A k \in Keys : Cardinality(Passed(k)) <= Limit

\* A client is refused only after Limit other requests of its own in the same
\* minute: a fault of another client or an earlier minute never counts.
LimitedOnlyByOwn ==
  \A r \in Requests : pc[r] = "limited" =>
    Cardinality({q \in Requests \ {r} : value[q] > 0 /\ key[q] = key[r]})
      >= Limit

\* A counter without a time to live is about to get one, or the request that
\* had to give it one has failed.  (Then it stays in Redis for good.)
CountersExpire ==
  \A k \in Keys : count[k] > 0 /\ expires[k] = Never =>
    \E r \in Requests : /\ key[r] = k /\ value[r] = 1
                        /\ pc[r] \in {"expire", "lost", "unavailable"}

---------------------------------------------------------------------------
(* Why the limit holds: the inductive strengthening *)

\* While its window lasts, a counter does not expire, and it has counted all
\* the requests that were on time.
Counted(r) == value[r] > 0 /\ r \notin late

CountsAll ==
  /\ \A k \in Keys : expires[k] >= (k[2] + 1) * Minute
  /\ \A r \in Requests : Counted(r) /\ Window(now) <= key[r][2]
                           => value[r] <= count[key[r]]

\* A request counts in the window it has read from the clock, which is never
\* in the future; it has a number once it has been counted.
Numbered ==
  \A r \in Requests :
    /\ key[r][2] <= Window(now)
    /\ pc[r] \in {"idle", "incr"} => value[r] = 0
    /\ pc[r] \in {"expire", "passed"} => value[r] > 0
    /\ pc[r] = "passed" => value[r] <= Limit

\* Requests counted on time under one key have different numbers.
Distinct ==
  \A r, q \in Requests :
    Counted(r) /\ Counted(q) /\ key[r] = key[q] /\ value[r] = value[q]
      => r = q

IInv == TypeOK /\ CountsAll /\ Numbered /\ Distinct
============================================================================
