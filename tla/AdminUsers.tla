---------------------------- MODULE AdminUsers ----------------------------
(***************************************************************************)
(* The admin API's mutations of users, PATCH /admin/users/{id} and         *)
(* POST /admin/users/{id}/reset-password, as concurrent transactions.      *)
(*                                                                         *)
(* One step is one statement a request sends to PostgreSQL (READ           *)
(* COMMITTED), or its response, or its commit.  What a request has written *)
(* but not committed is kept with the request; the row lock its UPDATE     *)
(* takes lasts until the request ends.  FastAPI runs the code of get_db    *)
(* after its `yield', hence the commit, once the response has been sent.   *)
(***************************************************************************)
EXTENDS FiniteSets, Naturals

CONSTANTS Users,     \* the e-mail addresses that have, or may get, a row
          Requests,  \* request slots: how many requests a behaviour has
          Inputs,    \* the admin requests that clients may send
          NoRequest  \* the input of a slot whose request has not arrived

Flags == {"active", "admin"}

\* X-Request-ID as sent: absent, at most 64 characters, 65 to 128, longer.
Headers == {"absent", "short", "over64", "over128"}

\* A request body: the flags a PATCH sets and the flags it clears
\* (is_active = null and role = null leave a flag out of both).
Input == [actor : Users, kind : {"update", "reset"}, target : Users,
          set : SUBSET Flags, clear : SUBSET Flags, header : Headers]

ASSUME UsersFinite == IsFiniteSet(Users)

ASSUME InputsWellFormed ==
  /\ Inputs \subseteq Input
  /\ \A q \in Inputs : /\ q.set \cap q.clear = {}
                       /\ q.kind = "reset" => q.set \cup q.clear = {}

ASSUME NoRequestIsNoInput == NoRequest \notin Inputs

ASSUME MarkersAreNoRequests == {"initial", "nothing"} \cap Requests = {}

VARIABLES
  \* committed tables
  accounts,   \* the users that have a row
  flags,      \* the is_active and role columns of each row
  password,   \* the reset that set hashed_password, or "initial"
  audit,      \* the rows of audit_logs: which request, and what it said
  \* requests
  pc,         \* what the request does next
  req,        \* the request
  seen,       \* the target's flags as loaded into the session
  \* the create_admin script
  script,     \* what it will write after its lookup, or <<>>
  \* history
  stale,      \* requests in whose time flags changed under what they read
  shown       \* per user, the last reset whose temporary password was shown

tables == <<accounts, flags, password, audit>>
vars == <<tables, pc, req, seen, script, stale, shown>>

---------------------------------------------------------------------------
(* Helpers *)

ActiveAdmins == {u \in Users : flags[u] = Flags}

Running  == {"load", "count", "write", "audit", "respond", "commit"}
Finished == {"committed", "nothing", "rejected", "lost"}

IsSelf(r) == req[r].target = req[r].actor

\* The session holds the target's row.  An actor that is its own target was
\* loaded by get_current_user; the identity map returns the same object.
HasRead(r) == \/ pc[r] \in {"count", "write", "audit", "respond", "commit"}
              \/ pc[r] = "load" /\ IsSelf(r)

\* Mutants: values tested for truth instead of for None; the whole row
\* written instead of the changed columns.
ClearsTruthy(r)   == (req[r].clear \cap seen[r]) \ {"active"}
ClearsWholeRow(r) == (Flags \ (seen[r] \cup req[r].set)) \cup req[r].clear

\* The unit of work emits only columns that differ from the loaded row.
Sets(r)   == req[r].set \ seen[r]
Clears(r) == req[r].clear \cap seen[r]

\* The row as the request means to leave it.
Projected(r) == (seen[r] \cup req[r].set) \ req[r].clear

EmitsUpdate(r) == \/ req[r].kind = "reset"
                  \/ Sets(r) \cup Clears(r) # {}

\* Mutant: the UPDATE is left to the commit instead of being flushed.
HoldsUnflushed(r, u) == FALSE

\* r's UPDATE has locked the row of u.
Holds(r, u) == /\ pc[r] \in {"audit", "respond", "commit"}
               /\ req[r].target = u
               /\ EmitsUpdate(r)

RowFree(u) == \A r \in Requests : ~Holds(r, u)

\* normalize_request_id replaces an absent or too long id by a UUID; the
\* audit_logs.request_id column then takes at most 64 characters.
Normalized(h) == IF h \in {"absent", "over128"} THEN "uuid" ELSE h
FitsColumn(id) == id # "over64"

\* Every running request but r that has read its target now works on old
\* data if flags change.
GoStale(r) == stale' = IF flags' = flags THEN stale
                       ELSE stale \cup {q \in Requests \ {r} : HasRead(q)}

Goto(r, l) == pc' = [pc EXCEPT ![r] = l]

---------------------------------------------------------------------------
(* The steps of a request *)

\* get_current_user and require_admin: the actor's row is selected once, at
\* the start.  A missing, inactive or non-admin actor ends the request.
Authenticate(r) ==
  /\ pc[r] = "idle"
  /\ \E q \in Inputs :
       \/ /\ q.actor \in accounts
          /\ flags[q.actor] = Flags
          /\ Goto(r, "load")
          /\ req' = [req EXCEPT ![r] = q]
          /\ seen' = [seen EXCEPT ![r] = IF q.target = q.actor
                                         THEN flags[q.actor] ELSE {}]
       \/ /\ q.actor \notin accounts \/ flags[q.actor] # Flags
          /\ Goto(r, "rejected")
          /\ UNCHANGED <<req, seen>>
  /\ UNCHANGED <<tables, script, stale, shown>>

\* Mutant: only the role is guarded.
SelfGuardRoleOnly(r) == IsSelf(r) => "admin" \notin req[r].clear

\* The own-account guards: an admin may neither deactivate nor demote itself.
SelfGuard(r) == IsSelf(r) => req[r].clear = {}

\* get_by_id, then the guards that need no further query.  A PATCH without
\* fields ends here with 200 and an unchanged row.
Load(r) ==
  /\ pc[r] = "load"
  /\ IF req[r].target \in accounts
     THEN /\ seen' = [seen EXCEPT ![r] = IF IsSelf(r) THEN @
                                         ELSE flags[req[r].target]]
          /\ \/ req[r].kind = "reset" /\ Goto(r, "write")
             \/ /\ req[r].kind = "update"
                /\ Goto(r, IF ~SelfGuard(r) THEN "rejected"
                           ELSE IF req[r].set \cup req[r].clear = {}
                                THEN "nothing" ELSE "count")
     ELSE Goto(r, "rejected") /\ UNCHANGED seen
  /\ UNCHANGED <<tables, req, script, stale, shown>>

\* Mutants: the count is taken as it is; only role changes correct it.
CountBefore(r) == Cardinality(ActiveAdmins)
RoleOnlyCountAfter(r) ==
  IF "admin" \in seen[r] /\ "admin" \in req[r].clear
  THEN Cardinality(ActiveAdmins) - 1 ELSE Cardinality(ActiveAdmins)

\* _active_admin_count_after: one COUNT over the committed table, corrected
\* by what the loaded row says the request changes.
ActiveAdminCountAfter(r) ==
  LET count == Cardinality(ActiveAdmins)
      was   == seen[r] = Flags
      will  == Projected(r) = Flags
  IN  IF was /\ ~will THEN count - 1
      ELSE IF ~was /\ will THEN count + 1 ELSE count

Count(r) ==
  /\ pc[r] = "count"
  /\ Goto(r, IF ActiveAdminCountAfter(r) < 1 THEN "rejected" ELSE "write")
  /\ UNCHANGED <<tables, req, seen, script, stale, shown>>

\* update_fields: flush sends the UPDATE, if one is needed, and waits for the
\* row lock.
Write(r) ==
  /\ pc[r] = "write"
  /\ EmitsUpdate(r) => RowFree(req[r].target)
  /\ Goto(r, "audit")
  /\ UNCHANGED <<tables, req, seen, script, stale, shown>>

\* Mutant: the audit row's reference to its actor waits for the actor's row.
AuditLocksActor(r) ==
  /\ pc[r] = "audit"
  /\ \A q \in Requests \ {r} : ~Holds(q, req[r].actor)
  /\ Goto(r, IF FitsColumn(Normalized(req[r].header)) THEN "respond"
                                                      ELSE "rejected")
  /\ UNCHANGED <<tables, req, seen, script, stale, shown>>

\* audit.record inserts the audit row in the same transaction.  A value its
\* column cannot take is a database error: rollback, status 500.
Audit(r) ==
  /\ pc[r] = "audit"
  /\ Goto(r, IF FitsColumn(Normalized(req[r].header)) THEN "respond"
                                                      ELSE "rejected")
  /\ UNCHANGED <<tables, req, seen, script, stale, shown>>

\* The 200 response; for a reset it carries the temporary password.
Respond(r) ==
  /\ pc[r] = "respond"
  /\ Goto(r, "commit")
  /\ shown' = IF req[r].kind = "reset"
              THEN [shown EXCEPT ![req[r].target] = r] ELSE shown
  /\ UNCHANGED <<tables, req, seen, script, stale>>

\* get_db resumes after its yield and commits.
Commit(r) ==
  LET t == req[r].target
  IN /\ pc[r] = "commit"
     /\ flags' = [flags EXCEPT ![t] = (@ \cup Sets(r)) \ Clears(r)]
     /\ password' = IF req[r].kind = "reset"
                    THEN [password EXCEPT ![t] = r] ELSE password
     /\ audit' = audit \cup {<<r, req[r]>>}
     /\ GoStale(r)
     /\ Goto(r, "committed")
     /\ UNCHANGED <<accounts, req, seen, script, shown>>

\* The API process or its connection dies: PostgreSQL rolls back.
Crash(r) ==
  /\ pc[r] \in Running
  /\ Goto(r, "lost")
  /\ UNCHANGED <<tables, req, seen, script, stale, shown>>

---------------------------------------------------------------------------
(* Other writers of the table *)

\* POST /auth/register commits a new active user with the default role.
Register(u) ==
  /\ u \notin accounts
  /\ accounts' = accounts \cup {u}
  /\ flags' = [flags EXCEPT ![u] = {"active"}]
  /\ stale' = stale
  /\ UNCHANGED <<password, audit, pc, req, seen, script, shown>>

\* create_admin looks the e-mail up; an admin, even an inactive one, is left
\* as it is.
ScriptLookup(u) ==
  /\ script = <<>>
  /\ script' = IF "admin" \in flags[u] THEN <<>>
               ELSE <<IF u \in accounts THEN "promote" ELSE "create", u>>
  /\ UNCHANGED <<tables, pc, req, seen, stale, shown>>

\* It promotes the row it found; is_active stays as it is.
ScriptPromote(u) ==
  /\ script = <<"promote", u>>
  /\ RowFree(u)
  /\ script' = <<>>
  /\ flags' = [flags EXCEPT ![u] = @ \cup {"admin"}]
  /\ stale' = stale \cup {q \in Requests : HasRead(q)}
  /\ UNCHANGED <<accounts, password, audit, pc, req, seen, shown>>

\* Or it inserts an active admin; the insert fails on the unique e-mail if a
\* registration came first.
ScriptCreate(u) ==
  /\ script = <<"create", u>>
  /\ script' = <<>>
  /\ accounts' = accounts \cup {u}
  /\ flags' = IF u \in accounts THEN flags ELSE [flags EXCEPT ![u] = Flags]
  /\ stale' = stale \cup {q \in Requests : HasRead(q)}
  /\ UNCHANGED <<password, audit, pc, req, seen, shown>>

---------------------------------------------------------------------------

\* Any table an installation with an administrator can have; no request yet.
Init ==
  /\ accounts \in SUBSET Users
  /\ flags \in [Users -> SUBSET Flags]
  /\ \A u \in Users \ accounts : flags[u] = {}
  /\ ActiveAdmins # {}
  /\ password = [u \in Users |-> "initial"]
  /\ audit = {}
  /\ pc = [r \in Requests |-> "idle"]
  /\ req = [r \in Requests |-> NoRequest]
  /\ seen = [r \in Requests |-> {}]
  /\ script = <<>>
  /\ stale = {}
  /\ shown = [u \in Users |-> "nothing"]

Step(r) == \/ Load(r) \/ Count(r) \/ Write(r) \/ Audit(r)
           \/ Respond(r) \/ Commit(r)

Next ==
  \/ \E r \in Requests : Authenticate(r) \/ Step(r) \/ Crash(r)
  \/ \E u \in Users : \/ Register(u) \/ ScriptLookup(u)
                      \/ ScriptPromote(u) \/ ScriptCreate(u)

Spec == Init /\ [][Next]_vars

\* A request that has arrived is scheduled by the event loop until it ends,
\* and PostgreSQL grants a free row lock to its waiter.
FairSpec == Spec /\ \A r \in Requests : WF_vars(Step(r))

---------------------------------------------------------------------------
(* Properties *)

\* Every variable keeps its type.
TypeOK ==
  /\ accounts \in SUBSET Users
  /\ flags \in [Users -> SUBSET Flags]
  /\ password \in [Users -> Requests \cup {"initial"}]
  /\ audit \in SUBSET (Requests \X Inputs)
  /\ pc \in [Requests -> {"idle"} \cup Running \cup Finished]
  /\ req \in [Requests -> Inputs \cup {NoRequest}]
  /\ seen \in [Requests -> SUBSET Flags]
  /\ script \in {<<>>} \cup ({"promote", "create"} \X Users)
  /\ stale \in SUBSET Requests
  /\ shown \in [Users -> Requests \cup {"nothing"}]

\* What the guards do ensure: the last active admin is only ever removed by a
\* request that lost a race, that is, flags changed after it had read its
\* target, and its own actor is no longer an active admin when it commits.
LostInRace ==
  ActiveAdmins # {} /\ ActiveAdmins' = {} =>
    \E r \in Requests : /\ pc[r] = "commit" /\ pc'[r] = "committed"
                        /\ r \in stale
                        /\ req[r].actor \notin ActiveAdmins

LastAdminLostOnlyInRace == [][LostInRace]_vars

\* An administrator's access is only ever taken by the request of another:
\* its own requests, however they overlap, leave it what it has.
LostToAnother ==
  \A a \in ActiveAdmins : a \notin ActiveAdmins' =>
    \E r \in Requests : /\ pc[r] = "commit" /\ pc'[r] = "committed"
                        /\ req[r].target = a
                        /\ req[r].actor # a

AccessLostToAnother == [][LostToAnother]_vars

\* A commit leaves in the row what the PATCH asked for and its audit entry
\* says, unless flags changed since the request read the row (then a column
\* that already had the wanted value is not written again).
AuditedCommit ==
  \A r \in Requests :
    pc[r] = "commit" /\ pc'[r] = "committed" /\ r \notin stale
      => LET t == req[r].target
         IN  flags'[t] = (flags[t] \cup req[r].set) \ req[r].clear

CommitMatchesAudit == [][AuditedCommit]_vars

\* The temporary password last shown for a user is the one that works, once
\* the request that showed it has committed, whatever resets overlap.
ShownPasswordWorks ==
  \A u \in Users : \A r \in Requests :
    shown[u] = r /\ pc[r] = "committed" => password[u] = r

\* The committed tables change as the abstract user table does: atomically
\* with the audit row, in the named columns of the named row only.
UT == INSTANCE UserTable
RefinesUserTable == UT!Spec

---------------------------------------------------------------------------
(* Why they hold: the inductive strengthening *)

AfterLoad  == {"count", "write", "audit", "respond", "commit"}
AfterCount == {"write", "audit", "respond", "commit"}

\* Whoever runs or has committed is a request that arrived.
Arrived == \A r \in Requests :
  pc[r] \in Running \cup {"committed"} => req[r] \in Inputs

\* Only accounts have flags, and only accounts are read or promoted.
RowsExist ==
  /\ \A u \in Users \ accounts : flags[u] = {}
  /\ \A r \in Requests : HasRead(r) => req[r].target \in accounts
  /\ \A u \in Users : script = <<"promote", u>> => u \in accounts

\* Past the guards, a request about its own actor clears nothing.
SelfSafe == \A r \in Requests :
  pc[r] \in AfterLoad /\ IsSelf(r) => req[r].clear = {}

\* What a request has read is still so, or it is stale.
Fresh == \A r \in Requests :
  HasRead(r) /\ r \notin stale => seen[r] = flags[req[r].target]

\* A counted update that is not stale leaves an active admin behind.
OneRemains == \A r \in Requests :
  pc[r] \in AfterCount /\ req[r].kind = "update" /\ r \notin stale
    => \/ Projected(r) = Flags
       \/ \E u \in ActiveAdmins : u # req[r].target

\* At most one request has written to a row and not yet ended.
OneHolder == \A u \in Users : \A r, q \in Requests :
  Holds(r, u) /\ Holds(q, u) => r = q

\* The passwords shown: by whom, and none since by anyone else.
ShownByHolder ==
  /\ \A u \in Users : \A r \in Requests :
       shown[u] = r => /\ pc[r] \in {"commit", "committed", "lost"}
                       /\ req[r].kind = "reset"
                       /\ req[r].target = u
  /\ \A r \in Requests :
       pc[r] = "commit" /\ req[r].kind = "reset" => shown[req[r].target] = r

\* A request has an audit row only once it has committed.
AuditedOnce == \A e \in audit : pc[e[1]] = "committed"

\* The inductive invariant that the theorems of AdminUsersProofs rest on.
IInv == /\ TypeOK
        /\ Arrived
        /\ RowsExist
        /\ SelfSafe
        /\ Fresh
        /\ OneRemains
        /\ OneHolder
        /\ ShownByHolder
        /\ ShownPasswordWorks
        /\ AuditedOnce

---------------------------------------------------------------------------

\* A request that has arrived ends: row locks never form a cycle.
RequestsEnd ==
  \A r \in Requests : pc[r] = "load" ~> pc[r] \in Finished
============================================================================
