---------------------------- MODULE Registration ----------------------------
(***************************************************************************)
(* POST /auth/register, statement by statement: the look for the address   *)
(* and the insert in one transaction of READ COMMITTED, the answer, the    *)
(* background task that queues the welcome notification, and the commit,   *)
(* which `get_db' makes last, when the answer has been sent and its        *)
(* background task has run.  Beside it the worker that runs the            *)
(* notification, the administrators who deactivate accounts, and the       *)
(* clients that use the access tokens they were given until these expire.  *)
(*                                                                         *)
(* A registration's identity is also the id of the user it makes.  The     *)
(* unique index on users.email makes an insert wait for an uncommitted row *)
(* of the same address and fails it once that row is committed.            *)
(***************************************************************************)
EXTENDS FiniteSets

CONSTANTS Registrations,  \* the calls of POST /auth/register
          Emails,         \* the lower-cased addresses they name
          Nobody          \* not a registration

ASSUME NobodyAssumption == Nobody \notin Registrations

VARIABLES pc,      \* the next step of each registration
          email,   \* the address it names
          answer,  \* the answer that has been sent
          task,    \* its notification, from the broker to the worker
          active,  \* the column is_active of the user it makes
          told     \* what GET /auth/me last told the client that registered

vars == <<pc, email, answer, task, active, told>>

Working == {"select", "insert", "respond", "queue", "commit"}
Ended   == {"saved", "gone"}

TypeOK ==
  /\ pc \in [Registrations -> Working \cup Ended]
  /\ email \in [Registrations -> Emails]
  /\ answer \in [Registrations -> {"none", "created", "taken", "error"}]
  /\ task \in [Registrations -> {"none", "queued", "running", "over"}]
  /\ active \in [Registrations -> BOOLEAN]
  /\ told \in [Registrations -> {"nothing", "found", "missing", "expired"}]

\* The committed rows of the table `users'.
Saved == {r \in Registrations : pc[r] = "saved"}

\* A registration's own insert, not yet committed: others of its address wait.
Holds(r) == pc[r] \in {"respond", "queue", "commit"}

Same(r) == {q \in Registrations \ {r} : email[q] = email[r]}

At(r, from, to) == pc[r] = from /\ pc' = [pc EXCEPT ![r] = to]

Answers(r, a) == answer' = [answer EXCEPT ![r] = a]

\* Every registration has been sent; each begins when its first step is taken.
Init ==
  /\ pc = [r \in Registrations |-> "select"]
  /\ email \in [Registrations -> Emails]
  /\ answer = [r \in Registrations |-> "none"]
  /\ task = [r \in Registrations |-> "none"]
  /\ active = [r \in Registrations |-> TRUE]
  /\ told = [r \in Registrations |-> "nothing"]

\* Mutant: a look that sees rows not yet committed.
SelectDirty(r) ==
  /\ IF \A q \in Same(r) : ~Holds(q) /\ q \notin Saved
     THEN At(r, "select", "insert") /\ UNCHANGED answer
     ELSE At(r, "select", "gone") /\ Answers(r, "taken")
  /\ UNCHANGED <<email, task, active, told>>

\* get_by_email: a statement sees what was committed before it began.
Select(r) ==
  /\ IF Same(r) \cap Saved = {} THEN /\ At(r, "select", "insert")
                                     /\ UNCHANGED answer
                                ELSE /\ At(r, "select", "gone")
                                     /\ Answers(r, "taken")
  /\ UNCHANGED <<email, task, active, told>>

\* Mutant: no unique index on the address.
InsertFreely(r) ==
  /\ At(r, "insert", "respond")
  /\ UNCHANGED <<email, answer, task, active, told>>

\* Mutant: a table that is read and then locked: each waits for who has read.
InsertAfterReaders(r) ==
  /\ \A q \in Same(r) : ~Holds(q) /\ pc[q] # "insert"
  /\ At(r, "insert", "respond")
  /\ UNCHANGED <<email, answer, task, active, told>>

\* The flush of UserRepository.create.  An IntegrityError has no handler of its
\* own: the transaction is rolled back and the answer is 500.
Insert(r) ==
  /\ \A q \in Same(r) : ~Holds(q)
  /\ IF Same(r) \cap Saved = {} THEN /\ At(r, "insert", "respond")
                                     /\ UNCHANGED answer
                                ELSE /\ At(r, "insert", "gone")
                                     /\ Answers(r, "error")
  /\ UNCHANGED <<email, task, active, told>>

\* 201, with the tokens of a user that nobody else can see yet.
Respond(r) ==
  /\ At(r, "respond", "queue")
  /\ Answers(r, "created")
  /\ UNCHANGED <<email, task, active, told>>

\* send_notification.delay, in a thread of the pool.
Queue(r) ==
  /\ At(r, "queue", "commit")
  /\ task' = [task EXCEPT ![r] = "queued"]
  /\ UNCHANGED <<email, answer, active, told>>

\* Mutant: the exception is swallowed, and the request goes on.
QueueFailsQuietly(r) ==
  /\ At(r, "queue", "commit")
  /\ UNCHANGED <<email, answer, task, active, told>>

\* The broker does not confirm, whether it has the message or not: the exception
\* leaves the background task through get_db, which rolls back.
QueueFails(r) ==
  /\ At(r, "queue", "gone")
  /\ task' \in {task, [task EXCEPT ![r] = "queued"]}
  /\ UNCHANGED <<email, answer, active, told>>

\* The end of get_db.
Commit(r) ==
  /\ At(r, "commit", "saved")
  /\ UNCHANGED <<email, answer, task, active, told>>

\* A statement or the commit fails, or the process dies, each with the requests
\* it has: the transaction is rolled back.  A 500 for it is not told from no
\* answer here: "error" is the answer to a violated index alone.
Fail(r) ==
  /\ pc[r] \in Working
  /\ pc' = [pc EXCEPT ![r] = "gone"]
  /\ UNCHANGED <<email, answer, task, active, told>>

\* A worker takes a message, which the broker then forgets.
Take(r) ==
  /\ task[r] = "queued"
  /\ task' = [task EXCEPT ![r] = "running"]
  /\ UNCHANGED <<pc, email, answer, active, told>>

\* The task has been run, or its process has died with it: nobody asks which.
SendNotification(r) ==
  /\ task[r] = "running"
  /\ task' = [task EXCEPT ![r] = "over"]
  /\ UNCHANGED <<pc, email, answer, active, told>>

\* PATCH /admin/users/{id} of an administrator with is_active (AdminUsers has the
\* request itself).
SetActive(r) ==
  /\ r \in Saved
  /\ active' = [active EXCEPT ![r] = ~@]
  /\ UNCHANGED <<pc, email, answer, task, told>>

\* GET /auth/me with the access token of the answer.  Once the token has expired, at
\* a time that is left open, it is answered 401 and for good.
MeExpired(r) ==
  /\ answer[r] = "created"
  /\ told' = [told EXCEPT ![r] = "expired"]
  /\ UNCHANGED <<pc, email, answer, task, active>>

\* Mutant: the user is looked for in the session that made it.
MeInSession(r) ==
  /\ answer[r] = "created" /\ told[r] # "expired"
  /\ told' = [told EXCEPT ![r] =
       IF (r \in Saved \/ Holds(r)) /\ active[r] THEN "found" ELSE "missing"]
  /\ UNCHANGED <<pc, email, answer, task, active>>

\* Before that, the user is looked for: 200, or 404 if it is not there or not active.
Me(r) ==
  /\ answer[r] = "created" /\ told[r] # "expired"
  /\ told' = [told EXCEPT ![r] = IF r \in Saved /\ active[r] THEN "found"
                                                         ELSE "missing"]
  /\ UNCHANGED <<pc, email, answer, task, active>>

\* What the API and the worker do of themselves.
Step(r) ==
  \/ Select(r) \/ Insert(r) \/ Respond(r) \/ Queue(r) \/ QueueFails(r)
  \/ Commit(r)

Work(r) == Take(r) \/ SendNotification(r)

Next == \E r \in Registrations :
  \/ Step(r) \/ Fail(r)
  \/ Work(r)
  \/ SetActive(r) \/ Me(r) \/ MeExpired(r)

Spec == Init /\ [][Next]_vars

\* The event loop runs every request that can run, and a worker the tasks.
FairSpec == Spec /\ \A r \in Registrations : WF_vars(Step(r)) /\ WF_vars(Work(r))

---------------------------------------------------------------------------
(* Safety *)

\* An address has at most one account, committed or being made, however the
\* looks and the inserts of its registrations overlap.
OneAccount == \A r, q \in Registrations :
  /\ email[r] = email[q]
  /\ r \in Saved \/ Holds(r)
  /\ q \in Saved \/ Holds(q)
  => r = q

\* The welcome notification is queued for every account: a commit comes after.
SavedIsQueued == \A r \in Saved : task[r] # "none" /\ answer[r] = "created"

\* Nobody is welcomed who was not told to be registered.
NotifiedWasAnswered == \A r \in Registrations :
  task[r] # "none" => answer[r] = "created"

\* After a token was accepted, the user is missing (404) only because it has been
\* deactivated: an account that was found once is never rolled back, whenever the
\* client asks and whatever fails.  The other refusal is that the token expires (401).
AcceptedUnlessDeactivated ==
  [][\A r \in Registrations :
       told[r] = "found" /\ told'[r] = "missing" => r \in Saved /\ ~active[r]]_vars

\* Registrations implement the claims of EmailClaims.
Owner == [e \in Emails |->
  IF \E r \in Saved : email[r] = e THEN CHOOSE r \in Saved : email[r] = e
                                   ELSE Nobody]

Outcome == [r \in Registrations |->
  CASE r \in Saved                     -> "created"
    [] answer[r] \in {"taken", "error"} -> "refused"
    [] pc[r] = "gone" /\ answer[r] \in {"none", "created"} -> "failed"
    [] OTHER                           -> "pending"]

Claims == INSTANCE EmailClaims
  WITH address <- email, owner <- Owner, outcome <- Outcome
ImplementsClaims == Claims!Spec

---------------------------------------------------------------------------
(* Liveness *)

\* A registration ends, whoever holds its address.
RegistrationsEnd == \A r \in Registrations : <>(pc[r] \in Ended)

---------------------------------------------------------------------------
(* Why they hold: the inductive strengthening *)

\* What has been sent at each step of a registration.
AnsweredBy == \A r \in Registrations :
  /\ pc[r] \in {"select", "insert", "respond"} => answer[r] = "none"
  /\ pc[r] \in {"queue", "commit", "saved"} => answer[r] = "created"
  /\ pc[r] \in {"commit", "saved"} => task[r] # "none"

\* A registration is refused because of an account.
RefusedForAccount == \A r \in Registrations :
  answer[r] \in {"taken", "error"} => /\ pc[r] = "gone"
                                      /\ Same(r) \cap Saved # {}

\* Who was found is saved.
FoundIsSaved == \A r \in Registrations : told[r] = "found" => r \in Saved

IInv == /\ TypeOK
        /\ OneAccount
        /\ AnsweredBy
        /\ RefusedForAccount
        /\ NotifiedWasAnswered
        /\ FoundIsSaved
=============================================================================
