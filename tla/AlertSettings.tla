--------------------------- MODULE AlertSettings ---------------------------
(***************************************************************************)
(* The settings of the alerts: the one row of alert_settings, the requests *)
(* that read and change it (GET, PATCH, the test delivery, the monitor's   *)
(* check), and the console page that shows it in a form.                   *)
(*                                                                         *)
(* A request is one transaction under READ COMMITTED.  It loads the row,   *)
(* or inserts it, into its session, changes it there, and a flush writes   *)
(* the columns that differ from what was loaded, under the row's lock.     *)
(* The answer is sent before the commit.                                   *)
(***************************************************************************)
EXTENDS FiniteSets, Integers

CONSTANTS Pages,     \* browser pages that show the settings
          Clients,   \* further requests, of any kind
          Urls,      \* webhook URLs
          Secrets,   \* signing secrets
          Envs,      \* the values that .env may give to both
          Bodies,    \* the PATCH bodies of other clients
          InFlight,  \* bound on the requests under way
          None,      \* NULL, an empty field, no row, no answer
          Keep,      \* a column that a PATCH does not name
          Error      \* an answer that reports an error

Fields == {"url", "secret", "recovery"}

Maybe(S) == S \cup {None}

Row == [url : Maybe(Urls), secret : Maybe(Secrets), recovery : BOOLEAN]
Patch == [url : Urls \cup {None, Keep}, secret : Secrets \cup {None, Keep},
          recovery : BOOLEAN \cup {Keep}]

Loads == Pages \X {"load", "reload"}
Saves == Pages \X {"save"}
Slots == Loads \cup Saves \cup Clients

ASSUME SettingsAssumption ==
  /\ Envs \subseteq [url : Maybe(Urls), secret : Maybe(Secrets)]
  /\ Bodies \subseteq Patch
  /\ InFlight \in Nat
  /\ None \notin Urls \cup Secrets \cup BOOLEAN \cup Row
  /\ Keep \notin Urls \cup Secrets \cup BOOLEAN \cup {None}
  /\ Error \notin Row \cup {None}
  /\ Clients \cap (Loads \cup Saves) = {}
  /\ Pages \cap Slots = {}

VARIABLES
  env,        \* ALERT_WEBHOOK_URL and ALERT_WEBHOOK_SECRET
  stored,     \* the committed row
  req,        \* the requests
  view,       \* per page: "loading", "failed" or "shown", with the form
  form,       \* what the form of a page contains
  edited,     \* the fields the administrator has changed in it
  \* history
  overtaken,  \* requests whose row was changed by others after they read it
  behind      \* pages and saves whose form was filled before the last change

vars == <<env, stored, req, view, form, edited, overtaken, behind>>

---------------------------------------------------------------------------
(* Helpers *)

Points == {"idle", "load", "insert", "post", "write", "refresh", "commit"}

Request == [kind : {"get", "patch", "test", "check"}, pc : Points,
            asked : Patch, named : SUBSET Fields,
            base : Row, row : Row,   \* as the database has it, and as changed
            wrote : SUBSET Fields,   \* the columns written and not committed
            reply : Row \cup {None, Error}]

\* A row that was just inserted: the column defaults.
Default == [url |-> None, secret |-> None, recovery |-> TRUE]

Nothing == [url |-> Keep, secret |-> Keep, recovery |-> Keep]

Fresh(k, asked, named) ==
  [kind |-> k, pc |-> "load", asked |-> asked, named |-> named,
   base |-> Default, row |-> Default, wrote |-> {}, reply |-> None]

Idle == [Fresh("get", Nothing, {}) EXCEPT !.pc = "idle"]

Free(r) == req[r].pc = "idle" /\ req[r].reply = None
Busy == {r \in Slots : ~Free(r)}
Room == Cardinality(Busy) < InFlight

\* The columns of a where named in cols, and of b elsewhere.
Merge(cols, a, b) ==
  [url |-> IF "url" \in cols THEN a.url ELSE b.url,
   secret |-> IF "secret" \in cols THEN a.secret ELSE b.secret,
   recovery |-> IF "recovery" \in cols THEN a.recovery ELSE b.recovery]

\* What request r reads: the committed row and its own changes.
Reads(r) == IF req[r].wrote = {} THEN stored
            ELSE Merge(req[r].wrote, req[r].base, stored)

\* The request that has written the row and not committed, but r.
Locked(r) == \E s \in Slots \ {r} : req[s].wrote # {}

Dirty(r) == {f \in Fields : req[r].row[f] # req[r].base[f]}

Env(field, value) == IF value = None THEN env[field] ELSE value

\* Mutant: whatever the columns hold.
SeedAlways(row) == [row EXCEPT !.url = Env("url", env["url"]),
                               !.secret = Env("secret", env["secret"])]

\* _ensure_settings_row: empty columns are filled from the environment.
Seed(row) == [row EXCEPT !.url = Env("url", @), !.secret = Env("secret", @)]

\* run_check does so only when there is no URL.
SeedForCheck(row) ==
  IF row.url = None /\ env.url # None THEN Seed(row) ELSE row

\* update_settings: the columns that the PATCH names.
Apply(row, asked) ==
  Merge({f \in Fields : asked[f] # Keep}, asked, row)

\* A request that ends without an answer pending, and one that fails.
Rest(r) == [Idle EXCEPT !.reply = req[r].reply]

Refused(r) == [Idle EXCEPT !.reply = IF r \in Clients THEN None ELSE Error]

UnchangedPage == UNCHANGED <<view, form, edited>>
UnchangedHistory == UNCHANGED <<overtaken, behind>>

---------------------------------------------------------------------------
(* A request *)

\* What a request does with the row it has in its session, as it was loaded.
Use(r, row) ==
  CASE req[r].kind = "get" -> [row |-> Seed(row), pc |-> "commit"]
    [] req[r].kind = "patch" ->
         [row |-> Apply(Seed(row), req[r].asked), pc |-> "write"]
    [] req[r].kind = "test" ->
         [row |-> Seed(row),
          pc |-> IF Seed(row).url = None THEN "idle" ELSE "post"]
    [] req[r].kind = "check" ->
         [row |-> SeedForCheck(row),
          pc |-> IF SeedForCheck(row).url = None THEN "commit" ELSE "post"]

\* The answer to a query of a page is sent.
Answer(r, row) == IF r \in Clients THEN None ELSE row

\* The session has the row.  A GET is answered; a test without a URL is
\* refused, and with it whatever the request has done is rolled back.
Take(r, row, wrote) ==
  LET use == Use(r, row)
  IN req' = [req EXCEPT ![r] =
       IF use.pc = "idle" THEN Refused(r)
       ELSE [@ EXCEPT !.base = row, !.row = use.row, !.pc = use.pc, !.wrote = wrote,
                      !.reply = IF req[r].kind = "get" THEN Answer(r, use.row) ELSE None]]

\* session.get
Load(r) ==
  /\ req[r].pc = "load"
  /\ IF stored = None
     THEN req' = [req EXCEPT ![r].pc = "insert"]
     ELSE Take(r, stored, {})
  /\ overtaken' = overtaken \ {r}
  /\ UNCHANGED <<env, stored, behind>>
  /\ UnchangedPage

\* The INSERT of get_or_create waits for another one, and fails if that one
\* is committed: of two that create the row at once one is answered 500.
Insert(r) ==
  /\ req[r].pc = "insert"
  /\ ~Locked(r)
  /\ IF stored = None
     THEN Take(r, Default, Fields)
     ELSE req' = [req EXCEPT ![r] = Refused(r)]
  /\ UNCHANGED <<env, stored>>
  /\ UnchangedPage
  /\ UnchangedHistory

\* The test delivery, or the stages of a check, which record a delivery or not.
Post(r) ==
  /\ req[r].pc = "post"
  /\ \E next \in {"write", "commit"} :
       /\ next = "commit" => req[r].kind = "check"
       /\ req' = [req EXCEPT ![r].pc = next]
  /\ UNCHANGED <<env, stored>>
  /\ UnchangedPage
  /\ UnchangedHistory

\* A flush, explicit or by the commit: one UPDATE of the columns that differ
\* from the row as loaded, none if there are none.
Write(r) ==
  /\ \/ req[r].pc = "write"
     \/ req[r].pc = "commit" /\ Dirty(r) # {}
  /\ Dirty(r) # {} => ~Locked(r)
  /\ req' = [req EXCEPT
       ![r].wrote = @ \cup Dirty(r),
       ![r].base = req[r].row,
       ![r].pc = IF req[r].kind = "patch" /\ @ = "write" THEN "refresh"
                 ELSE "commit"]
  /\ UNCHANGED <<env, stored>>
  /\ UnchangedPage
  /\ UnchangedHistory

\* Mutant: no refresh, the answer is made of the row as loaded.
RefreshNothing(r) ==
  /\ req[r].pc = "refresh"
  /\ req' = [req EXCEPT ![r].pc = "commit", ![r].reply = Answer(r, req[r].row)]
  /\ UNCHANGED <<env, stored>>
  /\ UnchangedPage
  /\ UnchangedHistory

\* session.refresh; the audit row and the answer are made of the same row.
Refresh(r) ==
  /\ req[r].pc = "refresh"
  /\ req' = [req EXCEPT ![r].base = Reads(r), ![r].row = Reads(r),
                        ![r].pc = "commit", ![r].reply = Answer(r, Reads(r))]
  /\ UNCHANGED <<env, stored>>
  /\ UnchangedPage
  /\ UnchangedHistory

\* A request that has read the row and may still tell or write it.
Holds(r) == \/ req[r].pc \notin {"idle", "load", "insert"}
            \/ r \in Loads /\ req[r].reply \in Row

\* Request r is over, but a query's answer may not have arrived.
Over(r) == /\ overtaken' = IF r \in Loads /\ req[r].reply \in Row
                           THEN overtaken ELSE overtaken \ {r}
           /\ behind' = behind \ {r}

\* It has changed the row: what others have read is out of date.
Changed(r) ==
  /\ overtaken' = {s \in Slots \ {r} : Holds(s)}
                  \cup {s \in overtaken \cap {r} : s \in Loads /\ req[s].reply \in Row}
  /\ behind' = Pages \cup {s \in Saves \ {r} : req[s].pc # "idle"}

\* The commit.
Commit(r) ==
  /\ req[r].pc = "commit"
  /\ Dirty(r) = {}
  /\ stored' = Reads(r)
  /\ req' = [req EXCEPT ![r] = Rest(r)]
  /\ IF stored' # stored THEN Changed(r) ELSE Over(r)
  /\ UNCHANGED env
  /\ UnchangedPage

\* Any statement or the commit may fail, the URL of a PATCH or its request id
\* may not be valid, the process may die: the transaction is rolled back, and
\* the answer reports an error unless it has been sent.
Abort(r) ==
  /\ req[r].pc # "idle"
  /\ req' = [req EXCEPT ![r] =
               IF req[r].pc = "commit" THEN Rest(r) ELSE Refused(r)]
  /\ Over(r)
  /\ UNCHANGED <<env, stored>>
  /\ UnchangedPage

---------------------------------------------------------------------------
(* The page *)

Asking(p) == {s \in {p} \X {"load", "reload"} : ~Free(s)}

\* The query runs when the page is opened, comes into focus or is reconnected.
Fetch(p) ==
  /\ Asking(p) = {}
  /\ Room
  /\ req' = [req EXCEPT ![<<p, "load">>] = Fresh("get", Nothing, {})]
  /\ UNCHANGED <<env, stored>>
  /\ UnchangedPage
  /\ UnchangedHistory

\* The page is left and opened again.  Its form is empty, and the settings in
\* the query's cache, if there are any, do not fill it.
\* Bound: no call of the page is under way.
Open(p) ==
  /\ Asking(p) = {}
  /\ Free(<<p, "save">>)
  /\ \E v \in {"loading", "shown"} :
       /\ v = "shown" => view[p] = "shown"
       /\ view' = [view EXCEPT ![p] = v]
  /\ form' = [form EXCEPT ![p] = Default]
  /\ edited' = [edited EXCEPT ![p] = {}]
  /\ behind' = behind \cup {p}
  /\ UNCHANGED <<env, stored, req, overtaken>>

\* Mutant: the answer fills the URL only.
LoadedUrl(p, l) ==
  LET s == <<p, l>>
  IN /\ req[s].reply \in Row
     /\ form' = [form EXCEPT ![p].url = req[s].reply.url]
     /\ edited' = [edited EXCEPT ![p] = @ \cap {"secret"}]
     /\ view' = [view EXCEPT ![p] = "shown"]
     /\ behind' = IF s \in overtaken THEN behind \cup {p} ELSE behind \ {p}
     /\ req' = [req EXCEPT ![s].reply = None]
     /\ overtaken' = IF req[s].pc = "idle" THEN overtaken \ {s} ELSE overtaken
     /\ UNCHANGED <<env, stored>>

\* The query function fills the form, whatever has been typed there.
Loaded(p, l) ==
  LET s == <<p, l>>
  IN /\ req[s].reply \in Row
     /\ form' = [form EXCEPT ![p].url = req[s].reply.url,
                             ![p].recovery = req[s].reply.recovery]
     /\ edited' = [edited EXCEPT ![p] = @ \cap {"secret"}]
     /\ view' = [view EXCEPT ![p] = "shown"]
     /\ behind' = IF s \in overtaken THEN behind \cup {p} ELSE behind \ {p}
     /\ req' = [req EXCEPT ![s].reply = None]
     /\ overtaken' = IF req[s].pc = "idle" THEN overtaken \ {s} ELSE overtaken
     /\ UNCHANGED <<env, stored>>

\* It is retried once; if it fails again the page shows its empty form.
LoadFailed(p, l) ==
  LET s == <<p, l>>
  IN /\ req[s].reply = Error
     /\ \/ /\ req' = [req EXCEPT ![s] = Fresh("get", Nothing, {})]
           /\ view' = view
        \/ /\ req' = [req EXCEPT ![s].reply = None]
           /\ view' = [view EXCEPT ![p] = IF @ = "loading" THEN "failed" ELSE @]
     /\ UNCHANGED <<env, stored, form, edited>>
     /\ UnchangedHistory

\* The administrator types.
Edit(p) ==
  /\ view[p] # "loading"
  /\ \E f \in Fields : \E row \in Row :
       /\ row[f] # form[p][f]
       /\ edited[p] \subseteq {f}
       /\ form' = [form EXCEPT ![p] = Merge({f}, row, @)]
       /\ edited' = [edited EXCEPT ![p] = @ \cup {f}]
  /\ UNCHANGED <<env, stored, req, view>>
  /\ UnchangedHistory

\* Empty fields are sent as null, which names no column.
Sent(value) == IF value = None THEN Keep ELSE value

Body(p) == [url |-> Sent(form[p].url), secret |-> Sent(form[p].secret),
            recovery |-> form[p].recovery]

\* The button is disabled until the answer to the last save is there.
Save(p) ==
  LET s == <<p, "save">>
  IN /\ view[p] # "loading"
     /\ Free(s)
     /\ Room
     /\ req' = [req EXCEPT ![s] = Fresh("patch", Body(p), edited[p])]
     /\ behind' = IF p \in behind THEN behind \cup {s} ELSE behind
     /\ UNCHANGED <<env, stored, overtaken>>
     /\ UnchangedPage

\* The page says so, and queries the settings again, even if a query with data
\* is under way.
Saved(p) ==
  LET s == <<p, "save">>
      again == IF Asking(p) = {} THEN {"load"}
               ELSE IF view[p] = "shown"
                    THEN {l \in {"load", "reload"} : Free(<<p, l>>)} ELSE {}
  IN /\ req[s].reply \in Row
     /\ form' = [form EXCEPT ![p].secret = None]
     /\ edited' = [edited EXCEPT ![p] = @ \ {"secret"}]
     /\ IF again = {}
        THEN req' = [req EXCEPT ![s].reply = None]
        ELSE /\ Cardinality({r \in Busy : r = s => req[s].pc # "idle"}) < InFlight
             /\ \E l \in again :
                  req' = [req EXCEPT ![s].reply = None,
                                     ![<<p, l>>] = Fresh("get", Nothing, {})]
     /\ UNCHANGED <<env, stored, view>>
     /\ UnchangedHistory

\* The error is shown.
SaveFailed(p) ==
  LET s == <<p, "save">>
  IN /\ req[s].reply = Error
     /\ req' = [req EXCEPT ![s].reply = None]
     /\ UNCHANGED <<env, stored>>
     /\ UnchangedPage
     /\ UnchangedHistory

---------------------------------------------------------------------------
(* Around it *)

\* Other requests: of other clients, the page's test button, and the monitor.
Arrive(r) ==
  /\ Free(r)
  /\ Room
  /\ \E k \in {"test", "check"} :
       req' = [req EXCEPT ![r] = Fresh(k, Nothing, {})]
  /\ UNCHANGED <<env, stored>>
  /\ UnchangedPage
  /\ UnchangedHistory

ArrivePatch(r) ==
  /\ Free(r)
  /\ Room
  /\ \E asked \in Bodies :
       req' = [req EXCEPT ![r] =
                 Fresh("patch", asked, {f \in Fields : asked[f] # Keep})]
  /\ UNCHANGED <<env, stored>>
  /\ UnchangedPage
  /\ UnchangedHistory

Init ==
  /\ env \in Envs
  /\ stored \in Row \cup {None}
  /\ req = [r \in Slots |-> Idle]
  /\ view = [p \in Pages |-> "loading"]
  /\ form = [p \in Pages |-> Default]
  /\ edited = [p \in Pages |-> {}]
  /\ overtaken = {}
  /\ behind = Pages

Step(r) == \/ Load(r) \/ Insert(r) \/ Post(r) \/ Write(r) \/ Refresh(r)
           \/ Commit(r)

Next ==
  \/ \E r \in Slots : Step(r) \/ Abort(r)
  \/ \E r \in Clients : Arrive(r) \/ ArrivePatch(r)
  \/ \E p \in Pages :
       \/ Fetch(p) \/ Open(p) \/ Edit(p) \/ Save(p) \/ Saved(p) \/ SaveFailed(p)
       \/ \E l \in {"load", "reload"} : Loaded(p, l) \/ LoadFailed(p, l)

Spec == Init /\ [][Next]_vars

---------------------------------------------------------------------------
(* Properties *)

\* Every variable keeps its type.
TypeOK ==
  /\ env \in Envs
  /\ stored \in Row \cup {None}
  /\ req \in [Slots -> Request]
  /\ view \in [Pages -> {"loading", "failed", "shown"}]
  /\ form \in [Pages -> Row]
  /\ edited \in [Pages -> SUBSET Fields]
  /\ overtaken \subseteq Slots
  /\ behind \subseteq Pages \cup Saves

\* A request fills what was empty when it commits.
Fills(f) == f # "recovery" /\ stored[f] = None /\ stored'[f] = env[f]

\* A column changes only to what a request has named for it, or from empty to
\* the value of the environment; one that read the row before another change
\* may put that value over another.
OnlyNamedChange ==
  [][\A r \in Slots : Commit(r) /\ stored # None =>
       \A f \in Fields : stored'[f] # stored[f] =>
         \/ req[r].asked[f] # Keep /\ stored'[f] = req[r].asked[f]
         \/ Fills(f)
         \/ f # "recovery" /\ r \in overtaken /\ stored'[f] = env[f]]_vars

\* A save leaves alone what the administrator has not edited, unless the row
\* has changed since the form was filled, or the form never was.
UneditedKept ==
  [][\A s \in Saves : Commit(s) /\ stored # None /\ s \notin behind =>
       \A f \in Fields \ req[s].named :
         stored'[f] = stored[f] \/ Fills(f)]_vars

\* A PATCH that has written the row commits what it has answered.
Stands(r) ==
  req[r].kind = "patch" /\ req[r].pc = "commit" /\ req[r].wrote # {}
    => Reads(r) = req[r].row

AnswerStands == \A r \in Slots : Stands(r)

---------------------------------------------------------------------------
(* Why they hold: the inductive strengthening *)

\* The row is in the session of r.
Past(r) == req[r].pc \in {"post", "write", "refresh", "commit"}

\* Value v of column f is what r was asked for.
Named(r, f, v) == req[r].asked[f] # Keep /\ v = req[r].asked[f]

\* The row has one writer at a time.
OneWriter ==
  \A r, s \in Slots : req[r].wrote # {} /\ req[s].wrote # {} => r = s

\* Where a request can be, and what it then has.
Shaped(r) ==
  /\ r \in Loads /\ req[r].pc # "idle" => req[r].kind = "get"
  /\ r \in Saves /\ req[r].pc # "idle" => req[r].kind = "patch"
  /\ ~Past(r) => req[r].wrote = {}
  /\ Past(r) /\ stored = None => req[r].wrote = Fields
  /\ Past(r) /\ req[r].row # req[r].base => req[r].wrote = {} \/ stored = None
  /\ req[r].pc \notin {"idle", "commit"} => req[r].reply = None
  /\ req[r].pc = "refresh" => req[r].kind = "patch" /\ req[r].row = req[r].base
  /\ req[r].pc = "commit" /\ req[r].kind = "patch" => req[r].row = req[r].base
  /\ req[r].pc = "commit" /\ req[r].kind = "get" /\ req[r].reply \in Row
       => req[r].reply = req[r].row

\* What a request has changed in its session, and what it has written.
Changes(r, f) ==
  Past(r) /\ req[r].row[f] # req[r].base[f]
    => \/ Named(r, f, req[r].row[f])
       \/ f # "recovery" /\ req[r].base[f] = None /\ req[r].row[f] = env[f]

Writes(r, f) ==
  f \in req[r].wrote /\ stored # None
    => \/ Named(r, f, req[r].base[f])
       \/ /\ f # "recovery"
          /\ req[r].base[f] = env[f]
          /\ stored[f] = None \/ r \in overtaken

\* The session has the stored row, unless others have changed it.
SessionCurrent(r, f) ==
  Past(r) /\ r \notin overtaken /\ stored # None /\ f \notin req[r].wrote
    => req[r].base[f] = stored[f]

\* Value v of a form's field f shows the stored row.
Shows(f, v) == \/ v = stored[f]
               \/ f = "url" /\ stored[f] = None /\ v = env[f]

\* So do answers, saves and forms, unless others have changed the row since.
AnswerCurrent(s) ==
  req[s].reply \in Row /\ s \notin overtaken /\ stored # None
    => \A f \in {"url", "recovery"} : Shows(f, req[s].reply[f])

SaveCurrent(s) ==
  req[s].pc # "idle" /\ s \notin behind
    => \A f \in Fields \ req[s].named :
         \/ req[s].asked[f] = Keep
         \/ stored # None => f # "secret" /\ Shows(f, req[s].asked[f])

FormCurrent(p) ==
  /\ "secret" \notin edited[p] => form[p].secret = None
  /\ p \notin behind /\ stored # None
       => \A f \in {"url", "recovery"} \ edited[p] : Shows(f, form[p][f])

Consistent(r) ==
  /\ Shaped(r)
  /\ \A f \in Fields : Changes(r, f) /\ Writes(r, f) /\ SessionCurrent(r, f)
  /\ Stands(r)
  /\ r \in Loads => AnswerCurrent(r)
  /\ r \in Saves => SaveCurrent(r)

\* The inductive invariant that the theorems of AlertSettingsProofs rest on.
IInv == /\ TypeOK
        /\ OneWriter
        /\ overtaken \cap Saves \subseteq behind
        /\ \A r \in Slots : Consistent(r)
        /\ \A p \in Pages : FormCurrent(p)
=============================================================================
