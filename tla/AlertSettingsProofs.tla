------------------------ MODULE AlertSettingsProofs ------------------------
(***************************************************************************)
(* Proofs about AlertSettings: the inductive invariant, for any number of  *)
(* pages and clients and any URLs and secrets, and what follows from it.   *)
(***************************************************************************)
EXTENDS AlertSettings, TLAPS

---------------------------------------------------------------------------
(* Rows, field by field *)

\* A merged row is a row and takes each field from where it should.
LEMMA MergeField ==
  ASSUME NEW a \in Row, NEW b \in Row, NEW cols
  PROVE  /\ Merge(cols, a, b) \in Row
         /\ \A f \in Fields :
              Merge(cols, a, b)[f] = IF f \in cols THEN a[f] ELSE b[f]
<1>1. Merge(cols, a, b) \in Row
  BY DEF Merge, Row
<1>2. \A f \in Fields :
        Merge(cols, a, b)[f] = IF f \in cols THEN a[f] ELSE b[f]
  BY DEF Merge, Row, Fields
<1> QED BY <1>1, <1>2

\* All columns of one row are that row, whatever the other is.
LEMMA MergeAll ==
  ASSUME NEW a \in Row, NEW b
  PROVE  Merge(Fields, a, b) = a
BY DEF Merge, Row, Fields

LEMMA EqualRows ==
  ASSUME NEW a \in Row, NEW b \in Row, \A f \in Fields : a[f] = b[f]
  PROVE  a = b
BY DEF Row, Fields

\* Seeding changes empty columns only, to the value of the environment.
LEMMA SeedField ==
  ASSUME NEW a \in Row, env \in Envs
  PROVE  /\ Seed(a) \in Row
         /\ \A f \in Fields :
              \/ Seed(a)[f] = a[f]
              \/ f # "recovery" /\ a[f] = None /\ Seed(a)[f] = env[f]
<1>1. env \in [url : Maybe(Urls), secret : Maybe(Secrets)]
  BY SettingsAssumption
<1> DEFINE u == Env("url", a.url)
           s == Env("secret", a.secret)
<1>2. u \in Maybe(Urls) /\ s \in Maybe(Secrets)
  BY <1>1 DEF Env, Row
<1>3. Seed(a) = [a EXCEPT !.url = u, !.secret = s]
  BY DEF Seed
<1> HIDE DEF u, s
<1>4. /\ Seed(a) \in Row
      /\ Seed(a).url = u /\ Seed(a).secret = s /\ Seed(a).recovery = a.recovery
  BY <1>2, <1>3 DEF Row
<1>5. ASSUME NEW f \in Fields
      PROVE  \/ Seed(a)[f] = a[f]
             \/ f # "recovery" /\ a[f] = None /\ Seed(a)[f] = env[f]
  BY <1>4 DEF Env, Fields, u, s
<1> QED BY <1>4, <1>5

\* A PATCH changes the columns it names.
LEMMA ApplyField ==
  ASSUME NEW a \in Row, NEW asked \in Patch
  PROVE  /\ Apply(a, asked) \in Row
         /\ \A f \in Fields : Apply(a, asked)[f] =
              IF asked[f] # Keep THEN asked[f] ELSE a[f]
<1> DEFINE cols == {f \in Fields : asked[f] # Keep}
<1>1. Apply(a, asked) = Merge(cols, asked, a)
  BY DEF Apply
<1>2. /\ "url" \in cols <=> asked.url # Keep
      /\ "secret" \in cols <=> asked.secret # Keep
      /\ "recovery" \in cols <=> asked.recovery # Keep
  BY DEF Fields
<1> HIDE DEF cols
<1>3. Merge(cols, asked, a) \in Row
  BY <1>2 DEF Merge, Row, Patch, Maybe
<1>4. \A f \in Fields : Merge(cols, asked, a)[f] =
              IF asked[f] # Keep THEN asked[f] ELSE a[f]
  BY <1>2 DEF Merge, Fields
<1> QED BY <1>1, <1>3, <1>4

\* The default row, and None and Error, which are no rows.
LEMMA RowFacts ==
  /\ Default \in Row /\ Default.secret = None
  /\ Nothing \in Patch
  /\ None \notin Row /\ Error \notin Row /\ Error # None
BY SettingsAssumption DEF Default, Nothing, Row, Patch, Maybe

---------------------------------------------------------------------------
(* Requests *)

\* The kinds of slots have nothing in common.
LEMMA SlotFacts ==
  /\ \A p \in Pages : /\ <<p, "load">> \in Loads
                      /\ <<p, "reload">> \in Loads
                      /\ <<p, "save">> \in Saves
                      /\ p \notin Slots
  /\ Loads \subseteq Slots /\ Saves \subseteq Slots /\ Clients \subseteq Slots
  /\ Loads \cap Saves = {} /\ Clients \cap Loads = {} /\ Clients \cap Saves = {}
BY SettingsAssumption DEF Loads, Saves, Slots

LEMMA FreshFacts ==
  ASSUME NEW k \in {"get", "patch", "test", "check"},
         NEW asked \in Patch, NEW named \in SUBSET Fields
  PROVE  /\ Fresh(k, asked, named) \in Request
         /\ Fresh(k, asked, named).kind = k
         /\ Fresh(k, asked, named).pc = "load"
         /\ Fresh(k, asked, named).asked = asked
         /\ Fresh(k, asked, named).named = named
         /\ Fresh(k, asked, named).wrote = {}
         /\ Fresh(k, asked, named).reply = None
BY RowFacts DEF Fresh, Request, Points

LEMMA IdleFacts ==
  /\ Idle \in Request
  /\ \A a \in Row \cup {None, Error} :
       /\ [Idle EXCEPT !.reply = a] \in Request
       /\ [Idle EXCEPT !.reply = a].pc = "idle"
       /\ [Idle EXCEPT !.reply = a].wrote = {}
       /\ [Idle EXCEPT !.reply = a].reply = a
  /\ Idle.pc = "idle" /\ Idle.wrote = {} /\ Idle.reply = None
<1>1. /\ Fresh("get", Nothing, {}) \in Request
      /\ Fresh("get", Nothing, {}).wrote = {}
      /\ Fresh("get", Nothing, {}).reply = None
  BY FreshFacts, RowFacts
<1>2. Idle \in Request /\ Idle.pc = "idle" /\ Idle.wrote = {} /\ Idle.reply = None
  BY <1>1 DEF Idle, Request, Points
<1> QED BY <1>2 DEF Request

\* What a request reads is a row once it has one itself.
LEMMA ReadsField ==
  ASSUME IInv, NEW r \in Slots, Past(r)
  PROVE  /\ Reads(r) \in Row
         /\ \A f \in Fields : Reads(r)[f] =
              IF f \in req[r].wrote THEN req[r].base[f] ELSE stored[f]
<1>1. req[r] \in Request /\ req[r].base \in Row /\ stored \in Row \cup {None}
  BY DEF IInv, TypeOK, Request
<1>2. stored = None => req[r].wrote = Fields
  BY DEF IInv, Consistent, Shaped
<1>3. CASE req[r].wrote = {}
  BY <1>1, <1>2, <1>3 DEF Reads, Fields
<1>4. CASE req[r].wrote # {} /\ stored = None
  BY <1>1, <1>2, <1>4, MergeAll DEF Reads
<1>5. CASE req[r].wrote # {} /\ stored # None
  BY <1>1, <1>5, MergeField DEF Reads
<1> QED BY <1>3, <1>4, <1>5

\* Nothing is left to write.
LEMMA NotDirty ==
  ASSUME TypeOK, NEW r \in Slots, Dirty(r) = {}
  PROVE  req[r].row = req[r].base
<1>1. req[r].row \in Row /\ req[r].base \in Row
  BY DEF TypeOK, Request
<1> QED BY <1>1, EqualRows DEF Dirty

---------------------------------------------------------------------------
(* What a step leaves alone *)

\* A request that goes on untouched, with the row as it is, stays consistent.
LEMMA Untouched ==
  ASSUME NEW q \in Slots, Consistent(q),
         req'[q] = req[q], UNCHANGED <<env, stored>>,
         q \in overtaken' <=> q \in overtaken,
         q \in behind' <=> q \in behind
  PROVE  Consistent(q)'
<1>1. Shaped(q)' /\ Stands(q)'
  BY DEF Consistent, Shaped, Stands, Past, Reads, Merge
<1>2. ASSUME NEW f \in Fields
      PROVE  (Changes(q, f) /\ Writes(q, f) /\ SessionCurrent(q, f))'
  BY DEF Consistent, Changes, Writes, SessionCurrent, Past, Named
<1>3. (q \in Loads => AnswerCurrent(q))'
  BY DEF Consistent, AnswerCurrent, Shows
<1>4. (q \in Saves => SaveCurrent(q))'
  BY DEF Consistent, SaveCurrent, Shows
<1> QED BY <1>1, <1>2, <1>3, <1>4 DEF Consistent

\* So does a page with its form.
LEMMA FormUntouched ==
  ASSUME NEW p \in Pages, FormCurrent(p),
         form'[p] = form[p], edited'[p] = edited[p],
         UNCHANGED <<env, stored>>,
         p \in behind' <=> p \in behind
  PROVE  FormCurrent(p)'
BY DEF FormCurrent, Shows

\* A request in the database changes, and no page: the rest is left alone.
LEMMA OneRequest ==
  ASSUME IInv, NEW r \in Slots,
         req' \in [Slots -> Request],
         \A q \in Slots \ {r} : req'[q] = req[q],
         UNCHANGED <<env, stored, form, edited>>,
         view' \in [Pages -> {"loading", "failed", "shown"}],
         overtaken' \in {overtaken, overtaken \ {r}},
         behind' \in {behind, behind \cup {r}, behind \ {r}},
         r \in overtaken' => r \in overtaken /\ (r \in behind => r \in behind'),
         r \in behind' => r \in behind \/ r \in Saves,
         req'[r].wrote # {} => req[r].wrote # {} \/ ~Locked(r),
         Consistent(r)'
  PROVE  IInv'
<1>1. \A q \in Slots \ {r} : /\ q \in overtaken' <=> q \in overtaken
                             /\ q \in behind' <=> q \in behind
  OBVIOUS
<1>2. \A p \in Pages : p \in behind' <=> p \in behind
  BY SlotFacts
<1>3. TypeOK'
  BY DEF IInv, TypeOK
<1>4. OneWriter'
  BY DEF IInv, OneWriter, Locked
<1>5. (overtaken \cap Saves \subseteq behind)'
  <2>1. overtaken \cap Saves \subseteq behind
    BY DEF IInv
  <2> QED BY <2>1, <1>1
<1>6. \A q \in Slots : Consistent(q)'
  BY <1>1, Untouched DEF IInv
<1>7. \A p \in Pages : FormCurrent(p)'
  BY <1>2, FormUntouched DEF IInv
<1> QED BY <1>3, <1>4, <1>5, <1>6, <1>7 DEF IInv

\* A request that is over is consistent if its answer is.
LEMMA IdleConsistent ==
  ASSUME NEW r \in Slots, req'[r].pc = "idle", req'[r].wrote = {},
         r \in Loads => AnswerCurrent(r)'
  PROVE  Consistent(r)'
BY DEF Consistent, Shaped, Changes, Writes, SessionCurrent, Stands, Past,
       SaveCurrent

\* A request that begins is consistent if its body is.
LEMMA FreshConsistent ==
  ASSUME NEW r \in Slots,
         NEW k \in {"get", "patch", "test", "check"},
         NEW asked \in Patch, NEW named \in SUBSET Fields,
         req'[r] = Fresh(k, asked, named),
         r \in Loads => k = "get",
         r \in Saves => k = "patch" /\ SaveCurrent(r)'
  PROVE  Consistent(r)'
<1>1. /\ req'[r].kind = k /\ req'[r].pc = "load"
      /\ req'[r].wrote = {} /\ req'[r].reply = None
  BY FreshFacts
<1>2. None \notin Row
  BY RowFacts
<1> QED BY <1>1, <1>2
        DEF Consistent, Shaped, Changes, Writes, SessionCurrent, Stands, Past,
            AnswerCurrent
---------------------------------------------------------------------------
(* The steps of a request *)

\* Whatever a request does with the row, it does to a column that was empty or
\* that it was asked to change.
LEMMA UseFacts ==
  ASSUME TypeOK, NEW r \in Slots, NEW row \in Row
  PROVE  /\ Use(r, row).row \in Row
         /\ Use(r, row).pc \in {"idle", "post", "write", "commit"}
         /\ req[r].kind = "get" => Use(r, row) = [row |-> Seed(row), pc |-> "commit"]
         /\ req[r].kind = "patch" => Use(r, row).pc = "write"
         /\ \A f \in Fields : Use(r, row).row[f] # row[f] =>
              \/ Named(r, f, Use(r, row).row[f])
              \/ /\ f # "recovery" /\ row[f] = None
                 /\ Use(r, row).row[f] = env[f]
<1> DEFINE k == req[r].kind
<1>1. k \in {"get", "patch", "test", "check"} /\ req[r].asked \in Patch
      /\ env \in Envs
  BY DEF TypeOK, Request
<1>2. /\ Seed(row) \in Row
      /\ \A f \in Fields :
           \/ Seed(row)[f] = row[f]
           \/ f # "recovery" /\ row[f] = None /\ Seed(row)[f] = env[f]
  BY <1>1, SeedField
<1>3. CASE k = "get"
  BY <1>2, <1>3 DEF Use
<1>4. CASE k = "patch"
  <2> DEFINE new == Apply(Seed(row), req[r].asked)
  <2>1. /\ new \in Row
        /\ \A f \in Fields : new[f] = IF req[r].asked[f] # Keep
                                      THEN req[r].asked[f] ELSE Seed(row)[f]
    BY <1>1, <1>2, ApplyField
  <2>2. Use(r, row) = [row |-> new, pc |-> "write"]
    BY <1>4 DEF Use
  <2> HIDE DEF new
  <2> QED BY <1>2, <1>4, <2>1, <2>2 DEF Named
<1>5. CASE k = "test"
  <2>1. Use(r, row).row = Seed(row) /\ Use(r, row).pc \in {"idle", "post"}
    BY <1>5 DEF Use
  <2> QED BY <1>2, <1>5, <2>1
<1>6. CASE k = "check"
  <2>1. /\ Use(r, row).row = SeedForCheck(row)
        /\ Use(r, row).pc \in {"commit", "post"}
    BY <1>6 DEF Use
  <2>2. SeedForCheck(row) \in {row, Seed(row)}
    BY DEF SeedForCheck
  <2> QED BY <1>2, <1>6, <2>1, <2>2
<1> QED BY <1>1, <1>3, <1>4, <1>5, <1>6

\* The row comes into the session, stored or inserted.
LEMMA TakeStep ==
  ASSUME IInv, NEW r \in Slots, req[r].pc \in {"load", "insert"},
         NEW row \in Row, NEW wrote, Take(r, row, wrote),
         \/ stored = row /\ wrote = {} /\ r \notin overtaken'
         \/ stored = None /\ wrote = Fields /\ ~Locked(r),
         overtaken' \in {overtaken, overtaken \ {r}},
         UNCHANGED <<env, stored, view, form, edited, behind>>
  PROVE  IInv'
<1> DEFINE use == Use(r, row)
<1>1. /\ req[r] \in Request /\ req[r].kind \in {"get", "patch", "test", "check"}
      /\ req \in [Slots -> Request]
  BY DEF IInv, TypeOK, Request
<1>2. /\ use.row \in Row
      /\ use.pc \in {"idle", "post", "write", "commit"}
      /\ req[r].kind = "get" => use = [row |-> Seed(row), pc |-> "commit"]
      /\ req[r].kind = "patch" => use.pc = "write"
      /\ \A f \in Fields : use.row[f] # row[f] =>
           \/ Named(r, f, use.row[f])
           \/ f # "recovery" /\ row[f] = None /\ use.row[f] = env[f]
  BY UseFacts DEF IInv
<1>3. Consistent(r) /\ req[r].wrote = {} /\ req[r].reply = None
  BY DEF IInv, Consistent, Shaped, Past
<1>4. view' \in [Pages -> {"loading", "failed", "shown"}]
  BY DEF IInv, TypeOK
<1>5. /\ r \in overtaken' => r \in overtaken
      /\ behind' = behind /\ stored \in Row \cup {None}
  BY DEF IInv, TypeOK
<1> HIDE DEF use
<1>6. CASE use.pc = "idle"
  <2>1. req' = [req EXCEPT ![r] = Refused(r)]
    BY <1>6 DEF Take, use
  <2>2. /\ Refused(r) \in Request /\ Refused(r).pc = "idle"
        /\ Refused(r).wrote = {} /\ Refused(r).reply \notin Row
    BY IdleFacts, RowFacts DEF Refused
  <2>3. req' \in [Slots -> Request] /\ \A q \in Slots \ {r} : req'[q] = req[q]
    BY <1>1, <2>1, <2>2
  <2>4. req'[r] = Refused(r)
    BY <1>1, <2>1
  <2>5. Consistent(r)'
    BY <2>2, <2>4, IdleConsistent DEF AnswerCurrent
  <2> QED BY <1>4, <1>5, <2>2, <2>3, <2>4, <2>5, OneRequest
<1>7. CASE use.pc # "idle"
  <2> DEFINE a == IF req[r].kind = "get" THEN Answer(r, use.row) ELSE None
             new == [req[r] EXCEPT !.base = row, !.row = use.row,
                                   !.pc = use.pc, !.wrote = wrote, !.reply = a]
  <2>1. req' = [req EXCEPT ![r] = new]
    BY <1>7 DEF Take, use
  <2>2. a \in Row \cup {None, Error} /\ wrote \in SUBSET Fields
        /\ a \in {use.row, None}
    BY <1>2 DEF Answer
  <2> HIDE DEF a
  <2>3. /\ new \in Request
        /\ new.kind = req[r].kind /\ new.asked = req[r].asked
        /\ new.named = req[r].named
        /\ new.base = row /\ new.row = use.row /\ new.pc = use.pc
        /\ new.wrote = wrote /\ new.reply = a
    BY <1>1, <1>2, <2>2 DEF Request, Points
  <2> HIDE DEF new
  <2>4. /\ req' \in [Slots -> Request]
        /\ \A q \in Slots \ {r} : req'[q] = req[q]
        /\ req'[r] = new
    BY <1>1, <2>1, <2>3
  <2>5. Past(r)' /\ (stored = None => wrote = Fields) /\ (stored # None => wrote = {})
    BY <1>2, <1>7, <2>3, <2>4, RowFacts DEF Past
  <2>6. Shaped(r)'
    <3>1. /\ r \in Loads => new.kind = "get"
          /\ r \in Saves => new.kind = "patch"
      BY <1>3, <2>3 DEF Consistent, Shaped
    <3>2. use.pc # "commit" => a = None
      BY <1>2 DEF a
    <3>3. use.pc = "commit" => new.kind # "patch"
      BY <1>2, <2>3
    <3> QED BY <1>2, <1>5, <2>2, <2>3, <2>4, <2>5, <3>1, <3>2, <3>3, RowFacts
            DEF Shaped
  <2>7. ASSUME NEW f \in Fields
        PROVE  (Changes(r, f) /\ Writes(r, f) /\ SessionCurrent(r, f))'
    <3>1. Changes(r, f)'
      BY <1>2, <2>3, <2>4 DEF Changes, Named
    <3>2. Writes(r, f)'
      BY <1>5, <2>3, <2>4, <2>5 DEF Writes
    <3>3. SessionCurrent(r, f)'
      BY <1>5, <2>3, <2>4, <2>5, RowFacts DEF SessionCurrent
    <3> QED BY <3>1, <3>2, <3>3
  <2>8. Stands(r)'
    BY <1>2, <2>3, <2>4 DEF Stands
  <2>9. (r \in Loads => AnswerCurrent(r))'
    <3> SUFFICES ASSUME r \in Loads, stored # None
                 PROVE  AnswerCurrent(r)'
      BY DEF AnswerCurrent
    <3>1. use.row = Seed(row) /\ stored = row
      BY <1>2, <1>3 DEF Consistent, Shaped
    <3>2. \A f \in {"url", "recovery"} :
            \/ use.row[f] = row[f]
            \/ f = "url" /\ row[f] = None /\ use.row[f] = env[f]
      BY <3>1, SeedField DEF IInv, TypeOK, Fields
    <3>3. new.reply \in Row => new.reply = use.row
      BY <2>2, <2>3, RowFacts
    <3> QED BY <2>4, <3>1, <3>2, <3>3 DEF AnswerCurrent, Shows
  <2>10. (r \in Saves => SaveCurrent(r))'
    BY <1>3, <2>3, <2>4 DEF Consistent, SaveCurrent, Shows
  <2>11. Consistent(r)'
    BY <2>6, <2>7, <2>8, <2>9, <2>10 DEF Consistent
  <2>12. req'[r].wrote # {} => ~Locked(r)
    BY <2>3, <2>4, <2>5
  <2> QED BY <1>4, <1>5, <2>4, <2>11, <2>12, OneRequest
<1> QED BY <1>6, <1>7

LEMMA LoadStep ==
  ASSUME IInv, NEW r \in Slots, Load(r)
  PROVE  IInv'
<1>1. CASE stored # None
  BY <1>1, TakeStep DEF Load, UnchangedPage, IInv, TypeOK
<1>2. CASE stored = None
  <2>1. req[r] \in Request /\ req' = [req EXCEPT ![r].pc = "insert"]
        /\ req \in [Slots -> Request]
    BY <1>2 DEF Load, IInv, TypeOK
  <2> DEFINE new == [req[r] EXCEPT !.pc = "insert"]
  <2>2. /\ new \in Request /\ new.kind = req[r].kind /\ new.asked = req[r].asked
        /\ new.named = req[r].named /\ new.base = req[r].base
        /\ new.row = req[r].row /\ new.pc = "insert"
        /\ new.wrote = req[r].wrote /\ new.reply = req[r].reply
    BY <2>1 DEF Request, Points
  <2>3. /\ req' \in [Slots -> Request] /\ req'[r] = new
        /\ \A q \in Slots \ {r} : req'[q] = req[q]
    BY <2>1, <2>2
  <2> HIDE DEF new
  <2>4. req[r].wrote = {} /\ req[r].reply = None /\ Consistent(r)
    BY DEF IInv, Consistent, Shaped, Load, Past
  <2>5. Consistent(r)'
    BY <1>2, <2>2, <2>3, <2>4, RowFacts
       DEF Load, Consistent, Shaped, Changes, Writes, SessionCurrent, Stands,
           AnswerCurrent, SaveCurrent, Past
  <2> QED BY <2>2, <2>3, <2>4, <2>5, OneRequest
          DEF Load, UnchangedPage, IInv, TypeOK
<1> QED BY <1>1, <1>2

LEMMA InsertStep ==
  ASSUME IInv, NEW r \in Slots, Insert(r)
  PROVE  IInv'
<1>1. CASE stored = None
  BY <1>1, TakeStep, RowFacts DEF Insert, UnchangedPage, UnchangedHistory
<1>2. CASE stored # None
  <2>1. req' = [req EXCEPT ![r] = Refused(r)] /\ req \in [Slots -> Request]
    BY <1>2 DEF Insert, IInv, TypeOK
  <2>2. /\ Refused(r) \in Request /\ Refused(r).pc = "idle"
        /\ Refused(r).wrote = {} /\ Refused(r).reply \notin Row
    BY IdleFacts, RowFacts DEF Refused
  <2>3. /\ req' \in [Slots -> Request] /\ req'[r] = Refused(r)
        /\ \A q \in Slots \ {r} : req'[q] = req[q]
    BY <2>1, <2>2
  <2>4. Consistent(r)'
    BY <2>2, <2>3, IdleConsistent DEF AnswerCurrent
  <2> QED BY <2>2, <2>3, <2>4, OneRequest
          DEF Insert, UnchangedPage, UnchangedHistory, IInv, TypeOK
<1> QED BY <1>1, <1>2
LEMMA PostStep ==
  ASSUME IInv, NEW r \in Slots, Post(r)
  PROVE  IInv'
<1>1. PICK next \in {"write", "commit"} :
        /\ next = "commit" => req[r].kind = "check"
        /\ req' = [req EXCEPT ![r].pc = next]
  BY DEF Post
<1>2. req[r] \in Request /\ req \in [Slots -> Request] /\ req[r].pc = "post"
  BY DEF Post, IInv, TypeOK
<1> DEFINE new == [req[r] EXCEPT !.pc = next]
<1>3. /\ new \in Request /\ new.kind = req[r].kind /\ new.asked = req[r].asked
      /\ new.named = req[r].named /\ new.base = req[r].base
      /\ new.row = req[r].row /\ new.pc = next
      /\ new.wrote = req[r].wrote /\ new.reply = req[r].reply
  BY <1>2 DEF Request, Points
<1>4. /\ req' \in [Slots -> Request] /\ req'[r] = new
      /\ \A q \in Slots \ {r} : req'[q] = req[q]
  BY <1>1, <1>2, <1>3
<1> HIDE DEF new
<1>5. Consistent(r) /\ UNCHANGED <<env, stored, view, form, edited>>
      /\ UNCHANGED <<overtaken, behind>>
  BY DEF IInv, Post, UnchangedPage, UnchangedHistory
<1>6. Past(r) /\ Past(r)' /\ req[r].reply = None
  BY <1>2, <1>3, <1>4, <1>5 DEF Past, Consistent, Shaped
<1>7. Shaped(r)'
  BY <1>1, <1>2, <1>3, <1>4, <1>5, <1>6, RowFacts DEF Consistent, Shaped
<1>8. ASSUME NEW f \in Fields
      PROVE  (Changes(r, f) /\ Writes(r, f) /\ SessionCurrent(r, f))'
  BY <1>3, <1>4, <1>5, <1>6
     DEF Consistent, Changes, Writes, SessionCurrent, Named
<1>9. Stands(r)'
  BY <1>1, <1>3, <1>4 DEF Stands
<1>10. AnswerCurrent(r)'
  BY <1>3, <1>4, <1>6, RowFacts DEF AnswerCurrent
<1>11. (r \in Saves => SaveCurrent(r))'
  BY <1>2, <1>3, <1>4, <1>5 DEF Consistent, SaveCurrent, Shows
<1>12. Consistent(r)'
  BY <1>7, <1>8, <1>9, <1>10, <1>11 DEF Consistent
<1> QED BY <1>3, <1>4, <1>5, <1>12, OneRequest DEF IInv, TypeOK

\* The columns that are written are those that the request has changed.
LEMMA WriteStep ==
  ASSUME IInv, NEW r \in Slots, Write(r)
  PROVE  IInv'
<1>1. /\ req[r] \in Request /\ req \in [Slots -> Request]
      /\ req[r].base \in Row /\ req[r].row \in Row
      /\ req[r].pc \in {"write", "commit"}
  BY DEF Write, IInv, TypeOK, Request
<1> DEFINE pc == IF req[r].kind = "patch" /\ req[r].pc = "write" THEN "refresh"
                 ELSE "commit"
           new == [req[r] EXCEPT !.wrote = req[r].wrote \cup Dirty(r),
                                 !.base = req[r].row, !.pc = pc]
<1>2. req' = [req EXCEPT ![r] = new]
  BY DEF Write
<1>3. /\ new \in Request /\ new.kind = req[r].kind /\ new.asked = req[r].asked
      /\ new.named = req[r].named /\ new.base = req[r].row
      /\ new.row = req[r].row /\ new.pc = pc
      /\ new.wrote = req[r].wrote \cup Dirty(r) /\ new.reply = req[r].reply
  BY <1>1 DEF Request, Points, Dirty
<1>4. /\ req' \in [Slots -> Request] /\ req'[r] = new
      /\ \A q \in Slots \ {r} : req'[q] = req[q]
  BY <1>1, <1>2, <1>3
<1> HIDE DEF new
<1>5. Consistent(r) /\ UNCHANGED <<env, stored, view, form, edited>>
      /\ UNCHANGED <<overtaken, behind>>
  BY DEF IInv, Write, UnchangedPage, UnchangedHistory
<1>6. Past(r) /\ Past(r)'
  BY <1>1, <1>3, <1>4 DEF Past
<1>7. req[r].pc = "commit" => Dirty(r) # {}
  BY DEF Write
<1>8. /\ \A f \in Fields : f \in Dirty(r) <=> req[r].row[f] # req[r].base[f]
      /\ Dirty(r) # {} => req[r].row # req[r].base
      /\ Dirty(r) \subseteq Fields
  BY DEF Dirty
<1>9. Shaped(r)'
  BY <1>1, <1>3, <1>4, <1>5, <1>6, <1>8, RowFacts DEF Consistent, Shaped
<1>10. ASSUME NEW f \in Fields
       PROVE  (Changes(r, f) /\ Writes(r, f) /\ SessionCurrent(r, f))'
  <2>1. Changes(r, f) /\ Writes(r, f) /\ SessionCurrent(r, f) /\ Shaped(r)
    BY <1>5 DEF Consistent
  <2>2. Changes(r, f)'
    BY <1>3, <1>4 DEF Changes
  <2>3. Writes(r, f)'
    <3>1. CASE f \in Dirty(r)
      <4>1. stored # None => f \notin req[r].wrote
        BY <1>6, <1>8, <2>1, <3>1 DEF Shaped
      <4> QED BY <1>3, <1>4, <1>5, <1>6, <1>8, <2>1, <3>1, <4>1
              DEF Changes, Writes, SessionCurrent, Named
    <3>2. CASE f \notin Dirty(r)
      BY <1>3, <1>4, <1>5, <1>8, <2>1, <3>2 DEF Writes, Named
    <3> QED BY <3>1, <3>2
  <2>4. SessionCurrent(r, f)'
    BY <1>3, <1>4, <1>5, <1>6, <1>8, <2>1 DEF SessionCurrent
  <2> QED BY <2>2, <2>3, <2>4
<1>11. Stands(r)'
  <2>1. ~(req[r].kind = "patch" /\ req[r].pc = "commit")
    BY <1>5, <1>7, <1>8 DEF Consistent, Shaped
  <2>2. req[r].kind = "patch" => pc = "refresh"
    BY <1>1, <2>1
  <2> QED BY <1>3, <1>4, <2>2 DEF Stands
<1>12. (r \in Loads => AnswerCurrent(r))'
  BY <1>3, <1>4, <1>5 DEF Consistent, AnswerCurrent, Shows
<1>13. (r \in Saves => SaveCurrent(r))'
  BY <1>1, <1>3, <1>4, <1>5 DEF Consistent, SaveCurrent, Shows
<1>14. Consistent(r)'
  BY <1>9, <1>10, <1>11, <1>12, <1>13 DEF Consistent
<1>15. req'[r].wrote # {} => req[r].wrote # {} \/ ~Locked(r)
  BY <1>3, <1>4 DEF Write
<1> QED BY <1>3, <1>4, <1>5, <1>14, <1>15, OneRequest DEF IInv, TypeOK

\* The refreshed row is what was written, and the rest as it is stored.
LEMMA RefreshStep ==
  ASSUME IInv, NEW r \in Slots, Refresh(r)
  PROVE  IInv'
<1>1. /\ req[r] \in Request /\ req \in [Slots -> Request]
      /\ req[r].pc = "refresh" /\ Past(r)
  BY DEF Refresh, IInv, TypeOK, Past
<1>2. Consistent(r) /\ UNCHANGED <<env, stored, view, form, edited>>
      /\ UNCHANGED <<overtaken, behind>>
  BY DEF IInv, Refresh, UnchangedPage, UnchangedHistory
<1>3. req[r].kind = "patch" /\ r \notin Loads
  BY <1>1, <1>2 DEF Consistent, Shaped
<1> DEFINE row == Reads(r)
           new == [req[r] EXCEPT !.base = row, !.row = row, !.pc = "commit",
                                 !.reply = Answer(r, row)]
<1>4. /\ row \in Row
      /\ \A f \in Fields : row[f] =
           IF f \in req[r].wrote THEN req[r].base[f] ELSE stored[f]
  BY <1>1, ReadsField
<1>5. req' = [req EXCEPT ![r] = new]
  BY DEF Refresh
<1> HIDE DEF row
<1>6. /\ new \in Request /\ new.kind = req[r].kind /\ new.asked = req[r].asked
      /\ new.named = req[r].named /\ new.base = row
      /\ new.row = row /\ new.pc = "commit" /\ new.wrote = req[r].wrote
  BY <1>1, <1>4 DEF Request, Points, Answer
<1>7. /\ req' \in [Slots -> Request] /\ req'[r] = new
      /\ \A q \in Slots \ {r} : req'[q] = req[q]
  BY <1>1, <1>5, <1>6
<1> HIDE DEF new
<1>8. Shaped(r)'
  BY <1>1, <1>2, <1>3, <1>6, <1>7 DEF Consistent, Shaped, Past
<1>9. ASSUME NEW f \in Fields
      PROVE  (Changes(r, f) /\ Writes(r, f) /\ SessionCurrent(r, f))'
  BY <1>1, <1>2, <1>4, <1>6, <1>7
     DEF Consistent, Changes, Writes, SessionCurrent, Named
<1>10. Stands(r)'
  <2> SUFFICES ASSUME req[r].wrote # {} PROVE Reads(r)' = row
    BY <1>6, <1>7 DEF Stands
  <2>1. Reads(r)' = Merge(req[r].wrote, row, stored)
    BY <1>2, <1>6, <1>7 DEF Reads
  <2>2. CASE stored = None
    <3>1. req[r].wrote = Fields
      BY <1>1, <1>2, <2>2 DEF Consistent, Shaped
    <3> QED BY <1>4, <2>1, <3>1, MergeAll
  <2>3. CASE stored # None
    <3>1. stored \in Row
      BY <2>3 DEF IInv, TypeOK
    <3>2. /\ Merge(req[r].wrote, row, stored) \in Row
          /\ \A f \in Fields : Merge(req[r].wrote, row, stored)[f] =
               IF f \in req[r].wrote THEN row[f] ELSE stored[f]
      BY <1>4, <3>1, MergeField
    <3>3. \A f \in Fields : Merge(req[r].wrote, row, stored)[f] = row[f]
      BY <1>4, <3>2
    <3> QED BY <1>4, <2>1, <3>2, <3>3, EqualRows
  <2> QED BY <2>2, <2>3
<1>11. (r \in Saves => SaveCurrent(r))'
  BY <1>1, <1>2, <1>6, <1>7 DEF Consistent, SaveCurrent, Shows
<1>12. Consistent(r)'
  BY <1>3, <1>8, <1>9, <1>10, <1>11 DEF Consistent
<1> QED BY <1>2, <1>6, <1>7, <1>12, OneRequest DEF IInv, TypeOK
\* A commit that changes nothing is like a roll-back.
LEMMA RestConsistent ==
  ASSUME IInv, NEW r \in Slots, req[r].pc = "commit",
         req'[r] = Rest(r), UNCHANGED <<env, stored>>, Over(r)
  PROVE  /\ Rest(r) \in Request /\ Rest(r).wrote = {}
         /\ Consistent(r)'
<1>1. req[r] \in Request /\ req[r].reply \in Row \cup {None, Error}
  BY DEF IInv, TypeOK, Request
<1>2. /\ Rest(r) \in Request /\ Rest(r).pc = "idle"
      /\ Rest(r).wrote = {} /\ Rest(r).reply = req[r].reply
  BY <1>1, IdleFacts DEF Rest
<1>3. r \in Loads => AnswerCurrent(r)'
  BY <1>2 DEF IInv, Consistent, Over, AnswerCurrent, Shows
<1> QED BY <1>2, <1>3, IdleConsistent

LEMMA OverFacts ==
  ASSUME NEW r \in Slots, Over(r)
  PROVE  /\ overtaken' \in {overtaken, overtaken \ {r}}
         /\ behind' = behind \ {r}
         /\ r \in overtaken' => r \in overtaken /\ r \in Loads
BY DEF Over

\* The row changes: whoever has read it is overtaken.
LEMMA ChangeStep ==
  ASSUME IInv, NEW r \in Slots, Commit(r), stored' # stored
  PROVE  IInv'
<1>1. /\ req[r] \in Request /\ req \in [Slots -> Request]
      /\ req[r].base \in Row /\ stored \in Row \cup {None}
      /\ req[r].reply \in Row \cup {None, Error}
      /\ req[r].pc = "commit" /\ Past(r)
  BY DEF Commit, IInv, TypeOK, Request, Past
<1>2. /\ Rest(r) \in Request /\ Rest(r).pc = "idle"
      /\ Rest(r).wrote = {} /\ Rest(r).reply = req[r].reply
  BY <1>1, IdleFacts DEF Rest
<1>3. /\ req' \in [Slots -> Request] /\ req'[r] = Rest(r)
      /\ \A q \in Slots \ {r} : req'[q] = req[q]
  BY <1>1, <1>2 DEF Commit
<1>4. /\ stored' = Reads(r) /\ stored' \in Row /\ stored' # None
      /\ \A f \in Fields : stored'[f] =
           IF f \in req[r].wrote THEN req[r].base[f] ELSE stored[f]
  BY <1>1, ReadsField, RowFacts DEF Commit
<1>5. req[r].wrote # {}
  BY DEF Commit, Reads
<1>6. \A q \in Slots \ {r} : req[q].wrote = {}
  BY <1>5 DEF IInv, OneWriter
<1>7. Changed(r) /\ UNCHANGED <<env, view, form, edited>>
  BY DEF Commit, UnchangedPage
<1>8. /\ \A q \in Slots \ {r} : Holds(q) => q \in overtaken'
      /\ \A q \in Saves \ {r} : req[q].pc # "idle" => q \in behind'
      /\ Pages \subseteq behind'
      /\ overtaken' \subseteq Slots
      /\ behind' \subseteq Pages \cup Saves
      /\ r \in overtaken' <=> r \in overtaken /\ r \in Loads /\ req[r].reply \in Row
  BY <1>7 DEF Changed
<1>9. TypeOK'
  BY <1>3, <1>4, <1>7, <1>8 DEF IInv, TypeOK
<1>10. OneWriter'
  BY <1>2, <1>3, <1>6 DEF OneWriter
<1>11. (overtaken \cap Saves \subseteq behind)'
  BY <1>7, <1>8, SlotFacts DEF Changed, Holds
<1>12. ASSUME NEW q \in Slots \ {r} PROVE Consistent(q)'
  <2>1. /\ Consistent(q) /\ req'[q] = req[q] /\ req[q].wrote = {}
        /\ Past(q) => Holds(q)
        /\ q \in Loads /\ req[q].reply \in Row => Holds(q)
    BY <1>3, <1>6 DEF IInv, Past, Holds
  <2>2. Shaped(q)'
    BY <1>4, <2>1 DEF Consistent, Shaped, Past
  <2>3. ASSUME NEW f \in Fields
        PROVE  (Changes(q, f) /\ Writes(q, f) /\ SessionCurrent(q, f))'
    BY <1>7, <1>8, <2>1
       DEF Consistent, Changes, Writes, SessionCurrent, Named, Past
  <2>4. Stands(q)'
    BY <2>1 DEF Stands
  <2>5. (q \in Loads => AnswerCurrent(q))'
    BY <1>8, <2>1 DEF AnswerCurrent
  <2>6. (q \in Saves => SaveCurrent(q))'
    BY <1>8, <2>1 DEF SaveCurrent
  <2> QED BY <2>2, <2>3, <2>4, <2>5, <2>6 DEF Consistent
<1>13. Consistent(r)'
  <2>1. ASSUME r \in Loads PROVE AnswerCurrent(r)'
    <3> SUFFICES ASSUME req[r].reply \in Row, r \notin overtaken,
                        NEW f \in {"url", "recovery"}
                 PROVE  stored'[f] = req[r].reply[f]
      BY <1>2, <1>3, <1>8, <2>1 DEF AnswerCurrent, Shows
    <3>1. req[r].kind = "get" /\ f \in Fields
      BY <1>1, <2>1 DEF IInv, Consistent, Shaped, Fields
    <3>2. req[r].reply = req[r].row /\ req[r].row = req[r].base
      BY <1>1, <3>1, NotDirty DEF IInv, Consistent, Shaped, Commit
    <3>3. stored = None => req[r].wrote = Fields
      BY <1>1 DEF IInv, Consistent, Shaped
    <3>4. f \notin req[r].wrote => req[r].base[f] = stored[f]
      BY <1>1, <3>1, <3>3 DEF IInv, Consistent, SessionCurrent
    <3> QED BY <1>4, <3>1, <3>2, <3>4
  <2> QED BY <1>2, <1>3, <2>1, IdleConsistent
<1>14. \A p \in Pages : FormCurrent(p)'
  BY <1>7, <1>8 DEF IInv, FormCurrent
<1> QED BY <1>9, <1>10, <1>11, <1>12, <1>13, <1>14 DEF IInv

LEMMA CommitStep ==
  ASSUME IInv, NEW r \in Slots, Commit(r)
  PROVE  IInv'
<1>1. CASE stored' = stored
  <2>1. /\ req' = [req EXCEPT ![r] = Rest(r)] /\ req[r].pc = "commit"
        /\ Over(r) /\ req \in [Slots -> Request]
        /\ UNCHANGED <<env, stored, view, form, edited>>
    BY <1>1 DEF Commit, UnchangedPage, IInv, TypeOK
  <2>2. req'[r] = Rest(r)
    BY <2>1
  <2>3. Rest(r) \in Request /\ Rest(r).wrote = {} /\ Consistent(r)'
    BY <2>1, <2>2, RestConsistent
  <2>4. /\ req' \in [Slots -> Request]
        /\ \A q \in Slots \ {r} : req'[q] = req[q]
    BY <2>1, <2>3
  <2> QED BY <2>1, <2>2, <2>3, <2>4, OverFacts, OneRequest, SlotFacts
          DEF IInv, TypeOK
<1>2. CASE stored' # stored
  BY <1>2, ChangeStep
<1> QED BY <1>1, <1>2

LEMMA AbortStep ==
  ASSUME IInv, NEW r \in Slots, Abort(r)
  PROVE  IInv'
<1>1. /\ UNCHANGED <<env, stored, view, form, edited>> /\ Over(r)
      /\ req \in [Slots -> Request]
      /\ view \in [Pages -> {"loading", "failed", "shown"}]
  BY DEF Abort, UnchangedPage, IInv, TypeOK
<1>2. /\ Refused(r) \in Request /\ Refused(r).pc = "idle"
      /\ Refused(r).wrote = {} /\ Refused(r).reply \notin Row
  BY IdleFacts, RowFacts DEF Refused
<1>3. req'[r] \in Request /\ req'[r].wrote = {} /\ Consistent(r)'
  <2>1. CASE req[r].pc = "commit"
    <3>1. req'[r] = Rest(r)
      BY <1>1, <2>1 DEF Abort
    <3> QED BY <1>1, <2>1, <3>1, RestConsistent
  <2>2. CASE req[r].pc # "commit"
    <3>1. req'[r] = Refused(r)
      BY <1>1, <2>2 DEF Abort
    <3>2. Consistent(r)'
      BY <1>2, <3>1, IdleConsistent DEF AnswerCurrent
    <3> QED BY <1>2, <3>1, <3>2
  <2> QED BY <2>1, <2>2
<1>4. /\ req' \in [Slots -> Request]
      /\ \A q \in Slots \ {r} : req'[q] = req[q]
  BY <1>1, <1>3 DEF Abort
<1>5. r \in Loads => r \notin behind
  BY SlotFacts DEF IInv, TypeOK
<1> QED BY <1>1, <1>3, <1>4, <1>5, OverFacts, OneRequest
---------------------------------------------------------------------------
(* Requests that begin, and the steps of a page *)

\* A request begins that no page has filled in.
LEMMA BeginStep ==
  ASSUME IInv, NEW r \in Slots \ Saves, Free(r),
         NEW k \in {"get", "patch", "test", "check"},
         NEW asked \in Patch, NEW named \in SUBSET Fields,
         r \in Loads => k = "get",
         req' = [req EXCEPT ![r] = Fresh(k, asked, named)],
         UNCHANGED <<env, stored, view, form, edited, overtaken, behind>>
  PROVE  IInv'
<1>1. /\ Fresh(k, asked, named) \in Request /\ Fresh(k, asked, named).wrote = {}
      /\ req \in [Slots -> Request]
      /\ view \in [Pages -> {"loading", "failed", "shown"}]
  BY FreshFacts DEF IInv, TypeOK
<1>2. /\ req' \in [Slots -> Request] /\ req'[r] = Fresh(k, asked, named)
      /\ \A q \in Slots \ {r} : req'[q] = req[q]
  BY <1>1
<1>3. Consistent(r)'
  BY <1>2, FreshConsistent
<1> QED BY <1>1, <1>2, <1>3, OneRequest

LEMMA FetchStep ==
  ASSUME IInv, NEW p \in Pages, Fetch(p)
  PROVE  IInv'
<1> DEFINE s == <<p, "load">>
<1>1. s \in Slots \ Saves /\ s \in Loads
  BY SlotFacts
<1>2. Free(s)
  BY DEF Fetch, Asking
<1> HIDE DEF s
<1>3. req' = [req EXCEPT ![s] = Fresh("get", Nothing, {})]
      /\ UNCHANGED <<env, stored, view, form, edited, overtaken, behind>>
  BY DEF Fetch, UnchangedPage, UnchangedHistory, s
<1>4. "get" \in {"get", "patch", "test", "check"} /\ {} \in SUBSET Fields
      /\ Nothing \in Patch
  BY RowFacts
<1>5. UNCHANGED <<env, stored, view, form, edited, overtaken, behind>>
  BY <1>3
<1> QED BY <1>1, <1>2, <1>3, <1>4, <1>5, BeginStep

LEMMA ArriveStep ==
  ASSUME IInv, NEW r \in Clients, Arrive(r) \/ ArrivePatch(r)
  PROVE  IInv'
<1>1. r \in Slots \ Saves /\ r \notin Loads /\ Free(r)
      /\ UNCHANGED <<env, stored, view, form, edited, overtaken, behind>>
  BY SlotFacts DEF Arrive, ArrivePatch, UnchangedPage, UnchangedHistory
<1>2. PICK k \in {"patch", "test", "check"}, asked \in Patch, named \in SUBSET Fields :
        req' = [req EXCEPT ![r] = Fresh(k, asked, named)]
  BY SettingsAssumption, RowFacts DEF Arrive, ArrivePatch
<1> QED BY <1>1, <1>2, BeginStep

\* An empty form shows nothing of the row.
LEMMA OpenStep ==
  ASSUME IInv, NEW p \in Pages, Open(p)
  PROVE  IInv'
<1>1. /\ form' = [form EXCEPT ![p] = Default]
      /\ edited' = [edited EXCEPT ![p] = {}]
      /\ view' \in [Pages -> {"loading", "failed", "shown"}]
      /\ behind' = behind \cup {p}
      /\ UNCHANGED <<env, stored, req, overtaken>>
  BY DEF Open, IInv, TypeOK
<1>2. TypeOK'
  BY <1>1, RowFacts DEF IInv, TypeOK
<1>3. OneWriter' /\ (overtaken \cap Saves \subseteq behind)'
  BY <1>1 DEF IInv, OneWriter
<1>4. \A q \in Slots : Consistent(q)'
  BY <1>1, SlotFacts, Untouched DEF IInv
<1>5. FormCurrent(p)'
  BY <1>1, RowFacts DEF IInv, TypeOK, FormCurrent
<1>6. \A q \in Pages \ {p} : FormCurrent(q)'
  BY <1>1, FormUntouched DEF IInv, TypeOK
<1> QED BY <1>2, <1>3, <1>4, <1>5, <1>6 DEF IInv

\* A page takes an answer; the request may still be under way.
LEMMA AnswerTaken ==
  ASSUME IInv, NEW s \in Slots,
         req'[s] = [req[s] EXCEPT !.reply = None],
         UNCHANGED <<env, stored>>,
         Past(s) => (s \in overtaken' <=> s \in overtaken),
         s \in Saves => (s \in behind' <=> s \in behind)
  PROVE  /\ req'[s] \in Request
         /\ req'[s].wrote = req[s].wrote
         /\ Consistent(s)'
<1>1. req[s] \in Request /\ Consistent(s)
  BY DEF IInv, TypeOK
<1>2. /\ req'[s] \in Request
      /\ req'[s].kind = req[s].kind /\ req'[s].asked = req[s].asked
      /\ req'[s].named = req[s].named /\ req'[s].base = req[s].base
      /\ req'[s].row = req[s].row /\ req'[s].pc = req[s].pc
      /\ req'[s].wrote = req[s].wrote /\ req'[s].reply = None
  BY <1>1 DEF Request
<1>3. Shaped(s)'
  BY <1>1, <1>2, RowFacts DEF Consistent, Shaped, Past
<1>4. ASSUME NEW f \in Fields
      PROVE  (Changes(s, f) /\ Writes(s, f) /\ SessionCurrent(s, f))'
  <2>1. Changes(s, f)'
    BY <1>1, <1>2 DEF Consistent, Changes, Named, Past
  <2>2. Writes(s, f)'
    BY <1>1, <1>2 DEF Consistent, Shaped, Writes, Named, Past
  <2>3. SessionCurrent(s, f)'
    BY <1>1, <1>2 DEF Consistent, SessionCurrent, Past
  <2> QED BY <2>1, <2>2, <2>3
<1>5. Stands(s)'
  BY <1>1, <1>2 DEF Consistent, Stands, Reads
<1>6. AnswerCurrent(s)'
  BY <1>2, RowFacts DEF AnswerCurrent
<1>7. (s \in Saves => SaveCurrent(s))'
  BY <1>1, <1>2 DEF Consistent, SaveCurrent, Shows
<1> QED BY <1>2, <1>3, <1>4, <1>5, <1>6, <1>7 DEF Consistent

\* The form shows the answer, and the answer the row.
LEMMA LoadedStep ==
  ASSUME IInv, NEW p \in Pages, NEW l \in {"load", "reload"}, Loaded(p, l)
  PROVE  IInv'
<1> DEFINE s == <<p, l>>
           new == [req[s] EXCEPT !.reply = None]
<1>1. s \in Slots /\ s \in Loads /\ s \notin Saves
  BY SlotFacts
<1> HIDE DEF s
<1>2. /\ req[s] \in Request /\ req \in [Slots -> Request]
      /\ form[p] \in Row /\ form \in [Pages -> Row]
      /\ edited \in [Pages -> SUBSET Fields]
  BY <1>1 DEF IInv, TypeOK
<1> HIDE DEF new
<1>4. /\ req' = [req EXCEPT ![s] = new] /\ req[s].reply \in Row
      /\ form' = [form EXCEPT ![p] = [form[p] EXCEPT !.url = req[s].reply.url,
                                          !.recovery = req[s].reply.recovery]]
      /\ edited' = [edited EXCEPT ![p] = edited[p] \cap {"secret"}]
      /\ view' = [view EXCEPT ![p] = "shown"]
      /\ behind' = IF s \in overtaken THEN behind \cup {p} ELSE behind \ {p}
      /\ overtaken' = IF req[s].pc = "idle" THEN overtaken \ {s} ELSE overtaken
      /\ UNCHANGED <<env, stored>>
  <2>1. req' = [req EXCEPT ![s].reply = None]
    BY DEF Loaded, s
  <2>2. form' = [form EXCEPT ![p].url = req[s].reply.url,
                             ![p].recovery = req[s].reply.recovery]
    BY DEF Loaded, s
  <2> QED BY <1>2, <2>1, <2>2 DEF Loaded, s, new
<1>3. req'[s] = new /\ \A q \in Slots \ {s} : req'[q] = req[q]
  BY <1>1, <1>2, <1>4
<1>11. req'[s] \in Request /\ req'[s].wrote = req[s].wrote /\ Consistent(s)'
  BY <1>1, <1>3, <1>4, AnswerTaken DEF new, Past
<1>5. /\ req' \in [Slots -> Request]
      /\ \A q \in Slots \ {s} : req'[q] = req[q]
  BY <1>2, <1>3, <1>4, <1>11
<1>6. /\ form' \in [Pages -> Row] /\ \A q \in Pages \ {p} : form'[q] = form[q]
      /\ form'[p].url = req[s].reply.url
      /\ form'[p].recovery = req[s].reply.recovery
      /\ form'[p].secret = form[p].secret
  BY <1>2, <1>4 DEF Row
<1>7. TypeOK'
  BY <1>4, <1>5, <1>6 DEF IInv, TypeOK
<1>8. OneWriter'
  BY <1>1, <1>5, <1>11 DEF IInv, OneWriter
<1>9. (overtaken \cap Saves \subseteq behind)'
  BY <1>1, <1>4, SlotFacts DEF IInv
<1>10. \A q \in Slots \ {s} : Consistent(q)'
  BY <1>4, <1>5, SlotFacts, Untouched DEF IInv
<1>12. FormCurrent(p)'
  <2>1. "secret" \notin edited'[p] => form'[p].secret = None
    BY <1>2, <1>4, <1>6 DEF IInv, FormCurrent
  <2>2. ASSUME p \notin behind', stored # None, NEW f \in {"url", "recovery"}
        PROVE  Shows(f, form'[p][f])
    <3>1. s \notin overtaken
      BY <1>4, <2>2
    <3>2. Shows(f, req[s].reply[f])
      BY <1>1, <1>4, <2>2, <3>1 DEF IInv, Consistent, AnswerCurrent
    <3>3. form'[p][f] = req[s].reply[f]
      BY <1>6
    <3> QED BY <3>2, <3>3
  <2> QED BY <1>4, <2>1, <2>2 DEF FormCurrent, Shows
<1>13. \A q \in Pages \ {p} : FormCurrent(q)'
  BY <1>2, <1>4, <1>6, FormUntouched DEF IInv
<1> QED BY <1>7, <1>8, <1>9, <1>10, <1>11, <1>12, <1>13 DEF IInv
LEMMA LoadFailedStep ==
  ASSUME IInv, NEW p \in Pages, NEW l \in {"load", "reload"}, LoadFailed(p, l)
  PROVE  IInv'
<1> DEFINE s == <<p, l>>
<1>1. s \in Slots \ Saves /\ s \in Loads
  BY SlotFacts
<1> HIDE DEF s
<1>2. /\ UNCHANGED <<env, stored, form, edited, overtaken, behind>>
      /\ req \in [Slots -> Request]
      /\ view' \in [Pages -> {"loading", "failed", "shown"}]
  BY DEF LoadFailed, UnchangedHistory, IInv, TypeOK
<1>3. /\ req'[s] \in Request /\ Consistent(s)'
      /\ req'[s].wrote # {} => req[s].wrote # {}
  <2>1. CASE req' = [req EXCEPT ![s] = Fresh("get", Nothing, {})]
    <3>1. req'[s] = Fresh("get", Nothing, {})
      BY <1>1, <1>2, <2>1
    <3>2. Fresh("get", Nothing, {}) \in Request
          /\ Fresh("get", Nothing, {}).wrote = {}
      BY FreshFacts, RowFacts
    <3>3. Consistent(s)'
      <4>1. {} \in SUBSET Fields /\ Nothing \in Patch
        BY RowFacts
      <4> QED BY <1>1, <3>1, <4>1, FreshConsistent
    <3> QED BY <3>1, <3>2, <3>3
  <2>2. CASE req' = [req EXCEPT ![s].reply = None]
    <3>1. req'[s] = [req[s] EXCEPT !.reply = None]
      BY <1>1, <1>2, <2>2
    <3> QED BY <1>1, <1>2, <3>1, AnswerTaken
  <2> QED BY <2>1, <2>2 DEF LoadFailed, s
<1>4. PICK x : req' = [req EXCEPT ![s] = x]
  BY DEF LoadFailed, s
<1>5. /\ req' \in [Slots -> Request]
      /\ \A q \in Slots \ {s} : req'[q] = req[q]
  BY <1>1, <1>2, <1>3, <1>4
<1> QED BY <1>1, <1>2, <1>3, <1>5, OneRequest

\* What is typed counts as edited.
LEMMA EditStep ==
  ASSUME IInv, NEW p \in Pages, Edit(p)
  PROVE  IInv'
<1>1. PICK f \in Fields, row \in Row :
        /\ form' = [form EXCEPT ![p] = Merge({f}, row, form[p])]
        /\ edited' = [edited EXCEPT ![p] = edited[p] \cup {f}]
  BY DEF Edit
<1>2. /\ form \in [Pages -> Row] /\ edited \in [Pages -> SUBSET Fields]
      /\ UNCHANGED <<env, stored, req, view, overtaken, behind>>
  BY DEF IInv, TypeOK, Edit, UnchangedHistory
<1>3. /\ Merge({f}, row, form[p]) \in Row
      /\ \A g \in Fields \ {f} : Merge({f}, row, form[p])[g] = form[p][g]
  BY <1>2, MergeField
<1>4. TypeOK'
  BY <1>1, <1>2, <1>3 DEF IInv, TypeOK
<1>5. OneWriter' /\ (overtaken \cap Saves \subseteq behind)'
  BY <1>2 DEF IInv, OneWriter
<1>6. \A q \in Slots : Consistent(q)'
  BY <1>2, Untouched DEF IInv
<1>7. FormCurrent(p)'
  <2>1. form'[p] = Merge({f}, row, form[p]) /\ edited'[p] = edited[p] \cup {f}
    BY <1>1, <1>2
  <2>2. \A g \in Fields \ edited'[p] : form'[p][g] = form[p][g]
    BY <1>3, <2>1
  <2>3. "secret" \notin edited'[p] => form'[p].secret = None
    BY <2>1, <2>2 DEF IInv, FormCurrent, Fields
  <2> QED BY <1>2, <2>1, <2>2, <2>3 DEF IInv, FormCurrent, Shows, Fields
<1>8. \A q \in Pages \ {p} : FormCurrent(q)'
  BY <1>1, <1>2, FormUntouched DEF IInv
<1> QED BY <1>4, <1>5, <1>6, <1>7, <1>8 DEF IInv

\* A save sends what the form shows.
LEMMA SaveStep ==
  ASSUME IInv, NEW p \in Pages, Save(p)
  PROVE  IInv'
<1> DEFINE s == <<p, "save">>
<1>1. s \in Slots /\ s \in Saves /\ s \notin Loads
  BY SlotFacts
<1>2. /\ req' = [req EXCEPT ![s] = Fresh("patch", Body(p), edited[p])]
      /\ behind' = IF p \in behind THEN behind \cup {s} ELSE behind
      /\ UNCHANGED <<env, stored, overtaken, view, form, edited>>
  BY DEF Save, UnchangedPage
<1> HIDE DEF s
<1>3. /\ form[p] \in Row /\ edited[p] \in SUBSET Fields
      /\ req \in [Slots -> Request]
      /\ view \in [Pages -> {"loading", "failed", "shown"}]
  BY DEF IInv, TypeOK
<1>4. Body(p) \in Patch
  BY <1>3 DEF Body, Sent, Patch, Row, Maybe
<1>5. /\ Fresh("patch", Body(p), edited[p]) \in Request
      /\ Fresh("patch", Body(p), edited[p]).wrote = {}
      /\ Fresh("patch", Body(p), edited[p]).asked = Body(p)
      /\ Fresh("patch", Body(p), edited[p]).named = edited[p]
  BY <1>3, <1>4, FreshFacts
<1>6. /\ req' \in [Slots -> Request]
      /\ req'[s] = Fresh("patch", Body(p), edited[p])
      /\ \A q \in Slots \ {s} : req'[q] = req[q]
  BY <1>1, <1>2, <1>3, <1>5
<1>7. SaveCurrent(s)'
  <2> SUFFICES ASSUME p \notin behind, NEW f \in Fields \ edited[p],
                      Body(p)[f] # Keep, stored # None
               PROVE  f # "secret" /\ Shows(f, Body(p)[f])
    BY <1>2, <1>5, <1>6 DEF SaveCurrent, Shows
  <2>1. f # "secret"
    <3>1. "secret" \notin edited[p] => Body(p).secret = Keep
      BY DEF IInv, FormCurrent, Body, Sent
    <3> QED BY <3>1
  <2>2. f \in {"url", "recovery"}
    BY <2>1 DEF Fields
  <2>3. Body(p)[f] = form[p][f]
    BY <2>2 DEF Body, Sent
  <2> QED BY <2>1, <2>2, <2>3 DEF IInv, FormCurrent
<1>8. Consistent(s)'
  BY <1>1, <1>3, <1>4, <1>6, <1>7, FreshConsistent
<1> QED BY <1>1, <1>2, <1>3, <1>5, <1>6, <1>8, OneRequest

LEMMA SaveFailedStep ==
  ASSUME IInv, NEW p \in Pages, SaveFailed(p)
  PROVE  IInv'
<1> DEFINE s == <<p, "save">>
<1>1. s \in Slots
  BY SlotFacts
<1>2. /\ req' = [req EXCEPT ![s].reply = None]
      /\ UNCHANGED <<env, stored, view, form, edited, overtaken, behind>>
      /\ req \in [Slots -> Request]
      /\ view \in [Pages -> {"loading", "failed", "shown"}]
  BY DEF SaveFailed, UnchangedPage, UnchangedHistory, IInv, TypeOK
<1> HIDE DEF s
<1>3. req'[s] = [req[s] EXCEPT !.reply = None]
  BY <1>1, <1>2
<1>4. req'[s] \in Request /\ req'[s].wrote = req[s].wrote /\ Consistent(s)'
  BY <1>1, <1>2, <1>3, AnswerTaken
<1>5. /\ req' \in [Slots -> Request]
      /\ \A q \in Slots \ {s} : req'[q] = req[q]
  BY <1>2, <1>4
<1> QED BY <1>1, <1>2, <1>4, <1>5, OneRequest

\* The secret is gone from the form, and a query may begin.
LEMMA SavedStep ==
  ASSUME IInv, NEW p \in Pages, Saved(p)
  PROVE  IInv'
<1> DEFINE s == <<p, "save">>
<1>1. s \in Slots /\ s \in Saves
  BY SlotFacts
<1>2. /\ req \in [Slots -> Request] /\ form \in [Pages -> Row]
      /\ edited \in [Pages -> SUBSET Fields]
      /\ UNCHANGED <<env, stored, view, overtaken, behind>>
      /\ form' = [form EXCEPT ![p].secret = None]
      /\ edited' = [edited EXCEPT ![p] = edited[p] \ {"secret"}]
  BY DEF Saved, UnchangedHistory, IInv, TypeOK
<1>3. \/ req' = [req EXCEPT ![s].reply = None]
      \/ \E l \in {"load", "reload"} :
           req' = [req EXCEPT ![s].reply = None,
                              ![<<p, l>>] = Fresh("get", Nothing, {})]
  BY DEF Saved
<1>4. /\ req'[s] = [req[s] EXCEPT !.reply = None]
      /\ req' = [q \in Slots |-> req'[q]]
      /\ \A q \in Slots \ {s} : \/ req'[q] = req[q]
                                \/ /\ q \in Loads
                                   /\ req'[q] = Fresh("get", Nothing, {})
  <2>1. CASE req' = [req EXCEPT ![s].reply = None]
    BY <1>1, <1>2, <2>1
  <2>2. ASSUME NEW l \in {"load", "reload"},
               req' = [req EXCEPT ![s].reply = None,
                                  ![<<p, l>>] = Fresh("get", Nothing, {})]
        PROVE  <1>4!:
    <3> DEFINE t == <<p, l>>
    <3>1. t \in Slots /\ t \in Loads /\ t # s
      BY SlotFacts
    <3> HIDE DEF t, s
    <3>2. req' = [[req EXCEPT ![s].reply = None]
                    EXCEPT ![t] = Fresh("get", Nothing, {})]
      BY <2>2 DEF t, s
    <3> QED BY <1>1, <1>2, <3>1, <3>2
  <2> QED BY <1>3, <2>1, <2>2
<1> HIDE DEF s
<1>5. /\ Fresh("get", Nothing, {}) \in Request
      /\ Fresh("get", Nothing, {}).wrote = {}
      /\ {} \in SUBSET Fields /\ Nothing \in Patch
  BY FreshFacts, RowFacts
<1>6. req'[s] \in Request /\ req'[s].wrote = req[s].wrote /\ Consistent(s)'
  BY <1>1, <1>2, <1>4, AnswerTaken
<1>7. \A q \in Slots : req'[q] \in Request /\ (req'[q].wrote # {} => req[q].wrote # {})
  BY <1>2, <1>4, <1>5, <1>6
<1>8. /\ form' \in [Pages -> Row] /\ \A q \in Pages \ {p} : form'[q] = form[q]
      /\ form'[p].url = form[p].url /\ form'[p].recovery = form[p].recovery
      /\ form'[p].secret = None
  BY <1>2 DEF Row, Maybe
<1>9. TypeOK'
  BY <1>2, <1>4, <1>7, <1>8 DEF IInv, TypeOK
<1>10. OneWriter' /\ (overtaken \cap Saves \subseteq behind)'
  BY <1>2, <1>7 DEF IInv, OneWriter
<1>11. ASSUME NEW q \in Slots \ {s} PROVE Consistent(q)'
  <2>1. CASE req'[q] = req[q]
    BY <1>2, <2>1, Untouched DEF IInv
  <2>2. CASE q \in Loads /\ req'[q] = Fresh("get", Nothing, {})
    BY <1>5, <2>2, FreshConsistent, SlotFacts
  <2> QED BY <1>4, <2>1, <2>2
<1>12. FormCurrent(p)'
  <2>1. \A f \in {"url", "recovery"} : form'[p][f] = form[p][f]
    BY <1>8
  <2>2. edited'[p] = edited[p] \ {"secret"} /\ FormCurrent(p)
    BY <1>2 DEF IInv
  <2>3. \A f \in {"url", "recovery"} \ edited'[p] : f \notin edited[p]
    BY <2>2
  <2> QED BY <1>2, <1>8, <2>1, <2>2, <2>3 DEF FormCurrent, Shows
<1>13. \A q \in Pages \ {p} : FormCurrent(q)'
  BY <1>2, <1>8, FormUntouched DEF IInv
<1> QED BY <1>6, <1>9, <1>10, <1>11, <1>12, <1>13 DEF IInv
---------------------------------------------------------------------------
(* The invariant *)

LEMMA InitInvariant == Init => IInv
<1> SUFFICES ASSUME Init PROVE IInv
  OBVIOUS
<1>1. TypeOK
  BY IdleFacts, RowFacts DEF Init, TypeOK
<1>2. \A r \in Slots : /\ req[r].pc = "idle" /\ req[r].wrote = {}
                       /\ req[r].reply = None
  BY IdleFacts DEF Init
<1>3. OneWriter /\ overtaken \cap Saves \subseteq behind
  BY <1>2 DEF Init, OneWriter
<1>4. \A r \in Slots : Consistent(r)
  BY <1>2, RowFacts
     DEF Consistent, Shaped, Changes, Writes, SessionCurrent, Stands, Past,
         AnswerCurrent, SaveCurrent
<1>5. \A p \in Pages : FormCurrent(p)
  BY RowFacts DEF Init, FormCurrent
<1> QED BY <1>1, <1>3, <1>4, <1>5 DEF IInv

LEMMA NextInvariant == IInv /\ [Next]_vars => IInv'
<1> SUFFICES ASSUME IInv, [Next]_vars PROVE IInv'
  OBVIOUS
<1>1. ASSUME NEW r \in Slots, Step(r) \/ Abort(r) PROVE IInv'
  BY <1>1, LoadStep, InsertStep, PostStep, WriteStep, RefreshStep, CommitStep,
     AbortStep DEF Step
<1>2. ASSUME NEW r \in Clients, Arrive(r) \/ ArrivePatch(r) PROVE IInv'
  BY <1>2, ArriveStep
<1>3. ASSUME NEW p \in Pages,
             \/ Fetch(p) \/ Open(p) \/ Edit(p)
             \/ Save(p) \/ Saved(p) \/ SaveFailed(p)
      PROVE IInv'
  BY <1>3, FetchStep, OpenStep, EditStep, SaveStep, SavedStep, SaveFailedStep
<1>4. ASSUME NEW p \in Pages, NEW l \in {"load", "reload"},
             Loaded(p, l) \/ LoadFailed(p, l)
      PROVE IInv'
  BY <1>4, LoadedStep, LoadFailedStep
<1>5. CASE UNCHANGED vars
  <2>1. TypeOK' /\ OneWriter' /\ (overtaken \cap Saves \subseteq behind)'
    BY <1>5 DEF vars, IInv, TypeOK, OneWriter
  <2>2. \A r \in Slots : Consistent(r)'
    BY <1>5, Untouched DEF vars, IInv
  <2>3. \A p \in Pages : FormCurrent(p)'
    BY <1>5, FormUntouched DEF vars, IInv
  <2> QED BY <2>1, <2>2, <2>3 DEF IInv
<1> QED BY <1>1, <1>2, <1>3, <1>4, <1>5 DEF Next

\* The strengthened invariant holds for any pages, clients, URLs and secrets.
THEOREM AlertSettingsInvariant == Spec => []IInv
<1>1. Init => IInv
  BY InitInvariant
<1>2. IInv /\ [Next]_vars => IInv'
  BY NextInvariant
<1> QED BY <1>1, <1>2, PTL DEF Spec

\* Every variable keeps its type (the row, the requests and the forms).
THEOREM AlertSettingsType == Spec => []TypeOK
<1>1. IInv => TypeOK
  BY DEF IInv
<1> QED BY <1>1, AlertSettingsInvariant, PTL

\* A PATCH that has written the row commits what it has answered: the refresh
\* in AlertSettingsRepository.update comes after the flush that takes the lock.
THEOREM AnswersStand == Spec => []AnswerStands
<1>1. IInv => AnswerStands
  BY DEF IInv, Consistent, AnswerStands
<1> QED BY <1>1, AlertSettingsInvariant, PTL

---------------------------------------------------------------------------
(* Properties of commits *)

\* What a commit changes in an existing row.
LEMMA CommitFacts ==
  ASSUME IInv, NEW r \in Slots, Commit(r), stored # None,
         NEW f \in Fields, stored'[f] # stored[f]
  PROVE  /\ \/ Named(r, f, stored'[f])
            \/ /\ f # "recovery" /\ stored'[f] = env[f]
               /\ stored[f] = None \/ r \in overtaken
         /\ req[r].pc = "commit"
<1>1. Past(r) /\ req[r].pc = "commit" /\ stored' = Reads(r)
  BY DEF Commit, Past
<1>2. f \in req[r].wrote /\ stored'[f] = req[r].base[f]
  BY <1>1, ReadsField
<1>3. Writes(r, f)
  BY DEF IInv, Consistent
<1> QED BY <1>1, <1>2, <1>3 DEF Writes

\* A commit changes only columns that its request has named, or empty ones to
\* the value of the environment (update_settings and _ensure_settings_row).
THEOREM OnlyNamed == Spec => OnlyNamedChange
<1> DEFINE A == \A r \in Slots : Commit(r) /\ stored # None =>
                  \A f \in Fields : stored'[f] # stored[f] =>
                    \/ req[r].asked[f] # Keep /\ stored'[f] = req[r].asked[f]
                    \/ Fills(f)
                    \/ f # "recovery" /\ r \in overtaken /\ stored'[f] = env[f]
<1>1. ASSUME IInv PROVE A
  BY <1>1, CommitFacts DEF Named, Fills
<1> QED BY <1>1, AlertSettingsInvariant, PTL DEF OnlyNamedChange

\* A save from a form that shows the row leaves alone what has not been edited
\* in it (AlertSettingsPage sends every field).
THEOREM UneditedStays == Spec => UneditedKept
<1> DEFINE A == \A s \in Saves :
                  Commit(s) /\ stored # None /\ s \notin behind =>
                    \A f \in Fields \ req[s].named :
                      stored'[f] = stored[f] \/ Fills(f)
<1>1. ASSUME IInv PROVE A
  <2> SUFFICES ASSUME NEW s \in Saves, Commit(s), stored # None, s \notin behind,
                      NEW f \in Fields \ req[s].named, stored'[f] # stored[f]
               PROVE  Fills(f)
    OBVIOUS
  <2>1. s \in Slots /\ f \in Fields /\ s \notin overtaken
    BY <1>1, SlotFacts DEF IInv
  <2>2. /\ \/ Named(s, f, stored'[f])
           \/ /\ f # "recovery" /\ stored'[f] = env[f]
              /\ stored[f] = None \/ s \in overtaken
        /\ req[s].pc = "commit"
    BY <1>1, <2>1, CommitFacts
  <2>3. CASE Named(s, f, stored'[f])
    <3>1. Shows(f, stored'[f])
      BY <1>1, <2>1, <2>2, <2>3 DEF IInv, Consistent, SaveCurrent, Named
    <3> QED BY <3>1 DEF Shows, Fills
  <2>4. CASE ~Named(s, f, stored'[f])
    BY <2>1, <2>2, <2>4 DEF Fills
  <2> QED BY <2>3, <2>4
<1> QED BY <1>1, AlertSettingsInvariant, PTL DEF UneditedKept
=============================================================================
