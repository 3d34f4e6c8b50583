------------------------- MODULE RegistrationProofs -------------------------
(***************************************************************************)
(* Proofs about Registration, for any set of registrations and addresses.  *)
(***************************************************************************)
EXTENDS Registration, TLAPS

\* The steps of the worker, the administrator and the client.
Beside(r) == Take(r) \/ SendNotification(r) \/ SetActive(r) \/ Me(r) \/ MeExpired(r)

\* The steps, without what schedules them.
Acts(r) ==
  \/ Select(r) \/ Insert(r) \/ Respond(r) \/ Queue(r) \/ QueueFails(r)
  \/ Commit(r) \/ Fail(r) \/ Beside(r)

LEMMA StepCases == ASSUME Next PROVE \E r \in Registrations : Acts(r)
BY DEF Next, Step, Work, Acts, Beside

\* Every variable keeps its type.
THEOREM RegistrationType == Spec => []TypeOK
<1>1. Init => TypeOK
  BY DEF Init, TypeOK, Working
<1>2. TypeOK /\ [Next]_vars => TypeOK'
  <2> SUFFICES ASSUME TypeOK, Next PROVE TypeOK'
    BY DEF TypeOK, vars
  <2>1. PICK r \in Registrations : Acts(r)
    BY StepCases
  <2>2. CASE Select(r) \/ Insert(r) \/ Respond(r)
    BY <2>2 DEF TypeOK, Select, Insert, Respond, At, Answers, Working, Ended
  <2>3. CASE Queue(r) \/ QueueFails(r)
    BY <2>3 DEF TypeOK, Queue, QueueFails, At, Working, Ended
  <2>4. CASE Commit(r) \/ Fail(r)
    BY <2>4 DEF TypeOK, Commit, Fail, At, Working, Ended
  <2>5. CASE Take(r) \/ SendNotification(r)
    BY <2>5 DEF TypeOK, Take, SendNotification
  <2>6. CASE SetActive(r) \/ Me(r) \/ MeExpired(r)
    BY <2>6 DEF TypeOK, SetActive, Me, MeExpired
  <2> QED BY <2>1, <2>2, <2>3, <2>4, <2>5, <2>6 DEF Acts, Beside
<1> QED BY <1>1, <1>2, PTL DEF Spec

\* No step takes a row out of the table, and only a commit puts one in.
LEMMA SavedGrows ==
  ASSUME TypeOK, Next
  PROVE  /\ Saved \subseteq Saved'
         /\ \A r \in Saved' \ Saved : Commit(r)
         /\ email' = email
<1>1. PICK r \in Registrations : Acts(r)
  BY StepCases
<1>2. CASE Select(r) \/ Insert(r) \/ Respond(r)
  BY <1>2 DEF TypeOK, Saved, Select, Insert, Respond, At
<1>3. CASE Queue(r) \/ QueueFails(r)
  BY <1>3 DEF TypeOK, Saved, Queue, QueueFails, At
<1>4. CASE Commit(r)
  BY <1>4 DEF TypeOK, Saved, Commit, At
<1>5. CASE Fail(r)
  BY <1>5 DEF TypeOK, Saved, Fail, Working
<1>6. CASE Beside(r)
  BY <1>6 DEF Saved, Beside, Take, SendNotification, SetActive, Me, MeExpired
<1> QED BY <1>1, <1>2, <1>3, <1>4, <1>5, <1>6 DEF Acts

\* A new hold of an address, which only an insert makes, finds it free.
LEMMA HoldsFromInsert ==
  ASSUME TypeOK, Next, NEW q \in Registrations, Holds(q)' \/ q \in Saved'
  PROVE  \/ Holds(q) \/ q \in Saved
         \/ /\ Insert(q)
            /\ \A p \in Same(q) : ~Holds(p) /\ p \notin Saved
<1>1. PICK r \in Registrations : Acts(r)
  BY StepCases
<1>2. CASE Select(r)
  BY <1>2 DEF TypeOK, Holds, Saved, Select, At
<1>3. CASE Insert(r)
  BY <1>3 DEF TypeOK, Holds, Saved, Insert, At, Same
<1>4. CASE Respond(r) \/ Queue(r) \/ QueueFails(r)
  BY <1>4 DEF TypeOK, Holds, Saved, Respond, Queue, QueueFails, At
<1>5. CASE Commit(r) \/ Fail(r)
  BY <1>5 DEF TypeOK, Holds, Saved, Commit, Fail, At
<1>6. CASE Beside(r)
  BY <1>6 DEF Holds, Saved, Beside, Take, SendNotification, SetActive, Me, MeExpired
<1> QED BY <1>1, <1>2, <1>3, <1>4, <1>5, <1>6 DEF Acts

\* An insert of one registration leaves every other where it was.
LEMMA InsertAlone ==
  ASSUME TypeOK, NEW q \in Registrations, Insert(q),
         NEW p \in Registrations, p # q
  PROVE  (Holds(p)' <=> Holds(p)) /\ (p \in Saved' <=> p \in Saved)
BY DEF TypeOK, Insert, At, Holds, Saved

LEMMA OneAccountKept ==
  ASSUME TypeOK, OneAccount, Next
  PROVE  OneAccount'
<1> SUFFICES ASSUME NEW r \in Registrations, NEW q \in Registrations,
                    (email[r] = email[q])',
                    (r \in Saved \/ Holds(r))', (q \in Saved \/ Holds(q))'
             PROVE  r = q
  BY DEF OneAccount
<1>1. email[r] = email[q]
  BY SavedGrows
<1>2. CASE /\ Holds(r) \/ r \in Saved
           /\ Holds(q) \/ q \in Saved
  BY <1>1, <1>2 DEF OneAccount
<1>3. CASE Insert(r) /\ \A p \in Same(r) : ~Holds(p) /\ p \notin Saved
  BY <1>1, <1>3, InsertAlone DEF Same
<1>4. CASE Insert(q) /\ \A p \in Same(q) : ~Holds(p) /\ p \notin Saved
  BY <1>1, <1>4, InsertAlone DEF Same
<1> QED BY <1>2, <1>3, <1>4, HoldsFromInsert

\* The rest of the inductive invariant.
LEMMA AnsweredByKept ==
  ASSUME TypeOK, AnsweredBy, Next
  PROVE  AnsweredBy'
<1>1. PICK r \in Registrations : Acts(r)
  BY StepCases
<1>2. CASE Select(r)
  BY <1>2 DEF TypeOK, AnsweredBy, Select, At, Answers
<1>3. CASE Insert(r)
  BY <1>3 DEF TypeOK, AnsweredBy, Insert, At, Answers
<1>4. CASE Respond(r)
  BY <1>4 DEF TypeOK, AnsweredBy, Respond, At, Answers
<1>5. CASE Queue(r) \/ QueueFails(r) \/ Commit(r) \/ Fail(r)
  BY <1>5 DEF TypeOK, AnsweredBy, Queue, QueueFails, Commit, Fail, At
<1>6. CASE Beside(r)
  BY <1>6 DEF TypeOK, AnsweredBy, Beside, Take, SendNotification, SetActive, Me, MeExpired
<1> QED BY <1>1, <1>2, <1>3, <1>4, <1>5, <1>6 DEF Acts

LEMMA NotifiedKept ==
  ASSUME TypeOK, AnsweredBy, RefusedForAccount, NotifiedWasAnswered, Next
  PROVE  NotifiedWasAnswered'
<1>1. PICK r \in Registrations : Acts(r)
  BY StepCases
<1>2. CASE Select(r) \/ Insert(r) \/ Respond(r)
  BY <1>2 DEF TypeOK, AnsweredBy, NotifiedWasAnswered, Select, Insert, Respond,
              At, Answers
<1>3. CASE Queue(r) \/ QueueFails(r) \/ Commit(r) \/ Fail(r)
  BY <1>3 DEF TypeOK, AnsweredBy, NotifiedWasAnswered, Queue, QueueFails,
              Commit, Fail, At
<1>4. CASE Beside(r)
  BY <1>4 DEF TypeOK, NotifiedWasAnswered, Beside, Take, SendNotification, SetActive, Me, MeExpired
<1> QED BY <1>1, <1>2, <1>3, <1>4 DEF Acts

LEMMA RefusedKept ==
  ASSUME TypeOK, AnsweredBy, RefusedForAccount, Next
  PROVE  RefusedForAccount'
<1>1. PICK r \in Registrations : Acts(r)
  BY StepCases
<1>2. \A q \in Registrations : Same(q) \cap Saved # {} => (Same(q) \cap Saved)' # {}
  BY SavedGrows DEF Same
<1>3. CASE Select(r)
  BY <1>2, <1>3 DEF TypeOK, RefusedForAccount, Select, At, Answers
<1>4. CASE Insert(r)
  BY <1>2, <1>4 DEF TypeOK, RefusedForAccount, Insert, At, Answers
<1>5. CASE Respond(r) \/ Queue(r) \/ QueueFails(r) \/ Commit(r) \/ Fail(r)
  BY <1>2, <1>5 DEF TypeOK, RefusedForAccount, AnsweredBy, Respond, Queue,
                    QueueFails, Commit, Fail, At, Answers, Working
<1>6. CASE Beside(r)
  BY <1>2, <1>6 DEF RefusedForAccount, Beside, Take, SendNotification, SetActive, Me, MeExpired
<1> QED BY <1>1, <1>3, <1>4, <1>5, <1>6 DEF Acts

\* A client is told of the user by /auth/me alone, and that it is there only if it is.
LEMMA ToldStep ==
  ASSUME TypeOK, Next, NEW q \in Registrations, told'[q] # told[q]
  PROVE  \/ told'[q] = "expired"
         \/ told'[q] = "found" /\ q \in Saved
         \/ told'[q] = "missing" /\ ~(q \in Saved /\ active[q])
<1>1. PICK r \in Registrations : Acts(r)
  BY StepCases
<1>2. CASE Me(r) \/ MeExpired(r)
  BY <1>2 DEF TypeOK, Me, MeExpired
<1>3. CASE ~(Me(r) \/ MeExpired(r))
  BY <1>1, <1>3 DEF Acts, Beside, Select, Insert, Respond, Queue, QueueFails,
                    Commit, Fail, Take, SendNotification, SetActive
<1> QED BY <1>2, <1>3

LEMMA FoundKept ==
  ASSUME TypeOK, FoundIsSaved, Next
  PROVE  FoundIsSaved'
<1> SUFFICES ASSUME NEW q \in Registrations, told'[q] = "found"
             PROVE  q \in Saved'
  BY DEF FoundIsSaved
<1>1. q \in Saved
  BY ToldStep DEF FoundIsSaved
<1> QED BY <1>1, SavedGrows

\* The inductive invariant: one account, and what has been answered, queued and
\* found at each step.
THEOREM RegistrationInvariant == Spec => []IInv
<1>1. Init => IInv
  BY DEF Init, IInv, TypeOK, OneAccount, AnsweredBy, RefusedForAccount,
         NotifiedWasAnswered, FoundIsSaved, Saved, Holds, Working
<1>2. TypeOK /\ TypeOK' /\ IInv /\ [Next]_vars => IInv'
  <2> SUFFICES ASSUME TypeOK, TypeOK', IInv, [Next]_vars PROVE IInv'
    OBVIOUS
  <2>1. CASE Next
    BY <2>1, OneAccountKept, AnsweredByKept, NotifiedKept, RefusedKept, FoundKept
       DEF IInv
  <2>2. CASE UNCHANGED vars
    BY <2>2 DEF IInv, TypeOK, OneAccount, AnsweredBy, RefusedForAccount,
                NotifiedWasAnswered, FoundIsSaved, Saved, Holds, Same, vars
  <2> QED BY <2>1, <2>2
<1>3. Spec => []TypeOK
  BY RegistrationType
<1> QED BY <1>1, <1>2, <1>3, PTL DEF Spec

\* Every account has been answered for and its notification queued.
THEOREM SavedIsQueuedHolds == Spec => []SavedIsQueued
<1>1. IInv => SavedIsQueued
  BY DEF IInv, SavedIsQueued, AnsweredBy, Saved
<1> QED BY <1>1, RegistrationInvariant, PTL

\* After a token was accepted, a 404 of /auth/me means that the account has been
\* deactivated: it is in the table for good.
THEOREM AcceptedHolds == Spec => AcceptedUnlessDeactivated
<1> DEFINE Kept == \A r \in Registrations :
             told[r] = "found" /\ told'[r] = "missing" => r \in Saved /\ ~active[r]
<1>1. IInv /\ [Next]_vars => [Kept]_vars
  <2> SUFFICES ASSUME IInv, Next, NEW q \in Registrations,
                      told[q] = "found", told'[q] = "missing"
               PROVE  q \in Saved /\ ~active[q]
    OBVIOUS
  <2>1. q \in Saved
    BY DEF IInv, FoundIsSaved
  <2>2. ~(q \in Saved /\ active[q])
    BY ToldStep DEF IInv
  <2> QED BY <2>1, <2>2
<1> QED BY <1>1, RegistrationInvariant, PTL DEF Spec, AcceptedUnlessDeactivated

---------------------------------------------------------------------------
(* The refinement *)

\* The owner of an address is the one registration that saved its account.
OwnerFacts == \A e \in Emails :
  /\ \A r \in Saved : email[r] = e => Owner[e] = r
  /\ (\A r \in Saved : email[r] # e) => Owner[e] = Nobody

LEMMA OwnerIs == IInv => OwnerFacts
<1> SUFFICES ASSUME IInv, NEW e \in Emails
             PROVE  /\ \A r \in Saved : email[r] = e => Owner[e] = r
                    /\ (\A r \in Saved : email[r] # e) => Owner[e] = Nobody
  BY DEF OwnerFacts
<1>1. ASSUME NEW r \in Saved, email[r] = e
      PROVE  Owner[e] = r
  <2> DEFINE c == CHOOSE q \in Saved : email[q] = e
  <2>1. c \in Saved /\ email[c] = e
    BY <1>1
  <2>2. c = r
    BY <1>1, <2>1 DEF IInv, OneAccount, Saved
  <2>3. Owner[e] = c
    BY <1>1 DEF Owner
  <2> QED BY <2>2, <2>3
<1>2. (\A r \in Saved : email[r] # e) => Owner[e] = Nobody
  BY DEF Owner
<1> QED BY <1>1, <1>2

\* An address with an account has an owner.
LEMMA Owned ==
  ASSUME IInv, NEW r \in Registrations, Same(r) \cap Saved # {}
  PROVE  Owner[email[r]] # Nobody
<1>1. PICK q \in Same(r) : q \in Saved
  OBVIOUS
<1>2. q \in Registrations /\ email[q] = email[r] /\ email[r] \in Emails
  BY <1>1 DEF Same, IInv, TypeOK
<1>3. Owner[email[r]] = q
  BY <1>1, <1>2, OwnerIs DEF OwnerFacts
<1> QED BY <1>2, <1>3, NobodyAssumption

\* A step that saves nothing leaves the owners as they are.
LEMMA OwnersKept ==
  ASSUME Saved' = Saved, email' = email
  PROVE  Owner' = Owner
BY DEF Owner

\* The outcome of a registration, by where it is and what it was answered.
OutcomeFacts == \A r \in Registrations :
  /\ pc[r] \in Working => Outcome[r] = "pending"
  /\ pc[r] = "saved" => Outcome[r] = "created"
  /\ pc[r] = "gone" => Outcome[r] =
       IF answer[r] \in {"taken", "error"} THEN "refused" ELSE "failed"

LEMMA OutcomeIs == IInv => OutcomeFacts
BY DEF IInv, TypeOK, RefusedForAccount, AnsweredBy, Outcome, OutcomeFacts, Saved,
       Working, Ended

\* A step of registration r changes the outcome of r alone.
LEMMA OutcomeAlone ==
  ASSUME IInv, IInv', NEW r \in Registrations,
         \A q \in Registrations \ {r} : pc'[q] = pc[q] /\ answer'[q] = answer[q]
  PROVE  Outcome' = [Outcome EXCEPT ![r] = Outcome[r]']
<1>1. \A q \in Registrations \ {r} : Outcome[q]' = Outcome[q]
  BY DEF Outcome, Saved
<1>2. Outcome = [q \in Registrations |-> Outcome[q]]
  BY DEF Outcome
<1>3. Outcome' = [q \in Registrations |-> Outcome[q]']
  BY DEF Outcome
<1> QED BY <1>1, <1>2, <1>3

\* An ending without an account is a refusal or a failure.
LEMMA GoneMaps ==
  ASSUME IInv, IInv', NEW r \in Registrations, pc[r] \in Working,
         At(r, pc[r], "gone"), Saved' = Saved, email' = email,
         \/ answer' = answer
         \/ /\ Same(r) \cap Saved # {}
            /\ \E a \in {"taken", "error"} : Answers(r, a)
  PROVE  Claims!Next
<1>1. Owner' = Owner
  BY OwnersKept
<1>2. Outcome[r] = "pending"
  BY OutcomeIs DEF OutcomeFacts
<1>3. Outcome' = [Outcome EXCEPT ![r] = Outcome[r]']
  BY OutcomeAlone DEF IInv, TypeOK, At, Answers
<1>4. pc'[r] = "gone"
  BY DEF At, IInv, TypeOK
<1>5. Outcome[r]' = IF answer'[r] \in {"taken", "error"} THEN "refused" ELSE "failed"
  <2>1. OutcomeFacts'
    BY OutcomeIs, PTL
  <2> QED BY <2>1, <1>4 DEF OutcomeFacts
<1>6. CASE answer' = answer
  <2>1. answer[r] \notin {"taken", "error"}
    BY DEF IInv, RefusedForAccount, Working
  <2>2. Claims!Fail(r)
    BY <1>1, <1>2, <1>3, <1>5, <1>6, <2>1 DEF Claims!Fail, Claims!End
  <2> QED BY <2>2 DEF Claims!Next
<1>7. CASE /\ Same(r) \cap Saved # {}
           /\ \E a \in {"taken", "error"} : Answers(r, a)
  <2>1. answer'[r] \in {"taken", "error"}
    BY <1>7 DEF Answers, IInv, TypeOK
  <2>2. Claims!Refuse(r)
    BY <1>1, <1>2, <1>3, <1>5, <1>7, <2>1, Owned DEF Claims!Refuse, Claims!End
  <2> QED BY <2>2 DEF Claims!Next
<1> QED BY <1>6, <1>7

\* A commit is the creation of the account: nobody else has the address.
LEMMA CommitMaps ==
  ASSUME IInv, IInv', NEW r \in Registrations, Commit(r)
  PROVE  Claims!Next
<1> DEFINE e == email[r]
<1>1. e \in Emails /\ email' = email
  BY DEF IInv, TypeOK, Commit
<1>2. Saved' = Saved \cup {r} /\ r \notin Saved
  BY DEF IInv, TypeOK, Commit, At, Saved
<1>3. \A q \in Saved : email[q] # e
  BY <1>2 DEF IInv, OneAccount, Holds, Saved, Commit, At
<1> OwnerFacts /\ OwnerFacts' /\ OutcomeFacts /\ OutcomeFacts'
  BY OwnerIs, OutcomeIs, PTL
<1>4. Owner[e] = Nobody
  BY <1>1, <1>3 DEF OwnerFacts
<1>5. Owner' = [Owner EXCEPT ![e] = r]
  <2>1. Owner[e]' = r
    BY <1>1, <1>2 DEF OwnerFacts
  <2>2. ASSUME NEW d \in Emails, d # e
        PROVE  Owner'[d] = Owner[d]
    <3>1. \A q : q \in Saved' /\ email'[q] = d <=> q \in Saved /\ email[q] = d
      BY <1>1, <1>2, <2>2
    <3>2. CASE \E q \in Saved : email[q] = d
      <4>1. PICK q \in Saved : email[q] = d
        BY <3>2
      <4> QED BY <4>1, <1>1, <1>2 DEF OwnerFacts
    <3>3. CASE \A q \in Saved : email[q] # d
      BY <3>1, <3>3 DEF OwnerFacts
    <3> QED BY <3>2, <3>3
  <2>3. Owner = [d \in Emails |-> Owner[d]] /\ Owner' = [d \in Emails |-> Owner'[d]]
    BY DEF Owner
  <2> QED BY <1>1, <2>1, <2>2, <2>3
<1>6. Outcome[r] = "pending"
  BY DEF OutcomeFacts, Commit, At, Working
<1>7. Outcome' = [Outcome EXCEPT ![r] = "created"]
  <2>1. Outcome' = [Outcome EXCEPT ![r] = Outcome[r]']
    BY OutcomeAlone DEF IInv, TypeOK, Commit, At
  <2>2. pc'[r] = "saved"
    BY DEF IInv, TypeOK, Commit, At
  <2> QED BY <2>1, <2>2 DEF OutcomeFacts
<1>8. Claims!Create(r)
  BY <1>1, <1>4, <1>5, <1>6, <1>7 DEF Claims!Create, Claims!End
<1> QED BY <1>8 DEF Claims!Next

\* A step that ends no registration is not seen in the claims.
LEMMA RunningMaps ==
  ASSUME IInv, IInv', NEW r \in Registrations,
         Saved' = Saved, email' = email,
         \A q \in Registrations : \/ pc'[q] = pc[q] /\ answer'[q] = answer[q]
                                  \/ pc[q] \in Working /\ pc'[q] \in Working
  PROVE  UNCHANGED <<email, Owner, Outcome>>
<1>1. ASSUME NEW q \in Registrations
      PROVE  Outcome'[q] = Outcome[q]
  <2>1. CASE pc'[q] = pc[q] /\ answer'[q] = answer[q]
    BY <2>1 DEF Outcome, Saved
  <2>2. CASE pc[q] \in Working /\ pc'[q] \in Working
    <3>1. OutcomeFacts /\ OutcomeFacts'
      BY OutcomeIs, PTL
    <3> QED BY <2>2, <3>1 DEF OutcomeFacts, Working
  <2> QED BY <2>1, <2>2
<1>2. /\ Outcome = [q \in Registrations |-> Outcome[q]]
      /\ Outcome' = [q \in Registrations |-> Outcome'[q]]
  BY DEF Outcome
<1> QED BY <1>1, <1>2, OwnersKept

\* Registrations implement EmailClaims: each address is claimed once, in one
\* step, by a registration that names it, and a registration is refused only when the
\* address it names has an account.
THEOREM RegistrationClaims == Spec => ImplementsClaims
<1>1. Init => Claims!Init
  BY DEF Init, Claims!Init, Owner, Outcome, Saved, Working
<1>2. IInv /\ IInv' /\ [Next]_vars => [Claims!Next]_<<email, Owner, Outcome>>
  <2> SUFFICES ASSUME IInv, IInv', [Next]_vars
               PROVE  Claims!Next \/ UNCHANGED <<email, Owner, Outcome>>
    OBVIOUS
  <2>1. CASE UNCHANGED vars
    BY <2>1 DEF vars, Owner, Outcome, Saved
  <2>2. CASE Next
    <3>1. PICK r \in Registrations : Acts(r)
      BY <2>2, StepCases
    <3>2. CASE Commit(r)
      BY <3>2, CommitMaps
    <3>3. ASSUME pc[r] \in Working, At(r, pc[r], "gone")
          PROVE  Saved' = Saved
      BY <3>3 DEF At, Saved, IInv, TypeOK, Working
    <3>4. CASE Select(r) /\ pc'[r] = "gone"
      BY <3>3, <3>4, GoneMaps DEF Select, At, Working, IInv, TypeOK
    <3>5. CASE Insert(r) /\ pc'[r] = "gone"
      BY <3>3, <3>5, GoneMaps DEF Insert, At, Working, IInv, TypeOK
    <3>6. CASE Fail(r) \/ QueueFails(r)
      BY <3>3, <3>6, GoneMaps DEF Fail, QueueFails, At, Working
    <3>7. CASE (Select(r) \/ Insert(r)) /\ pc'[r] # "gone"
      <4>1. pc[r] \in Working /\ pc'[r] \in Working /\ email' = email
        BY <3>7 DEF Select, Insert, At, IInv, TypeOK, Working
      <4>2. \A q \in Registrations \ {r} : pc'[q] = pc[q] /\ answer'[q] = answer[q]
        BY <3>7 DEF Select, Insert, At, Answers, IInv, TypeOK
      <4>3. Saved' = Saved
        BY <4>1, <4>2 DEF Saved, Working
      <4> QED BY <4>1, <4>2, <4>3, RunningMaps
    <3>8. CASE Respond(r) \/ Queue(r)
      <4>1. pc[r] \in Working /\ pc'[r] \in Working /\ email' = email
        BY <3>8 DEF Respond, Queue, At, IInv, TypeOK, Working
      <4>2. \A q \in Registrations \ {r} : pc'[q] = pc[q] /\ answer'[q] = answer[q]
        BY <3>8 DEF Respond, Queue, At, Answers, IInv, TypeOK
      <4>3. Saved' = Saved
        BY <4>1, <4>2 DEF Saved, Working
      <4> QED BY <4>1, <4>2, <4>3, RunningMaps
    <3>9. CASE Beside(r)
      <4>1. pc' = pc /\ email' = email /\ answer' = answer
        BY <3>9 DEF Beside, Take, SendNotification, SetActive, Me, MeExpired
      <4> QED BY <4>1 DEF Owner, Outcome, Saved
    <3> QED BY <3>1, <3>2, <3>4, <3>5, <3>6, <3>7, <3>8, <3>9 DEF Acts
  <2> QED BY <2>1, <2>2
<1> QED BY <1>1, <1>2, RegistrationInvariant, PTL
        DEF Spec, ImplementsClaims, Claims!Spec, Claims!vars
=============================================================================
