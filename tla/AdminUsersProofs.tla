-------------------------- MODULE AdminUsersProofs --------------------------
(***************************************************************************)
(* What AdminUsers shows on small instances, for every set of users, every *)
(* number of overlapping requests and every set of request bodies.  The    *)
(* inductive invariant is IInv, at the end of AdminUsers.                  *)
(***************************************************************************)
EXTENDS AdminUsers, FiniteSetTheorems, TLAPS

Typed == TypeOK /\ Arrived

---------------------------------------------------------------------------
(* Facts about the helpers *)

\* A committed table with an active admin besides t, if it counts two, or one
\* that is not t.
LEMMA AnotherAdmin ==
  ASSUME TypeOK, NEW t,
         Cardinality(ActiveAdmins) >= 1,
         t \in ActiveAdmins => Cardinality(ActiveAdmins) >= 2
  PROVE  \E u \in ActiveAdmins : u # t
<1>1. IsFiniteSet(ActiveAdmins)
  BY UsersFinite, FS_Subset DEF ActiveAdmins
<1>2. SUFFICES ASSUME ActiveAdmins \subseteq {t} PROVE FALSE
  OBVIOUS
<1>3. CASE t \in ActiveAdmins
  <2>1. ActiveAdmins = {t}
    BY <1>2, <1>3
  <2> QED
    BY <2>1, <1>3, FS_Singleton
<1>4. CASE t \notin ActiveAdmins
  <2>1. ActiveAdmins = {}
    BY <1>2, <1>4
  <2> QED
    BY <2>1, FS_EmptySet
<1> QED
  BY <1>3, <1>4

\* The columns that the UPDATE writes make a row that is still as loaded into
\* the row that was asked for.
LEMMA FreshUpdate ==
  ASSUME NEW f \in SUBSET Flags, NEW s \in SUBSET Flags,
         NEW c \in SUBSET Flags, s \cap c = {}
  PROVE  (f \cup (s \ f)) \ (c \cap f) = (f \cup s) \ c
OBVIOUS

---------------------------------------------------------------------------
(* Typing *)

LEMMA InitTyped == Init => Typed
BY DEF Init, TypeOK, Arrived, Running, Typed

LEMMA NextTyped == Typed /\ [Next]_vars => Typed'
<1> SUFFICES ASSUME Typed, [Next]_vars PROVE Typed'
  OBVIOUS
<1> USE InputsWellFormed
    DEF Typed, TypeOK, Arrived, tables, Goto, Running, Finished
<1>1. ASSUME NEW r \in Requests, Authenticate(r) PROVE Typed'
  BY <1>1 DEF Authenticate
<1>2. ASSUME NEW r \in Requests, Load(r) PROVE Typed'
  BY <1>2 DEF Load
<1>3. ASSUME NEW r \in Requests, Count(r) PROVE Typed'
  BY <1>3 DEF Count
<1>4. ASSUME NEW r \in Requests, Write(r) PROVE Typed'
  BY <1>4 DEF Write
<1>5. ASSUME NEW r \in Requests, Audit(r) PROVE Typed'
  BY <1>5 DEF Audit
<1>6. ASSUME NEW r \in Requests, Respond(r) PROVE Typed'
  BY <1>6 DEF Respond
<1>7. ASSUME NEW r \in Requests, Commit(r) PROVE Typed'
  <2>1. req[r] \in Inputs
    BY <1>7 DEF Commit
  <2>2. req[r].target \in Users
    BY <2>1 DEF Input
  <2> QED
    BY <1>7, <2>1, <2>2 DEF Commit, GoStale, Sets, Clears, Input
<1>8. ASSUME NEW r \in Requests, Crash(r) PROVE Typed'
  BY <1>8 DEF Crash
<1>9. ASSUME NEW u \in Users, Register(u) PROVE Typed'
  BY <1>9 DEF Register, Flags
<1>10. ASSUME NEW u \in Users, ScriptLookup(u) PROVE Typed'
  BY <1>10 DEF ScriptLookup
<1>11. ASSUME NEW u \in Users, ScriptPromote(u) PROVE Typed'
  BY <1>11 DEF ScriptPromote, Flags
<1>12. ASSUME NEW u \in Users, ScriptCreate(u) PROVE Typed'
  BY <1>12 DEF ScriptCreate, Flags
<1>13. CASE UNCHANGED vars
  BY <1>13 DEF vars
<1> QED
  BY <1>1, <1>2, <1>3, <1>4, <1>5, <1>6, <1>7, <1>8, <1>9, <1>10, <1>11,
     <1>12, <1>13 DEF Next, Step

\* Type correctness of the admin transactions.
THEOREM AdminUsersType == Spec => []TypeOK
<1>1. Spec => []Typed
  BY InitTyped, NextTyped, PTL DEF Spec
<1> QED
  BY <1>1, PTL DEF Typed

---------------------------------------------------------------------------
(* The invariant, one lemma per conjunct *)

LEMMA NextSelfSafe == Typed /\ SelfSafe /\ [Next]_vars => SelfSafe'
<1> SUFFICES ASSUME Typed, SelfSafe, [Next]_vars,
                    NEW r \in Requests,
                    pc'[r] \in AfterLoad, IsSelf(r)'
             PROVE  req'[r].clear = {}
  BY DEF SelfSafe
<1> USE InputsWellFormed
    DEF Typed, TypeOK, Arrived, SelfSafe, AfterLoad, IsSelf, Goto, Running,
        Finished
<1>1. CASE UNCHANGED <<pc, req>>
  BY <1>1
<1>2. ASSUME NEW q \in Requests, Load(q) PROVE req'[r].clear = {}
  <2>1. CASE q = r
    BY <1>2, <2>1 DEF Load, SelfGuard
  <2>2. CASE q # r
    BY <1>2, <2>2 DEF Load
  <2> QED
    BY <2>1, <2>2
<1>3. ASSUME NEW q \in Requests, \/ Authenticate(q) \/ Count(q) \/ Write(q)
             \/ Audit(q) \/ Respond(q) \/ Commit(q) \/ Crash(q)
      PROVE  req'[r].clear = {}
  BY <1>3 DEF Authenticate, Count, Write, Audit, Respond, Commit, Crash
<1> QED
  BY <1>1, <1>2, <1>3 DEF Next, Step, Register, ScriptLookup, ScriptPromote,
                          ScriptCreate, vars

LEMMA NextRowsExist == Typed /\ RowsExist /\ [Next]_vars => RowsExist'
<1> SUFFICES ASSUME Typed, RowsExist, [Next]_vars PROVE RowsExist'
  OBVIOUS
<1> USE InputsWellFormed
    DEF Typed, TypeOK, Arrived, RowsExist, HasRead, IsSelf, Goto, Running,
        Finished, tables, Input
<1>1. CASE UNCHANGED <<pc, req, accounts, flags, script>>
  BY <1>1
<1>2. ASSUME NEW q \in Requests, Authenticate(q) PROVE RowsExist'
  BY <1>2 DEF Authenticate
<1>3. ASSUME NEW q \in Requests, Load(q) PROVE RowsExist'
  BY <1>3 DEF Load
<1>4. ASSUME NEW q \in Requests,
             \/ Count(q) \/ Write(q) \/ Audit(q) \/ Respond(q) \/ Crash(q)
      PROVE  RowsExist'
  BY <1>4 DEF Count, Write, Audit, Respond, Crash
<1>5. ASSUME NEW q \in Requests, Commit(q) PROVE RowsExist'
  <2>1. req[q].target \in accounts
    BY <1>5 DEF Commit
  <2> QED
    BY <1>5, <2>1 DEF Commit
<1>6. ASSUME NEW u \in Users, Register(u) PROVE RowsExist'
  BY <1>6 DEF Register
<1>7. ASSUME NEW u \in Users, ScriptPromote(u) PROVE RowsExist'
  BY <1>7 DEF ScriptPromote
<1>8. ASSUME NEW u \in Users, ScriptCreate(u) PROVE RowsExist'
  BY <1>8 DEF ScriptCreate
<1>9. ASSUME NEW u \in Users, ScriptLookup(u) PROVE RowsExist'
  BY <1>9 DEF ScriptLookup
<1> QED
  BY <1>1, <1>2, <1>3, <1>4, <1>5, <1>6, <1>7, <1>8, <1>9
  DEF Next, Step, vars

LEMMA NextFresh ==
  Typed /\ RowsExist /\ SelfSafe /\ Fresh /\ [Next]_vars => Fresh'
<1> SUFFICES ASSUME Typed, RowsExist, SelfSafe, Fresh, [Next]_vars,
                    NEW r \in Requests,
                    HasRead(r)', r \notin stale'
             PROVE  seen'[r] = flags'[req'[r].target]
  BY DEF Fresh
<1> USE DEF Typed, TypeOK, Arrived, Fresh, HasRead, IsSelf, Goto, Running,
            Finished, tables
<1>1. CASE UNCHANGED <<pc, req, seen, flags, stale>>
  BY <1>1
<1>2. ASSUME NEW q \in Requests, Authenticate(q)
      PROVE  seen'[r] = flags'[req'[r].target]
  BY <1>2 DEF Authenticate
<1>3. ASSUME NEW q \in Requests, Load(q)
      PROVE  seen'[r] = flags'[req'[r].target]
  BY <1>3 DEF Load
<1>4. ASSUME NEW q \in Requests,
             \/ Count(q) \/ Write(q) \/ Audit(q) \/ Respond(q) \/ Crash(q)
      PROVE  seen'[r] = flags'[req'[r].target]
  BY <1>4 DEF Count, Write, Audit, Respond, Crash
<1>5. ASSUME NEW q \in Requests, Commit(q)
      PROVE  seen'[r] = flags'[req'[r].target]
  <2>1. q # r /\ HasRead(r)
    BY <1>5 DEF Commit
  <2>2. flags' = flags
    BY <1>5, <2>1 DEF Commit, GoStale
  <2> QED
    BY <1>5, <2>1, <2>2 DEF Commit, GoStale
<1>6. ASSUME NEW u \in Users, Register(u)
      PROVE  seen'[r] = flags'[req'[r].target]
  BY <1>6 DEF Register, RowsExist
<1>7. ASSUME NEW u \in Users, ScriptPromote(u) \/ ScriptCreate(u)
      PROVE  seen'[r] = flags'[req'[r].target]
  BY <1>7 DEF ScriptPromote, ScriptCreate
<1> QED
  BY <1>1, <1>2, <1>3, <1>4, <1>5, <1>6, <1>7
  DEF Next, Step, ScriptLookup, vars

LEMMA NextOneRemains ==
  IInv /\ [Next]_vars => OneRemains'
<1> SUFFICES ASSUME IInv, [Next]_vars,
                    NEW r \in Requests,
                    pc'[r] \in AfterCount, req'[r].kind = "update",
                    r \notin stale'
             PROVE  \/ Projected(r)' = Flags
                    \/ \E u \in ActiveAdmins' : u # req'[r].target
  BY DEF OneRemains
<1> DEFINE Goal == \/ Projected(r)' = Flags
                   \/ \E u \in ActiveAdmins' : u # req'[r].target
<1> USE DEF IInv, TypeOK, AfterCount, Goto, tables
<1>1. ASSUME UNCHANGED <<req, seen, flags>>, r \notin stale,
             pc[r] \in AfterCount
      PROVE  Goal
  BY <1>1 DEF OneRemains, Projected, ActiveAdmins
<1>2. ASSUME NEW q \in Requests, Authenticate(q) PROVE Goal
  <2>1. q # r
    BY <1>2 DEF Authenticate
  <2> QED
    BY <1>2, <2>1 DEF Authenticate, OneRemains, Projected, ActiveAdmins
<1>3. ASSUME NEW q \in Requests, Load(q) PROVE Goal
  <2>1. CASE q # r
    BY <1>3, <2>1 DEF Load, OneRemains, Projected, ActiveAdmins
  <2>2. CASE q = r
    BY <1>3, <2>2 DEF Load
  <2> QED
    BY <2>1, <2>2
<1>4. ASSUME NEW q \in Requests, Count(q) PROVE Goal
  <2>1. CASE q # r
    BY <1>4, <2>1, <1>1 DEF Count
  <2>2. CASE q = r
    <3>1. /\ pc[r] = "count" /\ ActiveAdminCountAfter(r) >= 1
          /\ UNCHANGED <<req, seen, flags, stale>>
      <4>1. ~(ActiveAdminCountAfter(r) < 1)
        BY <1>4, <2>2 DEF Count
      <4>2. ActiveAdminCountAfter(r) \in Int
        <5>1. IsFiniteSet(ActiveAdmins)
          BY UsersFinite, FS_Subset DEF ActiveAdmins
        <5> QED
          BY <5>1, FS_CardinalityType DEF ActiveAdminCountAfter
      <4> QED
        BY <1>4, <2>2, <4>1, <4>2 DEF Count
    <3>2. HasRead(r) /\ r \notin stale
      BY <3>1 DEF HasRead
    <3>3. seen[r] = flags[req[r].target] /\ req[r].target \in Users
      BY <3>1, <3>2, InputsWellFormed DEF Fresh, Arrived, Running, Input
    <3>4. req[r].target \in ActiveAdmins <=> seen[r] = Flags
      BY <3>3 DEF ActiveAdmins
    <3>5. Projected(r)' = Projected(r) /\ ActiveAdmins' = ActiveAdmins
      BY <3>1 DEF Projected, ActiveAdmins
    <3>6. Cardinality(ActiveAdmins) \in Nat
      BY UsersFinite, FS_Subset, FS_CardinalityType DEF ActiveAdmins
    <3>7. ASSUME Projected(r) # Flags
          PROVE  \E u \in ActiveAdmins : u # req[r].target
      <4>1. /\ Cardinality(ActiveAdmins) >= 1
            /\ seen[r] = Flags => Cardinality(ActiveAdmins) >= 2
        BY <3>1, <3>6, <3>7 DEF ActiveAdminCountAfter
      <4> QED
        BY <4>1, <3>4, AnotherAdmin
    <3> QED
      BY <3>1, <3>5, <3>7
  <2> QED
    BY <2>1, <2>2
<1>5. ASSUME NEW q \in Requests,
             Write(q) \/ Audit(q) \/ Respond(q) \/ Crash(q)
      PROVE  Goal
  <2>1. UNCHANGED <<req, seen, flags, stale>> /\ pc[r] \in AfterCount
    BY <1>5 DEF Write, Audit, Respond, Crash, Running
  <2> QED
    BY <2>1, <1>1
<1>6. ASSUME NEW q \in Requests, Commit(q) PROVE Goal
  <2>1. q # r /\ pc[r] \in AfterCount /\ HasRead(r)
    BY <1>6 DEF Commit, HasRead
  <2>2. flags' = flags /\ r \notin stale
    BY <1>6, <2>1 DEF Commit, GoStale
  <2> QED
    BY <1>6, <2>1, <2>2, <1>1 DEF Commit
<1>7. ASSUME NEW u \in Users, Register(u) PROVE Goal
  <2>1. ActiveAdmins \subseteq ActiveAdmins'
    BY <1>7 DEF Register, RowsExist, ActiveAdmins, Flags
  <2> QED
    BY <1>7, <2>1 DEF Register, OneRemains, Projected
<1>8. ASSUME NEW u \in Users, ScriptPromote(u) \/ ScriptCreate(u)
      PROVE  Goal
  <2>1. pc[r] \in AfterCount /\ r \in stale'
    BY <1>8 DEF ScriptPromote, ScriptCreate, HasRead
  <2> QED
    BY <2>1
<1>9. ASSUME NEW u \in Users, ScriptLookup(u) PROVE Goal
  BY <1>9, <1>1 DEF ScriptLookup
<1>10. CASE UNCHANGED vars
  BY <1>10, <1>1 DEF vars
<1> QED
  BY <1>2, <1>3, <1>4, <1>5, <1>6, <1>7, <1>8, <1>9, <1>10 DEF Next, Step

LEMMA NextOneHolder ==
  Typed /\ OneHolder /\ [Next]_vars => OneHolder'
<1> SUFFICES ASSUME Typed, OneHolder, [Next]_vars PROVE OneHolder'
  OBVIOUS
<1> USE DEF Typed, TypeOK, OneHolder, Holds, Goto, tables
<1>1. ASSUME \A r \in Requests : \A u \in Users : Holds(r, u)' => Holds(r, u)
      PROVE  OneHolder'
  BY <1>1
<1>2. ASSUME NEW q \in Requests, Authenticate(q) PROVE OneHolder'
  <2>1. ASSUME NEW r \in Requests, NEW u \in Users, Holds(r, u)'
        PROVE  Holds(r, u)
    BY <1>2, <2>1 DEF Authenticate, EmitsUpdate, Sets, Clears
  <2> QED
    BY <2>1, <1>1
<1>3. ASSUME NEW q \in Requests, Load(q) PROVE OneHolder'
  <2>1. ASSUME NEW r \in Requests, NEW u \in Users, Holds(r, u)'
        PROVE  Holds(r, u)
    BY <1>3, <2>1 DEF Load, EmitsUpdate, Sets, Clears
  <2> QED
    BY <2>1, <1>1
<1>4. ASSUME NEW q \in Requests,
             \/ Count(q) \/ Audit(q) \/ Respond(q) \/ Commit(q) \/ Crash(q)
      PROVE  OneHolder'
  <2>1. ASSUME NEW r \in Requests, NEW u \in Users, Holds(r, u)'
        PROVE  Holds(r, u)
    BY <1>4, <2>1
    DEF Count, Audit, Respond, Commit, Crash, EmitsUpdate, Sets, Clears
  <2> QED
    BY <2>1, <1>1
<1>5. ASSUME NEW q \in Requests, Write(q) PROVE OneHolder'
  <2>1. \A r \in Requests : EmitsUpdate(r)' <=> EmitsUpdate(r)
    BY <1>5 DEF Write, EmitsUpdate, Sets, Clears
  <2>2. \A r \in Requests \ {q} : \A u \in Users : Holds(r, u)' <=> Holds(r, u)
    BY <1>5, <2>1 DEF Write
  <2>3. \A u \in Users : Holds(q, u)' => RowFree(u)
    BY <1>5, <2>1 DEF Write
  <2> QED
    BY <2>2, <2>3 DEF RowFree
<1>6. CASE UNCHANGED <<pc, req, seen>>
  BY <1>6 DEF EmitsUpdate, Sets, Clears
<1> QED
  BY <1>2, <1>3, <1>4, <1>5, <1>6
  DEF Next, Step, Register, ScriptLookup, ScriptPromote, ScriptCreate, vars

LEMMA NextShown ==
  IInv /\ [Next]_vars => ShownByHolder' /\ ShownPasswordWorks'
<1> SUFFICES ASSUME IInv, [Next]_vars
             PROVE  ShownByHolder' /\ ShownPasswordWorks'
  OBVIOUS
<1> USE MarkersAreNoRequests
    DEF IInv, TypeOK, ShownByHolder, ShownPasswordWorks, Goto, tables
<1>1. CASE UNCHANGED <<pc, req, shown, password>>
  BY <1>1
<1>2. ASSUME NEW q \in Requests, Authenticate(q)
      PROVE  ShownByHolder' /\ ShownPasswordWorks'
  BY <1>2 DEF Authenticate
<1>3. ASSUME NEW q \in Requests, \/ Load(q) \/ Count(q) \/ Write(q)
                                 \/ Audit(q) \/ Crash(q)
      PROVE  ShownByHolder' /\ ShownPasswordWorks'
  BY <1>3 DEF Load, Count, Write, Audit, Crash, Running
<1>4. ASSUME NEW q \in Requests, Respond(q)
      PROVE  ShownByHolder' /\ ShownPasswordWorks'
  <2>1. req[q] \in Inputs /\ req[q].target \in Users
    BY <1>4, InputsWellFormed DEF Respond, Arrived, Running, Input
  <2>2. CASE req[q].kind = "update"
    BY <1>4, <2>1, <2>2 DEF Respond
  <2>3. CASE req[q].kind = "reset"
    <3>1. Holds(q, req[q].target)
      BY <1>4, <2>1, <2>3 DEF Respond, Holds, EmitsUpdate
    <3>2. ASSUME NEW r \in Requests, pc[r] = "commit", req[r].kind = "reset"
          PROVE  req[r].target # req[q].target
      <4>1. Holds(r, req[r].target)
        BY <3>2 DEF Holds, EmitsUpdate
      <4>2. r # q
        BY <3>2, <1>4 DEF Respond
      <4> QED
        BY <3>1, <4>1, <4>2, <2>1 DEF OneHolder
    <3> QED
      BY <1>4, <2>1, <2>3, <3>2 DEF Respond
  <2> QED
    BY <2>1, <2>2, <2>3, InputsWellFormed DEF Input
<1>5. ASSUME NEW q \in Requests, Commit(q)
      PROVE  ShownByHolder' /\ ShownPasswordWorks'
  <2>1. req[q] \in Inputs /\ req[q].target \in Users
    BY <1>5, InputsWellFormed DEF Commit, Arrived, Running, Input
  <2>2. ShownByHolder'
    BY <1>5 DEF Commit
  <2>3. ShownPasswordWorks'
    BY <1>5, <2>1 DEF Commit
  <2> QED
    BY <2>2, <2>3
<1> QED
  BY <1>1, <1>2, <1>3, <1>4, <1>5
  DEF Next, Step, Register, ScriptLookup, ScriptPromote, ScriptCreate, vars

LEMMA NextAuditedOnce == Typed /\ AuditedOnce /\ [Next]_vars => AuditedOnce'
<1> SUFFICES ASSUME Typed, AuditedOnce, [Next]_vars,
                    NEW e \in audit'
             PROVE  pc'[e[1]] = "committed"
  BY DEF AuditedOnce
<1> USE DEF Typed, TypeOK, AuditedOnce, Goto, tables
<1>1. ASSUME e \in audit PROVE pc'[e[1]] = "committed"
  <2>1. pc[e[1]] = "committed" /\ e[1] \in Requests
    BY <1>1
  <2>2. CASE UNCHANGED pc
    BY <2>1, <2>2
  <2>3. ASSUME NEW q \in Requests, Authenticate(q) \/ Step(q) \/ Crash(q)
        PROVE  pc'[e[1]] = "committed"
    <3>1. q # e[1]
      BY <2>1, <2>3 DEF Authenticate, Step, Load, Count, Write, Audit,
         Respond, Commit, Crash, Running
    <3> QED
      BY <2>1, <2>3, <3>1 DEF Authenticate, Step, Load, Count, Write, Audit,
         Respond, Commit, Crash
  <2> QED
    BY <2>2, <2>3 DEF Next, Register, ScriptLookup, ScriptPromote,
       ScriptCreate, vars
<1>2. ASSUME e \notin audit PROVE pc'[e[1]] = "committed"
  <2>1. PICK q \in Requests : Commit(q)
    BY <1>2 DEF Next, Step, Authenticate, Load, Count, Write, Audit, Respond,
       Crash, Register, ScriptLookup, ScriptPromote, ScriptCreate, vars
  <2> QED
    BY <1>2, <2>1 DEF Commit
<1> QED
  BY <1>1, <1>2

LEMMA InitIInv == Init => IInv
<1> SUFFICES ASSUME Init PROVE IInv
  OBVIOUS
<1>1. \A r \in Requests : ~HasRead(r) /\ \A u \in Users : ~Holds(r, u)
  BY DEF Init, HasRead, Holds
<1>2. TypeOK /\ Arrived
  BY InitTyped DEF Typed
<1>3. RowsExist
  BY <1>1 DEF Init, RowsExist
<1>4. SelfSafe /\ OneRemains
  BY DEF Init, SelfSafe, OneRemains, AfterLoad, AfterCount
<1>5. Fresh /\ OneHolder
  BY <1>1 DEF Fresh, OneHolder
<1>6. ShownByHolder /\ ShownPasswordWorks
  BY MarkersAreNoRequests DEF Init, ShownByHolder, ShownPasswordWorks
<1>7. AuditedOnce
  BY DEF Init, AuditedOnce
<1> QED
  BY <1>2, <1>3, <1>4, <1>5, <1>6, <1>7 DEF IInv

LEMMA NextIInv == IInv /\ [Next]_vars => IInv'
<1> SUFFICES ASSUME IInv, [Next]_vars PROVE IInv'
  OBVIOUS
<1>1. Typed
  BY DEF IInv, Typed
<1>2. /\ Typed' /\ RowsExist' /\ SelfSafe' /\ Fresh' /\ OneHolder'
      /\ AuditedOnce'
  BY <1>1, NextTyped, NextRowsExist, NextSelfSafe, NextFresh, NextOneHolder,
     NextAuditedOnce
  DEF IInv
<1>3. OneRemains' /\ ShownByHolder' /\ ShownPasswordWorks'
  BY NextOneRemains, NextShown
<1> QED
  BY <1>2, <1>3 DEF IInv, Typed

\* The inductive invariant of the admin transactions.
THEOREM AdminUsersInvariant == Spec => []IInv
BY InitIInv, NextIInv, PTL DEF Spec

---------------------------------------------------------------------------
(* The properties *)

\* Overlapping password resets of one user: the temporary password shown last
\* is the one that works after its request's commit.
THEOREM ShownPassword == Spec => []ShownPasswordWorks
BY AdminUsersInvariant, PTL DEF IInv

LEMMA CommitStep ==
  ASSUME IInv, NEW r \in Requests, Commit(r), r \notin stale
  PROVE  /\ req[r].target \in Users
         /\ flags'[req[r].target] = Projected(r)
         /\ Projected(r)
              = (flags[req[r].target] \cup req[r].set) \ req[r].clear
         /\ \A u \in Users : u # req[r].target => flags'[u] = flags[u]
<1> USE DEF IInv, TypeOK, Commit
<1>1. /\ req[r] \in Inputs /\ req[r].target \in Users
      /\ req[r].set \in SUBSET Flags /\ req[r].clear \in SUBSET Flags
      /\ req[r].set \cap req[r].clear = {}
  BY InputsWellFormed DEF Arrived, Running, Input
<1>2. seen[r] = flags[req[r].target]
  BY DEF Fresh, HasRead
<1>3. flags'[req[r].target]
        = (flags[req[r].target] \cup Sets(r)) \ Clears(r)
  BY <1>1
<1> QED
  BY <1>1, <1>2, <1>3, FreshUpdate DEF Sets, Clears, Projected

\* Only a Commit step takes a request from "commit" to "committed".
LEMMA OnlyCommitCommits ==
  ASSUME TypeOK, Next, NEW r \in Requests,
         pc[r] = "commit", pc'[r] = "committed"
  PROVE  Commit(r)
BY DEF TypeOK, Next, Step, Authenticate, Load, Count, Write, Audit, Respond,
       Commit, Crash, Register, ScriptLookup, ScriptPromote, ScriptCreate, Goto

\* A committed PATCH leaves what its audit entry says, unless it lost a race.
THEOREM CommitIsAudited == Spec => CommitMatchesAudit
<1>1. IInv /\ [Next]_vars => [AuditedCommit]_vars
  <2> SUFFICES ASSUME IInv, Next, NEW r \in Requests,
                      pc[r] = "commit", pc'[r] = "committed", r \notin stale
               PROVE  flags'[req[r].target]
                        = (flags[req[r].target] \cup req[r].set) \ req[r].clear
    BY DEF AuditedCommit
  <2>1. Commit(r)
    BY OnlyCommitCommits DEF IInv
  <2> QED
    BY <2>1, CommitStep
<1> QED
  BY <1>1, AdminUsersInvariant, PTL DEF Spec, CommitMatchesAudit

\* Only a commit, or nothing, takes flags away.
LEMMA FlagsOnlyGained ==
  ASSUME IInv, [Next]_vars, \A r \in Requests : ~Commit(r)
  PROVE  \A u \in Users : flags[u] \subseteq flags'[u]
BY DEF IInv, TypeOK, RowsExist, Next, Step, Authenticate, Load, Count, Write,
       Audit, Respond, Crash, Register, ScriptLookup, ScriptPromote,
       ScriptCreate, vars, tables, Flags

\* A commit removes nobody but its target from the active admins, and never
\* its own actor.
LEMMA CommitRemovesTarget ==
  ASSUME IInv, NEW r \in Requests, Commit(r),
         NEW u \in ActiveAdmins, u \notin ActiveAdmins'
  PROVE  u = req[r].target /\ u # req[r].actor
<1> USE DEF IInv, TypeOK, Commit, ActiveAdmins, tables
<1>1. req[r] \in Inputs /\ req[r].target \in Users
  BY InputsWellFormed DEF Arrived, Running, Input
<1>2. u = req[r].target
  BY <1>1
<1>3. req[r].clear # {}
  <2> SUFFICES ASSUME req[r].clear = {} PROVE FALSE
    OBVIOUS
  <2>1. Clears(r) = {} /\ Sets(r) \subseteq Flags
    BY <1>1, InputsWellFormed DEF Clears, Sets, Input
  <2>2. flags'[u] = (flags[u] \cup Sets(r)) \ Clears(r)
    BY <1>1, <1>2
  <2>3. flags'[u] = Flags
    BY <2>1, <2>2
  <2> QED
    BY <2>3
<1>4. ~IsSelf(r)
  BY <1>3 DEF SelfSafe, AfterLoad
<1> QED
  BY <1>2, <1>4 DEF IsSelf

\* The last active admin is lost only to a request that raced with the loss
\* of its own actor's rights.
THEOREM LastAdmin == Spec => LastAdminLostOnlyInRace
<1>1. IInv /\ [Next]_vars => [LostInRace]_vars
  <2> SUFFICES ASSUME IInv, Next, ActiveAdmins # {}, ActiveAdmins' = {}
               PROVE  LostInRace
    BY DEF LostInRace
  <2>1. TypeOK /\ TypeOK'
    BY NextIInv DEF IInv
  <2>2. PICK r \in Requests : Commit(r)
    <3> SUFFICES ASSUME \A r \in Requests : ~Commit(r) PROVE FALSE
      OBVIOUS
    <3>1. \A u \in Users : flags[u] \subseteq flags'[u]
      BY FlagsOnlyGained
    <3> QED
      BY <3>1, <2>1 DEF ActiveAdmins, TypeOK
  <2>3. pc[r] = "commit" /\ pc'[r] = "committed"
    BY <2>1, <2>2 DEF Commit, Goto, TypeOK
  <2>4. ActiveAdmins = {req[r].target} /\ req[r].actor # req[r].target
    BY <2>2, CommitRemovesTarget
  <2>5. req[r].actor \notin ActiveAdmins
    BY <2>4
  <2>6. r \in stale
    <3> SUFFICES ASSUME r \notin stale PROVE FALSE
      OBVIOUS
    <3>1. flags'[req[r].target] = Projected(r) /\ req[r].target \in Users
      BY <2>2, CommitStep
    <3>2. Projected(r) # Flags
      BY <3>1 DEF ActiveAdmins
    <3>3. req[r].kind = "update"
      <4>1. req[r] \in Inputs
        BY <2>1, <2>2 DEF IInv, Arrived, Commit, Running
      <4>2. CASE req[r].kind = "reset"
        <5>1. req[r].set = {} /\ req[r].clear = {}
          BY <4>1, <4>2, InputsWellFormed
        <5>2. flags[req[r].target] = Flags
          BY <2>4 DEF ActiveAdmins
        <5>3. Projected(r) = (Flags \cup {}) \ {}
          BY <5>1, <5>2, <2>2, CommitStep
        <5> QED
          BY <5>3, <3>2
      <4> QED
        BY <4>1, <4>2, InputsWellFormed DEF Input
    <3> QED
      BY <2>2, <2>4, <3>2, <3>3 DEF IInv, OneRemains, AfterCount, Commit
  <2> QED
    BY <2>2, <2>3, <2>5, <2>6 DEF LostInRace
<1> QED
  BY <1>1, AdminUsersInvariant, PTL DEF Spec, LastAdminLostOnlyInRace

\* An administrator's own requests never take its access away.
THEOREM OwnAccess == Spec => AccessLostToAnother
<1>1. IInv /\ [Next]_vars => LostToAnother
  <2> SUFFICES ASSUME IInv, [Next]_vars,
                      NEW a \in ActiveAdmins, a \notin ActiveAdmins'
               PROVE  \E r \in Requests :
                        /\ pc[r] = "commit" /\ pc'[r] = "committed"
                        /\ req[r].target = a
                        /\ req[r].actor # a
    BY DEF LostToAnother
  <2>0. TypeOK' /\ a \in Users
    BY NextIInv DEF IInv, ActiveAdmins
  <2>1. PICK r \in Requests : Commit(r)
    <3> SUFFICES ASSUME \A r \in Requests : ~Commit(r) PROVE FALSE
      OBVIOUS
    <3>1. flags[a] \subseteq flags'[a]
      BY <2>0, FlagsOnlyGained
    <3>2. flags'[a] \in SUBSET Flags
      BY <2>0 DEF TypeOK
    <3>3. flags'[a] = Flags
      BY <3>1, <3>2 DEF ActiveAdmins
    <3> QED
      BY <2>0, <3>3 DEF ActiveAdmins
  <2>2. req[r].target = a /\ req[r].actor # a
    BY <2>0, <2>1, CommitRemovesTarget
  <2>3. pc[r] = "commit" /\ pc'[r] = "committed"
    BY <2>1 DEF IInv, TypeOK, Commit, Goto
  <2> QED
    BY <2>2, <2>3
<1> QED
  BY <1>1, AdminUsersInvariant, PTL DEF Spec, AccessLostToAnother

---------------------------------------------------------------------------
(* Refinement *)

LEMMA InitRefines == Init => UT!Init
BY DEF Init, UT!Init, Flags, UT!Flags

LEMMA CommitRefines ==
  ASSUME IInv, NEW r \in Requests, Commit(r)
  PROVE  UT!Apply(r, req[r])
<1> USE DEF IInv, TypeOK, Commit, tables
<1>1. req[r] \in Inputs
  BY DEF Arrived, Running
<1>2. <<r, req[r]>> \notin audit
  <2> SUFFICES ASSUME <<r, req[r]>> \in audit PROVE FALSE
    OBVIOUS
  <2>1. pc[<<r, req[r]>>[1]] = "committed"
    BY DEF AuditedOnce
  <2> QED
    BY <2>1
<1>3. req[r].target \in accounts
  BY DEF RowsExist, HasRead
<1>4. Sets(r) \in SUBSET req[r].set /\ Clears(r) \in SUBSET req[r].clear
  BY <1>1, InputsWellFormed DEF Sets, Clears, Input
<1> QED
  BY <1>1, <1>2, <1>3, <1>4 DEF UT!Apply

LEMMA NextRefines == IInv /\ [Next]_vars => [UT!Next]_(UT!vars)
<1> SUFFICES ASSUME IInv, [Next]_vars PROVE [UT!Next]_(UT!vars)
  OBVIOUS
<1>1. CASE UNCHANGED tables
  BY <1>1 DEF tables, UT!vars
<1>2. ASSUME NEW r \in Requests, Commit(r) PROVE UT!Next
  <2>1. req[r] \in Inputs
    BY <1>2 DEF IInv, Arrived, Running, Commit
  <2> QED
    BY <1>2, <2>1, CommitRefines DEF UT!Next
<1>3. ASSUME NEW u \in Users, Register(u) PROVE UT!Next
  <2>1. UT!Provision(u, {"active"})
    BY <1>3 DEF Register, UT!Provision, IInv, TypeOK, RowsExist
  <2> QED
    BY <2>1 DEF UT!Next, UT!Flags
<1>4. ASSUME NEW u \in Users, ScriptPromote(u) PROVE UT!Next
  <2>1. UT!Provision(u, {"admin"})
    BY <1>4 DEF ScriptPromote, UT!Provision, IInv, TypeOK, RowsExist
  <2> QED
    BY <2>1 DEF UT!Next, UT!Flags
<1>5. ASSUME NEW u \in Users, ScriptCreate(u) PROVE UT!Next
  <2>1. CASE u \in accounts
    <3>1. UT!Provision(u, {})
      BY <1>5, <2>1 DEF ScriptCreate, UT!Provision, IInv, TypeOK
    <3> QED
      BY <3>1 DEF UT!Next
  <2>2. CASE u \notin accounts
    <3>1. UT!Provision(u, Flags)
      BY <1>5, <2>2 DEF ScriptCreate, UT!Provision, IInv, TypeOK, RowsExist
    <3> QED
      BY <3>1 DEF UT!Next, UT!Flags, Flags
  <2> QED
    BY <2>1, <2>2
<1> QED
  BY <1>1, <1>2, <1>3, <1>4, <1>5
  DEF Next, Step, Authenticate, Load, Count, Write, Audit, Respond, Crash,
      ScriptLookup, vars

\* The interleaved transactions implement the atomic user table.
THEOREM Refinement == Spec => RefinesUserTable
<1>1. Spec => []IInv
  BY AdminUsersInvariant
<1> QED
  BY <1>1, InitRefines, NextRefines, PTL DEF Spec, RefinesUserTable, UT!Spec
=============================================================================
