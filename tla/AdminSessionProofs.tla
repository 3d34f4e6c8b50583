------------------------- MODULE AdminSessionProofs -------------------------
(***************************************************************************)
(* Proofs about AdminSession: the inductive invariant, for any number of   *)
(* tabs, users and calls and any lifetimes, and what follows from it.      *)
(***************************************************************************)
EXTENDS AdminSession, TLAPS

---------------------------------------------------------------------------
(* Calls and their slots *)

\* The slots of a tab, and the calls of a new record in one of them.
LEMMA SlotFacts ==
  /\ \A t \in Tabs : /\ <<t, "load">> \in Slots
                     /\ <<t, "login">> \in Slots
                     /\ \A p \in Pages : <<t, p>> \in Slots
  /\ \A s \in Slots : s = <<s[1], s[2]>> /\ s[1] \in Tabs
  /\ \A p \in Pages : p # "load" /\ p # "login"
BY SessionAssumption DEF Slots

\* New records are records of calls, and old ones that have aged still are.
LEMMA RecordFacts ==
  /\ Quiet \in CallRecord /\ Quiet.pc = "idle"
  /\ \A u \in Users : /\ NewPair(u) \in Pair
                      /\ NewPair(u) # None
                      /\ NewPair(u).user = u
                      /\ [user |-> u, life |-> 0] \in Pair
                      /\ [user |-> u, life |-> 0] # None
BY SessionAssumption DEF Quiet, CallRecord, Points, Answers, Maybe, NewPair, Pair

LEMMA LaterFacts ==
  ASSUME NEW p \in Maybe(Pair)
  PROVE  /\ Later(p) \in Maybe(Pair)
         /\ Later(p) = None <=> p = None
         /\ p # None => Later(p).user = p.user
<1>1. CASE p = None \/ p.life = 0
  BY <1>1 DEF Later
<1>2. CASE p # None /\ p.life # 0
  <2>1. p \in Pair /\ p.life - 1 \in 0..Life
    BY <1>2, SessionAssumption DEF Maybe, Pair
  <2>2. Later(p) = [p EXCEPT !.life = p.life - 1]
    BY <1>2 DEF Later
  <2>3. Later(p) \in Pair /\ Later(p).user = p.user
    BY <2>1, <2>2 DEF Pair
  <2> QED BY <1>2, <2>3, SessionAssumption DEF Maybe
<1> QED BY <1>1, <1>2

\* What IInv asks of the call in one slot.
Shaped(s) ==
  /\ s[2] \in {"load", "login"} => call[s].pair # None
  /\ call[s].pc \in {"refresh", "renewed", "retry", "second"}
       => call[s].pair # None
  /\ call[s].pc \in {"login", "welcome"} <=> s[2] = "login"

\* A call goes on: its user and everything else stay.
LEMMA GoesOn ==
  ASSUME IInv, NEW s \in Busy,
         call' \in [Slots -> CallRecord],
         \A q \in Slots \ {s} : call'[q] = call[q],
         call'[s].pc # "idle",
         Shaped(s)',
         call[s].pair = None <=> call'[s].pair = None,
         call[s].pair # None => call'[s].pair.user = call[s].pair.user,
         UNCHANGED <<storage, user, loading, crossed, apart>>
  PROVE  IInv'
<1>1. s \in Slots /\ Busy' = Busy /\ Carriers' = Carriers
  BY DEF Busy, Carriers
<1>2. TypeOK'
  BY <1>1 DEF IInv, TypeOK
<1>3. CallsShaped'
  BY <1>1 DEF IInv, CallsShaped, Shaped, Busy
<1>4. CarriesStored'
  BY <1>1 DEF IInv, CarriesStored, Carriers, Busy
<1>5. ActsAsShown'
  BY DEF IInv, ActsAsShown
<1> QED BY <1>2, <1>3, <1>4, <1>5 DEF IInv

\* A call begins, with the stored tokens or to log in.
LEMMA Begins ==
  ASSUME IInv, NEW s \in Slots \ Busy,
         call' \in [Slots -> CallRecord],
         \A q \in Slots \ {s} : call'[q] = call[q],
         call'[s].pc # "idle",
         Shaped(s)',
         s[2] # "login" => call'[s].pair = storage,
         UNCHANGED <<storage, user, loading, crossed, apart>>
  PROVE  IInv'
<1>1. /\ Busy' = Busy \cup {s}
      /\ Carriers \subseteq Carriers' /\ Carriers' \subseteq Carriers \cup {s}
  BY DEF Busy, Carriers
<1>2. TypeOK'
  BY <1>1 DEF IInv, TypeOK
<1>3. CallsShaped'
  BY <1>1 DEF IInv, CallsShaped, Shaped, Busy
<1>4. CarriesStored'
  BY <1>1 DEF IInv, CarriesStored, Carriers, Busy
<1>5. ActsAsShown'
  BY DEF IInv, ActsAsShown
<1> QED BY <1>2, <1>3, <1>4, <1>5 DEF IInv

\* A call of a tab ends.
LEMMA EndFacts ==
  ASSUME TypeOK, NEW s \in Slots, Ended(s)
  PROVE  /\ call' \in [Slots -> CallRecord]
         /\ call'[s] = Quiet
         /\ \A q \in Slots \ {s} : call'[q] = call[q]
         /\ Busy' = Busy \ {s}
         /\ Carriers' = Carriers \ {s}
<1>1. call' \in [Slots -> CallRecord] /\ call'[s] = Quiet
      /\ \A q \in Slots \ {s} : call'[q] = call[q]
  BY RecordFacts DEF TypeOK, Ended
<1>2. Busy' = Busy \ {s}
  BY <1>1, RecordFacts DEF Busy
<1> QED BY <1>1, <1>2 DEF Carriers

---------------------------------------------------------------------------
(* The steps of a call *)

LEMMA ServeStep ==
  ASSUME IInv, NEW s \in Slots, Serve(s)
  PROVE  IInv'
<1>1. s \in Busy
  BY DEF Serve, Busy
<1>2. PICK a \in {"admin", "other", "expired", "error"} :
        /\ call' = [call EXCEPT
             ![s].pc = IF @ = "request" THEN "response" ELSE "second",
             ![s].answer = a]
  BY DEF Serve
<1>3. call[s] \in CallRecord /\ call[s].pc \in {"request", "retry"}
  BY DEF IInv, TypeOK, Serve
<1>4. /\ call' \in [Slots -> CallRecord]
      /\ \A q \in Slots \ {s} : call'[q] = call[q]
      /\ call'[s].pair = call[s].pair
      /\ call'[s].pc = IF call[s].pc = "request" THEN "response" ELSE "second"
  BY <1>2, <1>3 DEF IInv, TypeOK, CallRecord, Points, Answers
<1>5. Shaped(s)'
  BY <1>1, <1>3, <1>4 DEF IInv, CallsShaped, Shaped
<1> QED BY <1>1, <1>3, <1>4, <1>5, GoesOn DEF Serve

LEMMA ServeRefreshStep ==
  ASSUME IInv, NEW s \in Slots, ServeRefresh(s)
  PROVE  IInv'
<1>1. s \in Busy /\ call[s] \in CallRecord /\ call[s].pc = "refresh"
  BY DEF ServeRefresh, Busy, IInv, TypeOK
<1>2. call[s].pair \in Pair /\ call[s].pair # None /\ call[s].pair.user \in Users
  BY <1>1 DEF IInv, CallsShaped, CallRecord, Maybe, Pair
<1>3. /\ call' \in [Slots -> CallRecord]
      /\ \A q \in Slots \ {s} : call'[q] = call[q]
      /\ call'[s].pair # None
      /\ call'[s].pair.user = call[s].pair.user
      /\ call'[s].pc = "renewed"
  <2>1. CASE call' = [call EXCEPT ![s] =
               [pc |-> "renewed", answer |-> "admin",
                pair |-> NewPair(call[s].pair.user)]]
    BY <1>2, <2>1, RecordFacts
       DEF IInv, TypeOK, CallRecord, Points, Answers, Maybe
  <2>2. CASE \E a \in {"expired", "error"} :
               call' = [call EXCEPT ![s].pc = "renewed", ![s].answer = a]
    <3>1. PICK a \in {"expired", "error"} :
            call' = [call EXCEPT ![s].pc = "renewed", ![s].answer = a]
      BY <2>2
    <3>2. /\ call' \in [Slots -> CallRecord]
          /\ \A q \in Slots \ {s} : call'[q] = call[q]
          /\ call'[s].pair = call[s].pair
          /\ call'[s].pc = "renewed"
      BY <1>1, <3>1 DEF IInv, TypeOK, CallRecord, Points, Answers
    <3> QED BY <1>2, <3>2
  <2> QED BY <2>1, <2>2 DEF ServeRefresh
<1>4. Shaped(s)'
  BY <1>1, <1>3 DEF IInv, CallsShaped, Shaped
<1> QED BY <1>1, <1>2, <1>3, <1>4, GoesOn DEF ServeRefresh

LEMMA ServeLoginStep ==
  ASSUME IInv, NEW s \in Slots, ServeLogin(s)
  PROVE  IInv'
<1>1. s \in Busy /\ call[s] \in CallRecord /\ call[s].pc = "login"
  BY DEF ServeLogin, Busy, IInv, TypeOK
<1>2. s[2] = "login"
  BY <1>1 DEF IInv, CallsShaped
<1>3. call[s].pair \in Pair /\ call[s].pair # None /\ call[s].pair.user \in Users
  BY <1>1, <1>2 DEF IInv, CallsShaped, CallRecord, Maybe, Pair
<1>4. PICK a \in {"admin", "other", "error"} :
        call' = [call EXCEPT ![s] = [pc |-> "welcome", answer |-> a,
                                     pair |-> NewPair(call[s].pair.user)]]
  BY DEF ServeLogin
<1>5. /\ call' \in [Slots -> CallRecord]
      /\ \A q \in Slots \ {s} : call'[q] = call[q]
      /\ call'[s].pair # None
      /\ call'[s].pair.user = call[s].pair.user
      /\ call'[s].pc = "welcome"
  BY <1>3, <1>4, RecordFacts DEF IInv, TypeOK, CallRecord, Points, Answers, Maybe
<1>6. Shaped(s)'
  BY <1>2, <1>5 DEF Shaped
<1> QED BY <1>1, <1>3, <1>5, <1>6, GoesOn DEF ServeLogin

LEMMA RefreshStep ==
  ASSUME IInv, NEW s \in Slots, Refresh(s)
  PROVE  IInv'
<1>1. s \in Busy /\ call[s] \in CallRecord /\ call[s].pair # None
  BY DEF Refresh, Busy, IInv, TypeOK
<1>2. /\ call' \in [Slots -> CallRecord]
      /\ \A q \in Slots \ {s} : call'[q] = call[q]
      /\ call'[s].pair = call[s].pair
      /\ call'[s].pc = "refresh"
  BY <1>1 DEF Refresh, IInv, TypeOK, CallRecord, Points, Answers
<1>3. Shaped(s)'
  BY <1>1, <1>2 DEF IInv, CallsShaped, Shaped, Refresh
<1> QED BY <1>1, <1>2, <1>3, GoesOn DEF Refresh

\* The new tokens are stored: of the stored user, or every call that is under
\* way and every tab counts as overtaken.
LEMMA RenewStep ==
  ASSUME IInv, NEW s \in Slots, Renew(s)
  PROVE  IInv'
<1>1. s \in Busy /\ call[s] \in CallRecord /\ call[s].pc = "renewed"
  BY DEF Renew, Busy, IInv, TypeOK
<1>2. s \in Carriers /\ call[s].pair \in Pair /\ call[s].pair # None
  BY <1>1 DEF IInv, CallsShaped, Carriers, CallRecord, Maybe
<1>3. /\ call' \in [Slots -> CallRecord]
      /\ \A q \in Slots \ {s} : call'[q] = call[q]
      /\ call'[s].pair = call[s].pair
      /\ call'[s].pc = "retry"
  BY <1>1 DEF Renew, IInv, TypeOK, CallRecord, Points, Answers
<1>4. Busy' = Busy /\ Carriers' = Carriers
  BY <1>1, <1>3 DEF Busy, Carriers
<1>5. storage' = IF storage # None THEN call[s].pair ELSE storage
  BY DEF Renew, Stores
<1>6. TypeOK'
  BY <1>2, <1>3, <1>4, <1>5 DEF IInv, TypeOK, Maybe, Renew, Carriers
<1>7. CallsShaped'
  BY <1>1, <1>2, <1>3, <1>4 DEF IInv, CallsShaped, Busy, Carriers
<1>8. CarriesStored' /\ ActsAsShown'
  <2>1. CASE s \in crossed /\ storage # None
    BY <1>4, <2>1 DEF Renew, CarriesStored, ActsAsShown, IInv, TypeOK
  <2>2. CASE storage = None
    BY <1>5, <2>2 DEF CarriesStored, ActsAsShown
  <2>3. CASE s \notin crossed /\ storage # None
    <3>1. storage' # None /\ storage'.user = storage.user
      BY <1>2, <1>5, <2>3 DEF IInv, CarriesStored
    <3>2. crossed' = crossed /\ apart' = apart /\ user' = user
      BY <2>3 DEF Renew
    <3>3. CarriesStored'
      BY <1>3, <1>4, <2>3, <3>1, <3>2 DEF IInv, CarriesStored, Carriers, Busy
    <3>4. ActsAsShown'
      BY <2>3, <3>1, <3>2 DEF IInv, ActsAsShown
    <3> QED BY <3>3, <3>4
  <2> QED BY <2>1, <2>2, <2>3
<1> QED BY <1>6, <1>7, <1>8 DEF IInv

---------------------------------------------------------------------------
(* The steps of a tab, and time *)

\* A page load forgets the calls of its tab and what the tab showed.
LEMMA ReloadStep ==
  ASSUME IInv, NEW t \in Tabs, Reload(t)
  PROVE  IInv'
<1>1. /\ call' \in [Slots -> CallRecord]
      /\ \A s \in Slots : call'[s] = IF s[1] = t THEN Quiet ELSE call[s]
  BY RecordFacts DEF Reload, IInv, TypeOK
<1>2. Busy' = {s \in Busy : s[1] # t} /\ Carriers' = {s \in Carriers : s[1] # t}
  BY <1>1, RecordFacts DEF Busy, Carriers
<1>3. TypeOK'
  BY <1>1, <1>2 DEF Reload, IInv, TypeOK, Maybe
<1>4. CallsShaped'
  BY <1>1, <1>2 DEF IInv, CallsShaped, Busy
<1>5. CarriesStored'
  BY <1>1, <1>2 DEF Reload, IInv, CarriesStored, Carriers, Busy
<1>6. ActsAsShown'
  BY DEF Reload, IInv, TypeOK, ActsAsShown
<1> QED BY <1>3, <1>4, <1>5, <1>6 DEF IInv

LEMMA LoadUserStep ==
  ASSUME IInv, NEW t \in Tabs, LoadUser(t)
  PROVE  IInv'
<1> DEFINE s == <<t, "load">>
<1>1. s \in Slots \ Busy /\ s[2] = "load"
  BY SlotFacts DEF LoadUser, Busy
<1>2. CASE storage = None
  <2>1. UNCHANGED <<call, storage, crossed, apart>>
    BY <1>2 DEF LoadUser
  <2>2. user' = [user EXCEPT ![t] = None] /\ loading' = [loading EXCEPT ![t] = FALSE]
    BY <1>2 DEF LoadUser
  <2>3. Busy' = Busy /\ Carriers' = Carriers
    BY <2>1 DEF Busy, Carriers
  <2>4. TypeOK'
    BY <2>1, <2>2, <2>3 DEF IInv, TypeOK, Maybe
  <2>5. CallsShaped' /\ CarriesStored' /\ ActsAsShown'
    BY <1>2, <2>1, <2>3 DEF IInv, CallsShaped, CarriesStored, ActsAsShown
  <2> QED BY <2>4, <2>5 DEF IInv
<1>3. CASE storage # None
  <2>1. call' = [call EXCEPT ![s].pc = "request", ![s].pair = storage]
        /\ UNCHANGED <<storage, user, loading, crossed, apart>>
    BY <1>3 DEF LoadUser
  <2>2. call[s] \in CallRecord /\ storage \in Maybe(Pair)
    BY <1>1 DEF IInv, TypeOK
  <2>3. /\ call' \in [Slots -> CallRecord]
        /\ \A q \in Slots \ {s} : call'[q] = call[q]
        /\ call'[s].pair = storage
        /\ call'[s].pc = "request"
    BY <1>1, <2>1, <2>2 DEF IInv, TypeOK, CallRecord, Points
  <2>4. Shaped(s)'
    BY <1>1, <1>3, <2>1, <2>3 DEF Shaped
  <2> HIDE DEF s
  <2> QED BY <1>1, <2>1, <2>3, <2>4, Begins
<1> QED BY <1>2, <1>3

LEMMA CallApiStep ==
  ASSUME IInv, NEW t \in Tabs, NEW p \in Pages, CallApi(t, p)
  PROVE  IInv'
<1> DEFINE s == <<t, p>>
<1>1. s \in Slots \ Busy /\ s[2] = p /\ p # "load" /\ p # "login"
  BY SlotFacts DEF CallApi, Busy
<1>2. call' = [call EXCEPT ![s].pc = "request", ![s].pair = storage]
      /\ UNCHANGED <<storage, user, loading, crossed, apart>>
  BY DEF CallApi
<1>3. call[s] \in CallRecord /\ storage \in Maybe(Pair)
  BY <1>1 DEF IInv, TypeOK
<1>4. /\ call' \in [Slots -> CallRecord]
      /\ \A q \in Slots \ {s} : call'[q] = call[q]
      /\ call'[s].pair = storage
      /\ call'[s].pc = "request"
  BY <1>1, <1>2, <1>3 DEF IInv, TypeOK, CallRecord, Points
<1>5. Shaped(s)'
  BY <1>1, <1>4 DEF Shaped
<1> HIDE DEF s
<1> QED BY <1>1, <1>2, <1>4, <1>5, Begins

LEMMA LoginStep ==
  ASSUME IInv, NEW t \in Tabs, NEW u \in Users, Login(t, u)
  PROVE  IInv'
<1> DEFINE s == <<t, "login">>
           p == [user |-> u, life |-> 0]
<1>1. s \in Slots \ Busy /\ s[2] = "login"
  BY SlotFacts DEF Login, Busy
<1>2. call' = [call EXCEPT ![s].pc = "login", ![s].pair = p]
      /\ UNCHANGED <<storage, user, loading, crossed, apart>>
  BY DEF Login
<1>3. call[s] \in CallRecord /\ p \in Maybe(Pair) /\ p # None
  BY <1>1, RecordFacts DEF IInv, TypeOK, Maybe
<1> HIDE DEF p
<1>4. /\ call' \in [Slots -> CallRecord]
      /\ \A q \in Slots \ {s} : call'[q] = call[q]
      /\ call'[s].pair = p
      /\ call'[s].pc = "login"
  BY <1>1, <1>2, <1>3 DEF IInv, TypeOK, CallRecord, Points
<1>5. Shaped(s)'
  BY <1>1, <1>3, <1>4 DEF Shaped
<1> HIDE DEF s
<1> QED BY <1>1, <1>2, <1>4, <1>5, Begins

\* Without a user the tab shows nothing; with one it shows the stored user,
\* unless a login has overtaken the load.
LEMMA LoadedStep ==
  ASSUME IInv, NEW t \in Tabs, Loaded(t)
  PROVE  IInv'
<1> DEFINE s == <<t, "load">>
<1>1. s \in Slots /\ s \in Busy /\ s[2] = "load" /\ s \in Carriers
  BY SlotFacts DEF Loaded, Over, Busy, Carriers
<1>2. call[s].pair \in Pair /\ call[s].pair # None /\ call[s].pair.user \in Users
  BY <1>1 DEF IInv, TypeOK, CallsShaped, CallRecord, Maybe, Pair
<1>3. Ended(s) /\ crossed' = crossed \ {s}
      /\ loading' = [loading EXCEPT ![t] = FALSE]
  BY DEF Loaded
<1>4. /\ call' \in [Slots -> CallRecord]
      /\ \A q \in Slots \ {s} : call'[q] = call[q]
      /\ Busy' = Busy \ {s}
      /\ Carriers' = Carriers \ {s}
  BY <1>1, <1>3, EndFacts DEF IInv
<1>5. CASE call[s].answer = "admin"
  <2>1. /\ user' = [user EXCEPT ![t] = call[s].pair.user]
        /\ storage' = storage
        /\ apart' = IF s \in crossed THEN apart \cup {t} ELSE apart
    BY <1>5 DEF Loaded
  <2>2. TypeOK'
    BY <1>2, <1>3, <1>4, <2>1 DEF IInv, TypeOK, Maybe
  <2>3. CallsShaped' /\ CarriesStored'
    BY <1>3, <1>4, <2>1 DEF IInv, CallsShaped, CarriesStored, Busy, Carriers
  <2>4. ActsAsShown'
    <3>1. s \notin crossed /\ storage # None => call[s].pair.user = storage.user
      BY <1>1, <1>2 DEF IInv, CarriesStored
    <3> QED BY <2>1, <3>1 DEF IInv, TypeOK, ActsAsShown
  <2> QED BY <2>2, <2>3, <2>4 DEF IInv
<1>6. CASE call[s].answer # "admin"
  <2>1. user' = [user EXCEPT ![t] = None] /\ storage' = None /\ apart' = apart
    BY <1>6 DEF Loaded
  <2>2. TypeOK'
    BY <1>3, <1>4, <2>1 DEF IInv, TypeOK, Maybe
  <2>3. CallsShaped' /\ CarriesStored' /\ ActsAsShown'
    BY <1>4, <2>1 DEF IInv, CallsShaped, CarriesStored, ActsAsShown, Busy
  <2> QED BY <2>2, <2>3 DEF IInv
<1> QED BY <1>5, <1>6

LEMMA CalledStep ==
  ASSUME IInv, NEW t \in Tabs, NEW p \in Pages, Called(t, p)
  PROVE  IInv'
<1> DEFINE s == <<t, p>>
<1>1. s \in Slots
  BY SlotFacts
<1>2. Ended(s) /\ crossed' = crossed \ {s}
      /\ UNCHANGED <<storage, user, loading, apart>>
  BY DEF Called
<1>3. /\ call' \in [Slots -> CallRecord]
      /\ \A q \in Slots \ {s} : call'[q] = call[q]
      /\ Busy' = Busy \ {s}
      /\ Carriers' = Carriers \ {s}
  BY <1>1, <1>2, EndFacts DEF IInv
<1>4. TypeOK'
  BY <1>2, <1>3 DEF IInv, TypeOK
<1>5. CallsShaped' /\ CarriesStored' /\ ActsAsShown'
  BY <1>2, <1>3 DEF IInv, CallsShaped, CarriesStored, ActsAsShown, Busy, Carriers
<1> QED BY <1>4, <1>5 DEF IInv

\* A login overtakes every call under way and parts every other tab.
LEMMA LoggedInStep ==
  ASSUME IInv, NEW t \in Tabs, LoggedIn(t)
  PROVE  IInv'
<1> DEFINE s == <<t, "login">>
           p == call[s].pair
<1>1. s \in Slots /\ s \in Busy /\ s[2] = "login"
  BY SlotFacts DEF LoggedIn, Busy
<1>2. p \in Pair /\ p # None /\ p.user \in Users
  BY <1>1 DEF IInv, TypeOK, CallsShaped, CallRecord, Maybe, Pair
<1>3. Ended(s) /\ loading' = loading
  BY DEF LoggedIn
<1>4. /\ call' \in [Slots -> CallRecord]
      /\ \A q \in Slots \ {s} : call'[q] = call[q]
      /\ Busy' = Busy \ {s}
      /\ Carriers' = Carriers
  BY <1>1, <1>3, EndFacts DEF IInv, Carriers
<1>5. CallsShaped'
  BY <1>4 DEF IInv, CallsShaped, Busy
<1>6. CASE call[s].answer = "admin"
  <2>1. /\ storage' = p
        /\ user' = [user EXCEPT ![t] = p.user]
        /\ crossed' = Carriers
        /\ apart' = Tabs \ {t}
    BY <1>6 DEF LoggedIn
  <2>2. TypeOK'
    BY <1>1, <1>2, <1>3, <1>4, <2>1 DEF IInv, TypeOK, Maybe, Carriers
  <2>3. CarriesStored' /\ ActsAsShown'
    BY <1>4, <2>1 DEF IInv, TypeOK, CarriesStored, ActsAsShown
  <2> QED BY <1>5, <2>2, <2>3 DEF IInv
<1>7. CASE call[s].answer # "admin"
  <2>1. UNCHANGED <<user, crossed, apart>> /\ storage' \in {None, storage}
    BY <1>7 DEF LoggedIn
  <2>3. TypeOK'
    BY <1>2, <1>3, <1>4, <2>1 DEF IInv, TypeOK, Maybe
  <2>4. CarriesStored' /\ ActsAsShown'
    BY <1>4, <2>1 DEF IInv, CarriesStored, ActsAsShown, Carriers, Busy
  <2> QED BY <1>5, <2>3, <2>4 DEF IInv
<1> QED BY <1>6, <1>7
LEMMA LogoutStep ==
  ASSUME IInv, NEW t \in Tabs, Logout(t)
  PROVE  IInv'
<1>1. Busy' = Busy /\ Carriers' = Carriers
  BY DEF Logout, Busy, Carriers
<1>2. TypeOK'
  BY <1>1 DEF Logout, IInv, TypeOK, Maybe
<1>3. CallsShaped' /\ CarriesStored' /\ ActsAsShown'
  BY <1>1 DEF Logout, IInv, CallsShaped, CarriesStored, ActsAsShown
<1> QED BY <1>2, <1>3 DEF IInv

\* Tokens keep their user as they age.
LEMMA TickStep ==
  ASSUME IInv, Tick
  PROVE  IInv'
<1>1. \A s \in Slots : call[s] \in CallRecord /\ call[s].pair \in Maybe(Pair)
  BY DEF IInv, TypeOK, CallRecord
<1>2. \A s \in Slots : call'[s] = [call[s] EXCEPT !.pair = Later(call[s].pair)]
  BY DEF Tick
<1>3. \A s \in Slots : /\ call'[s] \in CallRecord
                       /\ call'[s].pc = call[s].pc
                       /\ call'[s].pair = Later(call[s].pair)
  BY <1>1, <1>2, LaterFacts DEF CallRecord
<1>4. call' \in [Slots -> CallRecord]
  BY <1>3 DEF Tick
<1>5. Busy' = Busy /\ Carriers' = Carriers
  BY <1>3 DEF Busy, Carriers
<1>6. /\ storage' \in Maybe(Pair)
      /\ storage' = None <=> storage = None
      /\ storage # None => storage'.user = storage.user
  BY LaterFacts DEF Tick, IInv, TypeOK
<1>7. \A s \in Slots :
        /\ call'[s].pair = None <=> call[s].pair = None
        /\ call[s].pair # None => call'[s].pair.user = call[s].pair.user
  BY <1>1, <1>3, LaterFacts
<1>8. TypeOK'
  BY <1>4, <1>5, <1>6 DEF Tick, IInv, TypeOK
<1>9. CallsShaped'
  BY <1>3, <1>5, <1>7 DEF IInv, CallsShaped, Busy
<1>10. CarriesStored'
  BY <1>5, <1>6, <1>7 DEF Tick, IInv, CarriesStored, Carriers, Busy
<1>11. ActsAsShown'
  BY <1>6 DEF Tick, IInv, ActsAsShown
<1> QED BY <1>8, <1>9, <1>10, <1>11 DEF IInv

---------------------------------------------------------------------------
(* The invariant *)

LEMMA InitInvariant == Init => IInv
<1> SUFFICES ASSUME Init PROVE IInv
  OBVIOUS
<1>1. Busy = {} /\ Carriers = {}
  BY DEF Init, Quiet, Busy, Carriers
<1>2. TypeOK
  BY <1>1, RecordFacts DEF Init, TypeOK, Maybe
<1>3. CallsShaped /\ CarriesStored /\ ActsAsShown
  BY <1>1 DEF Init, CallsShaped, CarriesStored, ActsAsShown
<1> QED BY <1>2, <1>3 DEF IInv

LEMMA NextInvariant == IInv /\ [Next]_vars => IInv'
<1> SUFFICES ASSUME IInv, [Next]_vars PROVE IInv'
  OBVIOUS
<1>1. ASSUME NEW s \in Slots, Step(s) PROVE IInv'
  BY <1>1, ServeStep, ServeRefreshStep, ServeLoginStep, RefreshStep, RenewStep
     DEF Step
<1>2. ASSUME NEW t \in Tabs,
             Reload(t) \/ LoadUser(t) \/ Loaded(t) \/ LoggedIn(t) \/ Logout(t)
      PROVE IInv'
  BY <1>2, ReloadStep, LoadUserStep, LoadedStep, LoggedInStep, LogoutStep
<1>3. ASSUME NEW t \in Tabs, NEW p \in Pages, CallApi(t, p) \/ Called(t, p)
      PROVE IInv'
  BY <1>3, CallApiStep, CalledStep
<1>4. ASSUME NEW t \in Tabs, NEW u \in Users, Login(t, u) PROVE IInv'
  BY <1>4, LoginStep
<1>5. CASE Tick
  BY <1>5, TickStep
<1>6. CASE UNCHANGED vars
  BY <1>6 DEF vars, IInv, TypeOK, CallsShaped, CarriesStored, ActsAsShown,
              Busy, Carriers
<1> QED BY <1>1, <1>2, <1>3, <1>4, <1>5, <1>6 DEF Next

\* The strengthened invariant holds of every browser, whatever its tabs do.
THEOREM AdminSessionInvariant == Spec => []IInv
<1>1. Init => IInv
  BY InitInvariant
<1>2. IInv /\ [Next]_vars => IInv'
  BY NextInvariant
<1> QED BY <1>1, <1>2, PTL DEF Spec

\* Every variable keeps its type (VARIABLES of AdminSession).
THEOREM AdminSessionType == Spec => []TypeOK
<1>1. IInv => TypeOK
  BY DEF IInv
<1> QED BY <1>1, AdminSessionInvariant, PTL

\* A tab acts as the user it shows, unless a login has crossed an answer or
\* another tab has logged in (apiFetch, loadUser and login together).
THEOREM ActsAsItShows == Spec => []ActsAsShown
<1>1. IInv => ActsAsShown
  BY DEF IInv
<1> QED BY <1>1, AdminSessionInvariant, PTL

---------------------------------------------------------------------------
(* Properties of steps *)

\* Only a login brings tokens back after a logout (refreshAccessToken).
THEOREM LogoutsHold == Spec => LogoutHolds
<1>1. ASSUME IInv, [Next]_vars, storage = None, storage' # None
      PROVE  \E t \in Tabs : /\ call[<<t, "login">>].pc = "welcome"
                             /\ call'[<<t, "login">>].pc = "idle"
                             /\ user'[t] = storage'.user
  <2>1. PICK t \in Tabs : LoggedIn(t)
    <3>1. ASSUME NEW s \in Slots, Step(s) PROVE FALSE
      BY <1>1, <3>1 DEF Step, Serve, ServeRefresh, ServeLogin, Refresh, Renew,
                        Stores
    <3>2. ASSUME NEW t \in Tabs,
                 Reload(t) \/ LoadUser(t) \/ Loaded(t) \/ Logout(t)
          PROVE FALSE
      BY <1>1, <3>2 DEF Reload, LoadUser, Loaded, Logout
    <3>3. ASSUME NEW t \in Tabs, NEW p \in Pages, CallApi(t, p) \/ Called(t, p)
          PROVE FALSE
      BY <1>1, <3>3 DEF CallApi, Called
    <3>4. ASSUME NEW t \in Tabs, NEW u \in Users, Login(t, u) PROVE FALSE
      BY <1>1, <3>4 DEF Login
    <3>5. ~Tick /\ ~UNCHANGED vars
      BY <1>1 DEF Tick, Later, vars
    <3> QED BY <1>1, <3>1, <3>2, <3>3, <3>4, <3>5 DEF Next
  <2> DEFINE s == <<t, "login">>
  <2>2. s \in Slots /\ call[s].pc = "welcome"
    BY <2>1, SlotFacts DEF LoggedIn
  <2>3. call'[s] = Quiet
    BY <1>1, <2>1, <2>2, EndFacts DEF IInv, LoggedIn
  <2>4. call[s].answer = "admin"
    BY <1>1, <2>1 DEF LoggedIn
  <2>5. user'[t] = storage'.user
    BY <1>1, <2>1, <2>4 DEF LoggedIn, IInv, TypeOK
  <2> QED BY <2>2, <2>3, <2>5, RecordFacts
<1> QED BY <1>1, AdminSessionInvariant, PTL DEF Spec, LogoutHolds

\* A failing page load that no login has overtaken signs out its own user.
THEOREM SignOutsAreOwn == Spec => SignOutIsOwn
<1> DEFINE A == \A t \in Tabs : LET s == <<t, "load">> IN
                  /\ Over(s) /\ call'[s].pc = "idle" /\ ~loading'[t]
                  /\ storage # None /\ storage' = None
                  /\ s \notin crossed
                  => storage.user = call[s].pair.user
<1>1. ASSUME IInv PROVE A
  <2> SUFFICES ASSUME NEW t \in Tabs, Over(<<t, "load">>), storage # None,
                      <<t, "load">> \notin crossed
               PROVE  storage.user = call[<<t, "load">>].pair.user
    OBVIOUS
  <2>1. <<t, "load">> \in Carriers
    BY SlotFacts DEF Over, Carriers, Busy
  <2>2. call[<<t, "load">>].pair # None
    BY <1>1, <2>1 DEF IInv, CallsShaped, Carriers
  <2> QED BY <1>1, <2>1, <2>2 DEF IInv, CarriesStored
<1> QED BY <1>1, AdminSessionInvariant, PTL DEF SignOutIsOwn

---------------------------------------------------------------------------
(* Why calls fail for the age of their tokens *)

\* A 401 for the token is kept only by calls that were answered, and then the
\* token that the answer was about is as old as ExpiredOnly says.
AgedAt(s) ==
  call[s].answer = "expired" =>
    /\ call[s].pc \in {"response", "renewed", "second"}
    /\ call[s].pair # None =>
         /\ call[s].pc = "renewed" => call[s].pair.life = 0
         /\ call[s].pc = "second" => call[s].pair.life <= Spare

Aged == \A s \in Slots : AgedAt(s)

\* Calls that the step does not change, or whose new answer is no 401.
LEMMA StillAged ==
  ASSUME Aged, \A s \in Slots : call'[s] = call[s] \/ call'[s].answer # "expired"
  PROVE  Aged'
  BY DEF Aged, AgedAt

\* The fields of a call after a step that sets some of them.
LEMMA ServeAged ==
  ASSUME TypeOK, Aged, NEW s \in Slots, Serve(s)
  PROVE  Aged'
<1>1. PICK a \in {"admin", "other", "expired", "error"} :
        /\ a = "expired" => ~(call[s].pair # None /\ AccessGood(call[s].pair))
        /\ call' = [call EXCEPT
             ![s].pc = IF @ = "request" THEN "response" ELSE "second",
             ![s].answer = a]
  BY DEF Serve
<1>2. call[s] \in CallRecord /\ call[s].pc \in {"request", "retry"}
  BY DEF TypeOK, Serve
<1>3. /\ call'[s].answer = a /\ call'[s].pair = call[s].pair
      /\ call'[s].pc \in {"response", "second"}
      /\ \A q \in Slots \ {s} : call'[q] = call[q]
  BY <1>1, <1>2 DEF TypeOK, CallRecord
<1>4. call[s].pair # None => call[s].pair.life \in Int
  BY <1>2, SessionAssumption DEF CallRecord, Maybe, Pair
<1>5. AgedAt(s)'
  BY <1>1, <1>3, <1>4, SessionAssumption DEF AgedAt, AccessGood
<1> QED
  BY <1>3, <1>5 DEF Aged, AgedAt

LEMMA ServeRefreshAged ==
  ASSUME TypeOK, Aged, NEW s \in Slots, ServeRefresh(s)
  PROVE  Aged'
<1>1. call[s] \in CallRecord
  BY DEF TypeOK
<1>2. CASE call' = [call EXCEPT ![s] = [pc |-> "renewed", answer |-> "admin",
                                        pair |-> NewPair(call[s].pair.user)]]
  <2>1. call'[s].answer = "admin" /\ \A q \in Slots \ {s} : call'[q] = call[q]
    BY <1>2 DEF TypeOK
  <2> QED
    BY <2>1, StillAged
<1>3. CASE \E a \in {"expired", "error"} :
             /\ a = "expired" => ~RefreshGood(call[s].pair)
             /\ call' = [call EXCEPT ![s].pc = "renewed", ![s].answer = a]
  <2>1. PICK a \in {"expired", "error"} :
             /\ a = "expired" => ~RefreshGood(call[s].pair)
             /\ call' = [call EXCEPT ![s].pc = "renewed", ![s].answer = a]
    BY <1>3
  <2>2. /\ call'[s].answer = a /\ call'[s].pair = call[s].pair
        /\ call'[s].pc = "renewed"
        /\ \A q \in Slots \ {s} : call'[q] = call[q]
    BY <1>1, <2>1 DEF TypeOK, CallRecord
  <2>3. call[s].pair # None => call[s].pair.life \in 0..Life
    BY <1>1 DEF CallRecord, Maybe, Pair
  <2>4. AgedAt(s)'
    BY <2>1, <2>2, <2>3, SessionAssumption DEF AgedAt, RefreshGood
  <2> QED
    BY <2>2, <2>4 DEF Aged, AgedAt
<1> QED
  BY <1>2, <1>3 DEF ServeRefresh

LEMMA TickAged ==
  ASSUME TypeOK, Aged, Tick
  PROVE  Aged'
<1> SUFFICES ASSUME NEW s \in Slots PROVE AgedAt(s)'
  BY DEF Aged
<1>1. call[s] \in CallRecord
  BY DEF TypeOK
<1>2. /\ call'[s].pc = call[s].pc /\ call'[s].answer = call[s].answer
      /\ call'[s].pair = Later(call[s].pair)
  BY <1>1 DEF Tick, CallRecord
<1>3. CASE call[s].pair = None \/ call[s].pair.life = 0
  <2>1. Later(call[s].pair) = call[s].pair
    BY <1>3 DEF Later
  <2> QED
    BY <1>2, <2>1 DEF Aged, AgedAt
<1>4. CASE call[s].pair # None /\ call[s].pair.life # 0
  <2>1. call[s].pair \in Pair /\ call[s].pair.life \in 0..Life
    BY <1>1, <1>4 DEF CallRecord, Maybe, Pair
  <2>2. Later(call[s].pair).life = call[s].pair.life - 1
    BY <1>4, <2>1 DEF Later, Pair
  <2>3. Spare \in Int /\ call[s].pair.life \in Int
    BY <2>1, SessionAssumption
  <2>4. call'[s].pair.life = call[s].pair.life - 1
    BY <1>2, <2>2
  <2>5. AgedAt(s)
    BY DEF Aged
  <2>6. call[s].answer = "expired" => call[s].pc \in {"response", "second"}
                                     /\ (call[s].pc = "second" => call[s].pair.life - 1 <= Spare)
    BY <1>4, <2>3, <2>5 DEF AgedAt
  <2> QED
    BY <1>2, <2>4, <2>6 DEF AgedAt
<1> QED
  BY <1>3, <1>4

LEMMA NextAged == TypeOK /\ Aged /\ [Next]_vars => Aged'
<1> SUFFICES ASSUME TypeOK, Aged, [Next]_vars PROVE Aged'
  OBVIOUS
<1>1. \A s \in Slots : call[s] \in CallRecord /\ (call[s].pc = "idle" => call[s].answer # "expired")
  BY DEF TypeOK, Aged, AgedAt
<1>2. CASE \E s \in Slots : Serve(s) \/ ServeRefresh(s)
  BY <1>2, ServeAged, ServeRefreshAged
<1>3. CASE \E s \in Slots : ServeLogin(s)
  <2>1. PICK s \in Slots, a \in {"admin", "other", "error"} :
          call' = [call EXCEPT ![s] = [pc |-> "welcome", answer |-> a,
                                       pair |-> NewPair(@.pair.user)]]
    BY <1>3 DEF ServeLogin
  <2>2. call'[s].answer # "expired" /\ \A q \in Slots \ {s} : call'[q] = call[q]
    BY <2>1 DEF TypeOK
  <2> QED
    BY <2>2, StillAged
<1>4. CASE \E s \in Slots : Refresh(s) \/ Renew(s)
  <2>1. PICK s \in Slots : Refresh(s) \/ Renew(s)
    BY <1>4
  <2>2. call'[s].answer # "expired" /\ \A q \in Slots \ {s} : call'[q] = call[q]
    BY <2>1, <1>1 DEF TypeOK, Refresh, Renew, CallRecord
  <2> QED
    BY <2>2, StillAged
<1>5. CASE \E t \in Tabs : Reload(t)
  BY <1>5, StillAged DEF Reload, Quiet
<1>6. CASE \E s \in Slots : Ended(s)
  BY <1>6, StillAged DEF Ended, Quiet, TypeOK
<1>7. CASE \E t \in Tabs : LoadUser(t)
  <2>1. PICK t \in Tabs : LoadUser(t)
    BY <1>7
  <2>2. <<t, "load">> \in Slots
    BY SlotFacts
  <2>3. CASE call' = call
    BY <2>3, StillAged
  <2>4. CASE call' = [call EXCEPT ![<<t, "load">>].pc = "request", ![<<t, "load">>].pair = storage]
    <3>1. /\ call'[<<t, "load">>].answer # "expired"
          /\ \A q \in Slots \ {<<t, "load">>} : call'[q] = call[q]
      BY <2>1, <2>2, <2>4, <1>1 DEF TypeOK, CallRecord, LoadUser
    <3> QED
      BY <2>2, <3>1, StillAged
  <2> QED
    BY <2>1, <2>3, <2>4 DEF LoadUser
<1>8. CASE \E t \in Tabs, p \in Pages : CallApi(t, p)
  <2>1. PICK t \in Tabs, p \in Pages : CallApi(t, p)
    BY <1>8
  <2>2. <<t, p>> \in Slots
    BY SlotFacts
  <2>3. /\ call'[<<t, p>>].answer # "expired"
        /\ \A q \in Slots \ {<<t, p>>} : call'[q] = call[q]
    BY <2>1, <2>2, <1>1 DEF TypeOK, CallRecord, CallApi
  <2> QED
    BY <2>2, <2>3, StillAged
<1>9. CASE \E t \in Tabs, u \in Users : Login(t, u)
  <2>1. PICK t \in Tabs, u \in Users : Login(t, u)
    BY <1>9
  <2>2. <<t, "login">> \in Slots
    BY SlotFacts
  <2>3. /\ call'[<<t, "login">>].answer # "expired"
        /\ \A q \in Slots \ {<<t, "login">>} : call'[q] = call[q]
    BY <2>1, <2>2, <1>1 DEF TypeOK, CallRecord, Login
  <2> QED
    BY <2>2, <2>3, StillAged
<1>10. CASE \E t \in Tabs : Logout(t)
  BY <1>10, StillAged DEF Logout
<1>11. CASE Tick
  BY <1>11, TickAged
<1>12. CASE UNCHANGED vars
  BY <1>12, StillAged DEF vars
<1>13. CASE \E t \in Tabs : Loaded(t) \/ LoggedIn(t) \/ \E p \in Pages : Called(t, p)
  <2>1. \E s \in Slots : Ended(s)
    BY <1>13, SlotFacts DEF Loaded, LoggedIn, Called
  <2> QED
    BY <2>1, <1>6
<1> QED
  BY <1>2, <1>3, <1>4, <1>5, <1>7, <1>8, <1>9, <1>10, <1>11, <1>12, <1>13 DEF Next, Step

\* A call fails for the age of its tokens only if the refresh token was too old
\* or the new access token has aged on the way, for any lifetimes.
THEOREM OnlyExpired == Spec => ExpiredOnly
<1>1. Init => Aged
  BY DEF Init, Aged, AgedAt, Quiet
<1>2. Aged =>
        \A s \in Slots :
          /\ Over(s) /\ call'[s].pc = "idle"
          /\ call[s].answer = "expired" /\ call[s].pair # None
          => \/ call[s].pc = "renewed" /\ call[s].pair.life = 0
             \/ call[s].pc = "second" /\ call[s].pair.life <= Spare
  BY DEF Aged, AgedAt, Over
<1>3. Spec => []Aged
  BY <1>1, NextAged, AdminSessionType, PTL DEF Spec
<1> QED
  BY <1>2, <1>3, PTL DEF Spec, ExpiredOnly
---------------------------------------------------------------------------
(* A call ends: no point of it comes twice *)

LEMMA AheadFacts ==
  /\ Ahead["idle"] = 0 /\ Ahead["second"] = 1 /\ Ahead["retry"] = 2
  /\ Ahead["renewed"] = 3 /\ Ahead["refresh"] = 4 /\ Ahead["response"] = 5
  /\ Ahead["request"] = 6 /\ Ahead["welcome"] = 1 /\ Ahead["login"] = 2
BY DEF Ahead

LEMMA StepAdvances ==
  ASSUME call \in [Slots -> CallRecord], NEW s \in Slots, Step(s)
  PROVE  /\ \A q \in Slots \ {s} : call'[q].pc = call[q].pc
         /\ Ahead[call'[s].pc] < Ahead[call[s].pc]
<1>1. CASE Serve(s)
  <2>1. /\ \A q \in Slots \ {s} : call'[q].pc = call[q].pc
        /\ \/ call[s].pc = "request" /\ call'[s].pc = "response"
           \/ call[s].pc = "retry" /\ call'[s].pc = "second"
    BY <1>1 DEF Serve, CallRecord
  <2> QED
    BY <2>1, AheadFacts
<1>2. CASE ServeRefresh(s)
  <2>1. /\ \A q \in Slots \ {s} : call'[q].pc = call[q].pc
        /\ call[s].pc = "refresh" /\ call'[s].pc = "renewed"
    BY <1>2 DEF ServeRefresh, CallRecord
  <2> QED
    BY <2>1, AheadFacts
<1>3. CASE ServeLogin(s)
  <2>1. /\ \A q \in Slots \ {s} : call'[q].pc = call[q].pc
        /\ call[s].pc = "login" /\ call'[s].pc = "welcome"
    BY <1>3 DEF ServeLogin, CallRecord
  <2> QED
    BY <2>1, AheadFacts
<1>4. CASE Refresh(s)
  <2>1. /\ \A q \in Slots \ {s} : call'[q].pc = call[q].pc
        /\ call[s].pc = "response" /\ call'[s].pc = "refresh"
    BY <1>4 DEF Refresh, CallRecord
  <2> QED
    BY <2>1, AheadFacts
<1>5. CASE Renew(s)
  <2>1. /\ \A q \in Slots \ {s} : call'[q].pc = call[q].pc
        /\ call[s].pc = "renewed" /\ call'[s].pc = "retry"
    BY <1>5 DEF Renew, CallRecord
  <2> QED
    BY <2>1, AheadFacts
<1> QED
  BY <1>1, <1>2, <1>3, <1>4, <1>5 DEF Step

\* Every call, of every tab, is refreshed and sent again at most once.
THEOREM CallsOnlyAdvance == Spec => CallsAdvance
<1> DEFINE A == \A s \in Slots :
                  \/ call[s].pc \in {"idle", call'[s].pc}
                  \/ Ahead[call'[s].pc] < Ahead[call[s].pc]
<1>1. TypeOK /\ [Next]_vars => [A]_vars
  <2> SUFFICES ASSUME TypeOK, Next PROVE A
    OBVIOUS
  <2>t. call \in [Slots -> CallRecord] /\ Quiet.pc = "idle"
    BY DEF TypeOK, Quiet
  <2>p. \A s \in Slots : call[s].pc \in Points
    BY <2>t DEF CallRecord
  <2>a. \A p \in Points \ {"idle"} : Ahead["idle"] < Ahead[p]
    BY AheadFacts DEF Points
  <2>e. ASSUME \A s \in Slots : \/ call[s].pc \in {"idle", call'[s].pc}
                                \/ call'[s].pc = "idle"
        PROVE  A
    BY <2>e, <2>p, <2>a
  <2>1. ASSUME NEW s \in Slots, Step(s) PROVE A
    BY <2>1, <2>t, StepAdvances
  <2>2. ASSUME NEW t \in Tabs, Reload(t) PROVE A
    BY <2>2, <2>t, <2>e DEF Reload
  <2>3. ASSUME NEW t \in Tabs, LoadUser(t) PROVE A
    <3>1. \A s \in Slots : call[s].pc \in {"idle", call'[s].pc}
      BY <2>3, <2>t DEF LoadUser
    <3> QED
      BY <3>1
  <2>4. ASSUME NEW s \in Slots, Ended(s) PROVE A
    BY <2>4, <2>t, <2>e DEF Ended
  <2>5. ASSUME NEW t \in Tabs, Loaded(t) \/ LoggedIn(t) PROVE A
    BY <2>4, <2>5, SlotFacts DEF Loaded, LoggedIn
  <2>6. ASSUME NEW t \in Tabs, NEW p \in Pages, CallApi(t, p) PROVE A
    <3>1. \A s \in Slots : call[s].pc \in {"idle", call'[s].pc}
      BY <2>6, <2>t DEF CallApi
    <3> QED
      BY <3>1
  <2>7. ASSUME NEW t \in Tabs, NEW p \in Pages, Called(t, p) PROVE A
    BY <2>4, <2>7, SlotFacts DEF Called
  <2>8. ASSUME NEW t \in Tabs, NEW u \in Users, Login(t, u) PROVE A
    <3>1. \A s \in Slots : call[s].pc \in {"idle", call'[s].pc}
      BY <2>8, <2>t DEF Login
    <3> QED
      BY <3>1
  <2>9. ASSUME NEW t \in Tabs, Logout(t) PROVE A
    BY <2>9 DEF Logout
  <2>10. CASE Tick
    <3>1. \A s \in Slots : call'[s].pc = call[s].pc
      BY <2>10, <2>t DEF Tick, CallRecord
    <3> QED
      BY <3>1
  <2> QED
    BY <2>1, <2>2, <2>3, <2>5, <2>6, <2>7, <2>8, <2>9, <2>10 DEF Next
<1> QED
  BY <1>1, AdminSessionType, PTL DEF Spec, CallsAdvance
=============================================================================
