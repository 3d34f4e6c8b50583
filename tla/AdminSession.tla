---------------------------- MODULE AdminSession ----------------------------
(***************************************************************************)
(* The session of the admin console: a pair of tokens in localStorage,     *)
(* which all tabs of the browser share, and per tab the user it shows.     *)
(* Loading a page, logging in and the pages' calls are fetches whose       *)
(* answers arrive later, in any order; between two awaits a tab's code     *)
(* runs without interruption.  The API keeps no sessions: a token is good  *)
(* until it expires, and the user's row is looked up for every request.    *)
(*                                                                         *)
(* A pair is its user and the ticks its refresh token has left; the access *)
(* token expires earlier, when Spare ticks are left.                       *)
(***************************************************************************)
EXTENDS FiniteSets, Integers

CONSTANTS Tabs,      \* the tabs of the browser
          Users,     \* the accounts
          Pages,     \* the calls that the pages of a tab can have under way
          Life,      \* the ticks a refresh token is good for
          Spare,     \* the ticks it outlives its access token by
          InFlight,  \* bound on the calls under way at a time
          None       \* no tokens, no user

Slots == Tabs \X ({"load", "login"} \cup Pages)

Pair == [user : Users, life : 0..Life]
Maybe(S) == S \cup {None}

ASSUME SessionAssumption == /\ Life \in Nat \ {0}
                            /\ Spare \in 1..(Life - 1)
                            /\ InFlight \in Nat
                            /\ None \notin Users \cup Pair
                            /\ {"load", "login"} \cap Pages = {}

VARIABLES
  storage,   \* the tokens in localStorage
  user,      \* per tab, the user in the AuthContext
  loading,   \* per tab, whether loadUser has not finished
  call,      \* per tab and purpose, the call under way
  \* history
  crossed,   \* calls under way when the stored session became another
  apart      \* tabs that show what they had before it did

vars == <<storage, user, loading, call, crossed, apart>>

---------------------------------------------------------------------------
(* Helpers *)

\* Where the awaits are: a request or its retry, and the refresh between.
Points == {"idle", "request", "response", "refresh", "renewed",
           "retry", "second", "login", "welcome"}

\* Success, with an administrator's or another role; a 401 for the token; any
\* other failure: 403, 404, 429, 5xx, an answer that is not JSON, or none.
Answers == {"none", "admin", "other", "expired", "error"}

CallRecord == [pc : Points, pair : Maybe(Pair), answer : Answers]

Quiet == [pc |-> "idle", pair |-> None, answer |-> "none"]

Busy == {s \in Slots : call[s].pc # "idle"}

\* The bound: a tab that is loading has, or will have, a call under way.
Taken == Busy \cup {<<t, "load">> : t \in {t \in Tabs : loading[t]}}
Room == Cardinality(Taken) < InFlight

\* The calls that carry the stored session.
Carriers == {s \in Busy : s[2] # "login"}

AccessGood(p) == p.life > Spare

\* Mutant: the refresh token is held to the access token's life.
RefreshGoodAsAccess(p) == p.life > Spare
RefreshGood(p) == p.life > 0

\* A pair the API makes now.
NewPair(u) == [user |-> u, life |-> Life]

\* One tick later.
Later(p) == IF p = None \/ p.life = 0 THEN p
            ELSE [p EXCEPT !.life = @ - 1]

Ended(s) == call' = [call EXCEPT ![s] = Quiet]

---------------------------------------------------------------------------
(* The API.  It looks the user's row up for every request, and the row may *)
(* have changed since the last one: the user may be active or not, an      *)
(* administrator or not, and any request may fail otherwise.               *)

\* get_current_user; a page's call is for administrators only.
Serve(s) ==
  LET p == call[s].pair
      good == p # None /\ AccessGood(p)
  IN /\ call[s].pc \in {"request", "retry"}
     /\ \E a \in {"admin", "other", "expired", "error"} :
          /\ a = "expired" => ~good
          /\ a \in {"admin", "other"} => good
          /\ a = "other" => s[2] = "load"
          /\ call' = [call EXCEPT
               ![s].pc = IF @ = "request" THEN "response" ELSE "second",
               ![s].answer = a]
     /\ UNCHANGED <<storage, user, loading, crossed, apart>>

\* AuthService.refresh: a new pair; the old one stays good.
ServeRefresh(s) ==
  LET p == call[s].pair
  IN /\ call[s].pc = "refresh"
     /\ \/ /\ RefreshGood(p)
           /\ call' = [call EXCEPT ![s] = [pc |-> "renewed", answer |-> "admin",
                                           pair |-> NewPair(p.user)]]
        \/ \E a \in {"expired", "error"} :
             /\ a = "expired" => ~RefreshGood(p)
             /\ call' = [call EXCEPT ![s].pc = "renewed", ![s].answer = a]
     /\ UNCHANGED <<storage, user, loading, crossed, apart>>

\* AuthService.login, with the right password or not.
ServeLogin(s) ==
  /\ call[s].pc = "login"
  /\ \E a \in {"admin", "other", "error"} :
       call' = [call EXCEPT ![s] = [pc |-> "welcome", answer |-> a,
                                    pair |-> NewPair(@.pair.user)]]
  /\ UNCHANGED <<storage, user, loading, crossed, apart>>

---------------------------------------------------------------------------
(* apiFetch *)

\* Mutant: so is the 401 of the retry.
RefreshAgain(s) ==
  /\ call[s].pc \in {"response", "second"}
  /\ call[s].answer = "expired"
  /\ call[s].pair # None
  /\ call' = [call EXCEPT ![s].pc = "refresh", ![s].answer = "none"]
  /\ UNCHANGED <<storage, user, loading, crossed, apart>>

\* A 401 is answered with a refresh, if there are tokens to refresh.
Refresh(s) ==
  /\ call[s].pc = "response"
  /\ call[s].answer = "expired"
  /\ call[s].pair # None
  /\ call' = [call EXCEPT ![s].pc = "refresh", ![s].answer = "none"]
  /\ UNCHANGED <<storage, user, loading, crossed, apart>>

\* Mutant: the new tokens are stored in any case.
StoresAlways == TRUE

\* refreshAccessToken stores the new tokens unless the user has logged out.
Stores == storage # None

\* The refresh succeeded; the request is sent again with the new token.  If
\* the stored session is another by now, it is overwritten all the same.
Renew(s) ==
  /\ call[s].pc = "renewed"
  /\ call[s].answer = "admin"
  /\ storage' = IF Stores THEN call[s].pair ELSE storage
  /\ call' = [call EXCEPT ![s].pc = "retry", ![s].answer = "none"]
  /\ IF s \in crossed /\ storage # None
     THEN crossed' = Carriers /\ apart' = Tabs
     ELSE UNCHANGED <<crossed, apart>>
  /\ UNCHANGED <<user, loading>>

\* The call of s is over: with an answer, or with an ApiError.
Over(s) ==
  \/ call[s].pc = "response" /\ ~(call[s].answer = "expired"
                                  /\ call[s].pair # None)
  \/ call[s].pc = "renewed" /\ call[s].answer # "admin"
  \/ call[s].pc = "second"

---------------------------------------------------------------------------
(* A tab *)

\* The page is loaded: the tab forgets its user and its calls.
Reload(t) ==
  /\ Cardinality({s \in Taken : s[1] # t}) < InFlight
  /\ call' = [s \in Slots |-> IF s[1] = t THEN Quiet ELSE call[s]]
  /\ user' = [user EXCEPT ![t] = None]
  /\ loading' = [loading EXCEPT ![t] = TRUE]
  /\ crossed' = {s \in crossed : s[1] # t}
  /\ apart' = apart \ {t}
  /\ UNCHANGED storage

\* loadUser asks who the stored tokens belong to, if there are any.
LoadUser(t) ==
  LET s == <<t, "load">>
  IN /\ loading[t]
     /\ call[s].pc = "idle"
     /\ IF storage = None
        THEN /\ user' = [user EXCEPT ![t] = None]
             /\ loading' = [loading EXCEPT ![t] = FALSE]
             /\ call' = call
        ELSE /\ call' = [call EXCEPT ![s].pc = "request", ![s].pair = storage]
             /\ UNCHANGED <<user, loading>>
     /\ UNCHANGED <<storage, crossed, apart>>

\* An administrator is shown the pages; anything else removes the tokens,
\* whichever are stored by now.
Loaded(t) ==
  LET s == <<t, "load">>
  IN /\ Over(s)
     /\ loading' = [loading EXCEPT ![t] = FALSE]
     /\ IF call[s].answer = "admin"
        THEN /\ user' = [user EXCEPT ![t] = call[s].pair.user]
             /\ storage' = storage
             /\ apart' = IF s \in crossed THEN apart \cup {t} ELSE apart
        ELSE /\ user' = [user EXCEPT ![t] = None]
             /\ storage' = None
             /\ apart' = apart
     /\ Ended(s)
     /\ crossed' = crossed \ {s}

\* The pages of a signed-in tab call the API with the stored tokens.
CallApi(t, p) ==
  LET s == <<t, p>>
  IN /\ ~loading[t]
     /\ user[t] # None
     /\ Room
     /\ call[s].pc = "idle"
     /\ call' = [call EXCEPT ![s].pc = "request", ![s].pair = storage]
     /\ UNCHANGED <<storage, user, loading, crossed, apart>>

\* Its data or its error is displayed.
Called(t, p) ==
  LET s == <<t, p>>
  IN /\ Over(s)
     /\ Ended(s)
     /\ crossed' = crossed \ {s}
     /\ UNCHANGED <<storage, user, loading, apart>>

\* The form is there while the tab is loading, too; one submission at a time.
Login(t, u) ==
  LET s == <<t, "login">>
  IN /\ loading[t] \/ user[t] = None
     /\ Room
     /\ call[s].pc = "idle"
     /\ call' = [call EXCEPT ![s].pc = "login",
                          ![s].pair = [user |-> u, life |-> 0]]
     /\ UNCHANGED <<storage, user, loading, crossed, apart>>

\* Mutants: the tokens of another role stay; a stored session is kept.
LoggedInAnyRole(t) ==
  LET s == <<t, "login">>
      p == call[s].pair
  IN /\ call[s].pc = "welcome"
     /\ CASE call[s].answer = "admin" ->
               /\ storage' = p
               /\ user' = [user EXCEPT ![t] = p.user]
               /\ crossed' = Carriers
               /\ apart' = Tabs \ {t}
          [] call[s].answer = "other" ->
               /\ storage' = p
               /\ UNCHANGED <<user, crossed, apart>>
          [] OTHER -> UNCHANGED <<storage, user, crossed, apart>>
     /\ Ended(s)
     /\ UNCHANGED loading

LoggedInKeeping(t) ==
  LET s == <<t, "login">>
      p == call[s].pair
  IN /\ call[s].pc = "welcome"
     /\ CASE call[s].answer = "admin" ->
               /\ storage' = IF storage = None THEN p ELSE storage
               /\ user' = [user EXCEPT ![t] = p.user]
               /\ crossed' = Carriers
               /\ apart' = Tabs \ {t}
          [] call[s].answer = "other" ->
               /\ storage' = None
               /\ UNCHANGED <<user, crossed, apart>>
          [] OTHER -> UNCHANGED <<storage, user, crossed, apart>>
     /\ Ended(s)
     /\ UNCHANGED loading

\* The tokens are stored, and removed again if the role is not admin.
LoggedIn(t) ==
  LET s == <<t, "login">>
      p == call[s].pair
  IN /\ call[s].pc = "welcome"
     /\ CASE call[s].answer = "admin" ->
               /\ storage' = p
               /\ user' = [user EXCEPT ![t] = p.user]
               /\ crossed' = Carriers
               /\ apart' = Tabs \ {t}
          [] call[s].answer = "other" ->
               /\ storage' = None
               /\ UNCHANGED <<user, crossed, apart>>
          [] OTHER -> UNCHANGED <<storage, user, crossed, apart>>
     /\ Ended(s)
     /\ UNCHANGED loading

Logout(t) ==
  /\ ~loading[t]
  /\ user[t] # None
  /\ storage' = None
  /\ user' = [user EXCEPT ![t] = None]
  /\ UNCHANGED <<loading, call, crossed, apart>>

---------------------------------------------------------------------------
(* Around it *)

\* Tokens age, wherever they are.
Tick ==
  /\ storage' = Later(storage)
  /\ call' = [s \in Slots |-> [call[s] EXCEPT !.pair = Later(@)]]
  /\ UNCHANGED <<user, loading, crossed, apart>>

\* A browser with or without tokens from before; its tabs are loading.
Init ==
  /\ storage \in Maybe(Pair)
  /\ user = [t \in Tabs |-> None]
  /\ loading = [t \in Tabs |-> TRUE]
  /\ call = [s \in Slots |-> Quiet]
  /\ crossed = {}
  /\ apart = {}

Step(s) == Serve(s) \/ ServeRefresh(s) \/ ServeLogin(s) \/ Refresh(s) \/ Renew(s)

Next ==
  \/ \E s \in Slots : Step(s)
  \/ \E t \in Tabs :
       \/ Reload(t) \/ LoadUser(t) \/ Loaded(t) \/ LoggedIn(t) \/ Logout(t)
       \/ \E p \in Pages : CallApi(t, p) \/ Called(t, p)
       \/ \E u \in Users : Login(t, u)
  \/ Tick

Spec == Init /\ [][Next]_vars

\* A fetch ends, if need be with an error, and the tab takes its answer.
FairSpec == Spec /\ \A t \in Tabs : WF_vars(LoadUser(t) \/ Loaded(t)
                                            \/ Step(<<t, "load">>))
---------------------------------------------------------------------------
(* Properties *)

\* Every variable keeps its type.
TypeOK ==
  /\ storage \in Maybe(Pair)
  /\ user \in [Tabs -> Maybe(Users)]
  /\ loading \in [Tabs -> BOOLEAN]
  /\ call \in [Slots -> CallRecord]
  /\ crossed \in SUBSET Carriers
  /\ apart \in SUBSET Tabs

\* A tab acts as the user it shows: while it is signed in, the stored tokens
\* are that user's or gone, unless another tab has logged in since, or a login
\* was overtaken by the answer to a call that was under way.
ActsAsShown ==
  \A t \in Tabs :
    user[t] # None /\ storage # None /\ t \notin apart
      => storage.user = user[t]

\* A page load that fails signs out the user whose tokens it had sent and no
\* other, unless a login overtook it.
SignOutIsOwn ==
  [][\A t \in Tabs : LET s == <<t, "load">> IN
       /\ Over(s) /\ call'[s].pc = "idle" /\ ~loading'[t]
       /\ storage # None /\ storage' = None
       /\ s \notin crossed
       => storage.user = call[s].pair.user]_vars

\* Once the tokens are gone only a login brings tokens back: no refresh that
\* was under way, in whatever tab, undoes a logout.
LogoutHolds ==
  [][storage = None /\ storage' # None
       => \E t \in Tabs : /\ call[<<t, "login">>].pc = "welcome"
                          /\ call'[<<t, "login">>].pc = "idle"
                          /\ user'[t] = storage'.user]_vars

\* A call that had tokens fails for their age only if the refresh token was
\* too old, or the time between refresh and retry took an access token's life.
ExpiredOnly ==
  [][\A s \in Slots :
       /\ Over(s) /\ call'[s].pc = "idle"
       /\ call[s].answer = "expired" /\ call[s].pair # None
       => \/ call[s].pc = "renewed" /\ call[s].pair.life = 0
          \/ call[s].pc = "second" /\ call[s].pair.life <= Spare]_vars

---------------------------------------------------------------------------
(* Why they hold: the inductive strengthening *)

\* A load has tokens, and a login tokens to come.
CallsShaped ==
  \A s \in Busy :
    /\ s[2] \in {"load", "login"} => call[s].pair # None
    /\ call[s].pc \in {"refresh", "renewed", "retry", "second"}
         => call[s].pair # None
    /\ call[s].pc \in {"login", "welcome"} <=> s[2] = "login"

\* A call that no login has overtaken carries tokens of the stored user.
CarriesStored ==
  \A s \in Carriers \ crossed :
    call[s].pair # None /\ storage # None => call[s].pair.user = storage.user

\* The inductive invariant that the theorems of AdminSessionProofs rest on.
IInv == TypeOK /\ CallsShaped /\ CarriesStored /\ ActsAsShown

---------------------------------------------------------------------------

\* Why a call ends: the points that can still follow the one where it is.
Ahead == [idle |-> 0, second |-> 1, retry |-> 2, renewed |-> 3, refresh |-> 4,
          response |-> 5, request |-> 6, welcome |-> 1, login |-> 2]

\* A call never returns to a point: it is refreshed and sent again once, and
\* nothing another tab does to the tokens repeats that (api/client.ts:76).
CallsAdvance ==
  [][\A s \in Slots :
       \/ call[s].pc \in {"idle", call'[s].pc}
       \/ Ahead[call'[s].pc] < Ahead[call[s].pc]]_vars

\* A page load ends, with the pages or the form, unless it is begun anew: a
\* refresh is tried once, however fast the tokens age.
LoadsEnd ==
  \A t \in Tabs : LET s == <<t, "load">> IN
    call[s].pc # "idle" ~> call[s].pc = "idle"
=============================================================================
