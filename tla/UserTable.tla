----------------------------- MODULE UserTable -----------------------------
(***************************************************************************)
(* What the administration of users promises, without its interleavings:   *)
(* the committed `users' table and its audit log change together, in one   *)
(* atomic step per accepted request, and only in the columns of the one    *)
(* row that the request's audit entry names.                               *)
(*                                                                         *)
(* A row is the set of its flags: "active" stands for is_active = true and *)
(* "admin" for role = "admin" (roles.py knows only admin and user).        *)
(***************************************************************************)

CONSTANTS Users,     \* the e-mail addresses that have, or may get, a row
          Requests,  \* the identities of admin requests
          Inputs     \* the admin requests that clients may send

VARIABLES accounts,  \* the users that have a row
          flags,     \* the is_active and role columns of each row
          password,  \* the reset that set hashed_password, or "initial"
          audit      \* the rows of audit_logs written by admin requests

vars == <<accounts, flags, password, audit>>

Flags == {"active", "admin"}

\* One accepted admin request: a PATCH that turns some of the flags it sets on
\* and some of the flags it clears off, or a password reset; the audit row
\* commits with the change.
Apply(r, q) ==
  /\ <<r, q>> \notin audit
  /\ audit' = audit \cup {<<r, q>>}
  /\ q.target \in accounts
  /\ \E S \in SUBSET q.set, C \in SUBSET q.clear :
       flags' = [flags EXCEPT ![q.target] = (@ \cup S) \ C]
  /\ password' = IF q.kind = "reset" THEN [password EXCEPT ![q.target] = r]
                                     ELSE password
  /\ UNCHANGED accounts

\* A row inserted by registration, or inserted or promoted by the
\* create_admin script: flags are only gained.
Provision(u, S) ==
  /\ UNCHANGED <<password, audit>>
  /\ accounts' = accounts \cup {u}
  /\ flags' = [flags EXCEPT ![u] = @ \cup S]

Next ==
  \/ \E r \in Requests, q \in Inputs : Apply(r, q)
  \/ \E u \in Users, S \in SUBSET Flags : Provision(u, S)

Init ==
  /\ accounts \in SUBSET Users
  /\ flags \in [Users -> SUBSET Flags]
  /\ password = [u \in Users |-> "initial"]
  /\ audit = {}

Spec == Init /\ [][Next]_vars
============================================================================
