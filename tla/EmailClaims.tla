---------------------------- MODULE EmailClaims ----------------------------
(***************************************************************************)
(* What registration promises, without its statements and transactions: an *)
(* address gets one account and keeps it, and a registration is refused    *)
(* only when its address has an account.                                   *)
(***************************************************************************)

CONSTANTS Registrations,  \* the calls of POST /auth/register
          Emails,         \* the lower-cased addresses they name
          Nobody          \* stands for the account of a free address

VARIABLES address,        \* the address each registration names
          owner,          \* the registration that made an address's account
          outcome         \* what became of each registration

vars == <<address, owner, outcome>>

TypeOK ==
  /\ address \in [Registrations -> Emails]
  /\ owner \in [Emails -> Registrations \cup {Nobody}]
  /\ outcome \in [Registrations -> {"pending", "created", "refused", "failed"}]

Init ==
  /\ address \in [Registrations -> Emails]
  /\ owner = [e \in Emails |-> Nobody]
  /\ outcome = [r \in Registrations |-> "pending"]

End(r, o) ==
  /\ outcome[r] = "pending"
  /\ outcome' = [outcome EXCEPT ![r] = o]
  /\ UNCHANGED address

\* The account of r's address is made, and it is r's.
Create(r) ==
  /\ owner[address[r]] = Nobody
  /\ owner' = [owner EXCEPT ![address[r]] = r]
  /\ End(r, "created")

\* The address of r has an account.
Refuse(r) ==
  /\ owner[address[r]] # Nobody
  /\ End(r, "refused")
  /\ UNCHANGED owner

Fail(r) ==
  /\ End(r, "failed")
  /\ UNCHANGED owner

Next == \E r \in Registrations : Create(r) \/ Refuse(r) \/ Fail(r)

Spec == Init /\ [][Next]_vars
=============================================================================
