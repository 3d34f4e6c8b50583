---------------------------- MODULE MCAdminUsers ----------------------------
(* Small instances of AdminUsers.                                          *)
EXTENDS AdminUsers

CONSTANTS alice, bob

Body(a, k, t, s, c, h) == [actor |-> a, kind |-> k, target |-> t,
                           set |-> s, clear |-> c, header |-> h]

\* The bodies of PATCH: no field, one field, both fields in one direction.
Bodies == {b \in (SUBSET Flags) \X (SUBSET Flags) : {} \in {b[1], b[2]}}

\* Each body and a reset about each user; alice also sends a request id that
\* is too long for its column.
AllInputs ==
  {Body(a, "update", t, b[1], b[2], "absent") :
     a \in Users, t \in Users, b \in Bodies}
  \cup {Body(a, "reset", t, {}, {}, "short") : a \in Users, t \in Users}
  \cup {Body(alice, "update", bob, {}, {"active"}, "over64"),
        Body(alice, "reset", bob, {}, {}, "over64")}

=============================================================================
