-------------------------- MODULE MCAlertSettings --------------------------
(* The constants of AlertSettings for TLC. *)
EXTENDS AlertSettings

CONSTANTS u1, e1

MCEnvs == {[url |-> None, secret |-> None], [url |-> e1, secret |-> None]}

MCBodies == {[url |-> None, secret |-> Keep, recovery |-> FALSE]}
=============================================================================
