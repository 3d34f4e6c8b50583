--------------------------- MODULE MCRegistration ---------------------------
(* Small instances of Registration.                                        *)
EXTENDS Registration
=============================================================================
