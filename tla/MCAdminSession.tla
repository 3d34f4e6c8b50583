--------------------------- MODULE MCAdminSession ---------------------------
(* The constants of AdminSession for TLC. *)
EXTENDS AdminSession, TLC

TabSymmetry == Permutations(Tabs)
=============================================================================
