-------------------------- MODULE MCAlertMonitor --------------------------
(* Small instances of AlertMonitor.                                        *)
EXTENDS AlertMonitor, TLC

CheckSymmetry == Permutations(Checks)
===========================================================================
