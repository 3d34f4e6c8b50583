---------------------------- MODULE MCOverviews ----------------------------
(* Small instances of Overviews.                                           *)
EXTENDS Overviews
=============================================================================
