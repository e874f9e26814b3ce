-------------------------- MODULE MCForegroundJob --------------------------
(* Two children at most, so that a pid is used again after it was reaped.  *)
EXTENDS ForegroundJob
=============================================================================
