-------------------------- MODULE MCBackgroundJobs --------------------------
(* More processes than the table has slots.                                *)
EXTENDS BackgroundJobs
=============================================================================
