---------------------------- MODULE JobTerminal ----------------------------
(***************************************************************************)
(* What running a foreground job promises, with no signal, mask, process   *)
(* group or fork in sight: one job at a time, lent the terminal only while *)
(* it exists, gone and without the terminal before the next command is     *)
(* read.  ForegroundJob is shown to implement it.                          *)
(***************************************************************************)

VARIABLES mode,    \* "ready" for a command, in a "job", or "over"
          live,    \* whether the job's process exists
          owner    \* who owns the terminal: "shell" or "job"

vars == <<mode, live, owner>>

Init == mode = "ready" /\ live = FALSE /\ owner = "shell"

Accept == /\ mode = "ready"
          /\ mode' = "job"
          /\ UNCHANGED <<live, owner>>

Spawn == /\ mode = "job" /\ ~live /\ owner = "shell"
         /\ live' = TRUE
         /\ UNCHANGED <<mode, owner>>

\* Only a job that exists is lent the terminal.
Lend == /\ mode = "job" /\ live /\ owner = "shell"
        /\ owner' = "job"
        /\ UNCHANGED <<mode, live>>

Bury == /\ mode = "job" /\ live
        /\ live' = FALSE
        /\ UNCHANGED <<mode, owner>>

Reclaim == /\ mode = "job" /\ ~live /\ owner = "job"
           /\ owner' = "shell"
           /\ UNCHANGED <<mode, live>>

Finish == /\ mode = "job" /\ ~live /\ owner = "shell"
          /\ mode' = "ready"
          /\ UNCHANGED <<live, owner>>

\* The shell leaves or is killed.
Leave == /\ mode # "over"
         /\ mode' = "over"
         /\ UNCHANGED <<live, owner>>

Next == Accept \/ Spawn \/ Lend \/ Bury \/ Reclaim \/ Finish \/ Leave

Spec == Init /\ [][Next]_vars
=============================================================================
