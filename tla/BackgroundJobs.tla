--------------------------- MODULE BackgroundJobs ---------------------------
(***************************************************************************)
(* Background jobs: vm_run_background, vm_check_background and the guard   *)
(* in vm_execute (interpreter/vm.c), over the table of types.h.  A job's   *)
(* process may end between any two steps of the shell.                     *)
(***************************************************************************)
EXTENDS Naturals, FiniteSets

CONSTANTS Pid, None,
          MaxProcesses     \* NCSH_MAX_PROCESSES

ASSUME PidAssumption == IsFiniteSet(Pid) /\ None \notin Pid
ASSUME MaxProcessesAssumption == MaxProcesses \in Nat

VARIABLES
    pc,           \* "prompt", "checking", "running", "forked" or "over"
    child,        \* vm_run_background's pid, from fork to the table
    job_number,   \* the members of Processes
    pids,
    pastEnd,      \* has pids[] been written past its end?
    proc          \* of each pid: "none", "running" or "zombie"

shell == <<pc, child>>
processes == <<job_number, pids, pastEnd>>
vars == <<shell, processes, proc>>

Jobs == {p \in Pid : proc[p] # "none"}

Init ==
    /\ pc = "prompt" /\ child = None
    /\ job_number = 0
    /\ pids = [j \in 1..MaxProcesses |-> None]
    /\ pastEnd = FALSE
    /\ proc = [p \in Pid |-> "none"]

\* Mutant of Execute: the guard is off by one.
ExecuteSkipsOne ==
    /\ pc = "prompt"
    /\ pc' = IF job_number > 1 THEN "checking" ELSE "running"
    /\ UNCHANGED <<child, processes, proc>>

\* vm_execute looks for ended jobs only if it believes there are any.
Execute ==
    /\ pc = "prompt"
    /\ pc' = IF job_number > 0 THEN "checking" ELSE "running"
    /\ UNCHANGED <<child, processes, proc>>

\* Mutant of Report: a job killed by a signal is counted by both branches.
ReportTwice(p) ==
    /\ pc = "checking" /\ proc[p] = "zombie"
    /\ proc' = [proc EXCEPT ![p] = "none"]
    /\ job_number' \in {job_number - 1, job_number - 2}
    /\ UNCHANGED <<shell, pids, pastEnd>>

\* Mutant of Report: a job killed by a signal is not counted at all.
ReportUncounted(p) ==
    /\ pc = "checking" /\ proc[p] = "zombie"
    /\ proc' = [proc EXCEPT ![p] = "none"]
    /\ job_number' \in {job_number - 1, job_number}
    /\ UNCHANGED <<shell, pids, pastEnd>>

\* waitpid(-1, &s, WNOHANG) returns an ended job.  Its line is printed with the
\* number found in pids; the entry stays.
Report(p) ==
    /\ pc = "checking" /\ proc[p] = "zombie"
    /\ proc' = [proc EXCEPT ![p] = "none"]
    /\ job_number' = job_number - 1
    /\ UNCHANGED <<shell, pids, pastEnd>>

\* No child has ended, or there is none.
CheckDone ==
    /\ pc = "checking"
    /\ \A p \in Pid : proc[p] # "zombie"
    /\ pc' = "running"
    /\ UNCHANGED <<child, processes, proc>>

\* fork, for each command of the line when it ends in "&".
Start(p) ==
    /\ pc = "running" /\ proc[p] = "none"
    /\ pc' = "forked" /\ child' = p
    /\ proc' = [proc EXCEPT ![p] = "running"]
    /\ UNCHANGED processes

ForkFails ==
    /\ pc = "running"
    /\ pc' = "over"
    /\ UNCHANGED <<child, processes, proc>>

\* The job takes the next number and its slot, without a look at the bound.
Record ==
    /\ pc = "forked"
    /\ job_number' = job_number + 1
    /\ pids' = [pids EXCEPT ![job_number + 1] = child]
    /\ pastEnd' = (pastEnd \/ job_number + 1 > MaxProcesses)
    /\ pc' = "running" /\ child' = None
    /\ UNCHANGED proc

\* The line is finished, whatever else it ran in the foreground: vm_waitpid waits
\* for its own child only.
Finish ==
    /\ pc = "running"
    /\ pc' = "prompt"
    /\ UNCHANGED <<child, processes, proc>>

JobEnds(p) ==
    /\ proc[p] = "running"
    /\ proc' = [proc EXCEPT ![p] = "zombie"]
    /\ UNCHANGED <<shell, processes>>

Over == pc = "over" /\ UNCHANGED vars

Next ==
    \/ Execute \/ CheckDone \/ ForkFails \/ Record \/ Finish \/ Over
    \/ \E p \in Pid : Report(p) \/ Start(p) \/ JobEnds(p)

Spec == Init /\ [][Next]_vars

\* The user goes on entering lines, and a line comes to its end.
Fairness ==
    /\ WF_vars(Execute) /\ WF_vars(CheckDone) /\ WF_vars(Record) /\ SF_vars(Finish)
    /\ \A p \in Pid : WF_vars(Report(p))

FairSpec == Spec /\ Fairness

-----------------------------------------------------------------------------
(* Properties.                                                             *)

TypeOK ==
    /\ pc \in {"prompt", "checking", "running", "forked", "over"}
    /\ child \in Pid \union {None}
    /\ job_number \in Nat
    /\ pids \in [1..MaxProcesses -> Pid \union {None}]
    /\ pastEnd \in BOOLEAN
    /\ proc \in [Pid -> {"none", "running", "zombie"}]

\* job_number counts the children not reaped yet, the one just forked excepted,
\* however starts, deaths and reports interleave.  So it cannot go below zero
\* (a size_t would wrap), and vm_execute looks for ended jobs exactly when there
\* may be some.
CountsJobs == job_number = Cardinality(Jobs \ {child})

\* A job that ended is reported, and its process reaped, as long as lines are
\* entered.
EndedJobsAreReported ==
    \A p \in Pid : (proc[p] = "zombie") ~> (proc[p] = "none" \/ pc = "over")

\* Every job not reported yet has its pid in the table, under the numbers in use
\* (types.h: "Maintains details about background jobs that have been started by
\* the user").
LiveJobsAreRecorded ==
    \A p \in Jobs \ {child} :
        \E j \in 1..job_number : j <= MaxProcesses /\ pids[j] = p
=============================================================================
