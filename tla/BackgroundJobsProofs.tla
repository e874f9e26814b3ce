------------------------ MODULE BackgroundJobsProofs ------------------------
(***************************************************************************)
(* BackgroundJobs counts its jobs right, for any number of processes and   *)
(* any size of the table.                                                  *)
(***************************************************************************)
EXTENDS BackgroundJobs, FiniteSetTheorems, TLAPS

\* The jobs job_number stands for.
Counted == Jobs \ {child}

\* The inductive invariant: only between fork and Record is there a child, it
\* exists, and it is not counted yet.
Inv ==
    /\ TypeOK
    /\ CountsJobs
    /\ pc = "forked" => child \in Jobs
    /\ pc # "forked" => child = None

-----------------------------------------------------------------------------
LEMMA CountedIsFinite ==
    IsFiniteSet(Counted) /\ Cardinality(Counted) \in Nat
  <1>1. Counted \in SUBSET Pid
    BY DEF Counted, Jobs
  <1>2. IsFiniteSet(Counted)
    BY <1>1, PidAssumption, FS_Subset
  <1> QED
    BY <1>2, FS_CardinalityType

\* Reaping a job takes one from the count, and there was one to take.
LEMMA OneLess ==
    ASSUME Inv, NEW p \in Counted, Counted' = Counted \ {p}, job_number' = job_number - 1
    PROVE  CountsJobs' /\ job_number' \in Nat
  <1>1. IsFiniteSet(Counted') /\ Cardinality(Counted') = Cardinality(Counted) - 1
    BY CountedIsFinite, FS_RemoveElement
  <1>2. Cardinality(Counted') \in Nat
    BY <1>1, FS_CardinalityType
  <1> QED
    BY <1>1, <1>2 DEF Inv, CountsJobs, Counted

\* Recording the child adds one.
LEMMA OneMore ==
    ASSUME Inv, NEW p, p \notin Counted, Counted' = Counted \union {p},
           job_number' = job_number + 1
    PROVE  CountsJobs' /\ job_number' \in Nat
  <1>1. Cardinality(Counted') = Cardinality(Counted) + 1
    BY CountedIsFinite, FS_AddElement
  <1> QED
    BY <1>1 DEF Inv, TypeOK, CountsJobs, Counted

\* Nothing to count changed.
LEMMA SameCount ==
    ASSUME Inv, Counted' = Counted, job_number' = job_number
    PROVE  CountsJobs' /\ job_number' \in Nat
  BY DEF Inv, TypeOK, CountsJobs, Counted

-----------------------------------------------------------------------------
LEMMA InitInv == Init => Inv
  <1> SUFFICES ASSUME Init PROVE Inv
    OBVIOUS
  <1>1. Jobs \ {child} = {}
    BY DEF Init, Jobs
  <1>2. CountsJobs
    BY <1>1, FS_EmptySet DEF Init, CountsJobs
  <1> QED
    BY <1>2 DEF Init, Inv, TypeOK

LEMMA Step == Inv /\ [Next]_vars => Inv'
  <1> SUFFICES ASSUME Inv, [Next]_vars PROVE Inv'
    OBVIOUS
  <1>0. Inv
    OBVIOUS
  <1> USE PidAssumption, MaxProcessesAssumption
  <1>1. CASE Execute \/ CheckDone \/ ForkFails \/ Finish \/ Over \/ UNCHANGED vars
    <2>1. Counted' = Counted /\ job_number' = job_number
      BY <1>1 DEF Execute, CheckDone, ForkFails, Finish, Over, vars, shell, processes,
                  Counted, Jobs
    <2>2. CountsJobs'
      BY <2>1, SameCount
    <2> QED
      BY <1>1, <2>1, <2>2 DEF Execute, CheckDone, ForkFails, Finish, Over, vars, shell, processes,
                  Inv, TypeOK, Jobs
  <1>2. CASE Record
    <2>1. child \in Jobs /\ child \in Pid /\ child' = None /\ job_number' = job_number + 1
      BY <1>2 DEF Record, Inv, Jobs
    <2>2. Counted' = Counted \union {child} /\ child \notin Counted
      BY <1>2, <2>1 DEF Record, Counted, Jobs
    <2>3. CountsJobs' /\ job_number' \in Nat
      BY <2>1, <2>2, OneMore
    <2>4. pids' \in [1..MaxProcesses -> Pid \union {None}] /\ pastEnd' \in BOOLEAN
      BY <1>2, <2>1 DEF Record, Inv, TypeOK
    <2> QED
      BY <1>2, <2>1, <2>3, <2>4 DEF Record, Inv, TypeOK
  <1>3. ASSUME NEW p \in Pid, Report(p) PROVE Inv'
    <2>1. child = None /\ child' = None /\ pc = "checking" /\ pc' = "checking"
      BY <1>3 DEF Report, Inv, shell
    <2>2. p \in Counted /\ Counted' = Counted \ {p}
      BY <1>3, <2>1 DEF Report, Inv, TypeOK, Counted, Jobs
    <2>3. CountsJobs' /\ job_number' \in Nat
      BY <1>3, <2>2, OneLess DEF Report
    <2> QED
      BY <1>3, <2>1, <2>3 DEF Report, Inv, TypeOK
  <1>4. ASSUME NEW p \in Pid, Start(p) PROVE Inv'
    <2>1. child = None /\ child' = p /\ pc' = "forked"
      BY <1>4 DEF Start, Inv
    <2>2. Counted' = Counted /\ job_number' = job_number
      BY <1>4, <2>1 DEF Start, Inv, TypeOK, Counted, Jobs, processes
    <2>3. CountsJobs'
      BY <2>2, SameCount
    <2>4. p \in Jobs'
      BY <1>4 DEF Start, Inv, TypeOK, Jobs
    <2> QED
      BY <1>4, <2>1, <2>2, <2>3, <2>4 DEF Start, Inv, TypeOK, processes
  <1>5. ASSUME NEW p \in Pid, JobEnds(p) PROVE Inv'
    <2>1. Jobs' = Jobs /\ child' = child /\ job_number' = job_number
      BY <1>5 DEF JobEnds, Inv, TypeOK, Jobs, shell, processes
    <2>2. CountsJobs'
      BY <2>1, SameCount DEF Counted
    <2> QED
      BY <1>5, <2>1, <2>2 DEF JobEnds, Inv, TypeOK, shell, processes
  <1> QED
    BY <1>1, <1>2, <1>3, <1>4, <1>5 DEF Next

-----------------------------------------------------------------------------
(* vm_run_background and vm_check_background.                              *)

\* The inductive invariant holds in every reachable state.
THEOREM Invariance == Spec => []Inv
  BY InitInv, Step, PTL DEF Spec

\* Every variable keeps its type; of job_number it says more than that: a size_t
\* that never wraps below zero.
THEOREM TypeCorrect == Spec => []TypeOK
  <1>1. Inv => TypeOK
    BY DEF Inv
  <1> QED
    BY <1>1, Invariance, PTL

\* However starts, deaths and reports interleave, job_number is the number of
\* children not reaped yet, the one just forked excepted.
THEOREM CountsJobsAlways == Spec => []CountsJobs
  <1>1. Inv => CountsJobs
    BY DEF Inv
  <1> QED
    BY <1>1, Invariance, PTL

\* The guard of vm_execute is exact: when it skips the check, no job but the one
\* just forked is left to report.
THEOREM SkipsOnlyWhenNothingRuns ==
    Spec => [](pc = "prompt" /\ job_number = 0 => Jobs = {})
  <1>1. ASSUME Inv, pc = "prompt", job_number = 0 PROVE Jobs = {}
    <2>1. child = None /\ Cardinality(Counted) = 0
      BY <1>1 DEF Inv, CountsJobs, Counted
    <2>2. Counted = {}
      BY <2>1, CountedIsFinite, FS_EmptySet
    <2> QED
      BY <2>1, <2>2, PidAssumption DEF Counted, Jobs
  <1>2. Inv => (pc = "prompt" /\ job_number = 0 => Jobs = {})
    BY <1>1
  <1> QED
    BY <1>2, Invariance, PTL
=============================================================================
