------------------------ MODULE ForegroundJobProofs ------------------------
(***************************************************************************)
(* ForegroundJob keeps its invariants, and implements JobTerminal, for any *)
(* number of pids and any choice of Modes and StdinFiles.                  *)
(***************************************************************************)
EXTENDS ForegroundJob, TLAPS

ChildExists == pc \in {"forked", "published", "grouped", "waiting"}

InFront == {"ready", "blocked", "forked", "published", "grouped", "restored", "drained"}

\* The inductive invariant.  While the shell is not over: the mask follows pc,
\* the only unreaped child is the current job, the shell is in the foreground
\* outside the stretch from GiveTerminal to TakeTerminal and whenever tcsetpgrp
\* cannot work, and from GroupChild on the job leads its group.
Inv ==
    /\ TypeOK
    /\ pc # "over" =>
        /\ blocked <=> pc # "ready"
        /\ ChildExists => job \in Pid
        /\ \A p \in Pid : stage[p] # "none" <=> ChildExists /\ p = job
        /\ pc \in InFront \/ fileStdin => tty = Shell
        /\ pc = "waiting" /\ ~fileStdin => tty = job
        /\ pc \in {"grouped", "waiting"} => pgid[job] = job

-----------------------------------------------------------------------------
\* A signal never creates or reaps a process, and keeps the table well typed.
LEMMA SendToKeepsProcesses ==
    ASSUME TypeOK, NEW S, NEW sig \in KeyboardSignals \union {"TERM"}, SendTo(S, sig)
    PROVE  /\ stage' \in [Pid -> {"none", "forked", "unmasked", "grouped", "running", "zombie"}]
           /\ held' \in [Pid -> SUBSET (KeyboardSignals \union {"TERM"})]
           /\ \A p \in Pid : stage'[p] = "none" <=> stage[p] = "none"
  <1>1. \A p \in Pid : /\ StageAfter(p, sig) \in {stage[p], "zombie"}
                       /\ StageAfter(p, sig) = "none" <=> stage[p] = "none"
    BY DEF StageAfter, Alive, TypeOK
  <1>2. \A p \in Pid : HeldAfter(p, sig) \in SUBSET (KeyboardSignals \union {"TERM"})
    BY DEF HeldAfter, TypeOK
  <1> QED
    BY <1>1, <1>2 DEF SendTo, TypeOK

\* No step takes a variable out of its type.
LEMMA TypeStep ==
    ASSUME TypeOK, [Next]_vars
    PROVE  TypeOK'
  <1> USE ConstantsAssumption
  <1>0. CASE PublishPid \/ GroupChild \/ Reap \/ ClearPid
    BY <1>0 DEF PublishPid, GroupChild, Reap, ClearPid, Goto, TypeOK, childVars, commandVars
  <1>1. CASE GiveTerminal \/ TakeTerminal
    <2>1. \A g \in Pid \union {None, Shell} : TtyAfterSet(g) \in Pid \union {Shell}
      BY DEF TtyAfterSet, GroupExists, TypeOK
    <2> QED
      BY <1>1, <2>1 DEF GiveTerminal, TakeTerminal, Goto, TypeOK, childVars, commandVars
  <1>6. CASE DrainPending \/ RestoreMask
    BY <1>6 DEF DrainPending, RestoreMask, Goto, TypeOK, childVars, commandVars
  <1>7. ASSUME NEW p \in Pid, Fork(p) PROVE TypeOK'
    BY <1>7 DEF Fork, Goto, TypeOK, commandVars
  <1>2. CASE BlockSignals \/ ForkFails \/ Exit \/ Resume \/ Over \/ UNCHANGED vars
    BY <1>2, ZenonT(30) DEF BlockSignals, ForkFails, Exit, Resume, Over, Goto, TypeOK,
                vars, shellVars, childVars, commandVars
  <1>3. ASSUME NEW p \in Pid, ChildUnmask(p) \/ ChildGroup(p) \/ ChildReset(p) PROVE TypeOK'
    BY <1>3 DEF ChildUnmask, ChildGroup, ChildReset, TypeOK, shellVars, commandVars
  <1>8. ASSUME NEW p \in Pid, ChildExit(p) \/ ChildStop(p) \/ ChildContinue(p) PROVE TypeOK'
    BY <1>8, ZenonT(30) DEF ChildExit, ChildStop, ChildContinue, TypeOK, shellVars, commandVars
  <1>4. ASSUME NEW sig \in KeyboardSignals, Key(sig) PROVE TypeOK'
    <2>1. PICK S : SendTo(S, sig)
      BY <1>4 DEF Key
    <2>2. /\ stage' \in [Pid -> {"none", "forked", "unmasked", "grouped", "running", "zombie"}]
          /\ held' \in [Pid -> SUBSET (KeyboardSignals \union {"TERM"})]
      BY <2>1, SendToKeepsProcesses
    <2>3. UNCHANGED <<interactive, job, vm_child_pid, blocked, commandVars, tty, pgid, stopped>>
      BY <1>4, <2>1 DEF Key, SendTo
    <2>4. pc' \in {pc, "over"} /\ pending' \in SUBSET KeyboardSignals
      BY <1>4 DEF Key, TypeOK
    <2> QED
      BY <2>2, <2>3, <2>4 DEF TypeOK, commandVars
  <1>5. CASE TermShell
    <2>1. PICK S : SendTo(S, "TERM")
      BY <1>5 DEF TermShell
    <2>2. /\ stage' \in [Pid -> {"none", "forked", "unmasked", "grouped", "running", "zombie"}]
          /\ held' \in [Pid -> SUBSET (KeyboardSignals \union {"TERM"})]
      BY <2>1, SendToKeepsProcesses
    <2>3. UNCHANGED <<interactive, job, vm_child_pid, blocked, pending, commandVars, tty,
                      pgid, stopped>>
      BY <1>5, <2>1 DEF TermShell, SendTo
    <2> QED
      BY <1>5, <2>2, <2>3 DEF TermShell, TypeOK, commandVars
  <1> QED
    BY <1>0, <1>1, <1>2, <1>3, <1>4, <1>5, <1>6, <1>7, <1>8 DEF Next, ShellStep, ChildStep

-----------------------------------------------------------------------------
\* The shell's own steps keep the invariant.
LEMMA ShellKeepsInv ==
    ASSUME Inv, TypeOK', ShellStep
    PROVE  Inv'
  <1> USE ConstantsAssumption DEF Inv, ChildExists, InFront, Goto
  <1>1. CASE PublishPid
    BY <1>1 DEF PublishPid, childVars, commandVars
  <1>2. CASE GroupChild
    BY <1>2 DEF GroupChild, TypeOK, commandVars
  <1>3. CASE GiveTerminal
    <2>1. GroupExists(job)
      BY <1>3 DEF GiveTerminal, GroupExists
    <2>2. tty' = IF fileStdin THEN tty ELSE job
      BY <1>3, <2>1 DEF GiveTerminal, TtyAfterSet, TypeOK
    <2> QED
      BY <1>3, <2>2 DEF GiveTerminal, childVars, commandVars
  <1>4. CASE Reap
    BY <1>4 DEF Reap, TypeOK, commandVars
  <1>5. CASE ClearPid
    BY <1>5 DEF ClearPid, childVars, commandVars
  <1>6. CASE TakeTerminal
    <2>1. pc' = "restored" => tty' = Shell
      BY <1>6 DEF TakeTerminal, TtyAfterSet, GroupExists, StopsOnTtou, TypeOK
    <2>2. fileStdin => tty' = Shell
      BY <1>6 DEF TakeTerminal, TtyAfterSet, TypeOK
    <2> QED
      BY <1>6, <2>1, <2>2 DEF TakeTerminal, childVars, commandVars
  <1>7. CASE DrainPending
    BY <1>7 DEF DrainPending, childVars, commandVars
  <1>8. CASE RestoreMask
    BY <1>8 DEF RestoreMask, childVars
  <1>9. ASSUME NEW p \in Pid, Fork(p) PROVE Inv'
    BY <1>9 DEF Fork, TypeOK, commandVars
  <1> QED
    BY <1>1, <1>2, <1>3, <1>4, <1>5, <1>6, <1>7, <1>8, <1>9 DEF ShellStep

\* So do the command's start and end, the child's steps and the signals.
LEMMA OthersKeepInv ==
    ASSUME Inv, TypeOK', [Next]_vars, ~ShellStep
    PROVE  Inv'
  <1> USE ConstantsAssumption DEF Inv, ChildExists, InFront, Goto
  <1>1. CASE BlockSignals
    BY <1>1 DEF BlockSignals, childVars
  <1>2. CASE ForkFails \/ Exit
    BY <1>2 DEF ForkFails, Exit
  <1>3. CASE Resume
    BY <1>3 DEF Resume, childVars, commandVars
  <1>4. ASSUME NEW p \in Pid, ChildStep(p) \/ ChildExit(p) \/ ChildStop(p) \/ ChildContinue(p)
        PROVE  Inv'
    <2>1. \A q \in Pid : stage'[q] = "none" <=> stage[q] = "none"
      BY <1>4 DEF ChildStep, ChildUnmask, ChildGroup, ChildReset, ChildExit, ChildStop,
                  ChildContinue, TypeOK
    <2>2. pgid' = pgid \/ (stage[p] # "none" /\ pgid' = [pgid EXCEPT ![p] = p])
      BY <1>4 DEF ChildStep, ChildUnmask, ChildGroup, ChildReset, ChildExit, ChildStop,
                  ChildContinue
    <2>3. UNCHANGED <<shellVars, tty>>
      BY <1>4 DEF ChildStep, ChildUnmask, ChildGroup, ChildReset, ChildExit, ChildStop,
                  ChildContinue
    <2> QED
      BY <2>1, <2>2, <2>3 DEF TypeOK, shellVars, commandVars
  <1>5. ASSUME NEW sig \in KeyboardSignals, Key(sig) PROVE Inv'
    <2>1. PICK S : SendTo(S, sig)
      BY <1>5 DEF Key
    <2>2. \A p \in Pid : stage'[p] = "none" <=> stage[p] = "none"
      BY <2>1, SendToKeepsProcesses
    <2>3. UNCHANGED <<interactive, job, vm_child_pid, blocked, commandVars, tty, pgid>>
          /\ pc' \in {pc, "over"}
      BY <1>5, <2>1 DEF Key, SendTo
    <2> QED
      BY <2>2, <2>3 DEF commandVars
  <1>6. CASE TermShell
    <2>1. PICK S : SendTo(S, "TERM")
      BY <1>6 DEF TermShell
    <2>2. \A p \in Pid : stage'[p] = "none" <=> stage[p] = "none"
      BY <2>1, SendToKeepsProcesses
    <2>3. UNCHANGED <<interactive, job, vm_child_pid, blocked, commandVars, tty, pgid>>
          /\ pc' \in {pc, "over"}
      BY <1>6, <2>1 DEF TermShell, SendTo
    <2> QED
      BY <2>2, <2>3 DEF commandVars
  <1>7. CASE Over \/ UNCHANGED vars
    BY <1>7 DEF Over, vars, shellVars, childVars, commandVars
  <1> QED
    BY <1>1, <1>2, <1>3, <1>4, <1>5, <1>6, <1>7 DEF Next

THEOREM Invariance == Spec => []Inv
  <1>1. Init => Inv
    BY ConstantsAssumption DEF Init, Inv, TypeOK, ChildExists, InFront
  <1>2. Inv /\ [Next]_vars => Inv'
    <2> SUFFICES ASSUME Inv, [Next]_vars PROVE Inv'
      OBVIOUS
    <2>1. TypeOK'
      BY TypeStep DEF Inv
    <2> QED
      BY <2>1, ShellKeepsInv, OthersKeepInv
  <1> QED
    BY <1>1, <1>2, PTL DEF Spec

\* Every variable stays in its type.
THEOREM TypeCorrect == Spec => []TypeOK
  <1>1. Inv => TypeOK
    BY DEF Inv
  <1> QED
    BY Invariance, <1>1, PTL

\* The shell reads its next command with the terminal its own, however many
\* jobs it ran and whatever signals fell between its steps.
THEOREM PromptOwnsTerminalAlways == Spec => []PromptOwnsTerminal
  <1>1. Inv => PromptOwnsTerminal
    BY DEF Inv, PromptOwnsTerminal, InFront
  <1> QED
    BY Invariance, <1>1, PTL

\* A job waited for owns the terminal and leads its group.
THEOREM JobOwnsTerminalAlways == Spec => []JobOwnsTerminal
  <1>1. Inv => JobOwnsTerminal
    BY DEF Inv, JobOwnsTerminal
  <1> QED
    BY Invariance, <1>1, PTL

\* No child is left when the prompt comes back.
THEOREM NoJobLeftBehindAlways == Spec => []NoJobLeftBehind
  <1>1. Inv => NoJobLeftBehind
    BY DEF Inv, NoJobLeftBehind, ChildExists
  <1> QED
    BY Invariance, <1>1, PTL

\* INT and QUIT are blocked as long as there is a child.
THEOREM ShellShieldedAlways == Spec => []ShellShielded
  <1>1. Inv => ShellShielded
    BY DEF Inv, ShellShielded, ChildExists
  <1> QED
    BY Invariance, <1>1, PTL

-----------------------------------------------------------------------------
(* Implementation of JobTerminal: each action maps to one of its actions   *)
(* or to a stutter.                                                        *)

\* Every step of the code, under the invariant, is a step of JobTerminal or a
\* stutter.
LEMMA StepRefines ==
    ASSUME Inv, TypeOK', [Next]_vars
    PROVE  [Abstract!Next]_(Abstract!vars)
  <1> USE ConstantsAssumption DEF Inv, ChildExists, InFront, Goto
  <1> USE DEF Abstract!Next, Abstract!vars
  <1>0. ASSUME UNCHANGED pc, UNCHANGED tty,
               \A q \in Pid : stage'[q] = "none" <=> stage[q] = "none"
        PROVE  UNCHANGED Abstract!vars
    BY <1>0
  <1>1. CASE PublishPid \/ ClearPid \/ DrainPending
    BY <1>1 DEF PublishPid, ClearPid, DrainPending, childVars
  <1>2. CASE GroupChild
    BY <1>2 DEF GroupChild
  <1>3. CASE GiveTerminal
    BY <1>3 DEF GiveTerminal, Abstract!Lend, TtyAfterSet, childVars
  <1>4. CASE Reap
    BY <1>4 DEF Reap, Abstract!Bury, TypeOK
  <1>5. CASE TakeTerminal
    BY <1>5 DEF TakeTerminal, Abstract!Reclaim, TtyAfterSet, GroupExists, TypeOK, childVars
  <1>6. CASE RestoreMask
    BY <1>6 DEF RestoreMask, Abstract!Finish, Abstract!Leave, TypeOK, childVars
  <1>7. ASSUME NEW p \in Pid, Fork(p) PROVE Abstract!Spawn
    BY <1>7 DEF Fork, Abstract!Spawn, TypeOK
  <1>8. CASE BlockSignals
    BY <1>8 DEF BlockSignals, Abstract!Accept, childVars
  <1>9. CASE ForkFails \/ Exit
    BY <1>9 DEF ForkFails, Exit, Abstract!Leave, childVars
  <1>10. CASE Resume
    BY <1>10 DEF Resume, Abstract!Reclaim, childVars
  <1>11. ASSUME NEW p \in Pid, ChildStep(p) \/ ChildExit(p) \/ ChildStop(p) \/ ChildContinue(p)
         PROVE  UNCHANGED Abstract!vars
    <2>1. \A q \in Pid : stage'[q] = "none" <=> stage[q] = "none"
      BY <1>11 DEF ChildStep, ChildUnmask, ChildGroup, ChildReset, ChildExit, ChildStop,
                   ChildContinue, TypeOK
    <2>2. UNCHANGED <<pc, tty>>
      BY <1>11 DEF ChildStep, ChildUnmask, ChildGroup, ChildReset, ChildExit, ChildStop,
                   ChildContinue, shellVars
    <2> QED
      BY <1>0, <2>1, <2>2
  <1>12. ASSUME NEW sig \in KeyboardSignals, Key(sig) PROVE [Abstract!Leave]_(Abstract!vars)
    <2>1. PICK S : SendTo(S, sig)
      BY <1>12 DEF Key
    <2>2. \A p \in Pid : stage'[p] = "none" <=> stage[p] = "none"
      BY <2>1, SendToKeepsProcesses
    <2>3. UNCHANGED tty /\ pc # "over" /\ pc' \in {pc, "over"}
      BY <1>12 DEF Key
    <2> QED
      BY <2>2, <2>3 DEF Abstract!Leave
  <1>13. CASE TermShell
    <2>1. PICK S : SendTo(S, "TERM")
      BY <1>13 DEF TermShell
    <2>2. \A p \in Pid : stage'[p] = "none" <=> stage[p] = "none"
      BY <2>1, SendToKeepsProcesses
    <2>3. UNCHANGED tty /\ pc # "over" /\ pc' \in {pc, "over"}
      BY <1>13 DEF TermShell
    <2> QED
      BY <2>2, <2>3 DEF Abstract!Leave
  <1>14. CASE Over \/ UNCHANGED vars
    BY <1>0, <1>14 DEF Over, vars, shellVars, childVars
  <1> QED
    BY <1>1, <1>2, <1>3, <1>4, <1>5, <1>6, <1>7, <1>8, <1>9, <1>10, <1>11, <1>12, <1>13, <1>14
    DEF Next, ShellStep

\* Every behaviour of the code is a behaviour of JobTerminal.
THEOREM Implements == Spec => JobTerminalSpec
  <1>1. Init => Abstract!Init
    BY DEF Init, Abstract!Init
  <1>2. Inv /\ Inv' /\ [Next]_vars => [Abstract!Next]_(Abstract!vars)
    BY StepRefines DEF Inv
  <1> QED
    BY <1>1, <1>2, Invariance, PTL DEF Spec, JobTerminalSpec, Abstract!Spec
=============================================================================
