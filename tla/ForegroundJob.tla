--------------------------- MODULE ForegroundJob ---------------------------
(***************************************************************************)
(* One command run in the foreground: vm_run_foreground and vm_waitpid     *)
(* (src/interpreter/vm.c), the signal handler and dispositions of          *)
(* src/signals.h, and the terminal, masks and process groups the kernel    *)
(* keeps for them.  The shell's steps are one system call each, because a  *)
(* signal, a key or a step of the child can fall between any two.          *)
(*                                                                         *)
(* The interactive shell installs a handler for INT, QUIT and TERM and     *)
(* ignores TTOU (signal_init); the noninteractive one (main.c:             *)
(* noninteractive) never calls signal_init, keeps the default dispositions *)
(* and a pgid of 0.                                                        *)
(***************************************************************************)
EXTENDS Naturals

CONSTANTS Pid,           \* process identifiers fork may return
          Shell,         \* the shell's own process group
          None,          \* vm_child_pid when there is no child (0 in the code)
          Modes,         \* values of "interactive" to consider, within BOOLEAN
          StdinFiles     \* may a command have "< file"?  within BOOLEAN

ASSUME ConstantsAssumption ==
    /\ Shell \notin Pid /\ None \notin Pid /\ Shell # None
    /\ Modes \subseteq BOOLEAN
    /\ StdinFiles \subseteq BOOLEAN

KeyboardSignals == {"INT", "QUIT"}     \* Ctrl+C and Ctrl+\

VARIABLES
    interactive,   \* was signal_init called?
    pc,            \* the shell's next step in vm_run_foreground
    job,           \* its local pid
    vm_child_pid,  \* the global the handler reads
    blocked,       \* are INT and QUIT blocked in the shell?
    pending,       \* signals pending on the shell
    fileStdin,     \* STDIN_FILENO is a file (input redirection), not the tty
    endless,       \* the command never ends by itself
    tty,           \* the terminal's foreground process group
    stage,         \* of each child: how far it got between fork and reaping
    pgid,          \* of each child
    held,          \* signals pending on each child
    stopped        \* of each child: stopped by SIGSTOP

commandVars == <<fileStdin, endless>>
shellVars == <<interactive, pc, job, vm_child_pid, blocked, pending, commandVars>>
childVars == <<stage, pgid, held, stopped>>
vars == <<shellVars, tty, childVars>>

Init ==
    /\ interactive \in Modes
    /\ pc = "ready" /\ job = None /\ vm_child_pid = None
    /\ blocked = FALSE /\ pending = {}
    /\ fileStdin = FALSE /\ endless = FALSE
    /\ tty = Shell
    /\ stage = [p \in Pid |-> "none"]
    /\ pgid = [p \in Pid |-> Shell]
    /\ held = [p \in Pid |-> {}]
    /\ stopped = [p \in Pid |-> FALSE]

Goto(from, to) == pc = from /\ pc' = to

Alive(p) == stage[p] \in {"forked", "unmasked", "grouped", "running"}

-----------------------------------------------------------------------------
(* Signals, as the kernel and the dispositions of signals.h handle them.   *)

\* Until signal_reset the child keeps the shell's handler; its own copy of
\* vm_child_pid is 0, so the handler returns at once and the signal is lost.
Handles(p) == interactive /\ stage[p] \in {"forked", "unmasked", "grouped"}

\* A blocked signal, and any signal to a stopped process, stays pending.
Holds(p, sig) == stopped[p] \/ (stage[p] = "forked" /\ sig \in KeyboardSignals)

StageAfter(p, sig) ==
    IF Alive(p) /\ ~Holds(p, sig) /\ ~Handles(p) THEN "zombie" ELSE stage[p]

HeldAfter(p, sig) ==
    IF Alive(p) /\ Holds(p, sig) THEN held[p] \union {sig} ELSE held[p]

SendTo(S, sig) ==
    /\ stage' = [p \in Pid |-> IF p \in S THEN StageAfter(p, sig) ELSE stage[p]]
    /\ held' = [p \in Pid |-> IF p \in S THEN HeldAfter(p, sig) ELSE held[p]]
    /\ UNCHANGED <<pgid, stopped>>

Group(g) == {p \in Pid : Alive(p) /\ pgid[p] = g}

\* signal_handler: INT, QUIT and TERM are passed on to vm_child_pid.
HandlerTargets == IF interactive THEN {vm_child_pid} \intersect Pid ELSE {}

\* A key that raises a signal goes to every process of the terminal's group.
\* At the interactive prompt bestline has ISIG off, so no signal is raised.
Key(sig) ==
    LET handled == tty = Shell /\ ~blocked
    IN  /\ pc \notin {"stopped", "over"}
        /\ interactive => pc # "ready"
        /\ SendTo(Group(tty) \union (IF handled THEN HandlerTargets ELSE {}), sig)
        /\ pending' = IF tty = Shell /\ blocked THEN pending \union {sig} ELSE pending
        /\ pc' = IF handled /\ ~interactive THEN "over" ELSE pc
        /\ UNCHANGED <<interactive, job, vm_child_pid, blocked, commandVars, tty>>

\* Mutant of TermShell: SIGTERM is in block_mask too, and nothing drains it.
TermShellBlocked ==
    /\ pc \notin {"stopped", "over"} /\ blocked
    /\ pending' = pending \union {"TERM"}
    /\ UNCHANGED <<interactive, pc, job, vm_child_pid, blocked, commandVars, tty, childVars>>

\* A SIGTERM sent to the shell alone.  It is not in block_mask: the handler runs
\* at once, whatever the shell is doing; without a handler the shell dies.
TermShell ==
    /\ pc \notin {"stopped", "over"}
    /\ SendTo(HandlerTargets, "TERM")
    /\ pc' = IF interactive THEN pc ELSE "over"
    /\ UNCHANGED <<interactive, job, vm_child_pid, blocked, pending, commandVars, tty>>

-----------------------------------------------------------------------------
(* tcsetpgrp(STDIN_FILENO, g).                                             *)

GroupExists(g) == g = Shell \/ \E p \in Pid : stage[p] # "none" /\ pgid[p] = g

\* Mutant of StopsOnTtou: signal_init does not ignore SIGTTOU.
StopsOnTtouAlways == ~fileStdin /\ tty # Shell

\* A caller outside the foreground group raises SIGTTOU, which signal_init
\* ignores and which stops the noninteractive shell.
StopsOnTtou == ~fileStdin /\ ~interactive /\ tty # Shell

\* Fails (ENOTTY) when stdin is a file, and for a group that does not exist;
\* the code ignores both failures.
TtyAfterSet(g) == IF ~fileStdin /\ GroupExists(g) THEN g ELSE tty

-----------------------------------------------------------------------------
(* The parent's side of vm_run_foreground.                                 *)

\* Mutant of BlockSignals: the mask is computed and never set.
BlockSignalsForgotten ==
    /\ Goto("ready", "blocked")
    /\ fileStdin' \in StdinFiles
    /\ endless' \in BOOLEAN
    /\ UNCHANGED <<interactive, job, vm_child_pid, blocked, pending, tty, childVars>>

\* redirection_start_if_needed for "< file", then the first sigprocmask.
BlockSignals ==
    /\ Goto("ready", "blocked")
    /\ blocked' = TRUE
    /\ fileStdin' \in StdinFiles
    /\ endless' \in BOOLEAN
    /\ UNCHANGED <<interactive, job, vm_child_pid, pending, tty, childVars>>

\* The child starts in the shell's group, with its mask and handlers and with
\* nothing pending.
Fork(p) ==
    /\ Goto("blocked", "forked")
    /\ stage[p] = "none"
    /\ job' = p
    /\ stage' = [stage EXCEPT ![p] = "forked"]
    /\ pgid' = [pgid EXCEPT ![p] = Shell]
    /\ held' = [held EXCEPT ![p] = {}]
    /\ stopped' = [stopped EXCEPT ![p] = FALSE]
    /\ UNCHANGED <<interactive, vm_child_pid, blocked, pending, commandVars, tty>>

\* vm_fork_failure is EXIT_FAILURE, which ends main's loop.
ForkFails ==
    /\ Goto("blocked", "over")
    /\ blocked' = FALSE
    /\ pending' = {}
    /\ UNCHANGED <<interactive, job, vm_child_pid, commandVars, tty, childVars>>

PublishPid ==
    /\ Goto("forked", "published")
    /\ vm_child_pid' = job
    /\ UNCHANGED <<interactive, job, blocked, pending, commandVars, tty, childVars>>

\* Mutant of GroupChild: only the child calls setpgid.
GroupChildForgotten ==
    /\ Goto("published", "grouped")
    /\ UNCHANGED <<interactive, job, vm_child_pid, blocked, pending, commandVars, tty,
                   childVars>>

GroupChild ==
    /\ Goto("published", "grouped")
    /\ pgid' = [pgid EXCEPT ![job] = job]
    /\ UNCHANGED <<interactive, job, vm_child_pid, blocked, pending, commandVars, tty,
                   stage, held, stopped>>

\* Mutant of GiveTerminal: the shell keeps the terminal.
GiveTerminalForgotten ==
    /\ Goto("grouped", "waiting")
    /\ UNCHANGED <<interactive, job, vm_child_pid, blocked, pending, commandVars, tty,
                   childVars>>

\* The shell is in the foreground group itself here, so SIGTTOU cannot stop it.
GiveTerminal ==
    /\ Goto("grouped", "waiting")
    /\ tty' = TtyAfterSet(job)
    /\ UNCHANGED <<interactive, job, vm_child_pid, blocked, pending, commandVars, childVars>>

\* Mutant of Reap: vm_waitpid returns for a stopped child too.
ReapStopped ==
    /\ Goto("waiting", "reaped")
    /\ stage[job] = "zombie" \/ stopped[job]
    /\ stage' = [stage EXCEPT ![job] = IF @ = "zombie" THEN "none" ELSE @]
    /\ UNCHANGED <<interactive, job, vm_child_pid, blocked, pending, commandVars, tty,
                   pgid, held, stopped>>

\* Mutant of Reap: waitpid is called with WNOHANG.
ReapNoHang ==
    /\ Goto("waiting", "reaped")
    /\ stage' = [stage EXCEPT ![job] = IF @ = "zombie" THEN "none" ELSE @]
    /\ UNCHANGED <<interactive, job, vm_child_pid, blocked, pending, commandVars, tty,
                   pgid, held, stopped>>

\* vm_waitpid returns for an exited or killed child only: an error can only be
\* EINTR, and a stopped child is waited for again.
Reap ==
    /\ Goto("waiting", "reaped")
    /\ stage[job] = "zombie"
    /\ stage' = [stage EXCEPT ![job] = "none"]
    /\ UNCHANGED <<interactive, job, vm_child_pid, blocked, pending, commandVars, tty,
                   pgid, held, stopped>>

ClearPid ==
    /\ Goto("reaped", "cleared")
    /\ vm_child_pid' = None
    /\ UNCHANGED <<interactive, job, blocked, pending, commandVars, tty, childVars>>

\* Mutant of TakeTerminal: the job's exit is taken to return the terminal.
TakeTerminalForgotten ==
    /\ Goto("cleared", "restored")
    /\ UNCHANGED <<interactive, job, vm_child_pid, blocked, pending, commandVars, tty,
                   childVars>>

\* shell_pgid is 0 in the noninteractive shell: no such group.
TakeTerminal ==
    /\ Goto("cleared", IF StopsOnTtou THEN "stopped" ELSE "restored")
    /\ tty' = IF interactive THEN TtyAfterSet(Shell) ELSE tty
    /\ UNCHANGED <<interactive, job, vm_child_pid, blocked, pending, commandVars, childVars>>

\* sigpending and the sigtimedwait loop.
DrainPending ==
    /\ Goto("restored", "drained")
    /\ pending' = {}
    /\ UNCHANGED <<interactive, job, vm_child_pid, blocked, commandVars, tty, childVars>>

\* The last sigprocmask delivers what arrived since, then
\* redirection_stop_if_needed; vm_child_pid is 0, so the handler does nothing.
RestoreMask ==
    /\ Goto("drained", IF ~interactive /\ pending # {} THEN "over" ELSE "ready")
    /\ blocked' = FALSE
    /\ pending' = {}
    /\ fileStdin' = FALSE /\ endless' = FALSE
    /\ UNCHANGED <<interactive, job, vm_child_pid, tty, childVars>>

Exit ==
    /\ Goto("ready", "over")
    /\ UNCHANGED <<interactive, job, vm_child_pid, blocked, pending, commandVars, tty, childVars>>

\* The shell that started this one gives it the terminal again and continues it;
\* the interrupted tcsetpgrp(0) is restarted and fails.
Resume ==
    /\ Goto("stopped", "restored")
    /\ tty' = Shell
    /\ UNCHANGED <<interactive, job, vm_child_pid, blocked, pending, commandVars, childVars>>

-----------------------------------------------------------------------------
(* The child's side.                                                       *)

\* sigprocmask(SIG_SETMASK, &old_mask): what was held is delivered, to the
\* shell's handler (no effect) or to the default disposition.
ChildUnmask(p) ==
    /\ stage[p] = "forked"
    /\ stage' = [stage EXCEPT ![p] =
                    IF ~interactive /\ held[p] # {} THEN "zombie" ELSE "unmasked"]
    /\ held' = [held EXCEPT ![p] = {}]
    /\ UNCHANGED <<shellVars, tty, pgid, stopped>>

ChildGroup(p) ==
    /\ stage[p] = "unmasked"
    /\ stage' = [stage EXCEPT ![p] = "grouped"]
    /\ pgid' = [pgid EXCEPT ![p] = p]
    /\ UNCHANGED <<shellVars, tty, held, stopped>>

\* signal_reset and execvp: from here a signal takes its default action.
ChildReset(p) ==
    /\ stage[p] = "grouped"
    /\ stage' = [stage EXCEPT ![p] = "running"]
    /\ UNCHANGED <<shellVars, tty, pgid, held, stopped>>

\* It finishes, or execvp fails and it calls exit(-1).
ChildExit(p) ==
    /\ stage[p] = "running" /\ ~stopped[p] /\ ~endless
    /\ stage' = [stage EXCEPT ![p] = "zombie"]
    /\ UNCHANGED <<shellVars, tty, pgid, held, stopped>>

\* SIGSTOP from elsewhere (Ctrl+Z has no effect: TSTP stays ignored).
ChildStop(p) ==
    /\ stage[p] = "running" /\ ~stopped[p]
    /\ stopped' = [stopped EXCEPT ![p] = TRUE]
    /\ UNCHANGED <<shellVars, tty, stage, pgid, held>>

ChildContinue(p) ==
    /\ stage[p] = "running" /\ stopped[p]
    /\ stopped' = [stopped EXCEPT ![p] = FALSE]
    /\ held' = [held EXCEPT ![p] = {}]
    /\ stage' = [stage EXCEPT ![p] = IF held[p] # {} THEN "zombie" ELSE "running"]
    /\ UNCHANGED <<shellVars, tty, pgid>>

-----------------------------------------------------------------------------
ShellStep ==
    \/ PublishPid \/ GroupChild \/ GiveTerminal \/ Reap \/ ClearPid
    \/ TakeTerminal \/ DrainPending \/ RestoreMask
    \/ \E p \in Pid : Fork(p)

ChildStep(p) == ChildUnmask(p) \/ ChildGroup(p) \/ ChildReset(p)

\* Nothing is left to do.
Over == pc = "over" /\ UNCHANGED vars

Next ==
    \/ ShellStep \/ BlockSignals \/ ForkFails \/ Exit \/ Resume
    \/ \E p \in Pid : ChildStep(p) \/ ChildExit(p) \/ ChildStop(p) \/ ChildContinue(p)
    \/ \E sig \in KeyboardSignals : Key(sig)
    \/ TermShell
    \/ Over

Spec == Init /\ [][Next]_vars

\* The scheduler runs the shell and a starting child; whoever stopped the job
\* continues it; a command that is not endless ends if it is left running often
\* enough.  Nobody has to press a key.
Fairness ==
    /\ WF_vars(ShellStep)
    /\ \A p \in Pid : WF_vars(ChildStep(p)) /\ WF_vars(ChildContinue(p)) /\ SF_vars(ChildExit(p))

FairSpec == Spec /\ Fairness

-----------------------------------------------------------------------------
(* Properties.                                                             *)

TypeOK ==
    /\ interactive \in BOOLEAN
    /\ pc \in {"ready", "blocked", "forked", "published", "grouped", "waiting", "reaped",
               "cleared", "restored", "drained", "stopped", "over"}
    /\ job \in Pid \union {None}
    /\ vm_child_pid \in Pid \union {None}
    /\ blocked \in BOOLEAN
    /\ pending \in SUBSET KeyboardSignals
    /\ fileStdin \in BOOLEAN /\ endless \in BOOLEAN
    /\ tty \in Pid \union {Shell}
    /\ stage \in [Pid -> {"none", "forked", "unmasked", "grouped", "running", "zombie"}]
    /\ pgid \in [Pid -> Pid \union {Shell}]
    /\ held \in [Pid -> SUBSET (KeyboardSignals \union {"TERM"})]
    /\ stopped \in [Pid -> BOOLEAN]

\* Whatever keys, SIGTERMs, stops and deaths fell between the steps of the last
\* command, the shell reads the next one with the terminal its own; otherwise
\* its read would fail and the main loop end (vm.c: "Give terminal control back
\* to the shell").
PromptOwnsTerminal == pc = "ready" => tty = Shell

\* While the shell waits, the terminal belongs to the job's own group and the
\* job is in it, whichever of parent and child called setpgid first and even if
\* the job is already dead (vm.c: "both parent and child do this to avoid race").
JobOwnsTerminal ==
    pc = "waiting" /\ ~fileStdin => tty = job /\ pgid[job] = job

\* The prompt never comes back while a foreground child exists, running, stopped
\* or unreaped: the shell has no fg builtin to find it again.
NoJobLeftBehind == pc = "ready" => \A p \in Pid : stage[p] = "none"

\* From fork to reaping, a Ctrl+C that reaches the shell too is held back: it
\* neither runs the handler nor kills a script (vm.c: "This prevents the shell
\* from being interrupted by signals meant for the foreground job").
ShellShielded ==
    pc # "over" /\ (\E p \in Pid : stage[p] # "none") => blocked

\* What the handler passes a signal on to is a process the shell has not reaped,
\* so it cannot be another program that got the pid since (vm.c: "so signal
\* handler can forward signals to child").
HandlerTargetsChild == \A p \in HandlerTargets : stage[p] # "none"

KeepsPressing == WF_vars(Key("INT"))

\* A user who keeps pressing Ctrl+C gets the prompt back from a command that
\* does not catch it and was started with the terminal as its stdin.
InterruptEndsJob ==
    KeepsPressing => ((pc = "waiting" /\ interactive /\ ~fileStdin) ~> (pc = "ready"))

\* The same of every command, as the comment in vm_run_foreground has it
\* ("This ensures SIGINT goes to the child, not the shell").
InterruptEndsEveryJob ==
    KeepsPressing => ((pc = "waiting" /\ interactive) ~> (pc = "ready"))

\* A command that ends gives the prompt back, Ctrl+C or not, stopped and
\* continued in between or not, and with its stdin a file or not.
CommandReturns == (pc = "waiting" /\ interactive /\ ~endless) ~> (pc = "ready")

\* The code implements the promise of JobTerminal.
Abstract == INSTANCE JobTerminal WITH
    mode <- IF pc \in {"ready", "over"} THEN pc ELSE "job",
    live <- \E p \in Pid : stage[p] # "none",
    owner <- IF tty = Shell THEN "shell" ELSE "job"

JobTerminalSpec == Abstract!Spec
=============================================================================
