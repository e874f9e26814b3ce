------------------------------ MODULE Streams ------------------------------
(***************************************************************************)
(* Where the commands of a line read and write: the shell's descriptors,   *)
(* pipe_start, pipe_connect and pipe_stop (interpreter/pipe.c), the        *)
(* redirections (interpreter/redirection.c), vm_output_fd, which builtins  *)
(* write to, and the order in which vm_run calls them.                     *)
(*                                                                         *)
(* A pipeline runs one command at a time: each is waited for before the    *)
(* next is started.  Every command succeeds here; what a status does to a  *)
(* list is in Vm, signals and the terminal are in ForegroundJob.           *)
(***************************************************************************)
EXTENDS Integers, Sequences, FiniteSets

CONSTANTS Lines,       \* the lines a user may enter
          MaxLines,    \* how many of them (a bound)
          Limit,       \* descriptors a process may have
          Capacity,    \* what a pipe holds
          Positions    \* values of command_position, a uint8_t: 256

Command == [kind : {"program", "filter", "builtin", "echo", "printer"},
            join : {"none", "pipe", "and"}, amount : Nat]

Line == [cmds : Seq(Command), redirect : {"none", "in", "out", "err", "outerr"},
         background : BOOLEAN]

ASSUME LinesAssumption == Lines # {} /\ Lines \subseteq {l \in Line : l.cmds # <<>>}
ASSUME BoundsAssumption ==
    /\ {MaxLines, Limit, Capacity, Positions} \subseteq Nat
    /\ Limit > 2 /\ Positions > 0

Fd == 0..(Limit - 1)

\* What a descriptor refers to.  A pipe is named by the line and the command it
\* was made for.
Plain(type) == [type |-> type, pipe |-> <<0, 0>>]
Closed == Plain("closed")
Tty == Plain("tty")
File == [type : {"closed", "tty", "input", "file", "read", "write"}, pipe : Nat \X Nat]

VARIABLES
    pc,                \* "prompt", "redirect", "next", "run", "child", "stop" or "over"
    line, lines,       \* the line vm_run works on, and how many were entered
    i,                 \* vm->cmds, as an index
    command_position,
    fds,               \* the shell's descriptors
    fd_one, fd_two,    \* pipes_io
    vm_output_fd,
    opened, original,  \* the redirect_io structures, indexed by stream: the
                       \* descriptor opened for it, and the one that saves it
    child,             \* the running program's ends, and whether its input can end
    ins, outs,         \* what the line's commands read and wrote
    newlines           \* where its echos put their newlines

table == <<fds, fd_one, fd_two, vm_output_fd>>
redirection == <<opened, original>>
vars == <<pc, line, lines, i, command_position, table, redirection, child, ins, outs,
                   newlines>>

Idle == [in |-> Closed, out |-> Closed, eof |-> TRUE]

Init ==
    /\ pc = "prompt"
    /\ line = (CHOOSE l \in Lines : TRUE) /\ lines = 0 /\ i = 1 /\ command_position = 0
    /\ fds = [d \in Fd |-> IF d < 3 THEN Tty ELSE Closed]
    /\ fd_one = [e \in {0, 1} |-> 0] /\ fd_two = fd_one
    /\ vm_output_fd = 0
    /\ opened = [s \in 0..2 |-> 0] /\ original = opened
    /\ child = Idle /\ ins = <<>> /\ outs = <<>> /\ newlines = {}

-----------------------------------------------------------------------------
(* The kernel's side of descriptors.                                       *)

Free(f) == {d \in Fd : f[d] = Closed}

Lowest(S) == CHOOSE d \in S : \A e \in S : d <= e
LowestOrNone(S) == IF S = {} THEN -1 ELSE Lowest(S)

Dup2(f, from, to) ==
    IF from \in Fd /\ f[from] # Closed THEN [f EXCEPT ![to] = f[from]] ELSE f

Close(f, D) == [d \in Fd |-> IF d \in D THEN Closed ELSE f[d]]

-----------------------------------------------------------------------------
(* redirection.c.                                                          *)

\* A new line, and a Vm_Data of zeros.
Enter(l) ==
    /\ pc = "prompt" /\ lines < MaxLines
    /\ pc' = "redirect"
    /\ line' = l /\ lines' = lines + 1
    /\ i' = 1 /\ command_position' = 0
    /\ fd_one' = [e \in {0, 1} |-> 0] /\ fd_two' = fd_one'
    /\ opened' = [s \in 0..2 |-> 0] /\ original' = opened'
    /\ ins' = <<>> /\ outs' = <<>> /\ newlines' = {}
    /\ UNCHANGED <<fds, vm_output_fd, child>>

Redirects(s) ==
    CASE s = 0 -> line.redirect = "in"
      [] s = 1 -> line.redirect \in {"out", "outerr"}
      [] s = 2 -> line.redirect \in {"err", "outerr"}

RedirectNone ==
    /\ pc = "redirect" /\ line.redirect = "none"
    /\ pc' = "next"
    /\ UNCHANGED <<line, lines, i, command_position, table, redirection, child, ins, outs,
                   newlines>>

\* stdout_redirection_start and its like: open the file, dup each stream it
\* replaces (-1 if there is no room), dup2 the file there, close the file.
RedirectStart ==
    /\ pc = "redirect" /\ line.redirect # "none" /\ Free(fds) # {}
    /\ LET d == Lowest(Free(fds))
           file == Plain(IF line.redirect = "in" THEN "input" ELSE "file")
           first == LowestOrNone(Free(fds) \ {d})
           save == [s \in 0..2 |-> CASE ~Redirects(s) -> 0
                                     [] s = 2 /\ Redirects(1) /\ Redirects(s) ->
                                            LowestOrNone(Free(fds) \ {d, first})
                                     [] OTHER -> first]
       IN  /\ opened' = [s \in 0..2 |-> IF Redirects(s) THEN d ELSE 0]
           /\ original' = save
           /\ fds' = [x \in Fd |->
                 CASE x = d -> Closed
                   [] x # d /\ x < 3 /\ Redirects(x) -> file
                   [] x # d /\ x > 2 /\ \E s \in 0..2 : Redirects(s) /\ save[s] = x ->
                        LET s == CHOOSE s \in 0..2 : Redirects(s) /\ save[s] = x
                        IN  IF s = d THEN file ELSE fds[s]
                   [] OTHER -> fds[x]]
    /\ pc' = "next"
    /\ UNCHANGED <<line, lines, i, command_position, fd_one, fd_two, vm_output_fd, child, ins, outs,
                   newlines>>

\* open fails: EXIT_FAILURE_CONTINUE.
RedirectFails ==
    /\ pc = "redirect" /\ line.redirect # "none"
    /\ pc' = "prompt"
    /\ UNCHANGED <<line, lines, i, command_position, table, redirection, child, ins, outs,
                   newlines>>

\* Mutant of Saved: the input structure is not looked at.
SavedOutput(s) == s > 0 /\ opened[s] > 0 /\ original[s] \in Fd

\* Is there a descriptor to put back?
Saved(s) == opened[s] > 0 /\ original[s] \in Fd

\* redirection_stop_if_needed: dup2 the saved descriptors back.  They stay open.
Restored ==
    [x \in Fd |-> IF x < 3 /\ Saved(x) THEN fds[original[x]] ELSE fds[x]]

-----------------------------------------------------------------------------
(* pipe.c.                                                                 *)

Count == Len(line.cmds)
IsPipe(j) == line.cmds[j].join = "pipe"

\* stmts->pipes_count: the commands of a line that is one pipeline.  It is a uint8_t
\* too, but a line has too few tokens to make it wrap.
pipes_count == 1 + Cardinality({j \in 1..Count : IsPipe(j)})

\* vm->op_current, as vm_next_normal leaves it: the connective after the command,
\* or at the end the one before it.
Piped == IsPipe(IF i < Count THEN i + 1 ELSE Count)

Odd == command_position % 2 # 0
AtFirst == command_position = 0
AtLast == ~AtFirst /\ command_position = pipes_count - 1

\* Where the last and the middle commands read, and where a middle one writes.
LastInput == IF pipes_count % 2 # 0 THEN fd_one[0] ELSE fd_two[0]
MiddleInput == IF Odd THEN fd_two[0] ELSE fd_one[0]
MiddleOutput == IF Odd THEN fd_one[1] ELSE fd_two[1]

PipeNeeded == pc = "next" /\ Piped /\ i < Count

\* pipe_start.
PipeStart ==
    /\ PipeNeeded
    /\ LET r == Lowest(Free(fds))
           w == Lowest(Free(fds) \ {r})
           ends == [e \in {0, 1} |-> IF e = 0 THEN r ELSE w]
       IN  /\ Free(fds) # {} /\ Free(fds) # {r}
           /\ fds' = [fds EXCEPT ![r] = [type |-> "read", pipe |-> <<lines, i>>],
                                 ![w] = [type |-> "write", pipe |-> <<lines, i>>]]
           /\ fd_one' = IF Odd THEN ends ELSE fd_one
           /\ fd_two' = IF Odd THEN fd_two ELSE ends
           /\ vm_output_fd' = w
    /\ pc' = "run"
    /\ UNCHANGED <<line, lines, i, command_position, redirection, child, ins, outs, newlines>>

\* pipe fails: EXIT_FAILURE, which ends main's loop.
PipeFails ==
    /\ PipeNeeded
    /\ fds' = Restored
    /\ pc' = "over"
    /\ UNCHANGED <<line, lines, i, command_position, fd_one, fd_two, vm_output_fd, redirection,
                   child, ins, outs, newlines>>

NoPipe ==
    /\ pc = "next" /\ ~PipeNeeded
    /\ pc' = "run"
    /\ UNCHANGED <<line, lines, i, command_position, table, redirection, child, ins, outs,
                   newlines>>

\* Mutant of Connected: the last command's side does not depend on the number of
\* commands.
ConnectedToTwo ==
    CASE ~Piped -> fds
      [] Piped /\ AtFirst -> Dup2(fds, fd_two[1], 1)
      [] Piped /\ AtLast -> Dup2(fds, fd_two[0], 0)
      [] OTHER -> Dup2(Dup2(fds, MiddleInput, 0), MiddleOutput, 1)

\* pipe_connect, in the child.
Connected ==
    CASE ~Piped -> fds
      [] Piped /\ AtFirst -> Dup2(fds, fd_two[1], 1)
      [] Piped /\ AtLast -> Dup2(fds, LastInput, 0)
      [] OTHER -> Dup2(Dup2(fds, MiddleInput, 0), MiddleOutput, 1)

\* Mutant of ToClose: the shell keeps the end it wrote to.
ToCloseInputs ==
    CASE ~Piped \/ AtFirst -> {}
      [] Piped /\ AtLast -> {LastInput}
      [] OTHER -> {MiddleInput}

\* Mutant of ToClose: the shell keeps the end the command read from.
ToCloseOutputs ==
    CASE ~Piped \/ (Piped /\ AtLast) -> {}
      [] Piped /\ AtFirst -> {fd_two[1]}
      [] OTHER -> {MiddleOutput}

\* pipe_stop, in the shell: what it closes, ...
ToClose ==
    CASE ~Piped -> {}
      [] Piped /\ AtFirst -> {fd_two[1]}
      [] Piped /\ AtLast -> {LastInput}
      [] OTHER -> {MiddleInput, MiddleOutput}

\* Mutant of OutputAfter: vm_output_fd is never set back.
OutputNotReset == vm_output_fd

\* ... and vm_output_fd, which it sets back to STDOUT_FILENO unless the command is
\* the first.
OutputAfter == IF Piped /\ ~AtFirst THEN 1 ELSE vm_output_fd

PipeStop ==
    /\ fds' = Close(fds, ToClose)
    /\ vm_output_fd' = OutputAfter
    /\ UNCHANGED <<fd_one, fd_two>>

-----------------------------------------------------------------------------
(* vm_run.                                                                 *)

Cmd == line.cmds[i]
IsProgram(c) == c.kind \in {"program", "filter"}

\* Mutant of NextPosition: command_position is wider than the model's bound.
NextPositionWide == command_position + 1

NextPosition == (command_position + 1) % Positions

Advance ==
    IF i < Count
    THEN i' = i + 1 /\ command_position' = NextPosition /\ pc' = "next"
    ELSE i' = i /\ command_position' = NextPosition /\ pc' = "stop"

Writable(f) == f.type \in {"tty", "file", "write"}

\* Most builtins write to vm_output_fd, some (pwd) to the shell's own stdout.
BuiltinOutput == fds[IF Cmd.kind = "printer" THEN 1 ELSE vm_output_fd]

\* builtins_echo sends its text to vm_output_fd, but the newline after it with tty_send,
\* which knows of stdout only.
EchoEnds == newlines' = IF Cmd.kind = "echo" THEN newlines \union {fds[1]} ELSE newlines

\* A builtin runs in the shell itself; it waits there if the pipe is full.  Only
\* echo does not care whether the write worked.
RunBuiltin ==
    /\ pc = "run" /\ ~IsProgram(Cmd)
    /\ Writable(BuiltinOutput) \/ Cmd.kind = "echo" \/ Cmd.amount = 0
    /\ BuiltinOutput.type = "write" => Cmd.amount <= Capacity
    /\ outs' = Append(outs, BuiltinOutput)
    /\ ins' = Append(ins, Closed)
    /\ EchoEnds
    /\ PipeStop
    /\ Advance
    /\ UNCHANGED <<line, lines, redirection, child>>

\* builtins_writeln: a failed write is a longjmp to main's exit.
BuiltinWriteFails ==
    /\ pc = "run" /\ Cmd.kind \in {"builtin", "printer"} /\ Cmd.amount > 0
    /\ ~Writable(BuiltinOutput)
    /\ pc' = "over"
    /\ UNCHANGED <<line, lines, i, command_position, table, redirection, child, ins, outs,
                   newlines>>

\* vm_run_foreground, up to the wait.  The child inherits every descriptor the
\* shell has at the fork.
StartProgram ==
    /\ pc = "run" /\ IsProgram(Cmd) /\ ~line.background
    /\ LET in == Connected[0]
       IN  child' = [in |-> in, out |-> Connected[1],
                     eof |-> in.type = "read" =>
                               \A d \in Fd : fds[d] # [type |-> "write", pipe |-> in.pipe]]
    /\ PipeStop
    /\ pc' = "child"
    /\ UNCHANGED <<line, lines, i, command_position, redirection, ins, outs, newlines>>

\* A filter ends at the end of its input.  A program that writes more than a pipe
\* holds waits for a reader, which is not there yet.
ProgramEnds ==
    /\ pc = "child"
    /\ Cmd.kind = "filter" => child.eof
    /\ child.out.type = "write" => Cmd.amount <= Capacity
    /\ ins' = Append(ins, child.in) /\ outs' = Append(outs, child.out)
    /\ child' = Idle
    /\ Advance
    /\ UNCHANGED <<line, lines, table, redirection, newlines>>

\* vm_run_background connects nothing, and pipe_stop is not called.
RunBackground ==
    /\ pc = "run" /\ IsProgram(Cmd) /\ line.background
    /\ ins' = Append(ins, fds[0]) /\ outs' = Append(outs, fds[1])
    /\ Advance
    /\ UNCHANGED <<line, lines, table, redirection, child, newlines>>

RedirectStop ==
    /\ pc = "stop"
    /\ fds' = Restored
    /\ pc' = "prompt"
    /\ UNCHANGED <<line, lines, i, command_position, fd_one, fd_two, vm_output_fd, redirection,
                   child, ins, outs, newlines>>

Over ==
    /\ pc = "over" \/ (pc = "prompt" /\ lines = MaxLines)
    /\ UNCHANGED vars

Run ==
    \/ RedirectNone \/ RedirectStart \/ RedirectFails
    \/ PipeStart \/ PipeFails \/ NoPipe
    \/ RunBuiltin \/ BuiltinWriteFails \/ StartProgram \/ ProgramEnds \/ RunBackground
    \/ RedirectStop

Next == Run \/ (\E l \in Lines : Enter(l)) \/ Over

Spec == Init /\ [][Next]_vars /\ WF_vars(Run)

-----------------------------------------------------------------------------
(* Properties.                                                             *)

\* Every descriptor number the shell keeps is one, or is the 0 of a structure not
\* filled in yet; original may be the -1 of a dup that failed.
TypeOK ==
    /\ pc \in {"prompt", "redirect", "next", "run", "child", "stop", "over"}
    /\ line \in Lines /\ lines \in 0..MaxLines /\ i \in 1..Count
    /\ command_position \in 0..(Positions - 1)
    /\ fds \in [Fd -> File]
    /\ fd_one \in [{0, 1} -> Fd] /\ fd_two \in [{0, 1} -> Fd]
    /\ vm_output_fd \in Fd
    /\ opened \in [0..2 -> Fd] /\ original \in [0..2 -> Fd \union {-1}]
    /\ child \in [in : File, out : File, eof : BOOLEAN]
    /\ Len(ins) = Len(outs) /\ Len(outs) <= Count
    /\ ins \in Seq(File) /\ outs \in Seq(File) /\ newlines \subseteq File

Ran == DOMAIN outs

\* A program after a | reads the pipe the command before the | wrote to, though
\* two pairs of descriptors serve pipelines of any length in turn, and the choice
\* between them is made again in pipe_start, pipe_connect and pipe_stop.
PipesConnect ==
    \A j \in Ran \ {1} : IsPipe(j) /\ IsProgram(line.cmds[j]) =>
        /\ outs[j - 1].type = "write" /\ ins[j].type = "read"
        /\ ins[j].pipe = outs[j - 1].pipe

Source == Plain(IF line.redirect = "in" THEN "input" ELSE "tty")
Destination == Plain(IF line.redirect \in {"out", "outerr"} THEN "file" ELSE "tty")

\* What is not piped reads and writes where the line says: a program reads, and
\* every command writes, a redirection's file if there is one, the terminal if not
\* (builtins.rb: "help > t.txt" leaves help's text in t.txt).  The newline of an echo goes
\* there too, even that of an echo whose text went into a pipe.
LineIsObeyed ==
    /\ newlines \subseteq {Destination}
    /\ \A j \in Ran :
        /\ IsProgram(line.cmds[j]) /\ ~IsPipe(j) => ins[j] = Source
        /\ line.cmds[j].amount > 0 /\ ~(j < Count /\ IsPipe(j + 1)) => outs[j] = Destination

\* The shell reads the next line with its three streams where they were.
StreamsRestored == pc = "prompt" => \A s \in 0..2 : fds[s] = Tty

\* A line leaves no end of a pipe behind: a leftover write end would keep a later
\* reader waiting, a leftover read end a later writer.
NoPipeLeftOpen == pc = "prompt" => \A d \in Fd : fds[d].type \notin {"read", "write"}

\* A line ends, whatever is written in it.
LineEnds == (pc = "redirect") ~> (pc \in {"prompt", "over"})

-----------------------------------------------------------------------------
(* The shapes of the lines for which the code keeps the properties above.  *)

Pipes(l) == Len(l.cmds) > 1 /\ l.cmds[2].join = "pipe"

\* A list of && or a pipeline, not both.  A pipeline is not in the background and no longer
\* than command_position can count.
Uniform(l) ==
    /\ l.cmds[1].join = "none"
    /\ \A j \in 2..Len(l.cmds) : l.cmds[j].join = IF Pipes(l) THEN "pipe" ELSE "and"
    /\ Pipes(l) => Len(l.cmds) <= Positions /\ ~l.background

\* Builtins that print themselves are not piped to programs.
PrintersFit(l) ==
    \A j \in 2..Len(l.cmds) :
        Pipes(l) /\ IsProgram(l.cmds[j]) => l.cmds[j - 1].kind # "printer"

\* Builtins of a list are not redirected, and echo is not the second and last command of a
\* pipeline: it writes to vm_output_fd, which then is the pipe's end that was closed.
BuiltinsFit(l) ==
    \A j \in 1..Len(l.cmds) :
        ~IsProgram(l.cmds[j]) /\ l.cmds[j].amount > 0 =>
            \/ l.cmds[j].kind = "printer"
            \/ Pipes(l) /\ (j < Len(l.cmds) \/ j > 2 \/ l.cmds[j].kind # "echo")
            \/ ~Pipes(l) /\ l.redirect \in {"none", "err"}

\* A redirected line keeps two descriptors more than it found (redirection_stop_if_needed
\* does not close what it puts back), and needs one for the file.
Roomy == Limit >= 2 * MaxLines + 4
=============================================================================
