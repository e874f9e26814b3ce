--------------------------- MODULE StreamsProofs ---------------------------
(***************************************************************************)
(* What Streams keeps, whatever lines are entered, and what it keeps when  *)
(* they are of the shapes the code gets right: the shell's streams are put *)
(* back, no pipe is left open, and every command reads and writes where    *)
(* the line says, in pipelines and lists of any length.                    *)
(***************************************************************************)
EXTENDS Streams, Recursion, SequenceTheorems, FiniteSetTheorems

\* One result for each command that has run.
Progress ==
    /\ pc = "redirect" => i = 1 /\ ins = <<>> /\ outs = <<>>
    /\ pc \in {"next", "run", "child"} => Len(outs) = i - 1

\* The inductive invariant for lines of any shape.
Typed == TypeOK /\ Progress

-----------------------------------------------------------------------------
(* The inductive invariant for lines of the shapes that Streams lists.      *)

Working == {"next", "run", "child", "stop"}
Pipeline == Pipes(line)

ReadEnd(j) == [type |-> "read", pipe |-> <<lines, j>>]
WriteEnd(j) == [type |-> "write", pipe |-> <<lines, j>>]
IsEnd(d) == fds[d].type \in {"read", "write"}

\* The pipe before the command is open, the pipe after it for the command itself, and for
\* the command after it.
Reading == Pipeline /\ i > 1 /\ pc \in {"next", "run"}
Writing == Pipeline /\ i < Count /\ pc = "run"
Passing == Pipeline /\ i < Count /\ pc \in {"run", "child"}
NextInput == IF Odd THEN fd_one[0] ELSE fd_two[0]

\* Which ends of pipes are open, and that no others are.
PipesOK ==
    /\ Reading => fds[MiddleInput] = ReadEnd(i - 1)
    /\ Writing => fds[MiddleOutput] = WriteEnd(i) /\ vm_output_fd = MiddleOutput
    /\ Passing => fds[NextInput] = ReadEnd(i)
    /\ \A d \in Fd : IsEnd(d) => \/ Reading /\ d = MiddleInput
                                 \/ Writing /\ d = MiddleOutput
                                 \/ Passing /\ d = NextInput

\* The streams are the terminal or what the line says, and the terminal is saved.
StreamsOK ==
    /\ pc \in {"prompt", "redirect"} => \A s \in 0..2 : fds[s] = Tty
    /\ pc = "redirect" => lines > 0 /\ \A s \in 0..2 : opened[s] = 0
    /\ pc \in Working =>
        /\ fds[0] = Source /\ fds[1] = Destination
        /\ \A s \in 0..2 : IF Saved(s) THEN original[s] > 3 /\ fds[original[s]] = Tty
                                       ELSE fds[s] = Tty

\* Descriptor 3 and those after what the lines have kept are not in use, but for pipes.
Kept == IF pc = "redirect" THEN lines - 1 ELSE lines
RoomOK == \A d \in Fd : d = 3 \/ d > 3 + 2 * Kept => IsEnd(d) \/ fds[d] = Closed

PositionOK == Pipeline /\ pc \in {"redirect", "next", "run", "child"} => command_position = i - 1

\* Between the first command and the second, and between others where no pipe is open for
\* the output.
AfterFirst == \/ pc = "child" /\ i = 1
              \/ pc = "next" /\ i = 2
              \/ pc = "run" /\ i = 2 /\ Count = 2
AfterOthers == \/ pc = "child" /\ i > 1
               \/ pc = "next" /\ i > 2
               \/ pc = "run" /\ i > 2 /\ i = Count

\* vm_output_fd is a stream, but in a pipeline's first two commands.
OutputFdOK ==
    /\ ~Pipeline \/ pc \in {"prompt", "redirect", "stop"} => vm_output_fd \in {0, 1}
    /\ Pipeline /\ AfterFirst => fds[vm_output_fd] = Closed
    /\ Pipeline /\ AfterOthers => vm_output_fd = 1

\* What a command j that read and wrote in and out should have.
Result(j, in, out) ==
    /\ IsProgram(line.cmds[j]) => in = IF Pipeline /\ j > 1 THEN ReadEnd(j - 1) ELSE Source
    /\ Pipeline /\ j < Count /\ line.cmds[j].kind # "printer" => out = WriteEnd(j)
    /\ line.cmds[j].amount > 0 /\ ~(Pipeline /\ j < Count) /\ BuiltinsFit(line) =>
           out = Destination

ResultsOK ==
    /\ newlines \subseteq {Destination}
    /\ \A j \in DOMAIN outs : Result(j, ins[j], outs[j])
    /\ pc = "child" => IsProgram(Cmd) /\ Result(i, child.in, child.out)

TableOK == PipesOK /\ StreamsOK /\ RoomOK /\ PositionOK /\ OutputFdOK

Inv == Typed /\ ResultsOK /\ (pc # "over" => TableOK)

-----------------------------------------------------------------------------
LEMMA ConstantsOK ==
    /\ Lines # {} /\ MaxLines \in Nat /\ Limit \in Nat /\ Limit > 2
    /\ Capacity \in Nat /\ Positions \in Nat /\ Positions > 0
    /\ 0 \in Fd /\ 1 \in Fd /\ 2 \in Fd
  BY LinesAssumption, BoundsAssumption DEF Fd

LEMMA LineOK ==
    ASSUME NEW l \in Lines
    PROVE  /\ l \in Line /\ l.cmds \in Seq(Command) /\ Len(l.cmds) \in Nat \ {0}
           /\ \A j \in 1..Len(l.cmds) : l.cmds[j] \in Command
  <1>1. l \in Line /\ l.cmds # <<>>
    BY LinesAssumption
  <1>2. l.cmds \in Seq(Command)
    BY <1>1 DEF Line
  <1> QED
    BY <1>1, <1>2, EmptySeq, ElementOfSeq, LenProperties

LEMMA FilesOK ==
    /\ Closed \in File /\ Tty \in File /\ Plain("input") \in File /\ Plain("file") \in File
    /\ \A p \in Nat \X Nat : /\ [type |-> "read", pipe |-> p] \in File
                             /\ [type |-> "write", pipe |-> p] \in File
    /\ Closed.type = "closed" /\ Tty.type = "tty"
  BY DEF Closed, Tty, Plain, File

\* Lowest takes the least.
LEMMA LowestIsLeast ==
    ASSUME NEW S \in SUBSET Fd, S # {}
    PROVE  Lowest(S) \in S /\ \A e \in S : Lowest(S) <= e
  <1>1. S \in SUBSET Nat
    BY DEF Fd
  <1> QED
    BY <1>1, Least DEF Lowest

LEMMA LowestOrNoneOK ==
    ASSUME NEW S \in SUBSET Fd
    PROVE  LowestOrNone(S) \in Fd \union {-1}
  BY LowestIsLeast DEF LowestOrNone

\* The kernel's operations keep the table a table.
LEMMA Dup2OK ==
    ASSUME NEW f \in [Fd -> File], NEW from, NEW to \in Fd
    PROVE  Dup2(f, from, to) \in [Fd -> File]
  BY DEF Dup2

LEMMA CloseOK ==
    ASSUME NEW f \in [Fd -> File], NEW D
    PROVE  Close(f, D) \in [Fd -> File]
  BY FilesOK DEF Close

LEMMA ConnectedOK ==
    ASSUME TypeOK
    PROVE  Connected \in [Fd -> File]
  <1>1. fds \in [Fd -> File] /\ 0 \in Fd /\ 1 \in Fd
    BY ConstantsOK DEF TypeOK
  <1>2. \A from : Dup2(fds, from, 0) \in [Fd -> File] /\ Dup2(fds, from, 1) \in [Fd -> File]
    BY <1>1, Dup2OK
  <1>3. \A from, other : Dup2(Dup2(fds, from, 0), other, 1) \in [Fd -> File]
    BY <1>1, <1>2, Dup2OK
  <1> QED
    BY <1>1, <1>2, <1>3 DEF Connected

LEMMA OutputOK ==
    ASSUME TypeOK
    PROVE  OutputAfter \in Fd /\ BuiltinOutput \in File
  BY ConstantsOK DEF TypeOK, OutputAfter, BuiltinOutput

-----------------------------------------------------------------------------
(* Lines of any shape.                                                     *)

LEMMA TypedInit == Init => Typed
  <1> SUFFICES ASSUME Init PROVE Typed
    OBVIOUS
  <1>1. line \in Lines
    BY ConstantsOK DEF Init
  <1>2. i \in 1..Count
    BY <1>1, LineOK DEF Init, Count
  <1>3. Len(ins) = 0 /\ Len(outs) = 0 /\ ins \in Seq(File) /\ outs \in Seq(File)
    BY EmptySeq DEF Init
  <1>4. child \in [in : File, out : File, eof : BOOLEAN]
    BY FilesOK DEF Init, Idle
  <1> USE ConstantsOK, FilesOK
  <1>5. fds \in [Fd -> File] /\ fd_one \in [{0, 1} -> Fd] /\ fd_two \in [{0, 1} -> Fd]
        /\ vm_output_fd \in Fd
    BY DEF Init
  <1>6. opened \in [0..2 -> Fd] /\ original \in [0..2 -> Fd \union {-1}]
    BY DEF Init
  <1>7. Len(outs) <= Count
    BY <1>2, <1>3 DEF Count
  <1> QED
    BY <1>1, <1>2, <1>3, <1>4, <1>5, <1>6, <1>7 DEF Typed, TypeOK, Progress, Init

\* What a command that ends does to the counters.
LEMMA AdvanceStep ==
    ASSUME Typed, Advance, pc \in {"run", "child"}, line' = line,
           NEW a \in File, NEW b \in File, ins' = Append(ins, a), outs' = Append(outs, b)
    PROVE  /\ i' \in 1..Count' /\ command_position' \in 0..(Positions - 1)
           /\ pc' \in {"next", "stop"}
           /\ Len(ins') = Len(outs') /\ Len(outs') <= Count'
           /\ ins' \in Seq(File) /\ outs' \in Seq(File)
           /\ Progress'
  <1>1. /\ ins \in Seq(File) /\ outs \in Seq(File) /\ Len(ins) = Len(outs)
        /\ i \in 1..Count /\ Len(outs) = i - 1 /\ Count \in Nat /\ Count' = Count
        /\ command_position \in 0..(Positions - 1)
    BY LineOK DEF Typed, TypeOK, Progress, Count
  <1>2. /\ ins' \in Seq(File) /\ outs' \in Seq(File)
        /\ Len(ins') = i /\ Len(outs') = i
    BY <1>1, AppendProperties
  <1>3. command_position' \in 0..(Positions - 1)
    BY <1>1, ConstantsOK DEF Advance, NextPosition
  <1>4. /\ i' \in 1..Count /\ pc' \in {"next", "stop"} /\ (pc' = "next" => i' = i + 1)
    BY <1>1 DEF Advance
  <1>5. Progress'
    <2>1. pc' # "redirect" /\ pc' # "run" /\ pc' # "child"
      BY <1>4
    <2>2. pc' = "next" => Len(outs') = i' - 1
      BY <1>1, <1>2, <1>4
    <2> QED
      BY <2>1, <2>2 DEF Progress
  <1> QED
    BY <1>1, <1>2, <1>3, <1>4, <1>5

LEMMA TypedNext == Typed /\ [Next]_vars => Typed'
  <1> SUFFICES ASSUME Typed, [Next]_vars PROVE Typed'
    OBVIOUS
  <1>1. TypeOK
    BY DEF Typed
  <1>2. ASSUME NEW l \in Lines, Enter(l) PROVE Typed'
    <2>1. line' = l /\ i' = 1 /\ i' \in 1..Count' /\ Len(outs') = 0 /\ Len(ins') = 0
          /\ Len(outs') <= Count' /\ ins' \in Seq(File) /\ outs' \in Seq(File)
      BY <1>2, LineOK, EmptySeq DEF Enter, Count
    <2>2. fd_one' \in [{0, 1} -> Fd] /\ fd_two' \in [{0, 1} -> Fd]
          /\ opened' \in [0..2 -> Fd] /\ original' \in [0..2 -> Fd \union {-1}]
      BY <1>2, ConstantsOK DEF Enter
    <2>3. lines' \in 0..MaxLines /\ command_position' \in 0..(Positions - 1)
      BY <1>1, <1>2, ConstantsOK DEF Enter, TypeOK
    <2>4. TypeOK'
      BY <1>1, <1>2, <2>1, <2>2, <2>3 DEF Enter, TypeOK
    <2>5. Progress'
      BY <1>2 DEF Enter, Progress
    <2> QED
      BY <2>4, <2>5 DEF Typed
  <1>3. CASE RedirectNone \/ NoPipe
    BY <1>3, EmptySeq DEF RedirectNone, NoPipe, Typed, TypeOK, Progress, Count, table, redirection
  <1>4. CASE RedirectStart
    <2> DEFINE d == Lowest(Free(fds))
               first == LowestOrNone(Free(fds) \ {d})
               second == LowestOrNone(Free(fds) \ {d, first})
               file == Plain(IF line.redirect = "in" THEN "input" ELSE "file")
    <2>1. d \in Fd /\ first \in Fd \union {-1} /\ second \in Fd \union {-1}
      BY <1>4, LowestIsLeast, LowestOrNoneOK DEF Free, RedirectStart
    <2>2. file \in File
      BY FilesOK
    <2>3. opened' \in [0..2 -> Fd]
      BY <1>4, <2>1, ConstantsOK DEF RedirectStart
    <2>4. original' \in [0..2 -> Fd \union {-1}]
      BY <1>4, <2>1, ConstantsOK DEF RedirectStart
    <2>5. /\ DOMAIN fds' = Fd /\ \A x \in Fd : fds'[x] \in File
          /\ fds' = [x \in Fd |-> fds'[x]]
      <3> DEFINE save == [s \in 0..2 |-> CASE ~Redirects(s) -> 0
                                           [] s = 2 /\ Redirects(1) /\ Redirects(s) -> second
                                           [] OTHER -> first]
                 held(x) == \E s \in 0..2 : Redirects(s) /\ save[s] = x
                 stream(x) == CHOOSE s \in 0..2 : Redirects(s) /\ save[s] = x
      <3>1. fds' = [x \in Fd |->
                      CASE x = d -> Closed
                        [] x # d /\ x < 3 /\ Redirects(x) -> file
                        [] x # d /\ x > 2 /\ held(x) ->
                             IF stream(x) = d THEN file ELSE fds[stream(x)]
                        [] OTHER -> fds[x]]
        BY <1>4 DEF RedirectStart
      <3>2. \A x \in Fd : held(x) => stream(x) \in 0..2
        OBVIOUS
      <3>3. \A s \in 0..2 : fds[s] \in File
        BY <1>1, ConstantsOK DEF TypeOK
      <3>4. \A x \in Fd : fds[x] \in File
        BY <1>1 DEF TypeOK
      <3> HIDE DEF d, first, second, file, save, held, stream
      <3> QED
        BY <2>2, <3>1, <3>2, <3>3, <3>4, FilesOK
    <2>6. pc' = "next"
          /\ UNCHANGED <<line, lines, i, command_position, fd_one, fd_two, vm_output_fd, child,
                         ins, outs, newlines>>
      BY <1>4 DEF RedirectStart
    <2>7. TypeOK'
      BY <1>1, <2>3, <2>4, <2>5, <2>6 DEF TypeOK, Count
    <2>8. Progress'
      BY <1>4, <2>6, EmptySeq DEF Progress, Typed, RedirectStart
    <2> QED
      BY <2>7, <2>8 DEF Typed
  <1>5. CASE RedirectFails \/ BuiltinWriteFails
    BY <1>5 DEF RedirectFails, BuiltinWriteFails, Typed, TypeOK, Progress, Count, table, redirection
  <1>6. CASE PipeStart
    <2> DEFINE r == Lowest(Free(fds))
               w == Lowest(Free(fds) \ {r})
    <2>1. r \in Fd /\ w \in Fd
      BY <1>6, LowestIsLeast DEF PipeStart, Free
    <2>2. <<lines, i>> \in Nat \X Nat
      BY <1>1, ConstantsOK DEF TypeOK
    <2>3. fds' \in [Fd -> File] /\ vm_output_fd' \in Fd
      <3> HIDE DEF r, w
      <3>1. /\ vm_output_fd' = w
            /\ fds' = [fds EXCEPT ![r] = [type |-> "read", pipe |-> <<lines, i>>],
                                  ![w] = [type |-> "write", pipe |-> <<lines, i>>]]
        BY <1>6 DEF PipeStart, r, w
      <3> QED
        BY <1>1, <2>1, <2>2, <3>1, FilesOK DEF TypeOK
    <2>4. fd_one' \in [{0, 1} -> Fd] /\ fd_two' \in [{0, 1} -> Fd]
      <3> DEFINE ends == [e \in {0, 1} |-> IF e = 0 THEN r ELSE w]
      <3>1. ends \in [{0, 1} -> Fd]
        BY <2>1
      <3>2. fd_one' \in {ends, fd_one} /\ fd_two' \in {ends, fd_two}
        BY <1>6 DEF PipeStart
      <3> QED
        BY <1>1, <3>1, <3>2 DEF TypeOK
    <2>5. pc = "next" /\ pc' = "run"
          /\ UNCHANGED <<line, lines, i, command_position, redirection, child, ins, outs, newlines>>
      BY <1>6 DEF PipeStart, PipeNeeded
    <2>6. TypeOK'
      BY <1>1, <2>3, <2>4, <2>5 DEF TypeOK, Count, redirection
    <2>7. Progress'
      BY <2>5 DEF Typed, Progress
    <2> QED
      BY <2>6, <2>7 DEF Typed
  <1>7. Restored \in [Fd -> File]
    BY <1>1 DEF Restored, Saved, TypeOK
  <1>8. CASE PipeFails \/ RedirectStop
    BY <1>7, <1>8 DEF PipeFails, RedirectStop, Typed, TypeOK, Progress, Count, redirection
  <1>9. CASE RunBuiltin
    <2>1. /\ Advance /\ PipeStop /\ pc = "run"
          /\ outs' = Append(outs, BuiltinOutput) /\ ins' = Append(ins, Closed)
          /\ UNCHANGED <<line, lines, redirection, child>>
      BY <1>9 DEF RunBuiltin
    <2>2. fds' \in [Fd -> File] /\ vm_output_fd' \in Fd /\ UNCHANGED <<fd_one, fd_two>>
      BY <1>1, <2>1, CloseOK, OutputOK DEF PipeStop, TypeOK
    <2>3. BuiltinOutput \in File
      BY <1>1, OutputOK
    <2>4. /\ i' \in 1..Count' /\ command_position' \in 0..(Positions - 1)
          /\ pc' \in {"next", "stop"}
          /\ Len(ins') = Len(outs') /\ Len(outs') <= Count'
          /\ ins' \in Seq(File) /\ outs' \in Seq(File)
          /\ Progress'
      BY <2>1, <2>3, AdvanceStep, FilesOK
    <2>5. newlines' \subseteq File
      BY <1>1, <1>9, ConstantsOK DEF RunBuiltin, EchoEnds, TypeOK
    <2>6. TypeOK'
      BY <1>1, <2>1, <2>2, <2>4, <2>5 DEF TypeOK, redirection
    <2> QED
      BY <2>4, <2>6 DEF Typed
  <1>10. CASE StartProgram
    <2>1. /\ PipeStop /\ pc = "run" /\ pc' = "child"
          /\ UNCHANGED <<line, lines, i, command_position, redirection, ins, outs, newlines>>
      BY <1>10 DEF StartProgram
    <2>2. fds' \in [Fd -> File] /\ vm_output_fd' \in Fd /\ UNCHANGED <<fd_one, fd_two>>
      BY <1>1, <2>1, CloseOK, OutputOK DEF PipeStop, TypeOK
    <2>3. child' \in [in : File, out : File, eof : BOOLEAN]
      <3>1. Connected[0] \in File /\ Connected[1] \in File
        BY <1>1, ConnectedOK, ConstantsOK
      <3> QED
        BY <1>10, <3>1 DEF StartProgram
    <2>4. TypeOK'
      BY <1>1, <2>1, <2>2, <2>3 DEF TypeOK, Count, redirection
    <2>5. Progress'
      BY <2>1 DEF Typed, Progress
    <2> QED
      BY <2>4, <2>5 DEF Typed
  <1>11. CASE ProgramEnds
    <2>1. /\ Advance /\ pc = "child" /\ child' = Idle
          /\ ins' = Append(ins, child.in) /\ outs' = Append(outs, child.out)
          /\ UNCHANGED <<line, lines, table, redirection, newlines>>
      BY <1>11 DEF ProgramEnds
    <2>2. child.in \in File /\ child.out \in File /\ Idle \in [in : File, out : File, eof : BOOLEAN]
      BY <1>1, FilesOK DEF TypeOK, Idle
    <2>3. /\ i' \in 1..Count' /\ command_position' \in 0..(Positions - 1)
          /\ pc' \in {"next", "stop"}
          /\ Len(ins') = Len(outs') /\ Len(outs') <= Count'
          /\ ins' \in Seq(File) /\ outs' \in Seq(File)
          /\ Progress'
      BY <2>1, <2>2, AdvanceStep
    <2>4. TypeOK'
      BY <1>1, <2>1, <2>2, <2>3 DEF TypeOK, redirection, table
    <2> QED
      BY <2>3, <2>4 DEF Typed
  <1>12. CASE RunBackground
    <2>1. /\ Advance /\ pc = "run"
          /\ ins' = Append(ins, fds[0]) /\ outs' = Append(outs, fds[1])
          /\ UNCHANGED <<line, lines, table, redirection, child, newlines>>
      BY <1>12 DEF RunBackground
    <2>2. fds[0] \in File /\ fds[1] \in File
      BY <1>1, ConstantsOK DEF TypeOK
    <2>3. /\ i' \in 1..Count' /\ command_position' \in 0..(Positions - 1)
          /\ pc' \in {"next", "stop"}
          /\ Len(ins') = Len(outs') /\ Len(outs') <= Count'
          /\ ins' \in Seq(File) /\ outs' \in Seq(File)
          /\ Progress'
      BY <2>1, <2>2, AdvanceStep
    <2>4. TypeOK'
      BY <1>1, <2>1, <2>3 DEF TypeOK, redirection, table
    <2> QED
      BY <2>3, <2>4 DEF Typed
  <1>13. CASE Over \/ UNCHANGED vars
    BY <1>13 DEF Over, vars, Typed, TypeOK, Progress, Count, table, redirection
  <1> QED
    BY <1>2, <1>3, <1>4, <1>5, <1>6, <1>8, <1>9, <1>10, <1>11, <1>12, <1>13 DEF Next, Run

\* Whatever the lines are and whichever calls fail, every descriptor number the shell
\* keeps is one, and each command that ran has its results.
THEOREM TypesHold == Spec => []TypeOK
  <1>1. Typed => TypeOK
    BY DEF Typed
  <1> QED
    BY <1>1, TypedInit, TypedNext, PTL DEF Spec

-----------------------------------------------------------------------------
(* Lines of the shapes above.                                              *)

LEMMA ShapeOK ==
    ASSUME TypeOK, Uniform(line)
    PROVE  /\ Count \in Nat \ {0} /\ i \in 1..Count
           /\ \A j \in 1..Count : IsPipe(j) <=> Pipeline /\ j # 1
           /\ Piped <=> Pipeline
           /\ Pipeline => /\ pipes_count = Count /\ Count > 1 /\ Count <= Positions
                          /\ ~line.background
  <1>1. Count \in Nat \ {0} /\ i \in 1..Count
    BY LineOK DEF TypeOK, Count
  <1>2. \A j \in 1..Count : IsPipe(j) <=> Pipeline /\ j # 1
    <2>1. ASSUME NEW j \in 1..Count, j # 1
          PROVE  line.cmds[j].join = IF Pipes(line) THEN "pipe" ELSE "and"
      <3>1. j \in 2..Len(line.cmds)
        BY <1>1, <2>1 DEF Count
      <3> QED
        BY <3>1 DEF Uniform
    <2> QED
      BY <2>1 DEF Uniform, Pipeline, IsPipe
  <1>3. Piped <=> Pipeline
    <2>1. Pipeline => Count > 1
      BY DEF Pipeline, Pipes, Count
    <2> QED
      BY <1>1, <1>2, <2>1 DEF Piped
  <1>4. ASSUME Pipeline
        PROVE  pipes_count = Count /\ Count > 1 /\ Count <= Positions /\ ~line.background
    <2>1. Count > 1 /\ Count <= Positions /\ ~line.background
      BY <1>4 DEF Uniform, Pipeline, Pipes, Count
    <2>2. {j \in 1..Count : IsPipe(j)} = 2..Count
      BY <1>1, <1>2, <1>4
    <2>3. Cardinality(2..Count) = Count - 1
      BY <1>1, <2>1, FS_Interval
    <2>4. pipes_count = 1 + Cardinality(2..Count)
      BY <2>2 DEF pipes_count
    <2> QED
      BY <1>1, <2>1, <2>3, <2>4
  <1> QED
    BY <1>1, <1>2, <1>3, <1>4

\* The two pairs of descriptors take turns, so that pipe_start, pipe_connect and pipe_stop
\* agree on each command's input and output wherever it stands.
LEMMA TurnsOK ==
    ASSUME TypeOK, Uniform(line), Pipeline, command_position = i - 1
    PROVE  /\ AtFirst <=> i = 1
           /\ AtLast <=> i = Count
           /\ i = Count => LastInput = MiddleInput
           /\ i = 1 => fd_two[1] = MiddleOutput
           /\ MiddleInput \in Fd /\ MiddleOutput \in Fd /\ NextInput \in Fd
  <1>1. /\ Count \in Nat /\ Count > 1 /\ pipes_count = Count /\ i \in 1..Count
        /\ fd_one \in [{0, 1} -> Fd] /\ fd_two \in [{0, 1} -> Fd]
    BY ShapeOK DEF TypeOK
  <1>2. (AtFirst <=> i = 1) /\ (AtLast <=> i = Count)
    BY <1>1 DEF AtFirst, AtLast
  <1>3. i = Count => LastInput = MiddleInput
    <2>1. i = Count => (Count % 2 # 0 <=> ~((i - 1) % 2 # 0))
      BY <1>1
    <2> QED
      BY <1>1, <2>1 DEF LastInput, MiddleInput, Odd
  <1>4. i = 1 => fd_two[1] = MiddleOutput
    BY <1>1 DEF MiddleOutput, Odd
  <1>5. MiddleInput \in Fd /\ MiddleOutput \in Fd /\ NextInput \in Fd
    BY <1>1 DEF MiddleInput, MiddleOutput, NextInput
  <1> QED
    BY <1>2, <1>3, <1>4, <1>5

LEMMA EndsOK ==
    ASSUME TypeOK
    PROVE  /\ \A j : ReadEnd(j).type = "read" /\ WriteEnd(j).type = "write"
           /\ \A j, k : ReadEnd(j) = ReadEnd(k) => j = k
           /\ Source.type \notin {"closed", "read", "write"}
           /\ Destination.type \notin {"closed", "read", "write"}
           /\ Tty.type = "tty" /\ Closed.type = "closed"
  BY DEF ReadEnd, WriteEnd, Source, Destination, Tty, Closed, Plain

\* A step of a line that only opens and closes pipes leaves the streams as they are.
LEMMA StreamsKept ==
    ASSUME TypeOK, StreamsOK, RoomOK, pc \in Working, pc' \in Working,
           UNCHANGED <<line, lines, redirection>>,
           \A d \in Fd : IF IsEnd(d) \/ fds[d] = Closed
                         THEN IsEnd(d)' \/ fds'[d] = Closed
                         ELSE fds'[d] = fds[d]
    PROVE  StreamsOK' /\ RoomOK'
  <1>1. Source' = Source /\ Destination' = Destination
    BY DEF Source, Destination
  <1>2. \A s \in 0..2 : s \in Fd
    BY ConstantsOK
  <1>3. /\ \A s \in 0..2 : opened'[s] = opened[s] /\ original'[s] = original[s]
        /\ \A s \in 0..2 : Saved(s)' <=> Saved(s)
    BY DEF redirection, Saved
  <1>4. \A d \in Fd : fds[d] \in {Source, Destination, Tty} => fds'[d] = fds[d]
    BY EndsOK DEF IsEnd
  <1>5. pc # "prompt" /\ pc # "redirect" /\ pc' # "prompt" /\ pc' # "redirect"
    BY DEF Working
  <1>6. fds'[0] = Source /\ fds'[1] = Destination
    BY <1>2, <1>4 DEF StreamsOK
  <1>7. ASSUME NEW s \in 0..2
        PROVE  IF Saved(s)' THEN original'[s] > 3 /\ fds'[original[s]] = Tty ELSE fds'[s] = Tty
    <2>1. CASE Saved(s)
      <3>1. original[s] \in Fd /\ original[s] > 3 /\ fds[original[s]] = Tty
        BY <2>1 DEF StreamsOK, Saved
      <3> QED
        BY <1>3, <1>4, <2>1, <3>1
    <2>2. CASE ~Saved(s)
      <3>1. s \in Fd /\ fds[s] = Tty
        BY <1>2, <2>2 DEF StreamsOK
      <3> QED
        BY <1>3, <1>4, <2>2, <3>1
    <2> QED
      BY <2>1, <2>2
  <1>8. StreamsOK'
    BY <1>1, <1>3, <1>5, <1>6, <1>7 DEF StreamsOK
  <1>9. Kept' = Kept
    BY <1>5 DEF Kept
  <1>10. \A d \in Fd : IsEnd(d) \/ fds[d] = Closed => IsEnd(d)' \/ fds'[d] = Closed
    OBVIOUS
  <1>11. RoomOK'
    BY <1>9, <1>10 DEF RoomOK
  <1> QED
    BY <1>8, <1>11

\* pipe_stop closes what the command read and wrote; the end the next command reads stays.
LEMMA PipeStopped ==
    ASSUME TypeOK, Uniform(line), PipesOK, PositionOK, pc = "run", PipeStop,
           ~Pipeline => vm_output_fd \in {0, 1}, Pipeline /\ AfterOthers => vm_output_fd = 1
    PROVE  /\ \A d \in Fd : fds'[d] = fds[d] \/ (IsEnd(d) /\ fds'[d] = Closed)
           /\ \A d \in Fd : IsEnd(d)' => Pipeline /\ i < Count /\ d = NextInput
           /\ Pipeline /\ i < Count => fds'[NextInput] = ReadEnd(i)
           /\ Pipeline /\ i = 1 => fds'[vm_output_fd'] = Closed
           /\ Pipeline /\ i > 1 => vm_output_fd' = 1
           /\ ~Pipeline => vm_output_fd' \in {0, 1}
  <1>1. /\ fds' = Close(fds, ToClose) /\ vm_output_fd' = OutputAfter
        /\ fds \in [Fd -> File] /\ i \in 1..Count /\ Count \in Nat \ {0} /\ (Piped <=> Pipeline)
        /\ \A d \in Fd : fds'[d] = IF d \in ToClose THEN Closed ELSE fds[d]
    BY ShapeOK DEF PipeStop, TypeOK, Close
  <1>2. CASE ~Pipeline
    <2>1. ToClose = {} /\ OutputAfter = vm_output_fd
      BY <1>1, <1>2 DEF ToClose, OutputAfter
    <2>2. \A d \in Fd : fds'[d] = fds[d]
      BY <1>1, <2>1
    <2>3. \A d \in Fd : ~IsEnd(d)
      BY <1>2 DEF PipesOK, Reading, Writing, Passing
    <2> QED
      BY <1>1, <1>2, <2>1, <2>2, <2>3 DEF IsEnd
  <1>3. CASE Pipeline
    <2>1. command_position = i - 1 /\ Count > 1
      BY <1>3, ShapeOK DEF PositionOK
    <2>2. /\ AtFirst <=> i = 1
          /\ AtLast <=> i = Count
          /\ i = Count => LastInput = MiddleInput
          /\ i = 1 => fd_two[1] = MiddleOutput
          /\ MiddleInput \in Fd /\ MiddleOutput \in Fd /\ NextInput \in Fd
      BY <1>3, <2>1, TurnsOK
    <2>3. ToClose = (IF i = 1 THEN {} ELSE {MiddleInput})
                    \union (IF i = Count THEN {} ELSE {MiddleOutput})
      BY <1>1, <1>3, <2>1, <2>2 DEF ToClose
    <2>4. /\ i > 1 => fds[MiddleInput] = ReadEnd(i - 1)
          /\ i < Count => /\ fds[MiddleOutput] = WriteEnd(i) /\ vm_output_fd = MiddleOutput
                          /\ fds[NextInput] = ReadEnd(i)
          /\ \A d \in Fd : IsEnd(d) => \/ i > 1 /\ d = MiddleInput
                                       \/ i < Count /\ d = MiddleOutput
                                       \/ i < Count /\ d = NextInput
      BY <1>3 DEF PipesOK, Reading, Writing, Passing
    <2>5. (i = 1 \/ i > 1) /\ (i = Count \/ i < Count)
      BY <1>1
    <2>6. i < Count => NextInput \notin ToClose
      <3>1. ReadEnd(i) # ReadEnd(i - 1) /\ ReadEnd(i) # WriteEnd(i)
        <4>1. i # i - 1
          BY <1>1
        <4> QED
          BY <4>1, EndsOK
      <3> QED
        BY <2>3, <2>4, <2>5, <3>1
    <2>7. \A d \in ToClose : IsEnd(d)
      BY <2>3, <2>4, <2>5, EndsOK DEF IsEnd
    <2>8. \A d \in Fd : fds'[d] = fds[d] \/ (IsEnd(d) /\ fds'[d] = Closed)
      BY <1>1, <2>7
    <2>9. ASSUME NEW d \in Fd, IsEnd(d)' PROVE i < Count /\ d = NextInput
      <3>1. d \notin ToClose /\ fds'[d] = fds[d] /\ IsEnd(d)
        BY <1>1, <2>9, FilesOK DEF IsEnd
      <3> QED
        BY <1>1, <2>3, <2>4, <2>5, <3>1
    <2>10. i < Count => fds'[NextInput] = ReadEnd(i)
      BY <1>1, <2>2, <2>4, <2>6
    <2>11. i = 1 => fds'[vm_output_fd'] = Closed
      <3>1. i = 1 => vm_output_fd' = vm_output_fd /\ i < Count
        BY <1>1, <2>1, <2>2 DEF OutputAfter
      <3> QED
        BY <1>1, <2>2, <2>3, <2>4, <3>1
    <2>12. i > 1 => vm_output_fd' = 1
      BY <1>1, <1>3, <2>2 DEF OutputAfter
    <2> QED
      BY <1>3, <2>8, <2>9, <2>10, <2>11, <2>12
  <1> QED
    BY <1>2, <1>3

\* On to the next command, whose turn it is to read the pipe that is open.
LEMMA AdvancePipes ==
    ASSUME TypeOK, Uniform(line), PositionOK, pc \in {"run", "child"}, Advance,
           UNCHANGED <<line, lines, fd_one, fd_two>>,
           \A d \in Fd : IsEnd(d)' => Pipeline /\ i < Count /\ d = NextInput,
           Pipeline /\ i < Count => fds'[NextInput] = ReadEnd(i),
           Pipeline /\ i = 1 => fds'[vm_output_fd'] = Closed,
           Pipeline /\ i > 1 => vm_output_fd' = 1,
           ~Pipeline => vm_output_fd' \in {0, 1}
    PROVE  PipesOK' /\ PositionOK' /\ OutputFdOK'
  <1>1. /\ Count \in Nat \ {0} /\ i \in 1..Count /\ Count' = Count /\ (Pipeline' <=> Pipeline)
        /\ Pipeline => command_position = i - 1 /\ Count > 1 /\ Count <= Positions
        /\ \A j : ReadEnd(j)' = ReadEnd(j)
    BY ShapeOK DEF Count, Pipeline, PositionOK, ReadEnd
  <1>2. CASE i < Count
    <2>1. i' = i + 1 /\ command_position' = NextPosition /\ pc' = "next"
      BY <1>2 DEF Advance
    <2>2. Pipeline => command_position' = i
      BY <1>1, <1>2, <2>1, ConstantsOK DEF NextPosition
    <2>3. Pipeline => MiddleInput' = NextInput
      <3>1. i % 2 # 0 <=> ~((i - 1) % 2 # 0)
        BY <1>1
      <3>2. Pipeline => (Odd' <=> ~Odd)
        BY <1>1, <2>2, <3>1 DEF Odd
      <3> QED
        BY <3>2 DEF MiddleInput, NextInput
    <2>4. PipesOK'
      <3>1. Reading' <=> Pipeline
        BY <1>1, <2>1 DEF Reading
      <3>2. ~Writing' /\ ~Passing'
        BY <2>1 DEF Writing, Passing
      <3>3. Reading' => fds'[MiddleInput'] = ReadEnd(i - 1)'
        <4>1. ReadEnd(i - 1)' = ReadEnd(i)
          BY <1>1, <2>1 DEF ReadEnd
        <4> QED
          BY <1>2, <2>3, <3>1, <4>1
      <3> QED
        BY <1>2, <2>3, <3>1, <3>2, <3>3 DEF PipesOK
    <2>5. PositionOK'
      BY <1>1, <2>1, <2>2 DEF PositionOK
    <2>6. OutputFdOK'
      <3>1. (AfterFirst' => i = 1) /\ (AfterOthers' => i > 1)
        BY <1>1, <2>1 DEF AfterFirst, AfterOthers
      <3> QED
        BY <1>1, <2>1, <3>1 DEF OutputFdOK
    <2> QED
      BY <2>4, <2>5, <2>6
  <1>3. CASE i = Count
    <2>1. pc' = "stop"
      BY <1>1, <1>3 DEF Advance
    <2>2. \A d \in Fd : ~IsEnd(d)'
      BY <1>1, <1>3
    <2>3. ~Reading' /\ ~Writing' /\ ~Passing'
      BY <2>1 DEF Reading, Writing, Passing
    <2>4. PipesOK'
      BY <2>2, <2>3 DEF PipesOK
    <2>5. PositionOK'
      BY <2>1 DEF PositionOK
    <2>6. OutputFdOK'
      <3>1. ~AfterFirst' /\ ~AfterOthers'
        BY <2>1 DEF AfterFirst, AfterOthers
      <3>2. vm_output_fd' \in {0, 1}
        BY <1>1, <1>3
      <3> QED
        BY <3>1, <3>2 DEF OutputFdOK
    <2> QED
      BY <2>4, <2>5, <2>6
  <1> QED
    BY <1>1, <1>2, <1>3

\* The results of a command that ends are added to those before.
LEMMA ResultAppended ==
    ASSUME Typed, ResultsOK, pc \in {"run", "child"}, pc' # "child", UNCHANGED <<line, lines>>,
           NEW a \in File, NEW b \in File, ins' = Append(ins, a), outs' = Append(outs, b),
           newlines' \subseteq newlines \union {Destination}, Result(i, a, b)
    PROVE  ResultsOK'
  <1>1. /\ ins \in Seq(File) /\ outs \in Seq(File) /\ i \in 1..Count /\ Count \in Nat
        /\ Len(outs) = i - 1 /\ Len(ins) = i - 1
    BY LineOK DEF Typed, TypeOK, Progress, Count
  <1>2. /\ DOMAIN outs = 1..(i - 1) /\ DOMAIN outs' = 1..i /\ outs'[i] = b /\ ins'[i] = a
        /\ \A j \in 1..(i - 1) : outs'[j] = outs[j] /\ ins'[j] = ins[j]
    BY <1>1, AppendProperties, LenProperties
  <1>3. \A j, in, out : Result(j, in, out)' <=> Result(j, in, out)
    BY DEF Result, Pipeline, ReadEnd, WriteEnd, Source, Destination, Count
  <1>4. ASSUME NEW j \in DOMAIN outs' PROVE Result(j, ins'[j], outs'[j])
    <2>1. CASE j = i
      BY <1>2, <2>1
    <2>2. CASE j # i
      <3>1. j \in DOMAIN outs /\ outs'[j] = outs[j] /\ ins'[j] = ins[j]
        BY <1>1, <1>2, <1>4, <2>2
      <3> QED
        BY <3>1 DEF ResultsOK
    <2> QED
      BY <2>1, <2>2
  <1>5. newlines' \subseteq {Destination'}
    BY DEF ResultsOK, Destination
  <1> QED
    BY <1>3, <1>4, <1>5 DEF ResultsOK

\* The results stay as they are.
LEMMA ResultsKept ==
    ASSUME ResultsOK, pc' # "child", UNCHANGED <<line, lines, ins, outs, newlines>>
    PROVE  ResultsOK'
  <1>1. \A j, in, out : Result(j, in, out)' <=> Result(j, in, out)
    BY DEF Result, Pipeline, ReadEnd, WriteEnd, Source, Destination, Count
  <1>2. newlines' \subseteq {Destination'}
    BY DEF ResultsOK, Destination
  <1> QED
    BY <1>1, <1>2 DEF ResultsOK

\* What a redirection makes of the descriptors: the file is opened as 3 and closed, what it
\* replaces is saved after that.
LEMMA RedirectedStreams ==
    ASSUME TypeOK, StreamsOK, RoomOK, Roomy, RedirectStart,
           \A d \in Fd : ~IsEnd(d)
    PROVE  StreamsOK' /\ RoomOK' /\ \A d \in Fd : ~IsEnd(d)'
  <1> DEFINE d == Lowest(Free(fds))
             first == LowestOrNone(Free(fds) \ {d})
             second == LowestOrNone(Free(fds) \ {d, first})
             file == Plain(IF line.redirect = "in" THEN "input" ELSE "file")
             save == [s \in 0..2 |-> CASE ~Redirects(s) -> 0
                                       [] s = 2 /\ Redirects(1) /\ Redirects(s) -> second
                                       [] OTHER -> first]
             held(x) == \E s \in 0..2 : Redirects(s) /\ save[s] = x
             stream(x) == CHOOSE s \in 0..2 : Redirects(s) /\ save[s] = x
  <1>1. /\ pc = "redirect" /\ line.redirect # "none" /\ pc' = "next" /\ UNCHANGED <<line, lines>>
        /\ original' = save /\ opened' = [s \in 0..2 |-> IF Redirects(s) THEN d ELSE 0]
        /\ fds' = [x \in Fd |->
                      CASE x = d -> Closed
                        [] x # d /\ x < 3 /\ Redirects(x) -> file
                        [] x # d /\ x > 2 /\ held(x) ->
                             IF stream(x) = d THEN file ELSE fds[stream(x)]
                        [] OTHER -> fds[x]]
    BY DEF RedirectStart
  <1>2. lines \in 1..MaxLines /\ Limit >= 2 * MaxLines + 4 /\ MaxLines \in Nat /\ Limit \in Nat
    BY <1>1, ConstantsOK DEF TypeOK, StreamsOK, Roomy
  <1>3. Kept = lines - 1 /\ Kept' = lines
    BY <1>1 DEF Kept
  <1>4. /\ \A x \in Fd : x = 3 \/ x > 1 + 2 * lines => fds[x] = Closed
        /\ \A s \in 0..2 : s \in Fd /\ fds[s] = Tty
    BY <1>1, <1>2, <1>3, ConstantsOK DEF RoomOK, StreamsOK
  <1>5. Free(fds) \subseteq Fd /\ \A x \in Fd : x \in Free(fds) <=> fds[x] = Closed
    BY DEF Free
  <1>6. /\ 3 \in Fd /\ 2 + 2 * lines \in Fd /\ 3 + 2 * lines \in Fd
        /\ \A x \in Fd : x \in Nat
    BY <1>2 DEF Fd
  <1>7. /\ 3 \in Free(fds) /\ 2 + 2 * lines \in Free(fds) /\ 3 + 2 * lines \in Free(fds)
        /\ 2 + 2 * lines > 3
    BY <1>2, <1>4, <1>5, <1>6
  <1>8. \A x \in Free(fds) : x \in Fd /\ x \in Nat /\ x > 2
    <2>1. ASSUME NEW x \in Free(fds) PROVE x \in Fd /\ x \in Nat /\ x > 2
      <3>1. x \in Fd /\ x \in Nat /\ fds[x] # Tty
        BY <1>5, <1>6, <2>1, FilesOK
      <3>2. x \notin 0..2
        BY <1>4, <3>1
      <3> QED
        BY <3>1, <3>2
    <2> QED
      BY <2>1
  <1>9. d = 3
    <2>1. d \in Free(fds) /\ \A x \in Free(fds) : d <= x
      BY <1>5, <1>7, LowestIsLeast
    <2> QED
      BY <1>7, <1>8, <2>1
  <1> HIDE DEF d
  <1>10. first \in Fd /\ first > 3 /\ first <= 2 + 2 * lines
    <2>1. 2 + 2 * lines \in Free(fds) \ {d}
      BY <1>7, <1>9
    <2>2. first \in Free(fds) \ {d} /\ \A x \in Free(fds) \ {d} : first <= x
      BY <1>5, <2>1, LowestIsLeast DEF LowestOrNone
    <2> HIDE DEF first
    <2> QED
      BY <1>2, <1>8, <1>9, <2>1, <2>2
  <1> HIDE DEF first
  <1>11. second \in Fd /\ second > 3 /\ second <= 3 + 2 * lines /\ second # first
    <2>1. 3 + 2 * lines \in Free(fds) \ {d, first}
      BY <1>2, <1>7, <1>9, <1>10
    <2>2. second \in Free(fds) \ {d, first} /\ \A x \in Free(fds) \ {d, first} : second <= x
      BY <1>5, <2>1, LowestIsLeast DEF LowestOrNone
    <2> QED
      BY <1>2, <1>8, <1>9, <2>1, <2>2
  <1> HIDE DEF second
  <1>12. /\ file = Plain("input") \/ file = Plain("file")
         /\ Redirects(0) => file = Source
         /\ Redirects(1) => file = Destination
         /\ ~Redirects(0) => Source = Tty
         /\ ~Redirects(1) => Destination = Tty
    <2>1. line.redirect \in {"none", "in", "out", "err", "outerr"}
      BY LineOK DEF TypeOK, Line
    <2> QED
      BY <1>1, <2>1, SMTT(30) DEF Redirects, Source, Destination, Tty
  <1>13. \A x \in Fd : held(x) => /\ stream(x) \in 0..2 /\ Redirects(stream(x))
                                  /\ save[stream(x)] = x
    OBVIOUS
  <1>14. \A s \in 0..2 : save[s] = CASE ~Redirects(s) -> 0
                                     [] s = 2 /\ Redirects(1) /\ Redirects(s) -> second
                                     [] OTHER -> first
    OBVIOUS
  <1>15. \A s \in 0..2 : Redirects(s) => held(save[s])
    OBVIOUS
  <1>16. \A s \in 0..2 : original'[s] = save[s] /\ opened'[s] = IF Redirects(s) THEN 3 ELSE 0
    BY <1>1, <1>9
  <1> HIDE DEF file, save, held, stream
  <1>17. \A s \in 0..2 : Redirects(s) => save[s] \in Fd /\ save[s] > 3 /\ save[s] <= 3 + 2 * lines
    BY <1>2, <1>6, <1>10, <1>11, <1>14
  <1>18. \A x \in Fd : fds'[x] = CASE x = 3 -> Closed
                                   [] x < 3 -> IF Redirects(x) THEN file ELSE fds[x]
                                   [] x > 3 -> IF held(x) THEN Tty ELSE fds[x]
    <2>1. \A x \in Fd : held(x) => fds[stream(x)] = Tty /\ stream(x) # 3
      BY <1>4, <1>13
    <2> QED
      BY <1>1, <1>6, <1>9, <2>1
  <1>19. fds'[0] = Source /\ fds'[1] = Destination
    BY <1>4, <1>12, <1>18
  <1>20. ASSUME NEW s \in 0..2
         PROVE  IF Saved(s)' THEN original'[s] > 3 /\ fds'[original'[s]] = Tty ELSE fds'[s] = Tty
    <2>1. CASE Redirects(s)
      <3>1. original'[s] = save[s] /\ save[s] > 3 /\ save[s] \in Fd /\ held(save[s])
            /\ opened'[s] = 3
        BY <1>15, <1>16, <1>17, <2>1
      <3>2. fds'[save[s]] = Tty
        BY <1>6, <1>18, <3>1
      <3> QED
        BY <3>1, <3>2 DEF Saved
    <2>2. CASE ~Redirects(s)
      <3>1. ~Saved(s)'
        BY <1>16, <2>2 DEF Saved
      <3>2. fds'[s] = Tty
        BY <1>4, <1>18, <2>2
      <3> QED
        BY <3>1, <3>2
    <2> QED
      BY <2>1, <2>2
  <1>21. StreamsOK'
    <2>1. Source' = Source /\ Destination' = Destination
      BY <1>1 DEF Source, Destination
    <2> QED
      BY <1>1, <1>19, <1>20, <2>1 DEF StreamsOK
  <1>22. RoomOK'
    <2>1. ASSUME NEW x \in Fd, x = 3 \/ x > 3 + 2 * lines PROVE fds'[x] = Closed
      <3>1. CASE x = 3
        BY <1>18, <3>1
      <3>2. CASE x > 3 + 2 * lines
        <4>1. ~held(x)
          BY <1>2, <1>6, <1>13, <1>17, <3>2
        <4>2. x > 3 /\ x > 1 + 2 * lines
          BY <1>2, <1>6, <3>2
        <4> QED
          BY <1>4, <1>18, <4>1, <4>2
      <3> QED
        BY <2>1, <3>1, <3>2
    <2> QED
      BY <1>3, <2>1 DEF RoomOK
  <1>23. ASSUME NEW x \in Fd PROVE ~IsEnd(x)'
    <2>1. fds'[x] \in {Closed, Plain("input"), Plain("file"), Tty, fds[x]}
      <3>1. x = 3 \/ x < 3 \/ x > 3
        BY <1>6
      <3> QED
        BY <1>12, <1>18, <3>1
    <2> QED
      BY <2>1 DEF IsEnd, Closed, Tty, Plain
  <1> QED
    BY <1>21, <1>22, <1>23

\* Nothing is entered yet.
LEMMA InitOK == ASSUME \A l \in Lines : Uniform(l), Init PROVE Inv
  <1>1. Typed
    BY TypedInit
  <1>2. /\ pc = "prompt" /\ lines = 0 /\ vm_output_fd = 0 /\ outs = <<>> /\ newlines = {}
        /\ fds = [d \in Fd |-> IF d < 3 THEN Tty ELSE Closed]
    BY DEF Init
  <1>3. \A d \in Fd : fds[d] = (IF d < 3 THEN Tty ELSE Closed) /\ ~IsEnd(d) /\ d \in Nat
    <2>1. \A d \in Fd : fds[d] = (IF d < 3 THEN Tty ELSE Closed) /\ d \in Nat
      BY <1>2 DEF Fd
    <2>2. \A d \in Fd : fds[d] = Tty \/ fds[d] = Closed
      BY <2>1
    <2> QED
      BY <2>1, <2>2 DEF IsEnd, Tty, Closed, Plain
  <1>4. ResultsOK
    <2>1. DOMAIN outs = {}
      BY <1>2
    <2> QED
      BY <1>2, <2>1 DEF ResultsOK
  <1>5. PipesOK
    BY <1>2, <1>3 DEF PipesOK, Reading, Writing, Passing
  <1>6. StreamsOK
    BY <1>2, <1>3, ConstantsOK DEF StreamsOK, Working
  <1>7. RoomOK
    <2>1. \A d \in Fd : d = 3 \/ d > 3 + 2 * 0 => fds[d] = Closed
      BY <1>3
    <2> QED
      BY <1>2, <2>1 DEF RoomOK, Kept
  <1>8. PositionOK /\ OutputFdOK
    BY <1>2 DEF PositionOK, OutputFdOK, AfterFirst, AfterOthers
  <1> QED
    BY <1>1, <1>4, <1>5, <1>6, <1>7, <1>8 DEF Inv, TableOK

\* A new line.
LEMMA EnterStep ==
    ASSUME Inv, NEW l \in Lines, Enter(l)
    PROVE  ResultsOK' /\ TableOK'
  <1>1. /\ pc = "prompt" /\ pc' = "redirect" /\ lines' = lines + 1 /\ i' = 1
        /\ command_position' = 0 /\ outs' = <<>> /\ newlines' = {}
        /\ opened' = [s \in 0..2 |-> 0]
        /\ UNCHANGED <<fds, vm_output_fd>> /\ TypeOK /\ TableOK
    BY DEF Enter, Inv, Typed
  <1>2. lines \in Nat
    BY <1>1, ConstantsOK DEF TypeOK
  <1>3. \A d \in Fd : ~IsEnd(d) /\ ~IsEnd(d)'
    BY <1>1 DEF TableOK, PipesOK, Reading, Writing, Passing, IsEnd
  <1>4. PipesOK'
    BY <1>1, <1>3 DEF PipesOK, Reading, Writing, Passing
  <1>5. StreamsOK'
    BY <1>1, <1>2 DEF TableOK, StreamsOK, Working
  <1>6. RoomOK'
    <2>1. Kept = lines /\ Kept' = lines
      BY <1>1, <1>2 DEF Kept
    <2> QED
      BY <1>1, <1>3, <2>1 DEF TableOK, RoomOK
  <1>7. PositionOK' /\ OutputFdOK'
    BY <1>1 DEF TableOK, PositionOK, OutputFdOK, AfterFirst, AfterOthers
  <1>8. ResultsOK'
    <2>1. DOMAIN outs' = {}
      BY <1>1
    <2> QED
      BY <1>1, <2>1 DEF ResultsOK
  <1> QED
    BY <1>4, <1>5, <1>6, <1>7, <1>8 DEF TableOK

\* The line has no redirection, or it cannot be made: nothing changes but pc.
LEMMA NoRedirectionStep ==
    ASSUME Inv, RedirectNone \/ RedirectFails
    PROVE  ResultsOK' /\ TableOK'
  <1>1. /\ pc = "redirect" /\ pc' \in {"next", "prompt"} /\ TypeOK /\ TableOK
        /\ UNCHANGED <<line, lines, i, command_position, table, redirection, ins, outs, newlines>>
        /\ pc' = "next" => line.redirect = "none"
    BY DEF RedirectNone, RedirectFails, Inv, Typed
  <1>2. lines \in Nat /\ i = 1
    BY <1>1, ConstantsOK DEF TypeOK, Inv, Typed, Progress
  <1>3. \A d \in Fd : ~IsEnd(d) /\ ~IsEnd(d)'
    BY <1>1 DEF TableOK, PipesOK, Reading, Writing, Passing, IsEnd, table
  <1>4. PipesOK'
    BY <1>1, <1>2, <1>3 DEF PipesOK, Reading, Writing, Passing
  <1>5. StreamsOK'
    <2>1. \A s \in 0..2 : fds'[s] = Tty /\ ~Saved(s)'
      BY <1>1 DEF TableOK, StreamsOK, Saved, table, redirection
    <2>2. pc' = "next" => Source' = Tty /\ Destination' = Tty
      BY <1>1 DEF Source, Destination, Tty
    <2>3. fds'[0] = Tty /\ fds'[1] = Tty
      BY <2>1
    <2> QED
      BY <1>1, <2>1, <2>2, <2>3 DEF StreamsOK, Working
  <1>6. RoomOK'
    <2>1. Kept = lines - 1 /\ Kept' = lines
      BY <1>1 DEF Kept
    <2>2. \A d \in Fd : d \in Nat
      BY DEF Fd
    <2>3. \A d \in Fd : d > 3 + 2 * lines => d > 3 + 2 * (lines - 1)
      BY <1>2, <2>2
    <2> QED
      BY <1>1, <1>3, <2>1, <2>3 DEF TableOK, RoomOK, table
  <1>7. PositionOK' /\ OutputFdOK'
    BY <1>1, <1>2 DEF TableOK, PositionOK, OutputFdOK, AfterFirst, AfterOthers, Pipeline, table
  <1>8. ResultsOK'
    BY <1>1, ResultsKept DEF Inv
  <1> QED
    BY <1>4, <1>5, <1>6, <1>7, <1>8 DEF TableOK

\* A redirection.
LEMMA RedirectStep ==
    ASSUME Inv, Roomy, RedirectStart
    PROVE  ResultsOK' /\ TableOK'
  <1>1. /\ pc = "redirect" /\ pc' = "next" /\ TypeOK /\ TableOK
        /\ UNCHANGED <<line, lines, i, command_position, vm_output_fd, ins, outs, newlines>>
    BY DEF RedirectStart, Inv, Typed
  <1>2. i = 1
    BY <1>1 DEF Inv, Typed, Progress
  <1>3. \A d \in Fd : ~IsEnd(d)
    BY <1>1 DEF TableOK, PipesOK, Reading, Writing, Passing
  <1>4. StreamsOK' /\ RoomOK' /\ \A d \in Fd : ~IsEnd(d)'
    BY <1>1, <1>3, RedirectedStreams DEF TableOK
  <1>5. PipesOK'
    BY <1>1, <1>2, <1>4 DEF PipesOK, Reading, Writing, Passing
  <1>6. PositionOK' /\ OutputFdOK'
    BY <1>1, <1>2 DEF TableOK, PositionOK, OutputFdOK, AfterFirst, AfterOthers, Pipeline
  <1>7. ResultsOK'
    BY <1>1, ResultsKept DEF Inv
  <1> QED
    BY <1>4, <1>5, <1>6, <1>7 DEF TableOK

\* pipe_start takes two descriptors that are free: one is where the command writes, the
\* other is kept for the next.
LEMMA PipeStartStep ==
    ASSUME Inv, Uniform(line), PipeStart
    PROVE  ResultsOK' /\ TableOK'
  <1> DEFINE r == Lowest(Free(fds))
             w == Lowest(Free(fds) \ {r})
             ends == [e \in {0, 1} |-> IF e = 0 THEN r ELSE w]
  <1>1. /\ pc = "next" /\ pc' = "run" /\ TypeOK /\ TableOK /\ Piped /\ i < Count
        /\ fds' = [fds EXCEPT ![r] = [type |-> "read", pipe |-> <<lines, i>>],
                              ![w] = [type |-> "write", pipe |-> <<lines, i>>]]
        /\ fd_one' = IF Odd THEN ends ELSE fd_one
        /\ fd_two' = IF Odd THEN fd_two ELSE ends
        /\ vm_output_fd' = w
        /\ UNCHANGED <<line, lines, i, command_position, redirection, child, ins, outs, newlines>>
    BY DEF PipeStart, PipeNeeded, Inv, Typed
  <1>2. r \in Free(fds) /\ w \in Free(fds) \ {r}
    <2>1. Free(fds) # {} /\ Free(fds) \ {r} # {}
      BY DEF PipeStart
    <2> QED
      BY <2>1, LowestIsLeast DEF Free
  <1>3. ends[0] = r /\ ends[1] = w
    OBVIOUS
  <1> HIDE DEF r, w, ends
  <1>4. /\ r \in Fd /\ w \in Fd /\ r # w /\ fds[r] = Closed /\ fds[w] = Closed
        /\ fds \in [Fd -> File]
    BY <1>1, <1>2 DEF Free, TypeOK
  <1>5. /\ Pipeline /\ Pipeline' /\ Count' = Count /\ Count > 1 /\ Count \in Nat
        /\ command_position = i - 1 /\ i \in 1..Count
    BY <1>1, ShapeOK DEF TableOK, PositionOK, Pipeline, Count
  <1>6. /\ fds'[r] = ReadEnd(i) /\ fds'[w] = WriteEnd(i)
        /\ \A d \in Fd \ {r, w} : fds'[d] = fds[d]
    BY <1>1, <1>4 DEF ReadEnd, WriteEnd
  <1>7. \A j : ReadEnd(j)' = ReadEnd(j) /\ WriteEnd(j)' = WriteEnd(j)
    BY <1>1 DEF ReadEnd, WriteEnd
  <1>8. MiddleInput' = MiddleInput /\ MiddleOutput' = w /\ NextInput' = r
    <2>1. Odd' <=> Odd
      BY <1>1 DEF Odd
    <2> QED
      BY <1>1, <1>3, <2>1 DEF MiddleInput, MiddleOutput, NextInput
  <1>9. Reading => MiddleInput \in Fd \ {r, w}
    <2>1. MiddleInput \in Fd
      BY <1>1, <1>5, TurnsOK
    <2>2. Reading => fds[MiddleInput].type = "read"
      BY <1>1, EndsOK DEF TableOK, PipesOK
    <2> QED
      BY <1>4, <2>1, <2>2, FilesOK
  <1>10. PipesOK'
    <2>1. Reading' <=> Reading
      BY <1>1, <1>5 DEF Reading
    <2>2. Reading => fds'[MiddleInput] = ReadEnd(i - 1)
      BY <1>1, <1>6, <1>9 DEF TableOK, PipesOK
    <2>3. Writing' /\ Passing'
      BY <1>1, <1>5 DEF Writing, Passing
    <2>4. ReadEnd(i - 1)' = ReadEnd(i - 1) /\ ReadEnd(i)' = ReadEnd(i) /\ WriteEnd(i)' = WriteEnd(i)
      BY <1>1 DEF ReadEnd, WriteEnd
    <2>5. \A d \in Fd : IsEnd(d)' => d = r \/ d = w \/ IsEnd(d)
      BY <1>6 DEF IsEnd
    <2>6. \A d \in Fd : IsEnd(d) => Reading /\ d = MiddleInput
      BY <1>1 DEF TableOK, PipesOK, Writing, Passing
    <2> QED
      BY <1>1, <1>6, <1>8, <2>1, <2>2, <2>3, <2>4, <2>5, <2>6 DEF PipesOK
  <1>11. StreamsOK' /\ RoomOK'
    <2>1. \A d \in Fd : IF IsEnd(d) \/ fds[d] = Closed THEN IsEnd(d)' \/ fds'[d] = Closed
                                                       ELSE fds'[d] = fds[d]
      <3>1. \A d \in {r, w} : IsEnd(d)'
        BY <1>1, <1>6, EndsOK DEF IsEnd
      <3>2. \A d \in Fd \ {r, w} : fds'[d] = fds[d] /\ (IsEnd(d)' <=> IsEnd(d))
        BY <1>6 DEF IsEnd
      <3>3. ~IsEnd(r) /\ ~IsEnd(w)
        BY <1>4, FilesOK DEF IsEnd
      <3> HIDE DEF IsEnd
      <3> QED
        BY <1>4, <3>1, <3>2, <3>3
    <2> QED
      BY <1>1, <2>1, StreamsKept DEF TableOK, Working
  <1>12. PositionOK' /\ OutputFdOK'
    BY <1>1, <1>5 DEF TableOK, PositionOK, OutputFdOK, AfterFirst, AfterOthers
  <1>13. ResultsOK'
    BY <1>1, ResultsKept DEF Inv
  <1> QED
    BY <1>10, <1>11, <1>12, <1>13 DEF TableOK

\* No pipe is needed.
LEMMA NoPipeStep ==
    ASSUME Inv, Uniform(line), NoPipe
    PROVE  ResultsOK' /\ TableOK'
  <1>1. /\ pc = "next" /\ pc' = "run" /\ TypeOK /\ TableOK /\ ~(Piped /\ i < Count)
        /\ UNCHANGED <<line, lines, i, command_position, table, redirection, child,
                       ins, outs, newlines>>
    BY DEF NoPipe, PipeNeeded, Inv, Typed
  <1>2. /\ Pipeline' <=> Pipeline
        /\ Count' = Count /\ Count \in Nat /\ i \in 1..Count /\ ~(Pipeline /\ i < Count)
    BY <1>1, ShapeOK DEF Pipeline, Count
  <1>3. MiddleInput' = MiddleInput /\ ReadEnd(i - 1)' = ReadEnd(i - 1)
    BY <1>1 DEF MiddleInput, Odd, ReadEnd, table
  <1>4. fds' = fds /\ \A d \in Fd : IsEnd(d)' <=> IsEnd(d)
    BY <1>1 DEF IsEnd, table
  <1>5. PipesOK'
    <2>1. (Reading' <=> Reading) /\ ~Writing' /\ ~Passing' /\ ~Writing /\ ~Passing
      BY <1>1, <1>2 DEF Reading, Writing, Passing
    <2> QED
      BY <1>1, <1>3, <1>4, <2>1 DEF TableOK, PipesOK
  <1>6. StreamsOK' /\ RoomOK'
    BY <1>1, <1>4, StreamsKept DEF TableOK, Working
  <1>7. PositionOK' /\ OutputFdOK'
    BY <1>1, <1>2 DEF TableOK, PositionOK, OutputFdOK, AfterFirst, AfterOthers, table
  <1>8. ResultsOK'
    BY <1>1, ResultsKept DEF Inv
  <1> QED
    BY <1>5, <1>6, <1>7, <1>8 DEF TableOK

\* A builtin of such a line has somewhere to write, and that is where its result should be.
LEMMA BuiltinResult ==
    ASSUME Inv, Uniform(line), pc = "run", ~IsProgram(Cmd),
           Writable(BuiltinOutput) \/ Cmd.kind = "echo" \/ Cmd.amount = 0
    PROVE  Result(i, Closed, BuiltinOutput)
  <1>1. TypeOK /\ PipesOK /\ StreamsOK /\ OutputFdOK
    BY DEF Inv, Typed, TableOK
  <1>2. /\ Count \in Nat \ {0} /\ i \in 1..Count /\ Cmd \in Command /\ line \in Line
        /\ Pipeline => Count > 1
    BY <1>1, ShapeOK, LineOK DEF TypeOK, Cmd, Count
  <1>3. ASSUME Pipeline, i < Count, Cmd.kind # "printer" PROVE BuiltinOutput = WriteEnd(i)
    BY <1>1, <1>3 DEF PipesOK, Writing, BuiltinOutput
  <1>4. ASSUME Cmd.amount > 0, ~(Pipeline /\ i < Count), BuiltinsFit(line)
        PROVE  BuiltinOutput = Destination
    <2>1. fds[1] = Destination /\ fds[0] = Source
      BY <1>1 DEF StreamsOK, Working
    <2>2. \/ Cmd.kind = "printer"
          \/ Pipeline /\ (i > 2 \/ Cmd.kind # "echo")
          \/ ~Pipeline /\ line.redirect \in {"none", "err"}
      BY <1>2, <1>4 DEF BuiltinsFit, Pipeline, Cmd, Count
    <2>3. CASE Cmd.kind = "printer"
      BY <2>1, <2>3 DEF BuiltinOutput
    <2>4. CASE Cmd.kind # "printer" /\ Pipeline
      <3>1. i = Count
        BY <1>2, <1>4, <2>4
      <3>2. i > 2
        <4>1. ASSUME i = 2 PROVE FALSE
          <5>1. BuiltinOutput = Closed
            BY <1>1, <2>4, <3>1, <4>1 DEF OutputFdOK, AfterFirst, BuiltinOutput
          <5>2. ~Writable(BuiltinOutput)
            BY <5>1, FilesOK DEF Writable
          <5>3. Cmd.kind = "echo" /\ Cmd.amount \in Nat
            BY <1>2, <1>4, <5>2 DEF Command
          <5> QED
            BY <2>2, <2>4, <4>1, <5>3
        <4> QED
          BY <1>2, <2>4, <3>1, <4>1
      <3>3. vm_output_fd = 1
        BY <1>1, <2>4, <3>1, <3>2 DEF OutputFdOK, AfterOthers
      <3> QED
        BY <2>1, <2>4, <3>3 DEF BuiltinOutput
    <2>5. CASE Cmd.kind # "printer" /\ ~Pipeline
      <3>1. vm_output_fd \in {0, 1}
        BY <1>1, <2>5 DEF OutputFdOK
      <3>2. line.redirect \in {"none", "err"}
        BY <2>2, <2>5
      <3>3. Source = Destination
        BY <3>2 DEF Source, Destination
      <3> QED
        BY <2>1, <2>5, <3>1, <3>3 DEF BuiltinOutput
    <2> QED
      BY <2>3, <2>4, <2>5
  <1> QED
    BY <1>3, <1>4 DEF Result, Cmd

\* What a command leaves of the descriptors when pipe_stop has closed its ends.
LEMMA StopKeepsStreams ==
    ASSUME TypeOK, TableOK, Uniform(line), pc = "run", pc' \in Working, PipeStop,
           UNCHANGED <<line, lines, redirection>>
    PROVE  StreamsOK' /\ RoomOK'
  <1>1. PipesOK /\ PositionOK /\ StreamsOK /\ RoomOK /\ pc \in Working
    BY DEF TableOK, Working
  <1>2. (~Pipeline => vm_output_fd \in {0, 1}) /\ (Pipeline /\ AfterOthers => vm_output_fd = 1)
    BY DEF TableOK, OutputFdOK
  <1>3. \A d \in Fd : fds'[d] = fds[d] \/ (IsEnd(d) /\ fds'[d] = Closed)
    BY <1>1, <1>2, PipeStopped
  <1>4. \A d \in Fd : IF IsEnd(d) \/ fds[d] = Closed THEN IsEnd(d)' \/ fds'[d] = Closed
                                                     ELSE fds'[d] = fds[d]
    BY <1>3 DEF IsEnd
  <1> QED
    BY <1>1, <1>4, StreamsKept

\* A builtin.
LEMMA RunBuiltinStep ==
    ASSUME Inv, Uniform(line), RunBuiltin
    PROVE  ResultsOK' /\ TableOK'
  <1>1. /\ pc = "run" /\ ~IsProgram(Cmd) /\ TypeOK /\ TableOK /\ Typed /\ ResultsOK
        /\ outs' = Append(outs, BuiltinOutput) /\ ins' = Append(ins, Closed)
        /\ PipeStop /\ Advance /\ UNCHANGED <<line, lines, redirection, child>>
        /\ Writable(BuiltinOutput) \/ Cmd.kind = "echo" \/ Cmd.amount = 0
    BY DEF RunBuiltin, Inv, Typed
  <1>2. pc' \in {"next", "stop"} /\ UNCHANGED <<fd_one, fd_two>>
    BY <1>1 DEF Advance, PipeStop
  <1>3. StreamsOK' /\ RoomOK'
    BY <1>1, <1>2, StopKeepsStreams DEF Working
  <1>4. PipesOK /\ PositionOK /\ (~Pipeline => vm_output_fd \in {0, 1})
        /\ (Pipeline /\ AfterOthers => vm_output_fd = 1)
    BY <1>1 DEF TableOK, OutputFdOK
  <1>5. /\ \A d \in Fd : IsEnd(d)' => Pipeline /\ i < Count /\ d = NextInput
        /\ Pipeline /\ i < Count => fds'[NextInput] = ReadEnd(i)
        /\ Pipeline /\ i = 1 => fds'[vm_output_fd'] = Closed
        /\ Pipeline /\ i > 1 => vm_output_fd' = 1
        /\ ~Pipeline => vm_output_fd' \in {0, 1}
    BY <1>1, <1>4, PipeStopped
  <1>6. PipesOK' /\ PositionOK' /\ OutputFdOK'
    BY <1>1, <1>2, <1>4, <1>5, AdvancePipes
  <1>7. BuiltinOutput \in File /\ Result(i, Closed, BuiltinOutput)
    BY <1>1, OutputOK, BuiltinResult
  <1>8. newlines' \subseteq newlines \union {Destination}
    BY <1>1 DEF RunBuiltin, EchoEnds, TableOK, StreamsOK, Working
  <1>9. ResultsOK'
    BY <1>1, <1>2, <1>7, <1>8, FilesOK, ResultAppended
  <1> QED
    BY <1>3, <1>6, <1>9 DEF TableOK

\* What the child of vm_run_foreground reads and writes is what the command should.
LEMMA ConnectedResult ==
    ASSUME Inv, Uniform(line), pc = "run", IsProgram(Cmd)
    PROVE  Result(i, Connected[0], Connected[1])
  <1>1. TypeOK /\ PipesOK /\ StreamsOK /\ PositionOK
    BY DEF Inv, Typed, TableOK
  <1>2. /\ Count \in Nat \ {0} /\ i \in 1..Count /\ (Piped <=> Pipeline)
        /\ fds \in [Fd -> File] /\ 0 \in Fd /\ 1 \in Fd
        /\ Pipeline => Count > 1
    BY <1>1, ShapeOK, ConstantsOK DEF TypeOK
  <1>3. fds[0] = Source /\ fds[1] = Destination
    BY <1>1 DEF StreamsOK, Working
  <1>4. CASE ~Pipeline
    <2>1. Connected = fds
      BY <1>2, <1>4 DEF Connected
    <2> QED
      BY <1>3, <1>4, <2>1 DEF Result
  <1>5. CASE Pipeline
    <2>1. command_position = i - 1
      BY <1>1, <1>5 DEF PositionOK
    <2>2. /\ AtFirst <=> i = 1
          /\ AtLast <=> i = Count
          /\ i = Count => LastInput = MiddleInput
          /\ i = 1 => fd_two[1] = MiddleOutput
          /\ MiddleInput \in Fd /\ MiddleOutput \in Fd
      BY <1>1, <1>5, <2>1, TurnsOK
    <2>3. i > 1 => fds[MiddleInput] = ReadEnd(i - 1) /\ fds[MiddleInput] # Closed
      BY <1>1, <1>5, EndsOK DEF PipesOK, Reading
    <2>4. i < Count => fds[MiddleOutput] = WriteEnd(i) /\ fds[MiddleOutput] # Closed
      BY <1>1, <1>5, EndsOK DEF PipesOK, Writing
    <2>5. CASE i = 1
      <3>1. i < Count
        BY <1>2, <1>5, <2>5
      <3>2. Connected = [fds EXCEPT ![1] = WriteEnd(i)]
        <4>1. Connected = Dup2(fds, MiddleOutput, 1)
          BY <1>2, <1>5, <2>2, <2>5 DEF Connected
        <4> QED
          BY <2>2, <2>4, <3>1, <4>1 DEF Dup2
      <3>3. Connected[0] = Source /\ Connected[1] = WriteEnd(i)
        BY <1>2, <1>3, <3>2
      <3> QED
        BY <1>5, <2>5, <3>1, <3>3 DEF Result
    <2>6. CASE i = Count /\ i > 1
      <3>1. Connected = [fds EXCEPT ![0] = ReadEnd(i - 1)]
        BY <1>2, <1>5, <2>2, <2>3, <2>6 DEF Connected, Dup2
      <3>2. Connected[0] = ReadEnd(i - 1) /\ Connected[1] = Destination
        BY <1>2, <1>3, <3>1
      <3> QED
        BY <1>2, <1>5, <2>6, <3>2 DEF Result
    <2>7. CASE i > 1 /\ i < Count
      <3>1. MiddleOutput # 0 /\ MiddleInput # 0
        BY <1>1, <1>3, <2>3, <2>4, <2>7, EndsOK
      <3>2. Dup2(fds, MiddleInput, 0) = [fds EXCEPT ![0] = ReadEnd(i - 1)]
        BY <2>2, <2>3, <2>7 DEF Dup2
      <3>3. [fds EXCEPT ![0] = ReadEnd(i - 1)][MiddleOutput] = WriteEnd(i)
        BY <1>2, <2>2, <2>4, <2>7, <3>1
      <3>4. Connected = [[fds EXCEPT ![0] = ReadEnd(i - 1)] EXCEPT ![1] = WriteEnd(i)]
        <4>1. Connected = Dup2(Dup2(fds, MiddleInput, 0), MiddleOutput, 1)
          BY <1>2, <1>5, <2>2, <2>7 DEF Connected
        <4>2. WriteEnd(i) # Closed
          BY <2>4, <2>7
        <4> QED
          BY <2>2, <3>2, <3>3, <4>1, <4>2 DEF Dup2
      <3>5. Connected[0] = ReadEnd(i - 1) /\ Connected[1] = WriteEnd(i)
        BY <1>2, <3>4
      <3> QED
        BY <1>5, <2>7, <3>5 DEF Result
    <2> QED
      BY <1>2, <2>5, <2>6, <2>7
  <1> QED
    BY <1>4, <1>5

\* A program is started.
LEMMA StartProgramStep ==
    ASSUME Inv, Uniform(line), StartProgram
    PROVE  ResultsOK' /\ TableOK'
  <1>1. /\ pc = "run" /\ pc' = "child" /\ IsProgram(Cmd) /\ TypeOK /\ TableOK /\ ResultsOK
        /\ child'.in = Connected[0] /\ child'.out = Connected[1] /\ PipeStop
        /\ UNCHANGED <<line, lines, i, command_position, redirection, ins, outs, newlines>>
    BY DEF StartProgram, Inv, Typed
  <1>2. UNCHANGED <<fd_one, fd_two>> /\ fds' = Close(fds, ToClose)
    BY <1>1 DEF PipeStop
  <1>3. StreamsOK' /\ RoomOK'
    BY <1>1, StopKeepsStreams DEF Working
  <1>4. PipesOK /\ PositionOK /\ (~Pipeline => vm_output_fd \in {0, 1})
        /\ (Pipeline /\ AfterOthers => vm_output_fd = 1)
    BY <1>1 DEF TableOK, OutputFdOK
  <1>5. /\ \A d \in Fd : IsEnd(d)' => Pipeline /\ i < Count /\ d = NextInput
        /\ Pipeline /\ i < Count => fds'[NextInput] = ReadEnd(i)
        /\ Pipeline /\ i = 1 => fds'[vm_output_fd'] = Closed
        /\ Pipeline /\ i > 1 => vm_output_fd' = 1
        /\ ~Pipeline => vm_output_fd' \in {0, 1}
    BY <1>1, <1>4, PipeStopped
  <1>6. /\ (Pipeline' <=> Pipeline) /\ Count' = Count /\ Count \in Nat /\ i \in 1..Count
        /\ NextInput' = NextInput /\ ReadEnd(i)' = ReadEnd(i)
    BY <1>1, <1>2, ShapeOK DEF Pipeline, Count, NextInput, Odd, ReadEnd
  <1>7. PipesOK'
    <2>1. ~Reading' /\ ~Writing' /\ (Passing' <=> Pipeline /\ i < Count)
      BY <1>1, <1>6 DEF Reading, Writing, Passing
    <2> QED
      BY <1>5, <1>6, <2>1 DEF PipesOK
  <1>8. PositionOK'
    BY <1>1, <1>6 DEF TableOK, PositionOK
  <1>9. OutputFdOK'
    <2>1. (AfterFirst' <=> i = 1) /\ (AfterOthers' <=> i > 1)
      BY <1>1 DEF AfterFirst, AfterOthers
    <2> QED
      BY <1>1, <1>5, <1>6, <2>1 DEF OutputFdOK
  <1>10. ResultsOK'
    <2>1. \A j, in, out : Result(j, in, out)' <=> Result(j, in, out)
      BY <1>1 DEF Result, Pipeline, ReadEnd, WriteEnd, Source, Destination, Count
    <2>2. Result(i, child'.in, child'.out)
      BY <1>1, ConnectedResult
    <2>3. \A j \in DOMAIN outs : Result(j, ins[j], outs[j])
      BY <1>1 DEF ResultsOK
    <2>4. Cmd' = Cmd
      BY <1>1 DEF Cmd
    <2>5. newlines' \subseteq {Destination'}
      BY <1>1 DEF ResultsOK, Destination
    <2> QED
      BY <1>1, <2>1, <2>2, <2>3, <2>4, <2>5 DEF ResultsOK
  <1> QED
    BY <1>3, <1>7, <1>8, <1>9, <1>10 DEF TableOK

\* A program ends: the descriptors are as pipe_stop left them.
LEMMA ProgramEndsStep ==
    ASSUME Inv, Uniform(line), ProgramEnds
    PROVE  ResultsOK' /\ TableOK'
  <1>1. /\ pc = "child" /\ TypeOK /\ Typed /\ TableOK /\ ResultsOK /\ Advance
        /\ ins' = Append(ins, child.in) /\ outs' = Append(outs, child.out)
        /\ UNCHANGED <<line, lines, table, redirection, newlines>>
    BY DEF ProgramEnds, Inv, Typed
  <1>2. /\ pc' \in {"next", "stop"}
        /\ UNCHANGED <<fds, fd_one, fd_two, vm_output_fd>>
    BY <1>1 DEF Advance, table
  <1>3. /\ \A d \in Fd : IsEnd(d) => Pipeline /\ i < Count /\ d = NextInput
        /\ Pipeline /\ i < Count => fds[NextInput] = ReadEnd(i)
    BY <1>1 DEF TableOK, PipesOK, Reading, Writing, Passing
  <1>4. /\ Pipeline /\ i = 1 => fds[vm_output_fd] = Closed
        /\ Pipeline /\ i > 1 => vm_output_fd = 1
        /\ ~Pipeline => vm_output_fd \in {0, 1}
    BY <1>1 DEF TableOK, OutputFdOK, AfterFirst, AfterOthers
  <1>5. \A d \in Fd : IsEnd(d)' <=> IsEnd(d)
    BY <1>2 DEF IsEnd
  <1>6. PipesOK' /\ PositionOK' /\ OutputFdOK'
    <2>1. PositionOK
      BY <1>1 DEF TableOK
    <2> QED
      BY <1>1, <1>2, <1>3, <1>4, <1>5, <2>1, AdvancePipes
  <1>7. StreamsOK' /\ RoomOK'
    BY <1>1, <1>2, <1>5, StreamsKept DEF TableOK, Working
  <1>8. ResultsOK'
    <2>1. child.in \in File /\ child.out \in File
      BY <1>1 DEF TypeOK
    <2>2. Result(i, child.in, child.out)
      BY <1>1 DEF ResultsOK
    <2> QED
      BY <1>1, <1>2, <2>1, <2>2, ResultAppended
  <1> QED
    BY <1>6, <1>7, <1>8 DEF TableOK

\* A background program is started where the shell reads and writes.
LEMMA RunBackgroundStep ==
    ASSUME Inv, Uniform(line), RunBackground
    PROVE  ResultsOK' /\ TableOK'
  <1>1. /\ pc = "run" /\ TypeOK /\ Typed /\ TableOK /\ ResultsOK /\ Advance /\ line.background
        /\ ins' = Append(ins, fds[0]) /\ outs' = Append(outs, fds[1])
        /\ UNCHANGED <<line, lines, table, redirection, child, newlines>>
    BY DEF RunBackground, Inv, Typed
  <1>2. /\ pc' \in {"next", "stop"}
        /\ UNCHANGED <<fds, fd_one, fd_two, vm_output_fd>>
    BY <1>1 DEF Advance, table
  <1>3. ~Pipeline
    BY <1>1, ShapeOK
  <1>4. \A d \in Fd : ~IsEnd(d) /\ ~IsEnd(d)'
    BY <1>1, <1>2, <1>3 DEF TableOK, PipesOK, Reading, Writing, Passing, IsEnd
  <1>5. vm_output_fd \in {0, 1}
    BY <1>1, <1>3 DEF TableOK, OutputFdOK
  <1>6. PipesOK' /\ PositionOK' /\ OutputFdOK'
    <2>1. PositionOK
      BY <1>1 DEF TableOK
    <2> QED
      BY <1>1, <1>2, <1>3, <1>4, <1>5, <2>1, AdvancePipes
  <1>7. StreamsOK' /\ RoomOK'
    BY <1>1, <1>2, <1>4, StreamsKept DEF TableOK, Working
  <1>8. ResultsOK'
    <2>1. fds[0] = Source /\ fds[1] = Destination
      BY <1>1 DEF TableOK, StreamsOK, Working
    <2>2. fds[0] \in File /\ fds[1] \in File
      BY <1>1, ConstantsOK DEF TypeOK
    <2>3. Result(i, fds[0], fds[1])
      BY <1>3, <2>1 DEF Result
    <2> QED
      BY <1>1, <1>2, <2>2, <2>3, ResultAppended
  <1> QED
    BY <1>6, <1>7, <1>8 DEF TableOK

\* The end of a line: what was saved is put back.
LEMMA RedirectStopStep ==
    ASSUME Inv, RedirectStop
    PROVE  ResultsOK' /\ TableOK'
  <1>1. /\ pc = "stop" /\ pc' = "prompt" /\ TypeOK /\ TableOK /\ ResultsOK
        /\ \A x \in Fd : fds'[x] = IF x < 3 /\ Saved(x) THEN fds[original[x]] ELSE fds[x]
        /\ UNCHANGED <<line, lines, i, command_position, vm_output_fd, ins, outs, newlines>>
    BY DEF RedirectStop, Inv, Typed, Restored
  <1>2. \A x \in Fd : x \in Nat /\ (x < 3 <=> x \in 0..2)
    BY DEF Fd
  <1>3. \A s \in 0..2 : s \in Fd /\ fds'[s] = Tty
    BY <1>1, <1>2, ConstantsOK DEF TableOK, StreamsOK, Working
  <1>4. \A d \in Fd : ~IsEnd(d)
    BY <1>1 DEF TableOK, PipesOK, Reading, Writing, Passing
  <1>5. \A d \in Fd : d \notin 0..2 => fds'[d] = fds[d]
    BY <1>1, <1>2
  <1>6. \A d \in Fd : ~IsEnd(d)'
    BY <1>3, <1>4, <1>5, FilesOK DEF IsEnd
  <1>7. PipesOK'
    BY <1>1, <1>6 DEF PipesOK, Reading, Writing, Passing
  <1>8. StreamsOK'
    BY <1>1, <1>3 DEF StreamsOK, Working
  <1>9. RoomOK'
    <2>1. Kept = lines /\ Kept' = lines /\ lines \in Nat
      BY <1>1, ConstantsOK DEF Kept, TypeOK
    <2>2. \A d \in Fd : d = 3 \/ d > 3 + 2 * lines => d \notin 0..2
      BY <1>2, <2>1
    <2> QED
      BY <1>1, <1>4, <1>5, <2>1, <2>2 DEF TableOK, RoomOK
  <1>10. PositionOK' /\ OutputFdOK'
    BY <1>1 DEF TableOK, PositionOK, OutputFdOK, AfterFirst, AfterOthers
  <1>11. ResultsOK'
    BY <1>1, ResultsKept
  <1> QED
    BY <1>7, <1>8, <1>9, <1>10, <1>11 DEF TableOK

LEMMA NextOK ==
    ASSUME \A l \in Lines : Uniform(l), Roomy, Inv, [Next]_vars
    PROVE  Inv'
  <1>1. Typed'
    BY TypedNext DEF Inv
  <1>2. Uniform(line)
    BY DEF Inv, Typed, TypeOK
  <1>3. ASSUME NEW l \in Lines, Enter(l) PROVE Inv'
    BY <1>1, <1>3, EnterStep DEF Inv
  <1>4. CASE RedirectNone \/ RedirectFails
    BY <1>1, <1>4, NoRedirectionStep DEF Inv
  <1>5. CASE RedirectStart
    BY <1>1, <1>5, RedirectStep DEF Inv
  <1>6. CASE PipeStart
    BY <1>1, <1>2, <1>6, PipeStartStep DEF Inv
  <1>7. CASE NoPipe
    BY <1>1, <1>2, <1>7, NoPipeStep DEF Inv
  <1>8. CASE RunBuiltin
    BY <1>1, <1>2, <1>8, RunBuiltinStep DEF Inv
  <1>9. CASE StartProgram
    BY <1>1, <1>2, <1>9, StartProgramStep DEF Inv
  <1>10. CASE ProgramEnds
    BY <1>1, <1>2, <1>10, ProgramEndsStep DEF Inv
  <1>11. CASE RunBackground
    BY <1>1, <1>2, <1>11, RunBackgroundStep DEF Inv
  <1>12. CASE RedirectStop
    BY <1>1, <1>12, RedirectStopStep DEF Inv
  <1>13. CASE PipeFails \/ BuiltinWriteFails
    <2>1. pc' = "over" /\ UNCHANGED <<line, lines, ins, outs, newlines>>
      BY <1>13 DEF PipeFails, BuiltinWriteFails
    <2> QED
      BY <1>1, <2>1, ResultsKept DEF Inv
  <1>14. CASE Over \/ UNCHANGED vars
    <2>1. UNCHANGED vars
      BY <1>14 DEF Over
    <2>2. UNCHANGED <<pc, line, lines, i, command_position, fds, fd_one, fd_two, vm_output_fd,
                      opened, original, child, ins, outs, newlines>>
      BY <2>1 DEF vars, table, redirection
    <2>3. ResultsOK' <=> ResultsOK
      BY <2>2 DEF ResultsOK, Result, Pipeline, ReadEnd, WriteEnd, Source, Destination, Count, Cmd
    <2>4. (PipesOK' <=> PipesOK) /\ (PositionOK' <=> PositionOK) /\ (OutputFdOK' <=> OutputFdOK)
      BY <2>2 DEF PipesOK, PositionOK, OutputFdOK, Reading, Writing, Passing, Pipeline, Count,
                  MiddleInput, MiddleOutput, NextInput, Odd, ReadEnd, WriteEnd, IsEnd,
                  AfterFirst, AfterOthers
    <2>5. (StreamsOK' <=> StreamsOK) /\ (RoomOK' <=> RoomOK)
      BY <2>2 DEF StreamsOK, RoomOK, Source, Destination, Saved, Kept, IsEnd
    <2> QED
      BY <1>1, <2>2, <2>3, <2>4, <2>5 DEF Inv, TableOK
  <1> QED
    BY <1>3, <1>4, <1>5, <1>6, <1>7, <1>8, <1>9, <1>10, <1>11, <1>12, <1>13, <1>14 DEF Next, Run

\* The invariant holds when the lines are of these shapes and the table has room.
THEOREM Invariance ==
    ASSUME \A l \in Lines : Uniform(l), Roomy
    PROVE  Spec => []Inv
  <1>1. Init => Inv
    BY InitOK
  <1>2. Inv /\ [Next]_vars => Inv'
    BY NextOK
  <1> QED
    BY <1>1, <1>2, PTL DEF Spec

\* Whatever is redirected, piped or put in the background, and whether or not the calls
\* succeed, the shell asks for the next line with its three streams on the terminal
\* (redirection_stop_if_needed).
THEOREM StreamsAreRestored ==
    ASSUME \A l \in Lines : Uniform(l), Roomy
    PROVE  Spec => []StreamsRestored
  <1>1. Inv => StreamsRestored
    BY DEF Inv, TableOK, StreamsOK, StreamsRestored
  <1> QED
    BY <1>1, Invariance, PTL

\* pipe_stop closes every end that pipe_start opened: none is left when the next line is
\* read, however long the pipeline was and whatever ran in it.
THEOREM PipesAreClosed ==
    ASSUME \A l \in Lines : Uniform(l), Roomy
    PROVE  Spec => []NoPipeLeftOpen
  <1>1. Inv => NoPipeLeftOpen
    BY DEF Inv, TableOK, PipesOK, Reading, Writing, Passing, IsEnd, NoPipeLeftOpen
  <1> QED
    BY <1>1, Invariance, PTL

LEMMA ResultsConnect ==
    ASSUME Inv, Uniform(line), PrintersFit(line)
    PROVE  PipesConnect
  <1>1. /\ Typed /\ TypeOK /\ Count \in Nat /\ DOMAIN outs = 1..Len(outs) /\ Len(outs) \in Nat
        /\ Len(outs) <= Count
    <2>1. Typed /\ TypeOK
      BY DEF Inv, Typed
    <2> QED
      BY <2>1, ShapeOK, LenProperties DEF TypeOK
  <1>2. ASSUME NEW j \in DOMAIN outs \ {1}, IsPipe(j), IsProgram(line.cmds[j])
        PROVE  ins[j] = ReadEnd(j - 1) /\ outs[j - 1] = WriteEnd(j - 1)
    <2>1. j \in 2..Count /\ j - 1 \in DOMAIN outs /\ j - 1 < Count
      BY <1>1, <1>2
    <2>2. Pipeline
      BY <1>1, <1>2, <2>1, ShapeOK
    <2>3. line.cmds[j - 1].kind # "printer"
      BY <1>2, <2>1, <2>2 DEF PrintersFit, Pipeline, Count
    <2>4. Result(j, ins[j], outs[j]) /\ Result(j - 1, ins[j - 1], outs[j - 1])
      BY <1>2, <2>1 DEF Inv, ResultsOK
    <2>5. outs[j - 1] = WriteEnd(j - 1)
      BY <2>1, <2>2, <2>3, <2>4 DEF Result
    <2>6. ins[j] = ReadEnd(j - 1)
      BY <1>1, <1>2, <2>1, <2>2, <2>4 DEF Result
    <2> QED
      BY <2>5, <2>6
  <1>3. \A k : WriteEnd(k).type = "write" /\ ReadEnd(k).type = "read"
               /\ ReadEnd(k).pipe = WriteEnd(k).pipe
    BY DEF ReadEnd, WriteEnd
  <1> QED
    BY <1>2, <1>3 DEF PipesConnect, Ran

\* In a pipeline of any length a program reads the pipe that the command before it wrote
\* to: pipe_start, pipe_connect and pipe_stop, which share two pairs of descriptors, agree
\* at every command.
THEOREM PipelinesConnect ==
    ASSUME \A l \in Lines : Uniform(l) /\ PrintersFit(l), Roomy
    PROVE  Spec => []PipesConnect
  <1>1. Inv => PipesConnect
    BY ResultsConnect DEF Inv, Typed, TypeOK
  <1>2. \A l \in Lines : Uniform(l)
    OBVIOUS
  <1>3. Spec => []Inv
    BY <1>2, Invariance
  <1> QED
    BY <1>1, <1>3, PTL

LEMMA ResultsObey ==
    ASSUME Inv, Uniform(line), BuiltinsFit(line)
    PROVE  LineIsObeyed
  <1>1. /\ Typed /\ TypeOK /\ Count \in Nat /\ DOMAIN outs = 1..Len(outs) /\ Len(outs) \in Nat
        /\ Len(outs) <= Count
    <2>1. Typed /\ TypeOK
      BY DEF Inv, Typed
    <2> QED
      BY <2>1, ShapeOK, LenProperties DEF TypeOK
  <1>2. ASSUME NEW j \in DOMAIN outs
        PROVE  /\ IsProgram(line.cmds[j]) /\ ~IsPipe(j) => ins[j] = Source
               /\ line.cmds[j].amount > 0 /\ ~(j < Count /\ IsPipe(j + 1)) => outs[j] = Destination
    <2>1. Result(j, ins[j], outs[j]) /\ j \in 1..Count
      BY <1>1, <1>2 DEF Inv, ResultsOK
    <2>2. (IsPipe(j) <=> Pipeline /\ j # 1) /\ (j < Count => (IsPipe(j + 1) <=> Pipeline))
      <3>1. j < Count => j + 1 \in 1..Count /\ j + 1 # 1
        BY <1>1, <2>1
      <3> QED
        BY <1>1, <2>1, <3>1, ShapeOK
    <2>3. ~IsPipe(j) => ~(Pipeline /\ j > 1)
      BY <1>1, <2>1, <2>2
    <2> QED
      BY <2>1, <2>2, <2>3 DEF Result
  <1> QED
    BY <1>2 DEF LineIsObeyed, Ran, Inv, ResultsOK

\* What is not piped reads and writes where the line says, in lists and at both ends of
\* pipelines of any length, redirected or not.
THEOREM LinesAreObeyed ==
    ASSUME \A l \in Lines : Uniform(l) /\ BuiltinsFit(l), Roomy
    PROVE  Spec => []LineIsObeyed
  <1>1. Inv => LineIsObeyed
    BY ResultsObey DEF Inv, Typed, TypeOK
  <1>2. \A l \in Lines : Uniform(l)
    OBVIOUS
  <1>3. Spec => []Inv
    BY <1>2, Invariance
  <1> QED
    BY <1>1, <1>3, PTL
=============================================================================
