# A TLA+ model of ncsh

ncsh is an interactive Unix shell. This directory models the parts of it that
decide *what runs, when, with which terminal and descriptors, and what is left
behind*, checks them with TLC on small instances, and proves what matters most
for every instance with TLAPS. Paths are relative to the repository; line
numbers are in `PROJECT.json`.

    tlc -config MCStreams.cfg MCStreams.tla      # a run
    tlapm BackgroundJobsProofs.tla               # the proofs of a module

## 1. The system

A line goes through `main.c` (read with bestline) -> `interpreter.c` -> `lex.c` ->
`parse.c` -> `vm.c`, which calls `expand.c`, `builtins.c`, `pipe.c`,
`redirection.c` and the kernel. There are no threads: what makes it hard is the
kernel beside it (children, signals, terminal, descriptors), and the state that
outlives a line.

| Component | State it keeps | Operations | Interacts with | Hard part | What makes it correct |
|---|---|---|---|---|---|
| Foreground jobs, signals (`vm.c`, `signals.h`) | `vm_child_pid`, signal mask; in the kernel: terminal group, process groups, pending signals | `vm_run_foreground`, `vm_waitpid`, `signal_handler`, `signal_init`, `signal_reset` | kernel, child, terminal driver | a key, a signal, a death or the child's own step between any two system calls | the shell has the terminal at the prompt, the job while it runs; no child is left; Ctrl+C ends the job, never the shell |
| Background jobs (`vm.c`, `types.h`) | `Processes`: `job_number`, `pids` | `vm_run_background`, `vm_check_background`, guard in `vm_execute` | kernel, main loop | deaths in any order; a counter used as a slot | the counter is right, ended jobs are reported, live ones recorded |
| Virtual machine (`vm.c`) | `Vm_Data`: state, current statement and command, status, end | `vm_next` and its branches, `vm_run` | parser's graph, all that executes | which branch follows from statement, state, status and connective, case by case | it runs the commands the language says, to the end of the program, once |
| Pipes and redirections (`pipe.c`, `redirection.c`, `vm.c`) | `pipes_io`, the redirect structures, `vm_output_fd`, the descriptor table | start, connect and stop of both | children (inherit descriptors), builtins | two pairs of descriptors reused by parity; who still holds a write end; full pipes | each command reads and writes where the line says; all is put back; the line ends |
| Parser (`parse.c`, `parse.h`) | statements, command buffers in the arena | `parse` and one function per token | lexer, VM | control structures as a linked graph; buffers that grow | the graph the VM expects; no write past a buffer |
| Lexer (`lex.c`) | 128 tokens, one buffer | `lex` | parser | limits | no token lost below the limit |
| Expansion, math (`expand.c`, `vm_math.c`) | none of their own | `expand_*`, `vm_math_*` | variables, aliases | text; precedence | the value the language says |
| Builtins (`builtins.c`) | the mask of disabled builtins | `builtins_check_and_run`, one function each | every table below | `longjmp` out of a failed write | a disabled builtin is a program; output goes where the line says |
| Line editor (`io/bestline.c`) | the line, the cursor, the mark, the kill ring, the place in the history, the search | forty keys | history, `main.c`'s completion callback | every key computes byte positions of its own; the line and the history write into each other | the cursor is in the line, runes stay whole, Ctrl-G and Ctrl-Y undo what they say, the history keeps its entries |
| History (`io/bestline.c`, `main.c`, `io/hashset.c`) | an array, its file | add, remove, clean, load, save | all of a user's shells, the trie | several shells truncate and write one file; lengths from before a clean | what was saved is loaded; a clean keeps one of each, in order |
| Completion (`io/ac.c`) | a trie with weights | `ac_add`, `ac_first`, `ac_get` | `main.c`, history | weights, order, the number of matches looked at | what was entered is proposed, the most used first |
| z (`z/z.c`, `z/fzf.c`) | entries with rank and time; a file | `z`, `z_add`, `z_remove`, load, write | builtins, exit | the file is truncated and rewritten by every shell that exits, and may be cut short | what was saved is loaded; every entry can be used; the jump goes to the best |
| Tables, arena (`arena.c`, `vars.c`, `env.c`, `alias.c`) | open-addressing tables, two bump allocators, the alias table | add, find, grow, delete | everything | full tables, keys in memory that is reused, what is never given back | a table is a map as long as the shell lives |
| Configuration (`conf.c`), prompt (`io/prompt.c`) | paths, aliases, `PATH` | read once at start; format | env, aliases, both arenas | | |

## 2. What is modelled

| Module | Models | State and actions in terms of the code |
|---|---|---|
| `JobTerminal` | abstract promise of a foreground job | accept, spawn, lend, bury, reclaim, finish |
| `ForegroundJob` | `vm_run_foreground`, `vm_waitpid`, `signals.h`, and the kernel's side of them | one action per system call of parent (`BlockSignals` .. `RestoreMask`) and child (`ChildUnmask`, `ChildGroup`, `ChildReset`); `Key`, `TermShell`, `ChildStop` and `ChildContinue` come from outside. `pc` is the parent's next call, `stage[p]` the child's |
| `BackgroundJobs` | `Processes` and its three users | `Execute` is the guard, `Report`/`CheckDone` one turn and the end of the loop over `waitpid`, `Start`/`Record` the two halves of `vm_run_background`; `JobEnds` may fall anywhere |
| `ShellLanguage` | what control structures mean, without any of the code's machinery | `NextCommand` |
| `Vm` | the statement graph of `parse.c` (`Parse`), `vm_next_if/while/for/normal`, the loop of `vm_run`, the status it returns | one action per branch of the code; `Execute` is the rest of the loop. `item` is what a for-each's variable is bound to (`Bound`: `handle_init_assignment`), `seen` the items the block ran with |
| `Streams` | `pipe.c`, `redirection.c`, `vm_output_fd` and vm_run's calls to them | `fds` is the shell's descriptor table; a program's ends are computed at its fork (`StartProgram`), as is whether its input can end; `newlines` is where echo's last newline goes, which is stdout and not `vm_output_fd` (`EchoEnds`) |
| `ZDatabase` | `z/z.c` in several shells over one file | `dirs`, `count` are `z_Database` per shell; `file` is the header and the entries. `Start` is `z_init`; `Add`, `Remove`, `JumpToMatch`, `JumpToTarget` the builtin, `ChangeDirectory` what of it (home, `.`, `..`) and of `cd` only moves the shell; `JumpDies` the search that meets an entry without a path, which a file that was cut short leaves and `z_match_find` dereferences; `Truncate`, `Flush`, `Close` the saving, one write at a time. `Kill`, `RemoveDirectory` and `TimePasses` come from outside |
| `LineBuffer` | what each editing key makes of the line | pure functions on `bestlineState`; a byte is a value, a rune a sequence of them |
| `Editor` | `bestlineEdit`, `bestlineSearch`, completion, the kill ring, the history under the cursor | one action per kind of key; `Begin` is the start of `bestlineEdit`, `Submit` its return and the `bestlineHistoryAdd` of `main.c`. The end of the input is a return on a line that is not empty (`Submit`) and Ctrl-D on an empty one (`EndOfFile`) |
| `HashSet` | `io/hashset.c` | functions on a table; any hash function (`HashIndex`) |
| `History` | `bl_history` and its file, `history_clean`, `history_remove`, the trie of `io/ac.c`, start and exit of `main.c` | two steps for each save (`fopen`, `fclose`), so that other shells and a kill come between; `Cleaned` is the reload, `Ran` what `main` does after a command. A load cuts carriage returns off each line (`Trimmed`), and `ac_add` passes over what is longer than `NCSH_MAX_INPUT` (`Fits`, `MaxInput`) |
| `Recursion` | nothing of the code: induction and recursion, in a form that the proofs about recursive functions can cite | |
| `LineLanguage` | what a line of simple commands means and how it is written, without any of the code's machinery | `Enter`, `Run`; `Again`, the second run of a command whose failure ends the list, is this shell's and not the language's: it is stated so that nothing else runs twice |
| `Lexer` | `lex.c` | a fold over the characters of a line, one operator per case of its switch |
| `LineParser` | `parse_token` for simple commands, quotes, assignments, expressions, `&&` | a fold over the tokens |
| `Session` | the main loop over `expand.c`, `vm_math.c`, `vars.c`, `alias.c`, `builtins_echo`, `builtins_alias`, `conf.c`, both arenas | `StartUp`, `PromptGet`, `Enter` (lex and parse), `VmRun` (one turn of `vm_run`: expand and run, `turns` of them, `end` once the list has given up), `Record`; `StartFails` and `NoDirectory` are the ends of a shell whose `init` or `getcwd` fails. Refines `LineLanguage` through the substitution at `Language` |

`ForegroundJobProofs`, `BackgroundJobsProofs`, `VmProofs`, `StreamsProofs`,
`ZDatabaseProofs`, `HistoryProofs` and `EditorProofs` extend the module they are named
after with its inductive invariant, lemmas and theorems (section 5).

Every action is the whole handler it names. Mutated definitions stand before the
definition they are mutants of and say so; no specification uses them. The
modules meet at `vm_run`: `Vm` leaves out what a command does, `Streams` takes
lists whose commands succeed, `ForegroundJob` and `BackgroundJobs` take one
command. `Session` has the text of a line and no processes, `Vm` the structures
and no text. `Editor` is one shell's keys, `History` several shells' entries; both
have `bestlineHistoryAdd`, which is where they meet. The noninteractive shell is in `ForegroundJob` (`interactive = FALSE`)
because it runs the same functions without `signal_init`; the properties about
Ctrl+C are about the interactive one (README.md:185 lists noninteractive mode as
something to fix).

## 3. What is checked

Passing runs:

| Run | Bounds, and why they are enough | Shows |
|---|---|---|
| `MCForegroundJob` | two pids, so that a pid is used again after it was reaped; both modes, both kinds of stdin; keys, TERMs and stops are unbounded | **JobOwnsTerminal, PromptOwnsTerminal**: the double `setpgid` and the two `tcsetpgrp` always work, with a dead child too. **NoJobLeftBehind**, **ShellShielded**. **CommandReturns**, **InterruptEndsJob** (liveness). **JobTerminalSpec**: refinement |
| `MCBackgroundJobs` | three pids and two slots: starts, deaths and reports in all orders, and a full table | **CountsJobs** even where the table overflows; **EndedJobsAreReported** (liveness) |
| `MCVm` | every control structure; up to 3 conditions or commands in a list (first, middle, last), up to two elifs (one followed by another), up to two items; statuses 0 and 1, and exit, from every command | **FollowsLanguage**: each command that runs is the one the language says; **StopsAtEnd**, **EndsWithProgram**; **EachItemOnce**: the block of a for-each runs once for each item, in order, with the variable bound to it, and the loop ends only after the last |
| `MCStreams` | 154 lines, two in a row so that the second meets what the first left: pipelines of 1 to 6 commands (both parities; first, middle and last), every kind of command before a \|, every redirection, && lists, a background job; 12 descriptors; `Positions` = 6 in place of 256 | **PipesConnect**, **LineIsObeyed**, **StreamsRestored**, **NoPipeLeftOpen**, **LineEnds** |
| `MCZDatabase` | two shells, four directories and one path of nothing, a file of three entries (one of them of nothing) and four slots, so that removal shifts, the limit is met and a later start meets a full file; two items per write, so that a save has several; two commands, one step of time, one fault | **RoundTrip**: what a whole exit saved is what the next start loads; **EntriesHavePaths**; **ListedOnce**: no command lists a directory again, unless a jump passes over a match that is not there (then it does: only `z add` looks; and two shells saving at once can leave a file that lists one twice); **JumpGoesToBest** |
| `MCEditor` | five keys of the 38 in every order: a kill, a move, a yank and a rotation fit, as do a search, two steps of it and its end; runes of one and two bytes, brackets, a first buffer of 2 bytes (so that it grows and is met exactly full), a ring of 2, a history of 3 that is full after one command | **CursorInLine**, **RunesWhole**, **HistoryKept**, **CancelRestores**, **YankUndoesKill** |
| `MCHistory` | two shells, two commands, one kill; lines that go on from each other, one of two lines; a file that ends a line in a carriage return and has one too long for the trie; all keys collide, the table grows from 2; five entries at most | **ReloadsWhatWasSaved**, **CleanKeepsOneOfEach**, **HistoryIsCompleted**, **ProposesMostUsed** |
| `MCSession` | four lines in a row out of fifteen, with quotes, variables, `~`, a pattern, aliases (one of `.ncshrc`), assignments, expressions, a failure and a comment; tables and arenas that do not run out; three aliases, which two lines reach | **LineIsDone**: `Session` implements `LineLanguage` - each command is run in order and once, but for one whose failure ends its list, which is run exactly once more - and every line that is entered ends |

`Careful` in `Editor` and `Session` is the user's: the keys or lines that do
*not* do what they say are excluded one by one, in `Uses` and `Clear`, each with
the line of code that gets it wrong. Every one of these conditions was seen to
matter: without it the run's properties fail. (In `Uses`: return in a paste,
completion and Ctrl-T at the wrong end of the line, Alt-t around long runes, the
search in an edited entry and its repetition for nothing, a yank on what Ctrl-J left,
Alt-y when what was yanked is no longer before the cursor, a mark inside of a rune.) They are therefore as much a result
as the properties: everything else that the alphabet can spell is shown to work.
Not excluded, because the code handles them: an interrupt or a killed shell at
any point, colliding keys, edited history entries, unbalanced brackets, words
with the same name as an alias, operators in words.

`MCVm` takes programs with one connective per list and one command in the block
of an if or elif. In the block of an if the code goes on after a *failed* command
when the next one is joined by `&&`, and ignores `||` after a success, so those
lists do not follow the language; `Vm` models what the code does with them.
Two rules of this shell that are not the language's are written into the
properties: giving up runs the last command again (see `vm_short_circuit`;
`LineLanguage`'s `Again` allows it once and for that command only), and a while
loop ends when its block fails.

`MCStreams` takes pipelines that are a whole line, end in a program unless noted
in `MCStreams`, and write no more than a pipe holds. The runs below show what
lies outside.

Runs that find a disagreement between the code and what the repository says:

| Run | What the code does |
|---|---|
| `MCVmShortCircuit` | a list that short-circuits runs its last command twice: TLC's trace is `false && x`, in which the failed first command runs again (vm.c:732) |
| `MCVmExitStatus` | a command with exit status 2 ends the shell |
| `MCZDatabaseRestart` | a save that was cut short makes the next exit write an entry without a path, and after that no shell starts until the file is removed |
| `MCHistoryRemove` | `history rm` loses other entries than the one removed: `ab` taken from `ab`, `aa`, `abbb` leaves `aa`, `aa` |

Further configurations, kept beside the runs, each of which TLC answers with a
counterexample:

| Configuration | Property | What the code does |
|---|---|---|
| `MCForegroundRedirect` | `InterruptEndsEveryJob` | `cmd < file`: `tcsetpgrp(STDIN_FILENO)` fails, the job never owns the terminal, and no Ctrl+C ends it |
| `MCForegroundStalePid` | `HandlerTargetsChild` | between `waitpid` and `vm_child_pid = 0` a SIGTERM goes to a pid that is free |
| `MCBackgroundTable` | `LiveJobsAreRecorded` | a new job takes the slot of one that still runs |
| `MCStreamsBuiltin` | `LineIsObeyed` | `help > t.txt` before any pipeline writes to the terminal |
| `MCStreamsCapacity` | `LineEnds` | a pipeline's commands run one after the other: more output than a pipe holds never ends |
| `MCStreamsMixed` | `LineEnds` | `a && b \| c` connects the wrong ends and hangs |
| `MCEditorRunes` | `RunesWhole` | without `Careful`: Ctrl-T after a long rune at the end of the line splits it |
| `MCSessionMemory` | `MemoryLasts` | each prompt stays in the scratch arena, until the shell aborts |

## 4. Fairness

- `ForegroundJob`: weak for the shell's and the starting child's steps (the
  kernel schedules both) and for `ChildContinue` (whoever stopped the job
  continues it); strong for `ChildExit`, since stops may interrupt a command
  that makes progress in between. `InterruptEndsJob` assumes a user who keeps
  pressing Ctrl+C, inside the property. Nothing is assumed of TERMs.
- `BackgroundJobs`: lines go on being entered (`Execute`), and a line ends
  although it may start more jobs (strong for `Finish`): it has finitely many
  commands. Nothing makes a job end.
- `Vm`, `Streams`, `Session`: weak for the program's own steps; entering lines is
  not fair. The loop of `main.c` blocks nowhere but in bestline.
- `ZDatabase`, `Editor`, `History`: none; their properties are about what has
  happened.

## 5. What is proved

With TLAPS, for every value of the constants that meets the assumptions named in
the modules. Each `*Proofs` module has an invariant `Inv` that is inductive; TLC
checked it on the run's constants before it was proved. The theorem of a listed
property is then `Inv => property`, or, for an action property, one step from a state
with `Inv`.

- `ForegroundJobProofs` (`ConstantsAssumption`: `None` and `Shell` are not pids).
  `Inv` is `TypeOK` and what ties the parent's `pc` to the child: before the fork
  and after the reaping no child exists and the terminal is the shell's, between
  them `job` alone exists, the mask is set, and once `setpgid` was called the job
  stays in its own group; `GiveTerminal` finds that group because a zombie
  still counts as a member. The properties alone are not inductive:
  `PromptOwnsTerminal` says nothing of the steps before the prompt. From `Inv`:
  `TypeOK`, `PromptOwnsTerminal`, `JobOwnsTerminal`, `NoJobLeftBehind`,
  `ShellShielded`, and `Implements`, every step is one of `JobTerminal` or a
  stutter there. The proof goes action by action; the signals are one lemma
  (`SendToKeepsProcesses`: delivering a signal neither creates nor reaps a child
  nor moves it to another group).
- `BackgroundJobsProofs` (`PidAssumption`: finitely many pids;
  `MaxProcessesAssumption`). `Inv` adds to `TypeOK` and `CountsJobs` that `child`
  is a job exactly while `vm_run_background` is between fork and table. The
  lemmas `OneLess`, `OneMore` and `SameCount` say what a step does to the count.
  Proved: the counter is exact and never below zero, so `vm_execute` skips the
  check only when nothing runs.
- `VmProofs`: for programs with any number of elifs, of blocks in a while loop and of
  commands in a list, and any outcomes, `vm_run` executes what `ShellLanguage` says
  (`LanguageIsFollowed`), stops only where that ends (`ProgramsAreRunToTheirEnd`),
  runs the block of a for-each once for each item, in order (`ItemsAreBound`), and stays inside its graph (`TypesHold`).
  Hypothesis: every program is `Plain`. First comes what `Parse` makes of a plain
  program: which node each node's `right`, `left` and `prev` is, by induction over the
  blocks. `Inv` then says, of each place in the loop, where the vm points: between
  commands at what follows the last one if nothing fails (`NextOK`), and when a
  command was chosen, that it is the expected one and the vm points behind it
  (`ChosenOK`), or that vm gave up where the language stops (`GivenUp`). None of the
  properties speaks of `cur_stmt` and `next_cmds`, which is why they are not
  inductive.
- `StreamsProofs`: `TypesHold` for lines of any shape. For lines that are `Uniform` (a
  pipeline or a list, not both, not longer than `command_position` can count) and a
  table that is `Roomy`: `StreamsAreRestored`, `PipesAreClosed`; with `PrintersFit`
  `PipelinesConnect`, with `BuiltinsFit` `LinesAreObeyed`. `Inv` says which descriptor
  holds which end of which pipe at every point of a pipeline, by the parity of the
  command's position (`PipesOK`), that no other descriptor holds one, where the
  streams and their copies are (`StreamsOK`), that descriptor 3 and those beyond what
  was leaked are free (`RoomOK`), and where `vm_output_fd` points (`OutputFdOK`).
  `Roomy` is there because the code leaks: redirection never closes the descriptors it
  saved, so that only `2 * MaxLines + 4` of them last for `MaxLines` lines.
- `ZDatabaseProofs`: `TypesHold`, `PathsHold`, `SavedIsLoaded`, `BestIsFound` without a
  hypothesis, `NothingIsListedTwice` for paths and scores with `TargetsMatch`; for any
  number of shells that start, save and are killed at any point. `Inv` adds to `TypeOK` and `EntriesHavePaths`: an entry in the file or in a
  slot that has a path has a rank (`FileOK`, `SlotsOK`, which cover slots beyond the
  count: the one that a removal's shift leaves behind is the one the next entry takes),
  and while `lastSaved` is set, the file is that header and those entries and nobody is
  saving (`SavedOK`). What `z_read` takes from a file is `ReadableEntries`; the search
  of `z_match_find`, by induction over the slots, `MatchFindIsBest`. That a directory
  has one slot at most is proved for each command from the slots themselves: `z add`
  looks, a removal's shift maps slots to slots one to one, and a jump without a match
  adds a path that, by `TargetsMatch`, no slot holds. `TargetsMatch` is what the jump
  relies on and does not test; `fzf_get_score` finds a name in a path that ends in
  it, unless the name begins with one of fzf's signs.
- `HistoryProofs`, without a hypothesis but for the clean: `TypesHold`,
  `EntriesAreCompleted`, `HistoryIsReloaded`, `CleanKeepsEntries`, `MostUsedIsProposed`. `Inv`
  has the types (a history is a sequence of texts and NULLs within the array) and, for
  each shell and not only at its prompt, that what is in the history and fits the
  trie is in it or in `unlisted`, and where a NULL can be: never in a history that a clean writes.
  A second invariant, `FileInv`, says what is in the file: nothing between `fopen` and
  `fclose`, and what the history spells after it, until another shell opens or writes
  it. *Reload*: reading the lines of what was spelled gives the entries back, by
  induction over the entries and, for each, over its letters. *Clean*
  (`HashesAreIndices`: a hash is masked to an index): a table at most half full has an
  entry without a key, so the walk of `hashset_set_entry` ends (`Probe`); a key is in
  the table from then on, through every `Expand`; so the loop keeps an entry exactly
  when no earlier one equals it. *Completion*: a weight counts how often the text was
  added (`AcAddAll`), and the walk of the trie takes the first of the heaviest.
- `EditorProofs` (`Careful`): `TypesHold`, `CursorStaysInLine`, `EntriesAreKept`,
  `RunesStayWhole`, for any text, history, ring and number of keys, two bytes of first
  buffer being enough.
  The lemmas are about `LineBuffer`: every walk (runes, words, brackets, the
  growth of the buffer) ends, and inside the line, because each step is closer
  (`WalkEnds`); every key takes a `Fine` line to a `Fine` line. `EscapeWord` steps
  by the width of the rune *before* it and may leave the line; the guard of
  `TransposeWords` is what saves it. `Inv` adds that the entry `bestlineEdit` put into
  the history is still the one it will take out (`Placed`), and, for the search, that
  the line is what its entry holds, so that a place found in the entry is a place in the
  line (`Searching`). Two action properties follow. `CancelGivesBack` has an invariant of
  its own, `Returns`: whatever the search has written into the history, the entry it
  began with, as it will be stored, holds the line it began with. `YankGivesBack` needs
  no more than `Inv`: each killing key pushes exactly the part it cuts out and leaves the
  cursor at the cut (`CutLine`), and a text is what lies before a part, the part and what
  lies after it (`ThreeParts`). `RunesStayWhole` (`TextIsWhole`: what is typed, proposed,
  loaded and put for a letter's other case is whole runes, each leading byte with the
  continuation bytes `DecodeUtf8` calls for) is the longest argument. `RunesWhole` is
  not inductive: text leaves the line for the history, the ring and the command and comes
  back, and the search goes where a text was found. `Runed` says of all of these that
  they are whole, that what is looked for begins with a rune (backspace in the search
  takes a *byte*, from its end), and that Ctrl-G's place is where a rune begins. For
  the keys: a `Place` is a position where a rune begins; one step forward or
  backward goes from place to place (`PlaceSteps`), so every walk does (`Reached`,
  `PlaceReached`, `PlaceScans`); cutting, inserting, exchanging and replacing text between
  places leaves whole runes (`WholePart`, `WholeJoin`, `CutWhole`, `SwappedWhole`). One
  lemma per key (`DeleteSound`, `BarfSound`, ...) and one per action (`KillsRuned`,
  `SearchForRuned`, ...) put it together.

The hypotheses are the shapes of section 3, which exclude what the code gets wrong, and
what is true of the data: `TargetsMatch`, `HashesAreIndices`, `TextIsWhole`. `MCVm`,
`MCStreams`, `MCZDatabase` and `MCEditor` assert that all they check has them
(`PlainShapes`, `GoodShapes`, `NamesMatch`, `GivenIsWhole`: TLC evaluates them), and the configurations
that end in a counterexample show what happens outside: `MCVmShortCircuit`,
`MCStreamsMixed`, `MCStreamsBuiltin`, `MCEditorRunes`.

Four things came out of attempts at a proof. *Yank after Ctrl-J:* `CursorInLine` was
not provable, and TLC with a first buffer small enough found why: Ctrl-J sets `len`
to 0 without writing a zero (bestline.c:3485), so a yank of exactly `buflen - 1` bytes
moves a byte of the old line, not a zero, to the end of the buffer, and the next
`strlen` has no end. It is now one of the keys that `Uses` excludes. *Empty lines of
the history file:* entries of the file are never empty, which `bestlineHistoryLoad`
ensures by skipping them; the model did not say so. *A path of nothing that matches:*
`ListedOnce` is false where the best match of a jump is not there (the text of an
absolute path joined to the current directory, which an earlier jump stored): z then
stores the target again; TLC shows it once the first file holds such an entry. *Alt-y
and runes:* Alt-y cuts the last yank out by its positions; after a key that moved text
before them this may cut through a rune, so `Uses` asks that the text at them is still
the ring's.

The recursive functions of the models are written with `[n \in S |-> ...]` and no
RECURSIVE operator. Such a function is a CHOOSE of a function that solves its equation;
`Recursion` has, with sets in the place of predicates and functions in the place of
operators, that a set holding 0 and each number's successor holds all (`Induction`),
that an iteration has a solution (`Defined`) and keeps what each turn keeps
(`Preserved`), and that a recursion along a decreasing rank has one (`Recursive`). What a fold does to data of any length
is therefore proved here where it is needed.

Only model-checked:

- every liveness property (`CommandReturns`, `InterruptEndsJob`, `EndedJobsAreReported`,
  `EndsWithProgram`, `LineEnds`, the ends of lines in `LineIsDone`): TLAPS has no rule for
  ENABLED here;
- `Session`: that it implements `LineLanguage` (`LineIsDone`), and its `TypeOK`, whose
  `ran \in 0..Len(typed)` rests on the same fact: what the folds of `Lexer` and
  `LineParser` make of every text a line can be;
- the properties of the runs that end in a counterexample.

Of the 40 properties of the passing runs 33 are proved.

## 6. What is not modelled

- The fuzzy matcher (`z/fzf.c`): a scoring of two texts without state. `ZDatabase`
  takes the score as a constant function.
- How keys are read from the terminal and the line is drawn, what a prompt looks
  like, the text of messages: they change nothing that lasts. The editor's letters are a few of
  each kind; `bestlineIsSeparator`'s table of the others is not in `LineBuffer`.
- `lex_noninteractive` (each argument is lexed over the one before it), the limits
  of the token and input buffers, which `lex.c` tests too late, and the growth of
  the parser's buffers: models of texts have no addresses. The same holds for the
  blanks `sb_to_joined_str` has no room for: what is allocated after a quote of several
  words overwrites its end, so `Clear` admits such a quote only where nothing is
  (`OneQuote`). And it holds for the wrap of the arena's check.
- Comparison conditions (`vm_math_condition`): `Vm` takes their outcome as given.
  Integers of expressions do not overflow in the model.
- The builtins pwd, kill, prompt, unset, enable, disable and unalias (`cd` only moves
  the shell: `ChangeDirectory`). The last walks past the end of its arguments
  (`builtins.c:430`).
- `++` and `--` in expressions (parse.c:1034 and 1051, expand.c:116).
- Hashes: in `vars.c` and `env.c` every key has the same one (the loop starts past the
  text's end), and `Session` has it so: one chain of slots.
- `SIGWINCH` and `SIGCHLD` (the handler sets a flag only the line editor reads, or
  does nothing). Assignments and math inside pipelines. Of the builtins `Streams`
  has where they write: most to `vm_output_fd` ("builtin"), `echo` without looking
  at the result, some (`pwd`) to standard output ("printer").

## 7. Plan

Proofs worth having, in order:

1. `Session`: `TypeOK`. The folds of `Expand` only append to the table, and never a key
   that is in it; that the parser makes of a line no more commands than it has is the
   hard part.
2. `ZDatabase`: an abstract specification of z, a map from directories to ranks, that
   also says what a jump should do whose target passes over a match (`ListedOnce`
   leaves those jumps out).

Models worth having: comparison conditions, the mask of disabled builtins, the
growth of the parser's buffers.
