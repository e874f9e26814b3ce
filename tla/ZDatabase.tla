----------------------------- MODULE ZDatabase -----------------------------
(***************************************************************************)
(* The z builtin's database (z/z.c): the array of visited directories each *)
(* shell holds in memory, and the one file all of a user's shells load     *)
(* when they start and overwrite when they exit.                           *)
(*                                                                         *)
(* A path and what the user types are values.  What chdir makes of a text  *)
(* (Resolve), the text estrjoin stores for it (Joined) and the fuzzy       *)
(* matcher's score (Fzf, zero for no match) are constants.                 *)
(***************************************************************************)
EXTENDS Integers, Sequences, FiniteSets

CONSTANTS Shells, Paths, Targets, NoPath, Home,
          Directories,       \* the directories there are at first
          Resolve, Joined,   \* [Paths \X Targets -> Paths or NoPath]
          Fzf,               \* [Targets \X Paths -> Nat]
          FirstFile,         \* the file there is at first
          Limit,             \* Z_DATABASE_IN_MEMORY_LIMIT: 200
          Chunk,             \* what stdio writes at a time, in items of the file
          MaxVisits,         \* commands the users enter (a bound)
          MaxClock,          \* (a bound)
          MaxFaults          \* shells killed and directories removed (a bound)

ASSUME PathsAssumption == NoPath \notin Paths /\ Home \in Directories /\ Directories \subseteq Paths
ASSUME TextAssumption ==
    /\ Resolve \in [Paths \X Targets -> Paths \union {NoPath}]
    /\ Joined \in [Paths \X Targets -> Paths]
    /\ Fzf \in [Targets \X Paths -> Nat]
ASSUME LimitAssumption ==
    /\ Limit \in Nat \ {0} /\ Chunk \in Nat \ {0}
    /\ MaxVisits \in Nat /\ MaxClock \in Nat /\ MaxFaults \in Nat

\* There is no file, or it is what the exit of a shell wrote.
ASSUME FirstFileAssumption ==
    \/ FirstFile = <<>>
    \/ /\ FirstFile = <<Head(FirstFile)>> \o Tail(FirstFile)
       /\ Head(FirstFile) = Len(FirstFile) - 1 /\ Head(FirstFile) < Limit
       /\ Tail(FirstFile) \in Seq([path : Paths, rank : Nat \ {0}, last_accessed : Nat])

Slot == 0..(Limit - 1)

\* z_Directory.  A time is the number of the band (hour, day, week) it falls in.
Entry == [path : Paths \union {NoPath}, rank : Nat, last_accessed : Nat]
Zero == [path |-> NoPath, rank |-> 0, last_accessed |-> 0]

VARIABLES
    pc,           \* per shell: "off", "running", "saving" or "refused"
    dirs, count,  \* per shell: z_Database
    cwd,          \* per shell
    written,      \* per shell: how many items of the file it has written
    file,         \* the items of the file: the header, then the entries
    existing,     \* the directories there are
    clock, visits, faults,
    loadedWhole,  \* per shell: the file it loaded held all that its header says
    lastSaved     \* {the entries the last exit wrote}, or {} if it was disturbed

database == <<dirs, count>>
world == <<existing, clock, visits, faults>>
vars == <<pc, database, cwd, written, file, world, loadedWhole, lastSaved>>

Init ==
    /\ pc = [s \in Shells |-> "off"]
    /\ dirs = [s \in Shells |-> [i \in Slot |-> Zero]]
    /\ count = [s \in Shells |-> 0]
    /\ cwd = [s \in Shells |-> Home]
    /\ written = [s \in Shells |-> 0]
    /\ file = FirstFile
    /\ existing = Directories
    /\ clock = 0 /\ visits = 0 /\ faults = 0
    /\ loadedWhole = [s \in Shells |-> TRUE]
    /\ lastSaved = IF FirstFile = <<>> THEN {} ELSE {Tail(FirstFile)}

Used(s) == {i \in Slot : i < count[s]}
Known(s) == [i \in 1..count[s] |-> dirs[s][i - 1]]

-----------------------------------------------------------------------------
(* Loading: z_init, z_read.                                                *)

Smaller(a, b) == IF a <= b THEN a ELSE b
Larger(a, b) == IF a <= b THEN b ELSE a

Header(f) == IF f = <<>> THEN 0 ELSE Head(f)

\* Mutant of Readable: the last entry is not read.
ReadableShort(f) ==
    IF Header(f) \in 1..(Limit - 1) THEN SubSeq(f, 2, Smaller(Header(f), Len(f))) ELSE <<>>

\* The entries z_read takes from the file.  A count at the limit reads none.
Readable(f) ==
    IF Header(f) \in 1..(Limit - 1) THEN SubSeq(f, 2, Smaller(Header(f) + 1, Len(f))) ELSE <<>>

\* A path of length zero.
Unreadable(f) == \E i \in DOMAIN Readable(f) : Readable(f)[i].path = NoPath

Whole(f) == Header(f) < Limit /\ Len(Readable(f)) = Header(f)

\* The end of the file leaves the entries that are missing as arena_init zeroed them,
\* and count is the header's whatever was read.
Start(s) ==
    /\ pc[s] = "off"
    /\ IF Unreadable(file)
       THEN pc' = [pc EXCEPT ![s] = "refused"] /\ UNCHANGED <<database, loadedWhole>>
       ELSE /\ pc' = [pc EXCEPT ![s] = "running"]
            /\ dirs' = [dirs EXCEPT ![s] = [i \in Slot |->
                            IF i < Len(Readable(file)) THEN Readable(file)[i + 1] ELSE Zero]]
            /\ count' = [count EXCEPT ![s] = Header(file)]
            /\ loadedWhole' = [loadedWhole EXCEPT ![s] = Whole(file)]
    /\ cwd' = [cwd EXCEPT ![s] = Home]
    /\ UNCHANGED <<written, file, world, lastSaved>>

-----------------------------------------------------------------------------
(* z add, z rm and the jump.                                               *)

Running(s) == pc[s] = "running" /\ visits < MaxVisits /\ visits' = visits + 1

Holding(s, p) == {i \in Used(s) : dirs[s][i].path = p}
First(S) == CHOOSE i \in S : \A j \in S : i <= j

Touch(s, i) ==
    dirs' = [dirs EXCEPT ![s][i].rank = @ + 1, ![s][i].last_accessed = clock]

\* z_write_entry_new and z_database_add after their checks: the rank counts on from
\* what the slot held.
AddEntry(s, p) ==
    /\ dirs' = [dirs EXCEPT ![s][count[s]] = [path |-> p, rank |-> @.rank + 1,
                                              last_accessed |-> clock]]
    /\ count' = [count EXCEPT ![s] = @ + 1]

\* Mutant of Add: there is no check of the limit.
AddPastLimit(s, p) ==
    /\ Running(s)
    /\ IF Holding(s, p) # {} THEN Touch(s, First(Holding(s, p))) /\ UNCHANGED count
       ELSE count' = [count EXCEPT ![s] = @ + 1] /\ UNCHANGED dirs
    /\ UNCHANGED <<pc, cwd, written, file, existing, clock, faults, loadedWhole, lastSaved>>

\* Mutant of Add: an entry that is there is not looked for.
AddTwice(s, p) ==
    /\ Running(s)
    /\ count[s] < Limit /\ AddEntry(s, p)
    /\ UNCHANGED <<pc, cwd, written, file, existing, clock, faults, loadedWhole, lastSaved>>

\* z_match_exists
Add(s, p) ==
    /\ Running(s)
    /\ \/ Holding(s, p) # {} /\ Touch(s, First(Holding(s, p))) /\ UNCHANGED count
       \/ Holding(s, p) = {} /\ count[s] < Limit /\ AddEntry(s, p)
    /\ UNCHANGED <<pc, cwd, written, file, existing, clock, faults, loadedWhole, lastSaved>>

\* Mutant of Shift: nothing moves.
ShiftNothing(d, offset, n) == d

\* z_remove_dirs_shift moves what follows down by one; the last slot keeps its copy.
Shift(d, offset, n) ==
    [i \in Slot |-> IF i >= offset /\ i < n - 1 THEN d[i + 1] ELSE d[i]]

Remove(s, p) ==
    /\ Running(s) /\ Holding(s, p) # {}
    /\ LET i == First(Holding(s, p))
       IN  dirs' = [dirs EXCEPT ![s] = Shift([@ EXCEPT ![i] = Zero], i, count[s])]
    /\ count' = [count EXCEPT ![s] = @ - 1]
    /\ UNCHANGED <<pc, cwd, written, file, existing, clock, faults, loadedWhole, lastSaved>>

\* z_score, four times over to stay whole.
Weight(age) == CASE age <= 0 -> 16 [] age = 1 -> 8 [] age = 2 -> 2 [] OTHER -> 1
Score(s, i, t) ==
    dirs[s][i].rank * Weight(clock - dirs[s][i].last_accessed) + 4 * Fzf[<<t, dirs[s][i].path>>]

\* An entry that counts has no path: the file that was loaded was cut.
Pathless(s) == \E i \in Used(s) : dirs[s][i].path = NoPath

\* z_match_find's loop: the best so far, passing over cwd and what does not match.
Candidate(s, i, t) == dirs[s][i].path # cwd[s] /\ Fzf[<<t, dirs[s][i].path>>] > 0

\* Mutant of MatchFind: the comparison is reversed.
MatchFindWorst(s, t) ==
    LET best[n \in 0..count[s]] ==
            IF n = 0 THEN -1
            ELSE LET i == n - 1
                     b == best[n - 1]
                 IN  IF Candidate(s, i, t) /\ (b = -1 \/ Score(s, b, t) > Score(s, i, t))
                     THEN i ELSE b
    IN  best[count[s]]

MatchFind(s, t) ==
    LET best[n \in 0..count[s]] ==
            IF n = 0 THEN -1
            ELSE LET i == n - 1
                     b == best[n - 1]
                 IN  IF Candidate(s, i, t) /\ (b = -1 \/ Score(s, b, t) < Score(s, i, t))
                     THEN i ELSE b
    IN  best[count[s]]

\* z() with a target.  z_directory_match_exists compares the length of the target with
\* that of a directory record, which is longer than the name in it by 19 bytes or more,
\* and so finds nothing.
ReachesMatch(s, t) ==
    LET m == MatchFind(s, t) IN m # -1 /\ dirs[s][m].path \in existing

\* The match's directory is there.
JumpToMatch(s, t) ==
    /\ Running(s)
    /\ ~Pathless(s) /\ ReachesMatch(s, t)
    /\ cwd' = [cwd EXCEPT ![s] = dirs[s][MatchFind(s, t)].path]
    /\ Touch(s, MatchFind(s, t))
    /\ UNCHANGED <<pc, count, written, file, existing, clock, faults, loadedWhole, lastSaved>>

\* It is not, or there is no match: the target as it is, relative to cwd.
JumpToTarget(s, t) ==
    /\ Running(s)
    /\ ~Pathless(s) /\ ~ReachesMatch(s, t)
    /\ Resolve[<<cwd[s], t>>] \in existing
    /\ cwd' = [cwd EXCEPT ![s] = Resolve[<<cwd[s], t>>]]
    /\ IF count[s] + 1 >= Limit THEN UNCHANGED database
                                ELSE AddEntry(s, Joined[<<cwd[s], t>>])
    /\ UNCHANGED <<pc, written, file, existing, clock, faults, loadedWhole, lastSaved>>

\* "z", "z" with the home directory, "z ..", and the cd builtin: the database is not
\* asked.  ("z ." stays where it is.)
ChangeDirectory(s, p) ==
    /\ Running(s)
    /\ p \in existing
    /\ cwd' = [cwd EXCEPT ![s] = p]
    /\ UNCHANGED <<pc, database, written, file, existing, clock, faults, loadedWhole, lastSaved>>

-----------------------------------------------------------------------------
(* Saving when the shell exits: z_exit, z_write.                           *)

\* The memory goes with the process.
Gone(s) ==
    /\ pc' = [pc EXCEPT ![s] = "off"]
    /\ dirs' = [dirs EXCEPT ![s] = [i \in Slot |-> Zero]]
    /\ count' = [count EXCEPT ![s] = 0]
    /\ cwd' = [cwd EXCEPT ![s] = Home]
    /\ written' = [written EXCEPT ![s] = 0]
    /\ loadedWhole' = [loadedWhole EXCEPT ![s] = TRUE]

\* A jump hands the NULL of an entry without a path to fzf_get_score, with a length below
\* zero: the matcher reads from it, and the shell dies.
JumpDies(s) ==
    /\ Running(s)
    /\ Pathless(s)
    /\ Gone(s)
    /\ UNCHANGED <<file, existing, clock, faults, lastSaved>>

\* An empty database is not written.
ExitEmpty(s) ==
    /\ pc[s] = "running" /\ count[s] = 0
    /\ Gone(s)
    /\ UNCHANGED <<file, world, lastSaved>>

\* fopen "wb"
Truncate(s) ==
    /\ pc[s] = "running" /\ count[s] > 0
    /\ pc' = [pc EXCEPT ![s] = "saving"]
    /\ written' = [written EXCEPT ![s] = 0]
    /\ file' = <<>>
    /\ lastSaved' = {}
    /\ UNCHANGED <<database, cwd, world, loadedWhole>>

\* z_write stops at an entry without a path, of which it has written the numbers.
Writes(s) ==
    LET missing == {i \in 1..count[s] : Known(s)[i].path = NoPath}
    IN  IF missing = {} THEN Known(s) ELSE SubSeq(Known(s), 1, First(missing))

Output(s) == <<count[s]>> \o Writes(s)

\* One write(2) of stdio's, at the shell's own offset.  Entries are of one size; a hole
\* another shell's truncation leaves reads as zeros.
Overlay(f, out, from, to) ==
    [i \in 1..Larger(Len(f), to) |->
        CASE i > from /\ i <= to -> out[i]
          [] i <= Len(f) /\ ~(i > from /\ i <= to) -> f[i]
          [] OTHER -> IF i = 1 THEN 0 ELSE Zero]

Flush(s) ==
    /\ pc[s] = "saving" /\ written[s] < Len(Output(s))
    /\ LET to == Smaller(written[s] + Chunk, Len(Output(s)))
       IN  /\ file' = Overlay(file, Output(s), written[s], to)
           /\ written' = [written EXCEPT ![s] = to]
    /\ UNCHANGED <<pc, database, cwd, world, loadedWhole, lastSaved>>

\* fclose.  lastSaved is what was written if nobody else was saving.
Close(s) ==
    /\ pc[s] = "saving" /\ written[s] = Len(Output(s))
    /\ Gone(s)
    /\ lastSaved' = IF file = Output(s) /\ loadedWhole[s] /\ count[s] < Limit
                       /\ \A o \in Shells \ {s} : pc[o] # "saving"
                    THEN {Known(s)} ELSE {}
    /\ UNCHANGED <<file, world>>

-----------------------------------------------------------------------------
(* What happens around it.                                                 *)

\* The shell is killed, at any time.
Kill(s) ==
    /\ pc[s] \in {"running", "saving"} /\ faults < MaxFaults
    /\ Gone(s)
    /\ faults' = faults + 1
    /\ UNCHANGED <<file, existing, clock, visits, lastSaved>>

RemoveDirectory(p) ==
    /\ p \in existing \ {Home} /\ faults < MaxFaults
    /\ existing' = existing \ {p}
    /\ faults' = faults + 1
    /\ UNCHANGED <<pc, database, cwd, written, file, clock, visits, loadedWhole, lastSaved>>

TimePasses ==
    /\ clock < MaxClock
    /\ clock' = clock + 1
    /\ UNCHANGED <<pc, database, cwd, written, file, existing, visits, faults, loadedWhole, lastSaved>>

Next ==
    \/ \E s \in Shells :
        \/ Start(s) \/ ExitEmpty(s) \/ Truncate(s) \/ Flush(s) \/ Close(s) \/ Kill(s)
        \/ JumpDies(s)
        \/ \E p \in Paths : Add(s, p) \/ Remove(s, p) \/ ChangeDirectory(s, p)
        \/ \E t \in Targets : JumpToMatch(s, t) \/ JumpToTarget(s, t)
    \/ \E p \in Paths : RemoveDirectory(p)
    \/ TimePasses

Spec == Init /\ [][Next]_vars

-----------------------------------------------------------------------------
(* Properties.                                                             *)

\* Every variable has its type; the array is never written past its end.
TypeOK ==
    /\ pc \in [Shells -> {"off", "running", "saving", "refused"}]
    /\ dirs \in [Shells -> [Slot -> Entry]] /\ count \in [Shells -> 0..Limit]
    /\ cwd \in [Shells -> Paths]
    /\ written \in [Shells -> 0..(Limit + 1)]
    /\ \A i \in DOMAIN file : IF i = 1 THEN file[i] \in 0..Limit ELSE file[i] \in Entry
    /\ existing \subseteq Directories
    /\ clock \in 0..MaxClock /\ visits \in 0..MaxVisits /\ faults \in 0..MaxFaults
    /\ loadedWhole \in [Shells -> BOOLEAN]

\* A shell that loaded a whole file has a path and a rank in every entry that counts,
\* however entries were added, removed and shifted: z_match_find, z_write and z_print
\* use them unchecked.
EntriesHavePaths ==
    \A s \in Shells : loadedWhole[s] =>
        \A i \in Used(s) : dirs[s][i].path # NoPath /\ dirs[s][i].rank > 0

\* Each directory there is has one entry at most.
Once(s) == \A p \in existing : Cardinality(Holding(s, p)) <= 1

\* The jump passes over the match it has found, which is not there.
PassesOver(s, t) == JumpToTarget(s, t) /\ MatchFind(s, t) # -1

\* A target that leads to the directory it is stored as is a name in it, and so the fuzzy
\* matcher finds it there (a name that begins with one of fzf's signs it may not find).
TargetsMatch ==
    \A c \in Paths, t \in Targets :
        Resolve[<<c, t>>] \in Directories /\ Joined[<<c, t>>] \in Directories
            => Joined[<<c, t>>] # c /\ Fzf[<<t, Joined[<<c, t>>]>>] > 0

\* No command lists a directory a second time while all the directories stay: only z add
\* looks for the entry before it adds one, the jump relies on its match.  Where the best
\* match is the path of nothing (a joined text, a directory that went), the jump lists
\* what it is given whether it is there already or not.  (A file two shells saved at once
\* can hold a directory twice when it is read.)
ListedOnce ==
    [][\A s \in Shells :
          /\ existing = Directories /\ pc[s] = "running" /\ pc'[s] = "running"
          /\ Once(s) /\ ~ \E t \in Targets : PassesOver(s, t)
          => Once(s)']_vars

\* A shell starts with what the last exit left: if that exit was not killed, loaded a
\* whole file itself and no other shell was saving, z_read reads back the entries, the
\* ranks and the order that z_write wrote.
RoundTrip ==
    [][\A s \in Shells : pc[s] = "off" /\ pc'[s] # "off" /\ lastSaved # {} =>
          pc'[s] = "running" /\ Known(s)' \in lastSaved]_vars

\* A jump that goes to an entry goes to one with the best score of all that match and
\* are not the current directory (README: "which directory to send you to").
JumpGoesToBest ==
    [][\A s \in Shells, t \in Targets : JumpToMatch(s, t) =>
          \E m \in Used(s) :
              /\ dirs[s][m].path = cwd'[s] /\ cwd'[s] # cwd[s]
              /\ \A i \in Used(s) : Candidate(s, i, t) => Score(s, i, t) <= Score(s, m, t)]_vars

\* The shell starts, whatever the file holds (z.c:280 "database file is corrupted, will
\* try to read rest of file").
StartsAgain == \A s \in Shells : pc[s] # "refused"
=============================================================================
