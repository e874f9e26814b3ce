------------------------------ MODULE History ------------------------------
(***************************************************************************)
(* What a session remembers of its commands: the history of bestline.c and *)
(* its file, which all of a user's shells load when they start and         *)
(* overwrite when they exit; "history clean", "history add" and "history   *)
(* rm" (main.c, builtins.c); and the trie of ac.c that proposes how a line *)
(* could end.                                                              *)
(*                                                                         *)
(* A text is a sequence of letters, line ends among them.  The file is     *)
(* what its bytes spell.  Saving is two steps, fopen's truncation and      *)
(* fclose's write, so that other shells and a kill come between them.      *)
(***************************************************************************)
EXTENDS HashSet, FiniteSets

CONSTANTS Shells,
          Lines,        \* what the user enters, other than the history commands
          CleanLine, RemoveLine, AddLine,  \* how those are spelled
          FirstFile,    \* the file there is at first
          MaxHistory,   \* BESTLINE_MAX_HISTORY
          MaxInput,     \* NCSH_MAX_INPUT: 2048
          Rank,         \* [printable letters -> Nat]: a letter's place among a node's children
          MaxMatches,   \* NCSH_MAX_AUTOCOMPLETION_MATCHES: 32
          MaxCommands,  \* commands the users enter (a bound)
          MaxKills      \* shells killed (a bound)

Letters == DOMAIN Rank \cup {"\n", "\r"}
Texts == Seq(Letters)

\* NULL is no text.
ASSUME TextsAssumption ==
    /\ Lines \cup {CleanLine, RemoveLine, AddLine, FirstFile} \subseteq Texts
    /\ NoKey \notin Texts
\* char_to_index gives each letter a place of its own.
ASSUME RankAssumption ==
    /\ Rank \in [DOMAIN Rank -> Nat]
    /\ \A a, b \in DOMAIN Rank : Rank[a] = Rank[b] => a = b
ASSUME BoundsAssumption ==
    /\ MaxHistory \in Nat \ {0} /\ MaxMatches \in Nat \ {0} /\ MaxInput \in Nat
    /\ MaxCommands \in Nat /\ MaxKills \in Nat

VARIABLES
    pc,        \* per shell: "off", "prompt", "crashed", or what it is about to do
    history,   \* per shell: bl_history, NoKey for a slot that is NULL
    shared,    \* per shell: two slots of it hold one allocation
    line,      \* per shell: the command that runs
    removing,  \* per shell: {what to remove, and the length before the clean}
    words,     \* per shell: the trie, the weight of each word in it
    file,
    commands, kills,
    writers,   \* the shells that wrote to the file since it was last truncated
    saved,     \* {the history saved last}, or {} if that was disturbed
    unlisted   \* per shell: what came into the history and not into the trie

shell == <<pc, history, shared, line, removing, words>>
ghosts == <<writers, saved, unlisted>>
vars == <<shell, file, commands, kills, ghosts>>

Init ==
    /\ pc = [s \in Shells |-> "off"]
    /\ history = [s \in Shells |-> <<>>]
    /\ shared = [s \in Shells |-> FALSE]
    /\ line = [s \in Shells |-> <<>>]
    /\ removing = [s \in Shells |-> {}]
    /\ words = [s \in Shells |-> <<>>]
    /\ file = FirstFile
    /\ commands = 0 /\ kills = 0
    /\ writers = {} /\ saved = {} /\ unlisted = [s \in Shells |-> {}]

-----------------------------------------------------------------------------
(* Texts.                                                                  *)

Newest(h, n) == IF Len(h) <= n THEN h ELSE SubSeq(h, Len(h) - n + 1, Len(h))
Holds(h) == {h[i] : i \in DOMAIN h}

\* The members of a sequence other than x, in their order.
Without(q, x) ==
    LET upto[i \in 0..Len(q)] ==
            IF i = 0 THEN <<>>
            ELSE IF q[i] = x THEN upto[i - 1] ELSE Append(upto[i - 1], q[i])
    IN  upto[Len(q)]

Entries(h) == Without(h, <<>>)

\* Mutant of Spelled: the newest entry is not written.
SpelledShort(h) ==
    LET upto[i \in 0..Len(h)] == IF i = 0 THEN <<>> ELSE upto[i - 1] \o h[i] \o <<"\n">>
    IN  IF h = <<>> THEN <<>> ELSE upto[Len(h) - 1]

\* What fputs and fputc of each entry spell.
Spelled(h) ==
    LET upto[i \in 0..Len(h)] == IF i = 0 THEN <<>> ELSE upto[i - 1] \o h[i] \o <<"\n">>
    IN  upto[Len(h)]

\* Up to its last letter that is no carriage return.
Trimmed(t) ==
    LET kept == {i \in DOMAIN t : t[i] # "\r"}
        last == IF kept = {} THEN 0 ELSE CHOOSE i \in kept : \A o \in kept : o <= i
    IN  SubSeq(t, 1, last)

\* The lines of a file, trimmed, that are not empty then; the last may lack its end.
LinesOf(f) ==
    LET ends == {i \in 1..Len(f) : f[i] = "\n"} \cup {Len(f) + 1}
        before(i) == {e \in ends : e < i}
        start(i) == IF before(i) = {} THEN 0 ELSE CHOOSE e \in before(i) : \A o \in before(i) : o <= e
        text(i) == Trimmed(SubSeq(f, start(i) + 1, i - 1))
        upto[i \in 0..(Len(f) + 1)] ==
            CASE i = 0 -> <<>>
              [] i \in ends /\ text(i) # <<>> -> Append(upto[i - 1], text(i))
              [] OTHER -> upto[i - 1]
    IN  upto[Len(f) + 1]

\* One write of the whole text at the start of the file, whatever it holds by now.
Overwritten(f, text) == text \o SubSeq(f, Len(text) + 1, Len(f))

-----------------------------------------------------------------------------
(* The trie.                                                               *)

Printable(t) == Without(Without(t, "\n"), "\r")

\* The length that ac_add gets counts the NUL at the end.
Fits(t) == Len(t) + 1 <= MaxInput

\* Mutant of AcAdd: a word that is there already gains nothing.
AcAddOnce(w, t) ==
    LET word == Printable(t)
    IN  IF ~Fits(t) THEN w
        ELSE [x \in DOMAIN w \cup {word} |-> IF x \in DOMAIN w THEN w[x] ELSE 2]

\* ac_add: a node begins with weight 1, and the node a word ends at gains 1.  A text that is
\* too long is left out.
AcAdd(w, t) ==
    LET word == Printable(t)
    IN  IF ~Fits(t) THEN w
        ELSE [x \in DOMAIN w \cup {word} |->
                (IF x \in DOMAIN w THEN w[x] ELSE 1) + (IF x = word THEN 1 ELSE 0)]

\* ac_add_when_history_expanded, which the load calls for each entry.
AcAddAll(w, h) ==
    LET upto[i \in 0..Len(h)] == IF i = 0 THEN w ELSE AcAdd(upto[i - 1], h[i]) IN upto[Len(h)]

IsPrefix(p, t) == Len(p) <= Len(t) /\ SubSeq(t, 1, Len(p)) = p

\* ac_match's order: a word before those that go on from it, letters by their index.
Before(v, t) ==
    \/ IsPrefix(v, t) /\ v # t
    \/ \E k \in 1..(IF Len(v) <= Len(t) THEN Len(v) ELSE Len(t)) :
        SubSeq(v, 1, k - 1) = SubSeq(t, 1, k - 1) /\ Rank[v[k]] < Rank[t[k]]

\* The words that go on from p, as many as ac_match takes.
Matches(w, p) ==
    LET all == {t \in DOMAIN w : IsPrefix(p, t) /\ t # p}
    IN  {t \in all : Cardinality({v \in all : Before(v, t)}) < MaxMatches - 1}

\* ac_first: {the first of the heaviest}.
AcFirst(w, p) ==
    {t \in Matches(w, p) : \A v \in Matches(w, p) \ {t} :
        w[v] < w[t] \/ (w[v] = w[t] /\ Before(t, v))}

-----------------------------------------------------------------------------
(* bestlineHistoryAdd, bestlineHistoryLoad and the file.                   *)

\* Mutant of Added: the oldest entry stays.
AddedUnbounded(h, t) == IF h # <<>> /\ h[Len(h)] = t THEN h ELSE Append(h, t)

Added(h, t) ==
    IF h # <<>> /\ h[Len(h)] = t THEN h ELSE Append(Newest(h, MaxHistory - 1), t)

Loaded == Newest(LinesOf(file), MaxHistory)

\* Mutant of HistoryLoad: no callback.
HistoryLoadSilently(s) ==
    /\ IF file = <<>> THEN UNCHANGED history ELSE history' = [history EXCEPT ![s] = Loaded]
    /\ UNCHANGED words

\* An empty file leaves the history as it is.  What is loaded joins the trie.
HistoryLoad(s) ==
    IF file = <<>> THEN UNCHANGED <<history, words>>
    ELSE /\ history' = [history EXCEPT ![s] = Loaded]
         /\ words' = [words EXCEPT ![s] = AcAddAll(@, Loaded)]

\* fopen "w"
Truncate(s) == file' = <<>> /\ writers' = {s} /\ saved' = {}

Write(s, text) == file' = Overwritten(file, text) /\ writers' = writers \cup {s}

-----------------------------------------------------------------------------
(* A session: main.c.                                                      *)

\* The memory goes with the process.
Gone(s, to) ==
    /\ pc' = [pc EXCEPT ![s] = to]
    /\ history' = [history EXCEPT ![s] = <<>>]
    /\ shared' = [shared EXCEPT ![s] = FALSE]
    /\ line' = [line EXCEPT ![s] = <<>>]
    /\ removing' = [removing EXCEPT ![s] = {}]
    /\ words' = [words EXCEPT ![s] = <<>>]
    /\ unlisted' = [unlisted EXCEPT ![s] = {}]

Start(s) ==
    /\ pc[s] \in {"off", "crashed"} /\ commands < MaxCommands
    /\ pc' = [pc EXCEPT ![s] = "prompt"]
    /\ HistoryLoad(s)
    /\ UNCHANGED <<shared, line, removing, file, commands, kills, ghosts>>

\* The editor puts an entry of its own in and takes it out again (Editor), at a full
\* history in place of the oldest.
Prompted(h) ==
    LET own == Added(h, <<>>) IN SubSeq(own, 1, Len(own) - 1)

Enter(s, t, next) ==
    /\ pc[s] = "prompt" /\ commands < MaxCommands
    /\ commands' = commands + 1
    /\ line' = [line EXCEPT ![s] = t]
    /\ pc' = [pc EXCEPT ![s] = next]

\* A command that has to do with none of this.
Command(s) ==
    /\ \E t \in Lines : Enter(s, t, "ran")
    /\ history' = [history EXCEPT ![s] = Prompted(@)]
    /\ UNCHANGED <<shared, removing, words, file, kills, ghosts>>

\* "history add"
AddCommand(s) ==
    /\ Enter(s, AddLine, "ran")
    /\ \E t \in Lines :
        /\ history' = [history EXCEPT ![s] = Added(Prompted(@), t)]
        /\ unlisted' = [unlisted EXCEPT ![s] = @ \cup {t}]
    /\ UNCHANGED <<shared, removing, words, file, kills, writers, saved>>

\* "history clean" and "history rm": an empty history is left alone.
Cleaning(s, t, what) ==
    /\ Enter(s, t, IF Prompted(history[s]) = <<>> THEN "ran" ELSE "clean")
    /\ history' = [history EXCEPT ![s] = Prompted(@)]
    /\ removing' = [removing EXCEPT ![s] = what]
    /\ UNCHANGED <<shared, words, file, kills, ghosts>>

CleanCommand(s) == Cleaning(s, CleanLine, {})

RemoveCommand(s) ==
    \E t \in Lines : Cleaning(s, RemoveLine, {[text |-> t, count |-> Len(Prompted(history[s]))]})

\* What main does after every command.
Ran(s) ==
    /\ pc[s] = "ran"
    /\ IF history[s] # <<>> /\ history[s][Len(history[s])] = NoKey
       THEN Gone(s, "crashed")
       ELSE /\ pc' = [pc EXCEPT ![s] = "prompt"]
            /\ history' = [history EXCEPT ![s] = Added(@, line[s])]
            /\ words' = [words EXCEPT ![s] = AcAdd(@, line[s])]
            /\ line' = [line EXCEPT ![s] = <<>>]
            /\ removing' = [removing EXCEPT ![s] = {}]
            /\ UNCHANGED <<shared, unlisted>>
    /\ UNCHANGED <<file, commands, kills, writers, saved>>

\* Ctrl-D or "exit": cleanup.
Exit(s) ==
    /\ pc[s] = "prompt"
    /\ pc' = [pc EXCEPT ![s] = "saving"]
    /\ history' = [history EXCEPT ![s] = Prompted(@)]
    /\ Truncate(s)
    /\ UNCHANGED <<shared, line, removing, words, commands, kills, unlisted>>

\* A slot that is NULL ends the shell before anything is written.
Saved(s) ==
    /\ pc[s] = "saving"
    /\ IF NoKey \in Holds(history[s])
       THEN Gone(s, "crashed") /\ UNCHANGED <<file, writers, saved>>
       ELSE /\ Write(s, Spelled(history[s]))
            /\ saved' = IF writers = {s} THEN {history[s]} ELSE {}
            /\ Gone(s, "off")
    /\ UNCHANGED <<commands, kills>>

Kill(s) ==
    /\ pc[s] \notin {"off", "crashed"} /\ kills < MaxKills
    /\ kills' = kills + 1
    /\ Gone(s, "off")
    /\ UNCHANGED <<file, commands, writers, saved>>

-----------------------------------------------------------------------------
(* history_clean and history_remove.                                       *)

Then(s, from, to) == pc[s] = from /\ pc' = [pc EXCEPT ![s] = to]
NoMemoryChanges == UNCHANGED <<history, shared, line, removing, words, commands, kills, unlisted>>

\* bestlineHistorySave
CleanSaves(s) == Then(s, "clean", "clean saving") /\ Truncate(s) /\ NoMemoryChanges

CleanSaved(s) ==
    IF NoKey \in Holds(history[s])
    THEN pc[s] = "clean saving" /\ Gone(s, "crashed") /\ UNCHANGED <<file, commands, kills, writers, saved>>
    ELSE /\ Then(s, "clean saving", "clean saved")
         /\ Write(s, Spelled(history[s])) /\ saved' = {}
         /\ NoMemoryChanges

CleanOpens(s) == Then(s, "clean saved", "clean writing") /\ Truncate(s) /\ NoMemoryChanges

\* The entries that are not empty, each as it is first met: the hashset knows those
\* before.
Unique(h) ==
    LET seen[i \in 0..Len(h)] ==
            IF i = 0 THEN NewHashset
            ELSE IF h[i] = <<>> \/ Exists(seen[i - 1], h[i]) THEN seen[i - 1]
                 ELSE SetKey(seen[i - 1], h[i])
        upto[i \in 0..Len(h)] ==
            IF i = 0 THEN <<>>
            ELSE IF h[i] = <<>> \/ Exists(seen[i - 1], h[i]) THEN upto[i - 1]
                 ELSE Append(upto[i - 1], h[i])
    IN  upto[Len(h)]

CleanWrites(s) ==
    /\ Then(s, "clean writing", "clean written")
    /\ Write(s, Spelled(Unique(history[s]))) /\ saved' = {}
    /\ NoMemoryChanges

\* The load frees what there is, one allocation twice if two slots share it.
Cleaned(s) ==
    /\ pc[s] = "clean written"
    /\ IF shared[s] /\ file # <<>>
       THEN Gone(s, "crashed")
       ELSE /\ pc' = [pc EXCEPT ![s] = IF removing[s] = {} THEN "ran" ELSE "remove"]
            /\ HistoryLoad(s)
            /\ UNCHANGED <<shared, line, removing, unlisted>>
    /\ UNCHANGED <<file, commands, kills, writers, saved>>

\* history_remove after the clean; count is the length before it, which the file of another
\* shell may exceed.
\*   - The slot at count stays, and is NULL.
\*   - One before it gets the next one's entry, the rest stays, the last is cut off.
\*   - One behind it is NULL, and the last is cut off.
Removed(h, i, count) ==
    IF i = count THEN [h EXCEPT ![i] = NoKey]
    ELSE LET next == IF i < count /\ i < Len(h) THEN h[i + 1] ELSE NoKey
         IN  SubSeq([h EXCEPT ![i] = next], 1, Len(h) - 1)

Remove(s) ==
    /\ Then(s, "remove", "ran")
    /\ \E r \in removing[s] :
        LET at == {i \in DOMAIN history[s] : history[s][i] = r.text}
            i == CHOOSE k \in at : \A o \in at : k <= o
        IN  IF at = {} THEN UNCHANGED <<history, shared>>
            ELSE /\ history' = [history EXCEPT ![s] = Removed(@, i, r.count)]
                 /\ shared' = [shared EXCEPT ![s] = @ \/ (i < r.count /\ i + 1 < Len(history[s]))]
    /\ UNCHANGED <<line, removing, words, file, commands, kills, ghosts>>

Next ==
    \E s \in Shells :
        \/ Start(s) \/ Command(s) \/ AddCommand(s) \/ CleanCommand(s) \/ RemoveCommand(s)
        \/ Ran(s) \/ Exit(s) \/ Saved(s) \/ Kill(s)
        \/ CleanSaves(s) \/ CleanSaved(s) \/ CleanOpens(s) \/ CleanWrites(s) \/ Cleaned(s)
        \/ Remove(s)

Spec == Init /\ [][Next]_vars

-----------------------------------------------------------------------------
(* Properties.                                                             *)

OneLine(t) == t # NoKey /\ Printable(t) = t

\* The history stays within its array; a shell at its prompt has a newest entry.
TypeOK ==
    \A s \in Shells :
        /\ pc[s] \in {"off", "crashed", "prompt", "ran", "saving", "clean", "clean saving",
                     "clean saved", "clean writing", "clean written", "remove"}
        /\ Len(history[s]) <= MaxHistory
        /\ pc[s] = "prompt" /\ history[s] # <<>> => history[s][Len(history[s])] # NoKey
        /\ shared[s] \in BOOLEAN /\ Cardinality(removing[s]) <= 1
        /\ \A t \in DOMAIN words[s] : words[s][t] \in Nat \ {0}

\* A shell starts with the history the last exit had, entry for entry, if nobody else
\* wrote the file meanwhile: bestlineHistoryLoad reads what bestlineHistorySave wrote, but
\* for empty entries (and those with line ends or carriage returns in them, which it splits or
\* trims).
ReloadsWhatWasSaved ==
    [][\A s \in Shells : Start(s) => \A h \in saved :
          (\A t \in Holds(h) : OneLine(t)) => history'[s] = Entries(h)]_vars

\* "history clean" keeps one of each entry, in the order in which they were first entered,
\* whatever their hashes are and however often the set of those seen has grown.
CleanKeepsOneOfEach ==
    [][\A s \in Shells :
          /\ Cleaned(s) /\ writers = {s} /\ ~shared[s]
          /\ \A t \in Holds(history[s]) : OneLine(t)
          /\ Entries(history[s]) # <<>>
          => LET old == Entries(history[s])
                 new == history'[s]
                 first(t) == CHOOSE i \in DOMAIN old : old[i] = t /\ \A j \in 1..(i - 1) : old[j] # t
             IN  /\ Holds(new) = Holds(old)
                 /\ \A i, j \in DOMAIN new : i < j => first(new[i]) < first(new[j])]_vars

\* What is in the history of a shell can be completed, but for what "history add" put
\* there and for what exceeds NCSH_MAX_INPUT: every other way into the history leads into the
\* trie.
HistoryIsCompleted ==
    \A s \in Shells : pc[s] = "prompt" =>
        \A t \in Holds(history[s]) \ (unlisted[s] \cup {<<>>, NoKey}) :
            Fits(t) => Printable(t) \in DOMAIN words[s]

\* In a shell that has just started, the proposal for what is typed so far goes on from it
\* and is entered no less often in the history than any other that does (ac.h:57 "Gets
\* highest weighted match"), if there are no more than ac_match looks at.  Entries that exceed
\* NCSH_MAX_INPUT do not count.
ProposesMostUsed ==
    [][\A s \in Shells : Start(s) =>
          LET uses(t) == Cardinality({i \in DOMAIN history'[s] :
                                    Fits(history'[s][i]) /\ Printable(history'[s][i]) = t})
          IN  \A t \in Lines :
                LET all == {v \in DOMAIN words'[s] : IsPrefix(t, v) /\ v # t}
                IN  Cardinality(all) < MaxMatches /\ all # {} =>
                      /\ Cardinality(AcFirst(words'[s], t)) = 1
                      /\ \A m \in AcFirst(words'[s], t) : \A v \in all : uses(v) <= uses(m)]_vars

\* "history rm" takes out the entry and nothing else (README.md:46 "Removes duplicates
\* from history then removes the entry specified").
RemoveTakesOneEntry ==
    [][\A s \in Shells : Remove(s) => \A r \in removing[s] :
          history'[s] = Without(history[s], r.text)]_vars
=============================================================================
