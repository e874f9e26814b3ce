------------------------------- MODULE Editor -------------------------------
(***************************************************************************)
(* bestlineEdit (io/bestline.c), one key after another: the line, the      *)
(* history it moves through and writes back to, the kill ring, the search  *)
(* and the completion, and the main loop of main.c that adds the finished  *)
(* line to the history.                                                    *)
(***************************************************************************)
EXTENDS LineBuffer, FiniteSets

CONSTANTS Follow,       \* how many continuation bytes a leading byte calls for (DecodeUtf8)
          Runes,        \* what the user types
          Suffixes,     \* what the completion may propose
          Escaped,      \* what Ctrl-Q makes of a control key
          FirstHistory, \* the entries loaded at the start
          MaxHistory,   \* BESTLINE_MAX_HISTORY: 1024
          Ring,         \* BESTLINE_MAX_RING: 8
          FirstBuflen,  \* 32
          MaxKeys,      \* keys pressed (a bound)
          Careful       \* the user stays clear of the keys Uses excludes

ASSUME TextAssumption ==
    /\ "\n" \in Byte
    /\ Runes \subseteq Seq(Byte) \ {<<>>} /\ Suffixes \subseteq Seq(Byte) \ {<<>>}
    /\ Escaped \in Seq(Byte) \ {<<>>} /\ FirstHistory \in Seq(Seq(Byte) \ {<<>>})
ASSUME FollowAssumption ==
    Leading \cap Continuation = {} /\ Follow \in [Leading -> Nat \ {0}]
ASSUME SizeAssumption ==
    /\ MaxHistory \in Nat \ {0, 1} /\ Len(FirstHistory) <= MaxHistory
    /\ Ring \in Nat \ {0} /\ FirstBuflen \in Nat \ {0, 1} /\ MaxKeys \in Nat
    /\ Careful \in BOOLEAN

VARIABLES
    pc,         \* "prompt", "edit", "search", "crashed" or "over"
    l,          \* bestlineState
    full,       \* the lines of this command that are finished
    pastemode,
    history,    \* bl_history
    ring,       \* the kill ring: [i, p]
    last,       \* seq[1], the key before this one
    search,     \* [ab, pos, index]: what is looked for, and where the search began
    keys,
    entries,    \* the entries there were when this command was begun
    typed       \* the line and the cursor when the search began

editing == <<l, full, pastemode>>
ghosts == <<entries, typed>>
vars == <<pc, editing, history, ring, last, search, keys, ghosts>>

NoSearch == [ab |-> <<>>, pos |-> 0, index |-> 0]

Init ==
    /\ pc = "prompt" /\ l = NewLine(FirstBuflen) /\ full = <<>> /\ pastemode = FALSE
    /\ history = FirstHistory
    /\ ring = [i |-> 0, p |-> [j \in 0..(Ring - 1) |-> <<>>]]
    /\ last = "" /\ search = NoSearch /\ keys = 0
    /\ entries = Len(FirstHistory) /\ typed = NewLine(FirstBuflen)

-----------------------------------------------------------------------------
(* History.                                                                *)

\* Mutant of Added: the oldest entry is not dropped.
AddedUnbounded(h, line) == IF h # <<>> /\ h[Len(h)] = line THEN h ELSE Append(h, line)

\* bestlineHistoryAdd
Added(h, line) ==
    CASE h # <<>> /\ h[Len(h)] = line -> h
      [] (h = <<>> \/ h[Len(h)] # line) /\ Len(h) = MaxHistory -> Append(Tail(h), line)
      [] OTHER -> Append(h, line)

Popped(h) == IF h = <<>> THEN h ELSE SubSeq(h, 1, Len(h) - 1)

Slot(h, index) == Len(h) - index

\* bestlineEditHistoryGoto: the line goes to the entry it leaves, as a C string.
Moves(i) == Len(history) > 1 /\ i \in 0..(Len(history) - 1)
\* Mutant of Stored: the line that is left is forgotten.
StoredNowhere(h, k) == h

Stored(h, k) == [h EXCEPT ![Slot(h, k.hindex)] = k.buf]
Entered(h, k, i) ==
    LET text == Stored(h, k)[Slot(h, i)]
    IN  [k EXCEPT !.buf = text, !.len = Len(text), !.pos = Len(text), !.hindex = i,
                  !.buflen = Grown(@, Len(text) + 1)]

\* The entry left is the history's, or memory before it.
Goto(i) ==
    IF l.hindex < Len(history)
    THEN history' = Stored(history, l) /\ l' = Entered(history, l, i) /\ UNCHANGED pc
    ELSE pc' = "crashed" /\ UNCHANGED <<l, history>>

-----------------------------------------------------------------------------
(* The kill ring.                                                          *)

\* Mutant of Pushed: the ring does not turn to what was pushed.
PushedBehind(r, text) ==
    IF text = <<>> THEN r ELSE [r EXCEPT !.p[(r.i + 1) % Ring] = text]

Pushed(r, text) ==
    IF text = <<>> THEN r
    ELSE LET i == (r.i + 1) % Ring IN [i |-> i, p |-> [r.p EXCEPT ![i] = text]]

\* The nearest slot before that holds something; all around if none other does.
Rotated(r) ==
    LET before(n) == (r.i - n) % Ring
        holding == {n \in 1..Ring : r.p[before(n)] # <<>>}
    IN  IF holding = {} THEN r
        ELSE [r EXCEPT !.i = before(CHOOSE n \in holding : \A k \in holding : n <= k)]

Yanked(k, r) == IF r.p[r.i] = <<>> THEN k ELSE Yank(k, r.p[r.i])

-----------------------------------------------------------------------------
(* A command begins, and ends.                                             *)

\* Mutant of Begin: the editor puts no entry of its own into the history.
BeginWithoutEntry ==
    /\ pc = "prompt" /\ keys < MaxKeys
    /\ pc' = "edit"
    /\ l' = NewLine(FirstBuflen) /\ full' = <<>> /\ pastemode' = FALSE
    /\ last' = ""
    /\ entries' = Cardinality({k \in DOMAIN history : k < Len(history) \/ history[k] # <<>>})
    /\ UNCHANGED <<history, ring, search, keys, typed>>

Begin ==
    /\ pc = "prompt" /\ keys < MaxKeys
    /\ pc' = "edit"
    /\ l' = NewLine(FirstBuflen) /\ full' = <<>> /\ pastemode' = FALSE
    /\ history' = Added(history, <<>>)
    /\ last' = ""
    /\ entries' = Cardinality({k \in DOMAIN history : k < Len(history) \/ history[k] # <<>>})
    /\ UNCHANGED <<ring, search, keys, typed>>

\* A careful user stays clear of the keys that bestline.c gets wrong: return in a paste,
\* completion before the end of the line, transposing the last rune, or words around a
\* longer rune, the search in an entry that is edited and its repetition for nothing, a
\* yank on what Ctrl-J left in the buffer (it moves a byte of that for the zero that ends
\* the line), Alt-y when what was yanked is no longer before the cursor, and a mark that
\* has come to lie in a rune.
Uses(key) ==
    Careful =>
        CASE key = "return" -> ~pastemode
          [] key = "complete" -> l.pos = l.len
          [] key = "transpose" -> l.pos < l.len
          [] key = "transposewords" -> \A p \in 1..l.len : l.buf[p] \notin Leading
          [] key = "search" -> history[Slot(history, l.hindex)] \in {l.buf, <<>>}
          [] key = "again" -> search.ab # <<>>
          [] key = "yank" -> Settled(l) \/ ring.p[ring.i] = <<>>
          [] key = "rotate" ->
                Settled(l) /\ l.pos = l.yj /\ Bytes(l.buf, l.yi, l.yj) = ring.p[ring.i]
          [] key = "goto" -> l.mark \notin {p \in 0..(l.len - 1) : l.buf[p + 1] \in Continuation}
          [] OTHER -> TRUE

\* A key that the editor reads.
Press(key) ==
    /\ pc = "edit" /\ keys < MaxKeys
    /\ last = "ended" => key \notin {"type", "rubout", "search", "complete"}
    /\ keys' = keys + 1
    /\ last' = key

\* The buffers of the command are freed.
Freed == l' = NewLine(FirstBuflen) /\ full' = <<>>

Finished == full \o Bytes(l.buf, 0, l.len)

\* "\r", and the end of the input on a line that is not empty, which the editor takes for
\* one (rc == 0): the entry made for this line goes, and main adds the command.  In a paste
\* the line is kept and the editor goes on.
Submit ==
    /\ Uses("return") /\ Press("return")
    /\ IF pastemode
       THEN /\ full' = Finished \o <<"\n">>
            /\ l' = [l EXCEPT !.len = 0, !.pos = 0]
            /\ history' = Popped(history)
            /\ UNCHANGED pc
       ELSE /\ pc' = "prompt"
            /\ history' = Added(Popped(history), Finished)
            /\ Freed
    /\ UNCHANGED <<pastemode, ring, search, ghosts>>

\* Ctrl-J: nothing ends the text in the buffer.
NewLineKey ==
    /\ Press("newline")
    /\ full' = Finished \o <<"\n">>
    /\ l' = [l EXCEPT !.len = 0, !.pos = 0]
    /\ UNCHANGED <<pc, pastemode, history, ring, search, ghosts>>

\* Ctrl-C, in the search too: the read fails (rc < 0), whatever is in the line.
Interrupt ==
    /\ pc \in {"edit", "search"} /\ keys < MaxKeys /\ keys' = keys + 1
    /\ pc' = "prompt"
    /\ history' = Popped(history)
    /\ Freed /\ pastemode' = FALSE /\ search' = NoSearch
    /\ UNCHANGED <<ring, last, ghosts>>

\* Ctrl-D, or the end of the input (rc == 0), on an empty line.
EndOfFile ==
    /\ Press("eof") /\ l.len = 0
    /\ pc' = "over"
    /\ history' = Popped(history)
    /\ Freed
    /\ UNCHANGED <<pastemode, ring, search, ghosts>>

\* ESC[200~ and ESC[201~
Paste ==
    /\ Press("paste")
    /\ pastemode' = ~pastemode
    /\ UNCHANGED <<pc, l, full, history, ring, search, ghosts>>

-----------------------------------------------------------------------------
(* The keys that work on the line.                                         *)

\* l' is k.
Edit(key, k) ==
    /\ Press(key)
    /\ l' = k
    /\ UNCHANGED <<pc, full, pastemode, history, ring, search, ghosts>>

Move ==
    \/ Edit("home", Home(l)) \/ Edit("end", End(l))
    \/ Edit("left", LeftKey(l)) \/ Edit("right", Right(l))
    \/ Edit("leftword", LeftWord(l)) \/ Edit("rightword", RightWord(l))
    \/ Edit("leftexpr", LeftExpr(l)) \/ Edit("rightexpr", RightExpr(l))
    \/ Edit("mark", SetMark(l))
    \/ Uses("goto") /\ last = "ctrlx" /\ Edit("ctrlx", GotoMark(l))
    \/ last # "ctrlx" /\ Edit("ctrlx", l)

Change ==
    \/ \E r \in Runes : Edit("type", Insert(l, r))
    \/ Edit("delete", Delete(l)) \/ Edit("rubout", Rubout(l))
    \/ Uses("transpose") /\ Edit("transpose", Transpose(l))
    \/ Uses("transposewords") /\ Edit("transposewords", TransposeWords(l))
    \/ Edit("uppercase", UppercaseWord(l)) \/ Edit("lowercase", LowercaseWord(l))
    \/ Edit("capitalize", CapitalizeWord(l))
    \/ Edit("squeeze", Squeeze(l)) \/ Edit("barf", Barf(l)) \/ Edit("slurp", Slurp(l))

\* Ctrl-Q and a control key: it is read, and so it is the key before the next.
Quote ==
    \E key \in {"yank", "left"} : Edit(key, Insert(l, Escaped))

Kill(key, k, text) ==
    /\ Press(key)
    /\ l' = k /\ ring' = Pushed(ring, text)
    /\ UNCHANGED <<pc, full, pastemode, history, search, ghosts>>

Kills ==
    \/ Kill("killleft", KillLeft(l), KillLeftKills(l))
    \/ Kill("killright", KillRight(l), KillRightKills(l))
    \/ Kill("ruboutword", RuboutWord(l), RuboutWordKills(l))
    \/ Kill("deleteword", DeleteWord(l), DeleteWordKills(l))

YankKey == Uses("yank") /\ Edit("yank", Yanked(l, ring))

\* Alt-y: only after a yank or another Alt-y, or what was read as one.
RotateKey ==
    /\ Press("rotate") /\ Uses("rotate")
    /\ IF last \in {"yank", "rotate"}
       THEN ring' = Rotated(ring) /\ l' = Yanked(Unyank(l), Rotated(ring))
       ELSE UNCHANGED <<l, ring>>
    /\ UNCHANGED <<pc, full, pastemode, history, search, ghosts>>

\* bestlineCompleteLine with the one completion of main.c's callback: the text before
\* the cursor and what the tree adds to the whole line.
Complete ==
    /\ Press("complete") /\ Uses("complete")
    /\ \E s \in Suffixes :
        LET text == Bytes(l.buf, 0, l.pos) \o s
        IN  /\ l.pos > 0
            /\ l' = [l EXCEPT !.buf = text, !.len = Len(text), !.pos = @ + Len(text) - l.len,
                              !.buflen = Grown(@, Len(text) + 1)]
    /\ UNCHANGED <<pc, full, pastemode, history, ring, search, ghosts>>

\* Up, down, Alt-<, Alt->.
Travel ==
    /\ Press("travel")
    /\ \E i \in {l.hindex + 1, l.hindex - 1, Len(history) - 1, 0} : Moves(i) /\ Goto(i)
    /\ UNCHANGED <<full, pastemode, ring, search, ghosts>>

-----------------------------------------------------------------------------
(* Ctrl-R: bestlineSearch.                                                 *)

Search ==
    /\ Press("search") /\ Len(history) > 1 /\ Uses("search")
    /\ pc' = "search"
    /\ search' = [ab |-> <<>>, pos |-> l.pos, index |-> l.hindex]
    /\ typed' = l
    /\ UNCHANGED <<editing, history, ring, entries>>

\* FindSubstringReverse: where q begins last among the first n bytes of p.
Begins(p, n, q) == {k \in 0..(n - Len(q)) : Bytes(p, k, k + Len(q)) = q}

\* The entry from index i up that holds ab, the first no further than j + Len(ab).
\* {<<index, position>>}, or {} if none does.
Found(ab, i, j) ==
    LET Limit(k) == IF k = i /\ j + Len(ab) < Len(history[Slot(history, k)])
                    THEN j + Len(ab) ELSE Len(history[Slot(history, k)])
        in(k) == Begins(history[Slot(history, k)], Limit(k), ab)
        where == {k \in i..(Len(history) - 1) : in(k) # {}}
        first == CHOOSE k \in where : \A o \in where : k <= o
    IN  IF where = {} THEN {}
        ELSE {<<first, CHOOSE x \in in(first) : \A o \in in(first) : o <= x>>}

SearchFor(ab, i, j) ==
    /\ search' = [search EXCEPT !.ab = ab]
    /\ IF Found(ab, i, j) = {} THEN UNCHANGED <<l, history>>
       ELSE LET f == CHOOSE x \in Found(ab, i, j) : TRUE
            IN  /\ history' = Stored(history, l)
                /\ l' = [Entered(history, l, f[1]) EXCEPT !.pos = f[2]]
    /\ UNCHANGED <<pc, full, pastemode, ring, ghosts>>

SearchKey(key) ==
    /\ pc = "search" /\ keys < MaxKeys
    /\ keys' = keys + 1
    /\ last' = key

SearchType == \E r \in Runes : SearchKey("type") /\ SearchFor(search.ab \o r, l.hindex, l.pos)

\* Backspace takes a byte.
SearchRubout ==
    /\ SearchKey("rubout")
    /\ SearchFor(SubSeq(search.ab, 1, Len(search.ab) - 1), l.hindex, l.pos)

SearchAgain ==
    /\ SearchKey("search") /\ Uses("again")
    /\ CASE l.pos > 0 -> SearchFor(search.ab, l.hindex, l.pos - 1)
         [] l.pos = 0 /\ l.hindex + 1 < Len(history) ->
                SearchFor(search.ab, l.hindex + 1, Len(history[Slot(history, l.hindex + 1)]))
         [] OTHER -> SearchFor(search.ab, l.hindex, l.pos)

\* Ctrl-G
SearchCancel ==
    /\ SearchKey("cancel")
    /\ pc' = "edit"
    /\ history' = Stored(history, l)
    /\ l' = [Entered(history, l, search.index) EXCEPT !.pos = search.pos]
    /\ search' = NoSearch
    /\ UNCHANGED <<full, pastemode, ring, ghosts>>

\* Any other control key ends the search, and is the editor's next key.  So does the end of
\* the input, which the editor's next read meets again.
SearchEnd ==
    /\ pc = "search" /\ keys < MaxKeys
    /\ pc' = "edit" /\ last' = "ended"
    /\ search' = NoSearch
    /\ UNCHANGED <<editing, history, ring, keys, ghosts>>

Next ==
    \/ Begin \/ Submit \/ NewLineKey \/ Interrupt \/ EndOfFile \/ Paste
    \/ Move \/ Change \/ Quote \/ Kills \/ YankKey \/ RotateKey \/ Complete \/ Travel
    \/ Search \/ SearchType \/ SearchRubout \/ SearchAgain \/ SearchCancel \/ SearchEnd

Spec == Init /\ [][Next]_vars

-----------------------------------------------------------------------------
(* Properties.                                                             *)

\* The history and the kill ring stay within their arrays, and the place in the history
\* is one the history has.
TypeOK ==
    /\ pc \in {"prompt", "edit", "search", "crashed", "over"} /\ l \in Line
    /\ Len(history) <= MaxHistory
    /\ ring.i \in 0..(Ring - 1) /\ DOMAIN ring.p = 0..(Ring - 1)
    /\ pc \in {"edit", "search"} => l.hindex < Len(history)
    /\ pastemode \in BOOLEAN /\ keys \in 0..MaxKeys

\* The cursor stays inside the line and the line inside its buffer, whatever the keys:
\* every editing key of bestline.c copies memory relative to them.
CursorInLine ==
    pc \in {"edit", "search"} =>
        /\ l.pos \in 0..l.len
        /\ l.len <= Len(l.buf) /\ Len(l.buf) < l.buflen

\* A byte that is no continuation has as many of them after it as it calls for.
Calls(b) == IF b \in Leading THEN Follow[b] ELSE 0
Whole(s) ==
    /\ s # <<>> => s[1] \notin Continuation
    /\ \A i \in 1..Len(s) : s[i] \notin Continuation =>
           LET n == i + Calls(s[i])
           IN  /\ n <= Len(s) /\ \A q \in (i + 1)..n : s[q] \in Continuation
               /\ n < Len(s) => s[n + 1] \notin Continuation

\* The text that comes from outside is made of whole runes.
TextIsWhole ==
    /\ \A s \in Runes \cup Suffixes \cup {Escaped, <<"\n">>} : Whole(s)
    /\ \A j \in DOMAIN FirstHistory : Whole(FirstHistory[j])
    /\ \A f \in {Upper, Lower} : \A r \in DOMAIN f : Whole(f[r])

\* No sequence of keys, kills and searches splits a rune or leaves the cursor inside of
\* one.
RunesWhole ==
    /\ Whole(Bytes(l.buf, 0, l.len))
    /\ l.pos < l.len => l.buf[l.pos + 1] \notin Continuation

\* A command costs the history none of its entries, but the oldest when it is full: the
\* editor takes out exactly the entry it put in (bestlineEdit).
HistoryKept ==
    pc \in {"prompt", "over"} =>
        Len(history) >= (IF entries = MaxHistory THEN entries - 1 ELSE entries)

\* Ctrl-G puts back the line and the cursor as they were when the search began, wherever
\* it has led (bestlineSearch).
CancelRestores ==
    [][SearchCancel /\ Settled(typed) =>
           /\ Bytes(l'.buf, 0, l'.len) = Bytes(typed.buf, 0, typed.len)
           /\ l'.pos = typed.pos]_vars

\* Ctrl-Y gives back what a killing key took out, at the place it was taken from.
YankUndoesKill ==
    [][Kills /\ ring' # ring /\ Settled(l) => Yanked(l', ring').buf = l.buf]_vars
=============================================================================
