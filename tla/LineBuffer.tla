----------------------------- MODULE LineBuffer -----------------------------
(***************************************************************************)
(* The text the user edits (io/bestline.c): the buffer of bestlineState,   *)
(* how the cursor steps over runes, words and bracketed expressions, and   *)
(* what each editing key does to the buffer.                               *)
(*                                                                         *)
(* A byte is a value.  A rune is the sequence of bytes GetUtf8 takes: a    *)
(* leading byte and the continuation bytes after it, or any other byte.    *)
(* buf is what a C string function sees of the buffer, up to its first     *)
(* zero; len says how much of it is the line.  Positions count from 0, and *)
(* a negative one is an unsigned that has wrapped.                         *)
(***************************************************************************)
EXTENDS Integers, Sequences

CONSTANTS Byte,                   \* what the text is made of
          Leading, Continuation,  \* bytes
          Separators,             \* runes that are not letters or digits
          Open, Close,            \* a pair of brackets (runes)
          Upper, Lower            \* functions on the runes they change

\* What a rune's other case is, is text.
ASSUME CaseAssumption ==
    /\ \A r \in DOMAIN Upper : Upper[r] \in Seq(Byte)
    /\ \A r \in DOMAIN Lower : Lower[r] \in Seq(Byte)

\* The fields of bestlineState that outlive a key.
Line == [buf : Seq(Byte), len : Nat, pos : Int, buflen : Nat, mark : Nat,
         yi : Nat, yj : Nat, hindex : Nat]

NewLine(buflen) == [buf |-> <<>>, len |-> 0, pos |-> 0, buflen |-> buflen, mark |-> 0,
                    yi |-> 0, yj |-> 0, hindex |-> 0]

\* Bytes i to j - 1.
Bytes(s, i, j) == SubSeq(s, i + 1, j)

-----------------------------------------------------------------------------
(* Stepping.                                                               *)

\* The number of bytes GetUtf8 takes at p.
RuneLength(l, p) ==
    LET n[q \in p..l.len] ==
            IF q < l.len /\ l.buf[q + 1] \in Continuation THEN n[q + 1] ELSE q
    IN  CASE p >= l.len -> 0
          [] p < l.len /\ l.buf[p + 1] \in Leading -> n[p + 1] - p
          [] OTHER -> 1

Rune(l, p) == Bytes(l.buf, p, p + RuneLength(l, p))

Forward(l, p) == p + RuneLength(l, p)

Backward(l, p) ==
    LET b[q \in 0..p] ==
            IF q = 0 \/ q >= Len(l.buf) \/ l.buf[q + 1] \notin Continuation THEN q ELSE b[q - 1]
    IN  IF p = 0 THEN 0 ELSE b[p - 1]

Separator(r) == r \in Separators

\* What a scan may look for.
Is(kind, r) ==
    CASE kind = "separator" -> Separator(r)
      [] kind = "letter" -> ~Separator(r)
      [] kind = "xeparator" -> Separator(r) /\ r \notin {Open, Close}
      [] kind = "close" -> r = Close

\* As long as the runes are of a kind.
Forwards(l, p, kind) ==
    LET f[q \in 0..(2 * l.len)] == IF q < l.len /\ Is(kind, Rune(l, q)) THEN f[Forward(l, q)] ELSE q
    IN  f[p]

Backwards(l, p, kind) ==
    LET b[q \in 0..p] == IF q > 0 /\ Is(kind, Rune(l, Backward(l, q))) THEN b[Backward(l, q)] ELSE q
    IN  b[p]

ForwardWord(l, p) == Forwards(l, Forwards(l, p, "separator"), "letter")
BackwardWord(l, p) == Backwards(l, Backwards(l, p, "separator"), "letter")

\* To the end of the word p is inside of; each step is as wide as the rune before it, so
\* it may end inside a rune, or after the line.
EscapeWord(l, p) ==
    LET e[q \in 0..(2 * l.len)] ==
            IF q = 0 \/ q >= l.len \/ Separator(Rune(l, q)) \/ Separator(Rune(l, Backward(l, q)))
            THEN q
            ELSE e[q + RuneLength(l, Backward(l, q))]
    IN  e[p]

-----------------------------------------------------------------------------
(* Brackets: {<<left, right>>}, or {} if there is no match.                *)

MirrorLeft(l) ==
    LET index == Backward(l, l.pos)
        \* from x[1] down, x[2] brackets deep
        down[x \in (0..l.len) \X Nat] ==
            LET p == Backward(l, x[1])
                r == Rune(l, p)
                deeper == IF r = Close THEN 1 ELSE IF r = Open THEN -1 ELSE 0
            IN  IF p = 0 \/ (r = Open /\ x[2] = 0)
                THEN IF r = Open /\ x[2] = 0 THEN {<<p, index>>} ELSE {}
                ELSE down[<<p, x[2] + deeper>>]
    IN  IF index > 0 /\ Rune(l, index) = Close THEN down[<<index, 0>>] ELSE {}

MirrorRight(l) ==
    LET up[x \in (0..l.len) \X Nat] ==
            LET p == Forward(l, x[1])
                r == Rune(l, p)
                deeper == IF r = Open THEN 1 ELSE IF r = Close THEN -1 ELSE 0
            IN  IF Forward(l, p) >= l.len \/ (r = Close /\ x[2] = 0)
                THEN IF r = Close /\ x[2] = 0 THEN {<<l.pos, p>>} ELSE {}
                ELSE up[<<p, x[2] + deeper>>]
    IN  IF Rune(l, l.pos) = Open THEN up[<<l.pos, 0>>] ELSE {}

-----------------------------------------------------------------------------
(* bestlineGrow: by halves until n bytes fit.                              *)

Grown(m, n) ==
    LET up[k \in m..(2 * n)] == IF k >= n THEN k ELSE up[k + k \div 2]
    IN  IF m >= n THEN m ELSE up[m]

\* Whether a zero ends the text at len: after Ctrl-J it may not.
Settled(l) == Len(l.buf) = l.len

\* memmove of what follows j, with the byte at its end, to i.
Cut(l, i, j) ==
    [l EXCEPT !.buf = IF Settled(l) THEN Bytes(@, 0, i) \o Bytes(@, j, l.len)
                      ELSE Bytes(@, 0, i) \o Bytes(@, j, l.len + 1)
                           \o Bytes(@, i + l.len - j + 1, Len(@)),
              !.len = @ - (j - i)]

At(l, p) == [l EXCEPT !.pos = p]

Insert(l, s) ==
    [l EXCEPT !.buf = Bytes(@, 0, l.pos) \o s \o Bytes(@, l.pos, l.len),
              !.pos = @ + Len(s), !.len = @ + Len(s),
              !.buflen = Grown(@, l.len + Len(s) + 1)]

\* Yank moves what follows the cursor with the byte at its end.
Yank(l, y) ==
    [l EXCEPT !.buf = IF Settled(l) THEN Bytes(@, 0, l.pos) \o y \o Bytes(@, l.pos, l.len)
                      ELSE Bytes(@, 0, l.pos) \o y \o Bytes(@, l.pos, l.len + 1)
                           \o Bytes(@, l.len + Len(y) + 1, Len(@)),
              !.buflen = Grown(@, l.len + Len(y) + 1),
              !.yi = l.pos, !.yj = l.pos + Len(y), !.pos = @ + Len(y), !.len = @ + Len(y)]

\* bestlineEditRotate takes the last yank out, if it is still inside the line.
Unyank(l) ==
    IF l.yi < l.len /\ l.yj <= l.len
    THEN [Cut(l, l.yi, l.yj) EXCEPT !.pos = l.pos - (l.yj - l.yi)]
    ELSE l

-----------------------------------------------------------------------------
(* The keys that move the cursor.                                          *)

Home(l) == At(l, 0)
End(l) == At(l, l.len)
LeftKey(l) == At(l, Backward(l, l.pos))

Right(l) ==
    LET r[q \in 0..l.len] ==
            IF q < l.len /\ l.buf[q + 1] \in Continuation THEN r[q + 1] ELSE q
    IN  IF l.pos = l.len THEN l ELSE At(l, r[l.pos + 1])

LeftWord(l) == At(l, BackwardWord(l, l.pos))
RightWord(l) == At(l, ForwardWord(l, l.pos))

LeftExpr(l) ==
    LET k == At(l, Backwards(l, l.pos, "xeparator"))
    IN  IF MirrorLeft(k) = {} THEN At(k, Backwards(k, k.pos, "letter"))
                              ELSE At(k, (CHOOSE m \in MirrorLeft(k) : TRUE)[1])

RightExpr(l) ==
    LET k == At(l, Forwards(l, l.pos, "xeparator"))
    IN  IF MirrorRight(k) = {} THEN At(k, Forwards(k, k.pos, "letter"))
                               ELSE At(k, Forward(k, (CHOOSE m \in MirrorRight(k) : TRUE)[2]))

SetMark(l) == [l EXCEPT !.mark = l.pos]
GotoMark(l) == IF l.mark > l.len THEN l ELSE At(l, l.mark)

-----------------------------------------------------------------------------
(* The keys that change the text.                                          *)

Delete(l) == IF l.pos = l.len THEN l ELSE Cut(l, l.pos, Forward(l, l.pos))

\* Mutant of Rubout: a byte, not a rune.
RuboutByte(l) == IF l.pos = 0 THEN l ELSE At(Cut(l, l.pos - 1, l.pos), l.pos - 1)

Rubout(l) == IF l.pos = 0 THEN l ELSE At(Cut(l, Backward(l, l.pos), l.pos), Backward(l, l.pos))

\* What the killing keys push on the ring, and what they leave.
DeleteWordKills(l) == Bytes(l.buf, l.pos, ForwardWord(l, l.pos))
DeleteWord(l) == IF l.pos = l.len THEN l ELSE Cut(l, l.pos, ForwardWord(l, l.pos))

RuboutWordKills(l) == Bytes(l.buf, BackwardWord(l, l.pos), l.pos)
RuboutWord(l) ==
    IF l.pos = 0 THEN l ELSE At(Cut(l, BackwardWord(l, l.pos), l.pos), BackwardWord(l, l.pos))

KillLeftKills(l) == Bytes(l.buf, 0, l.pos)
\* Mutant of KillLeft: the cursor stays where it was.
KillLeftCursorStays(l) == Cut(l, 0, l.pos)

KillLeft(l) == At(Cut(l, 0, l.pos), 0)

KillRightKills(l) == Bytes(l.buf, l.pos, l.len)
KillRight(l) == [l EXCEPT !.buf = Bytes(@, 0, l.pos), !.len = l.pos]

\* An empty line makes Transpose look before the buffer, and then return.
Transpose(l) ==
    LET b == IF l.pos = l.len THEN l.pos - 1 ELSE l.pos
        a == Backward(l, b)
        c == Forward(l, b)
    IN  IF l.len = 0 \/ ~(a < b /\ b < c) THEN l
        ELSE [l EXCEPT !.pos = c,
                       !.buf = Bytes(@, 0, a) \o Bytes(@, b, c) \o Bytes(@, a, b) \o Bytes(@, c, Len(@))]

TransposeWords(l) ==
    LET i == IF l.pos = l.len THEN BackwardWord(l, l.pos) ELSE l.pos
        pi == EscapeWord(l, i)
        xj == Backwards(l, pi, "separator")
        xi == Backwards(l, xj, "letter")
        yi == Forwards(l, pi, "separator")
        yj == Forwards(l, yi, "letter")
    IN  IF ~(xi < xj /\ xj < yi /\ yi < yj) THEN l
        ELSE [l EXCEPT !.pos = yj,
                       !.buf = Bytes(@, 0, xi) \o Bytes(@, yi, yj) \o Bytes(@, xj, yi)
                               \o Bytes(@, xi, xj) \o Bytes(@, yj, Len(@))]

\* first is applied to the word's first rune, rest to the others.  Runes whose other
\* case takes more bytes or fewer move what follows.
XlatWord(l, first, rest) ==
    LET i == Forwards(l, l.pos, "separator")
        j == Forwards(l, i, "letter")
        Xlat(r, f) == IF r \in DOMAIN f THEN f[r] ELSE r
        word[q \in i..l.len] ==
            IF q >= j THEN <<>>
            ELSE Xlat(Rune(l, q), IF q = i THEN first ELSE rest) \o word[Forward(l, q)]
    IN  IF i = j THEN l
        ELSE [l EXCEPT !.buf = Bytes(@, 0, i) \o word[i] \o Bytes(@, j, l.len),
                       !.pos = i + Len(word[i]), !.len = @ + Len(word[i]) - (j - i),
                       !.buflen = Grown(@, i + Len(word[i]) + l.len - j + 1)]

UppercaseWord(l) == XlatWord(l, Upper, Upper)
LowercaseWord(l) == XlatWord(l, Lower, Lower)
CapitalizeWord(l) == XlatWord(l, Upper, <<>>)

Squeeze(l) ==
    LET i == Backwards(l, l.pos, "separator")
        j == Forwards(l, l.pos, "separator")
    IN  IF i < j THEN At(Cut(l, i, j), i) ELSE l

-----------------------------------------------------------------------------
(* Barf and slurp.                                                         *)

\* To the first rune of a kind outside of brackets; a bracket inside of brackets (x[2] = 1)
\* is not counted.
ScanRight(l, p, kind) ==
    LET to[x \in (0..l.len) \X (0..1)] ==
            LET r == Rune(l, x[1])
                inside == IF x[2] = 0 THEN r = Open ELSE r # Close
            IN  IF x[1] = l.len \/ (x[2] = 0 /\ r # Open /\ Is(kind, r)) THEN x[1]
                ELSE to[<<Forward(l, x[1]), IF inside THEN 1 ELSE 0>>]
    IN  to[<<p, 0>>]

ScanLeft(l, p) ==
    LET to[x \in (0..l.len) \X (0..1)] ==
            LET r == Rune(l, Backward(l, x[1]))
                inside == IF x[2] = 0 THEN r = Close ELSE r # Open
            IN  IF x[1] = 0 \/ (x[2] = 0 /\ r # Close /\ Separator(r)) THEN x[1]
                ELSE to[<<Backward(l, x[1]), IF inside THEN 1 ELSE 0>>]
    IN  to[<<p, 0>>]

\* The bracket that closes the expression moves to before its last item.
Barf(l) ==
    LET end == ScanRight(l, l.pos, "close")
        item == ScanLeft(l, Backwards(l, end, "xeparator"))
        to == Backwards(l, item, "xeparator")
        n == RuneLength(l, end)
    IN  IF end = l.len \/ item = 0 THEN l
        ELSE [l EXCEPT !.buf = Bytes(@, 0, to) \o Bytes(@, end, end + n)
                               \o Bytes(@, to, end) \o Bytes(@, end + n, Len(@)),
                       !.pos = IF @ > to THEN @ + n ELSE @]

\* The bracket that closes the expression moves to after the item that follows.
Slurp(l) ==
    LET point == ScanRight(l, l.pos, "close")
        start == Forward(l, point)
        to == ScanRight(l, Forwards(l, start, "xeparator"), "separator")
    IN  IF point = l.len THEN l
        ELSE [l EXCEPT !.buf = Bytes(@, 0, point) \o Bytes(@, start, to)
                               \o Bytes(@, point, start) \o Bytes(@, to, Len(@))]
=============================================================================
