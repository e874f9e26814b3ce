--------------------------- MODULE HistoryProofs ---------------------------
(***************************************************************************)
(* What History states, for any number of shells, any texts and any size   *)
(* of the history: that a history is read back as it was written, that a   *)
(* clean keeps one of each entry whatever the hash, and that what is       *)
(* proposed is what was entered most.                                      *)
(***************************************************************************)
EXTENDS History, Recursion, FiniteSetTheorems, SequenceTheorems

Words == {Printable(t) : t \in Texts}
Tries == UNION {[A -> Nat \ {0}] : A \in SUBSET Words}
Histories == {h \in Seq(Texts \cup {NoKey}) : Len(h) <= MaxHistory}

-----------------------------------------------------------------------------
(* Texts.                                                                  *)

LEMMA TextsOK ==
    /\ Lines \subseteq Texts /\ NoKey \notin Texts /\ <<>> \in Texts /\ <<"\n">> \in Texts
    /\ {CleanLine, RemoveLine, AddLine, FirstFile} \subseteq Texts
  <1>1. <<>> \in Texts /\ <<"\n">> \in Texts
    BY DEF Texts, Letters
  <1> QED
    BY <1>1, TextsAssumption

\* f[n] is what the first n members of q leave without x.
Drops(f, T, q, x) ==
    /\ f \in [0..Len(q) -> Seq(T)]
    /\ f[0] = <<>>
    /\ \A n \in 1..Len(q) : f[n] = IF q[n] = x THEN f[n - 1] ELSE Append(f[n - 1], q[n])

LEMMA WithoutUnrolls ==
    ASSUME NEW T, NEW q \in Seq(T), NEW x
    PROVE  \E f : Drops(f, T, q, x) /\ Without(q, x) = f[Len(q)]
  <1> DEFINE N == Len(q)
             S == Seq(T)
             next(n, y) == IF q[n] = x THEN y ELSE Append(y, q[n])
             Loop(f) == [n \in 0..N |-> IF n = 0 THEN <<>> ELSE next(n, f[n - 1])]
             upto == CHOOSE f : f = Loop(f)
             step == [n \in 1..N |-> [y \in S |-> next(n, y)]]
  <1>1. Without(q, x) = upto[N]
    BY DEF Without
  <1>2. N \in Nat
    OBVIOUS
  <1>3. \A n \in 1..N : \A y \in S : next(n, y) \in S
    OBVIOUS
  <1>4. <<>> \in S
    OBVIOUS
  <1> HIDE DEF N, S, next
  <1>5. step \in [1..N -> [S -> S]] /\ \A n \in 1..N : \A y \in S : step[n][y] = next(n, y)
    BY <1>3
  <1> HIDE DEF step
  <1>6. PICK f : Unrolls(f, N, S, <<>>, step)
    BY <1>2, <1>4, <1>5, Defined
  <1>7. \A n \in 1..N : n - 1 \in 0..N /\ n \in 0..N /\ n # 0
    BY <1>2
  <1>8. \A n \in 0..N : n # 0 => n \in 1..N
    BY <1>2
  <1>9. \A n \in 0..N : f[n] = IF n = 0 THEN <<>> ELSE next(n, f[n - 1])
    BY <1>5, <1>6, <1>7, <1>8 DEF Unrolls
  <1>10. f = Loop(f)
    BY <1>6, <1>9 DEF Unrolls
  <1>11. upto = Loop(upto)
    BY <1>10
  <1> HIDE DEF upto
  <1>12. upto[0] = <<>> /\ \A n \in 1..N : upto[n] = next(n, upto[n - 1])
    BY <1>2, <1>7, <1>11
  <1>13. \A n \in 0..N : upto[n] \in S
    <2>1. \A n \in 1..N : upto[n - 1] \in S => upto[n] \in S
      BY <1>3, <1>12
    <2> QED
      BY <1>2, <1>4, <1>12, <2>1, Preserved
  <1>14. upto = [n \in 0..N |-> upto[n]]
    BY <1>11
  <1>15. upto \in [0..N -> S]
    BY <1>13, <1>14
  <1>16. upto \in [0..Len(q) -> Seq(T)] /\ upto[0] = <<>> /\ Without(q, x) = upto[Len(q)]
    BY <1>1, <1>12, <1>15 DEF N, S
  <1>17. \A n \in 1..Len(q) : upto[n] = IF q[n] = x THEN upto[n - 1] ELSE Append(upto[n - 1], q[n])
    BY <1>12 DEF N, next
  <1> QED
    BY <1>16, <1>17 DEF Drops

LEMMA AppendHolds ==
    ASSUME NEW T, NEW q \in Seq(T), NEW x \in T
    PROVE  Holds(Append(q, x)) = Holds(q) \cup {x}
  <1> DEFINE g == Append(q, x)
  <1>1. /\ DOMAIN g = 1..(Len(q) + 1) /\ DOMAIN q = 1..Len(q) /\ Len(q) \in Nat
        /\ g[Len(q) + 1] = x /\ \A i \in 1..Len(q) : g[i] = q[i]
    OBVIOUS
  <1> HIDE DEF g
  <1>2. Holds(g) = Holds(q) \cup {x}
    <2>1. \A i \in DOMAIN g : i \in DOMAIN q \/ i = Len(q) + 1
      BY <1>1
    <2>2. DOMAIN q \subseteq DOMAIN g /\ Len(q) + 1 \in DOMAIN g
      BY <1>1
    <2>3. \A i \in DOMAIN q : g[i] = q[i]
      BY <1>1
    <2> QED
      BY <1>1, <2>1, <2>2, <2>3 DEF Holds
  <1> QED
    BY <1>2 DEF g

\* What is left is what was there but x, and no more of it; if x was not there it is all.
LEMMA WithoutOK ==
    ASSUME NEW T, NEW q \in Seq(T), NEW x
    PROVE  /\ Without(q, x) \in Seq(T) /\ Len(Without(q, x)) <= Len(q)
           /\ Holds(Without(q, x)) = Holds(q) \ {x}
           /\ x \notin Holds(q) => Without(q, x) = q
  <1>1. PICK f : Drops(f, T, q, x) /\ Without(q, x) = f[Len(q)]
    BY WithoutUnrolls
  <1> DEFINE N == Len(q)
             P == {n \in Nat : n <= N =>
                     /\ Len(f[n]) <= n
                     /\ Holds(f[n]) = {q[i] : i \in 1..n} \ {x}
                     /\ x \notin Holds(q) => f[n] = SubSeq(q, 1, n)}
  <1> USE DEF Drops
  <1>2. N \in Nat /\ DOMAIN q = 1..N
    BY LenProperties
  <1>3. 0 \in P
    <2>1. SubSeq(q, 1, 0) = <<>> /\ Holds(<<>>) = {}
      BY DEF Holds
    <2> QED
      BY <1>1, <2>1
  <1>4. ASSUME NEW n \in Nat, n \in P PROVE n + 1 \in P
    <2> SUFFICES ASSUME n + 1 <= N
                 PROVE  /\ Len(f[n + 1]) <= n + 1
                        /\ Holds(f[n + 1]) = {q[i] : i \in 1..(n + 1)} \ {x}
                        /\ x \notin Holds(q) => f[n + 1] = SubSeq(q, 1, n + 1)
      OBVIOUS
    <2>1. n + 1 \in 1..N /\ (n + 1) - 1 = n /\ n \in 0..N /\ n <= N
      BY <1>2
    <2>2. /\ Len(f[n]) <= n
          /\ Holds(f[n]) = {q[i] : i \in 1..n} \ {x}
          /\ x \notin Holds(q) => f[n] = SubSeq(q, 1, n)
      BY <1>4, <2>1
    <2>3. f[n + 1] = IF q[n + 1] = x THEN f[n] ELSE Append(f[n], q[n + 1])
      BY <1>1, <2>1
    <2>4. f[n] \in Seq(T) /\ q[n + 1] \in T
      BY <1>1, <1>2, <2>1
    <2>5. {q[i] : i \in 1..(n + 1)} = {q[i] : i \in 1..n} \cup {q[n + 1]}
      <3>1. 1..(n + 1) = 1..n \cup {n + 1}
        OBVIOUS
      <3> QED
        BY <3>1
    <2>6. CASE q[n + 1] = x
      <3>1. x \in Holds(q)
        BY <1>2, <2>1, <2>6 DEF Holds
      <3> QED
        BY <2>2, <2>3, <2>4, <2>5, <2>6, <3>1
    <2>7. CASE q[n + 1] # x
      <3>1. Holds(Append(f[n], q[n + 1])) = Holds(f[n]) \cup {q[n + 1]}
        BY <2>4, AppendHolds
      <3>2. Len(Append(f[n], q[n + 1])) <= n + 1
        BY <2>2, <2>4
      <3>3. SubSeq(q, 1, n + 1) = Append(SubSeq(q, 1, n), q[n + 1])
        BY <1>2, <2>1
      <3> QED
        BY <2>2, <2>3, <2>5, <2>7, <3>1, <3>2, <3>3
    <2> QED
      BY <2>6, <2>7
  <1>5. \A n \in Nat : n \in P
    <2> HIDE DEF P
    <2> QED
      BY <1>3, <1>4, Induction
  <1>6. N \in P
    BY <1>2, <1>5
  <1>7. Holds(q) = {q[i] : i \in 1..N}
    BY <1>2 DEF Holds
  <1>8. SubSeq(q, 1, N) = q
    BY <1>2
  <1> QED
    BY <1>1, <1>2, <1>6, <1>7, <1>8

\* f[n] is what the first n entries of h spell.
Spells(f, h) ==
    /\ f \in [0..Len(h) -> Texts]
    /\ f[0] = <<>>
    /\ \A n \in 1..Len(h) : f[n] = f[n - 1] \o h[n] \o <<"\n">>

LEMMA SpelledUnrolls ==
    ASSUME NEW h \in Seq(Texts)
    PROVE  \E f : Spells(f, h) /\ Spelled(h) = f[Len(h)]
  <1> DEFINE N == Len(h)
             next(n, x) == x \o h[n] \o <<"\n">>
             Loop(f) == [n \in 0..N |-> IF n = 0 THEN <<>> ELSE next(n, f[n - 1])]
             upto == CHOOSE f : f = Loop(f)
             step == [n \in 1..N |-> [x \in Texts |-> next(n, x)]]
  <1>1. Spelled(h) = upto[N]
    BY DEF Spelled
  <1>2. N \in Nat
    OBVIOUS
  <1>3. ASSUME NEW n \in 1..N, NEW x \in Texts PROVE next(n, x) \in Texts
    <2>1. h[n] \in Texts /\ <<"\n">> \in Texts
      BY TextsOK
    <2> QED
      BY <2>1 DEF Texts
  <1>4. <<>> \in Texts
    BY TextsOK
  <1> HIDE DEF N, next
  <1>5. step \in [1..N -> [Texts -> Texts]]
    BY <1>3
  <1>6. \A n \in 1..N : \A x \in Texts : step[n][x] = next(n, x)
    OBVIOUS
  <1> HIDE DEF step
  <1>7. PICK f : Unrolls(f, N, Texts, <<>>, step)
    BY <1>2, <1>4, <1>5, Defined
  <1>8. \A n \in 1..N : n - 1 \in 0..N /\ n \in 0..N /\ n # 0
    BY <1>2
  <1>9. \A n \in 0..N : n # 0 => n \in 1..N
    BY <1>2
  <1>10. \A n \in 0..N : f[n] = IF n = 0 THEN <<>> ELSE next(n, f[n - 1])
    BY <1>6, <1>7, <1>8, <1>9 DEF Unrolls
  <1>11. f = Loop(f)
    BY <1>7, <1>10 DEF Unrolls
  <1>12. upto = Loop(upto)
    BY <1>11
  <1> HIDE DEF upto
  <1>13. upto[0] = <<>> /\ \A n \in 1..N : upto[n] = next(n, upto[n - 1])
    BY <1>2, <1>8, <1>12
  <1>14. \A n \in 0..N : upto[n] \in Texts
    <2>1. \A n \in 1..N : upto[n - 1] \in Texts => upto[n] \in Texts
      BY <1>3, <1>13
    <2> QED
      BY <1>2, <1>4, <1>13, <2>1, Preserved
  <1>15. upto = [n \in 0..N |-> upto[n]]
    BY <1>12
  <1>16. upto \in [0..N -> Texts]
    BY <1>14, <1>15
  <1> QED
    BY <1>1, <1>13, <1>16 DEF N, next, Spells

\* What is written is a text.
LEMMA SpelledOK ==
    ASSUME NEW h \in Seq(Texts)
    PROVE  Spelled(h) \in Texts
  <1>1. PICK f : Spells(f, h) /\ Spelled(h) = f[Len(h)]
    BY SpelledUnrolls
  <1> QED
    BY <1>1 DEF Spells

\* g[n] is what the lines that end up to n are.
Breaks(t) == {i \in 1..Len(t) : t[i] = "\n"} \cup {Len(t) + 1}
Earlier(t, i) == {e \in Breaks(t) : e < i}
LineStart(t, i) ==
    IF Earlier(t, i) = {} THEN 0
    ELSE CHOOSE e \in Earlier(t, i) : \A o \in Earlier(t, i) : o <= e

LineUpTo(t, n) == Trimmed(SubSeq(t, LineStart(t, n) + 1, n - 1))

Reads(g, t) ==
    /\ g \in [0..(Len(t) + 1) -> Seq(Texts)]
    /\ g[0] = <<>>
    /\ \A n \in 1..(Len(t) + 1) :
          g[n] = IF n \in Breaks(t) /\ LineUpTo(t, n) # <<>>
                 THEN Append(g[n - 1], LineUpTo(t, n)) ELSE g[n - 1]

\* What is printable of a text, and a text all of which is.
LEMMA PrintableOK ==
    ASSUME NEW t \in Texts
    PROVE  Printable(t) \in Texts /\ Holds(Printable(t)) = Holds(t) \ {"\n", "\r"}
  <1>1. t \in Seq(Letters)
    BY DEF Texts
  <1> DEFINE u == Without(t, "\n")
  <1>2. u \in Seq(Letters) /\ Holds(u) = Holds(t) \ {"\n"}
    BY <1>1, WithoutOK
  <1> HIDE DEF u
  <1>3. Without(u, "\r") \in Seq(Letters) /\ Holds(Without(u, "\r")) = Holds(u) \ {"\r"}
    BY <1>2, WithoutOK
  <1> QED
    BY <1>2, <1>3 DEF Printable, Texts, u

LEMMA TrimmedOK ==
    ASSUME NEW t \in Texts
    PROVE  Trimmed(t) \in Texts /\ (Printable(t) = t => Trimmed(t) = t)
  <1> DEFINE kept == {i \in DOMAIN t : t[i] # "\r"}
             last == IF kept = {} THEN 0 ELSE CHOOSE i \in kept : \A o \in kept : o <= i
  <1>1. Trimmed(t) = SubSeq(t, 1, last)
    BY DEF Trimmed
  <1>2. t \in Seq(Letters) /\ Len(t) \in Nat /\ DOMAIN t = 1..Len(t)
        /\ \A i \in 1..Len(t) : t[i] \in Letters
    BY DEF Texts
  <1>3. kept \subseteq 1..Len(t) /\ kept \in SUBSET Nat /\ \A k \in kept : k <= Len(t)
    BY <1>2
  <1>4. Printable(t) = t => kept = 1..Len(t)
    <2>1. SUFFICES ASSUME Printable(t) = t, NEW i \in 1..Len(t) PROVE t[i] # "\r"
      BY <1>2
    <2>2. t[i] \in Holds(t)
      BY <1>2 DEF Holds
    <2> QED
      BY <2>1, <2>2, PrintableOK
  <1> HIDE DEF kept
  <1>5. /\ kept = {} => last = 0
        /\ kept # {} => last \in kept /\ \A o \in kept : o <= last
    <2>1. ASSUME kept # {} PROVE \E m \in kept : \A k \in kept : k <= m
      BY <1>2, <1>3, <2>1, Greatest
    <2> QED
      BY <2>1
  <1> HIDE DEF last
  <1>6. last \in 0..Len(t)
    <2>1. CASE kept = {}
      BY <1>2, <1>5, <2>1
    <2>2. CASE kept # {}
      <3>1. last \in 1..Len(t)
        BY <1>3, <1>5, <2>2
      <3> QED
        BY <1>2, <3>1
    <2> QED
      BY <2>1, <2>2
  <1>7. kept = 1..Len(t) => last = Len(t)
    <2> SUFFICES ASSUME kept = 1..Len(t) PROVE last = Len(t)
      OBVIOUS
    <2>1. CASE Len(t) = 0
      BY <1>6, <2>1
    <2>2. CASE Len(t) # 0
      <3>1. Len(t) \in kept
        BY <1>2, <2>2
      <3>2. Len(t) <= last
        BY <1>5, <3>1
      <3>3. Len(t) \in Nat /\ last \in Nat /\ last <= Len(t)
        <4>1. Len(t) \in Nat
          BY <1>2
        <4> QED
          BY <1>6, <4>1
      <3> QED
        BY <3>2, <3>3
    <2> QED
      BY <2>1, <2>2
  <1>8. SubSeq(t, 1, last) \in Seq(Letters)
    <2>1. last \in Int /\ 1 \in Int /\ \A i \in 1..last : t[i] \in Letters
      BY <1>2, <1>6
    <2> QED
      BY <2>1, SubSeqProperties
  <1>9. SubSeq(t, 1, Len(t)) = t
    BY <1>2, SubSeqFull
  <1> QED
    BY <1>1, <1>4, <1>7, <1>8, <1>9 DEF Texts

LEMMA LinesUnrolls ==
    ASSUME NEW t \in Texts
    PROVE  \E g : Reads(g, t) /\ LinesOf(t) = g[Len(t) + 1]
  <1> DEFINE N == Len(t) + 1
             S == Seq(Texts)
             ends == {i \in 1..Len(t) : t[i] = "\n"} \cup {Len(t) + 1}
             before(i) == {e \in ends : e < i}
             start(i) == IF before(i) = {} THEN 0
                         ELSE CHOOSE e \in before(i) : \A o \in before(i) : o <= e
             text(i) == Trimmed(SubSeq(t, start(i) + 1, i - 1))
             next(n, x) == IF n \in ends /\ text(n) # <<>> THEN Append(x, text(n)) ELSE x
             Cases(f) == [i \in 0..(Len(t) + 1) |->
                             CASE i = 0 -> <<>>
                               [] i \in ends /\ text(i) # <<>> -> Append(f[i - 1], text(i))
                               [] OTHER -> f[i - 1]]
             upto == CHOOSE f : f = Cases(f)
             step == [n \in 1..N |-> [x \in S |-> next(n, x)]]
  <1>1. LinesOf(t) = upto[N]
    BY DEF LinesOf
  <1>2. Len(t) \in Nat /\ N \in Nat
    BY DEF Texts
  <1>3. ASSUME NEW n \in 1..N, NEW x \in S PROVE next(n, x) \in S
    <2>1. start(n) \in Nat
      <3>1. CASE before(n) = {}
        BY <3>1
      <3>2. CASE before(n) # {}
        <4>1. before(n) \in SUBSET Nat /\ n \in Nat /\ \A k \in before(n) : k <= n
          BY <1>2
        <4> HIDE DEF before
        <4>2. \E m \in before(n) : \A k \in before(n) : k <= m
          BY <3>2, <4>1, Greatest
        <4> QED
          BY <3>2, <4>1, <4>2
      <3> QED
        BY <3>1, <3>2
    <2> HIDE DEF start
    <2>2. text(n) \in Texts
      <3>1. start(n) + 1 \in Int /\ n - 1 \in Int
            /\ \A i \in (start(n) + 1)..(n - 1) : i \in 1..Len(t)
        BY <1>2, <2>1
      <3>2. \A i \in 1..Len(t) : t[i] \in Letters
        BY DEF Texts
      <3>3. SubSeq(t, start(n) + 1, n - 1) \in Seq(Letters)
        BY <3>1, <3>2, SubSeqProperties
      <3> QED
        BY <3>3, TrimmedOK DEF Texts
    <2> HIDE DEF ends, text
    <2> QED
      BY <2>2
  <1>4. <<>> \in S
    OBVIOUS
  <1>5. \A n \in 0..N : \A f : n # 0 =>
            Cases(f)[n] = next(n, f[n - 1])
    <2> HIDE DEF ends, text
    <2> QED
      BY <1>2
  <1>6. \A f : Cases(f)[0] = <<>> /\ Cases(f) = [n \in 0..N |-> Cases(f)[n]]
    BY <1>2
  <1> HIDE DEF N, next, S, Cases
  <1>7. step \in [1..N -> [S -> S]] /\ \A n \in 1..N : \A x \in S : step[n][x] = next(n, x)
    BY <1>3
  <1> HIDE DEF step
  <1>8. PICK f : Unrolls(f, N, S, <<>>, step)
    BY <1>2, <1>4, <1>7, Defined
  <1>9. \A n \in 1..N : n - 1 \in 0..N /\ n \in 0..N /\ n # 0
    BY <1>2
  <1>10. \A n \in 0..N : n # 0 => n \in 1..N
    BY <1>2
  <1>11. f = Cases(f)
    <2>1. ASSUME NEW n \in 0..N PROVE f[n] = Cases(f)[n]
      <3>1. CASE n = 0
        BY <1>6, <1>8, <3>1 DEF Unrolls
      <3>2. CASE n # 0
        <4>1. n \in 1..N /\ f[n - 1] \in S
          BY <1>8, <1>9, <1>10, <3>2 DEF Unrolls
        <4>2. f[n] = step[n][f[n - 1]]
          BY <1>8, <4>1 DEF Unrolls
        <4>3. Cases(f)[n] = next(n, f[n - 1])
          BY <1>5, <3>2
        <4> QED
          BY <1>7, <4>1, <4>2, <4>3
      <3> QED
        BY <3>1, <3>2
    <2>2. f = [n \in 0..N |-> f[n]]
      BY <1>8 DEF Unrolls
    <2> QED
      BY <1>6, <2>1, <2>2
  <1>12. upto = Cases(upto)
    BY <1>11
  <1> HIDE DEF upto
  <1>13. upto[0] = <<>> /\ \A n \in 1..N : upto[n] = next(n, upto[n - 1])
    BY <1>5, <1>6, <1>9, <1>12
  <1>14. \A n \in 0..N : upto[n] \in S
    <2>1. \A n \in 1..N : upto[n - 1] \in S => upto[n] \in S
      BY <1>3, <1>13
    <2> QED
      BY <1>2, <1>4, <1>13, <2>1, Preserved
  <1>15. upto = [n \in 0..N |-> upto[n]]
    BY <1>6, <1>12
  <1>16. upto \in [0..N -> S]
    BY <1>14, <1>15
  <1>17. \A n \in 1..N : start(n) = LineStart(t, n)
    BY DEF LineStart, Earlier, Breaks
  <1>18. ends = Breaks(t)
    BY DEF Breaks
  <1>20. \A n \in 1..N : text(n) = LineUpTo(t, n)
    <2> HIDE DEF start
    <2> QED
      BY <1>17 DEF LineUpTo
  <1> HIDE DEF text, ends
  <1>19. \A n \in 1..N : upto[n] = IF n \in Breaks(t) /\ LineUpTo(t, n) # <<>>
              THEN Append(upto[n - 1], LineUpTo(t, n)) ELSE upto[n - 1]
    BY <1>13, <1>18, <1>20 DEF next
  <1> QED
    BY <1>1, <1>13, <1>16, <1>19 DEF S, N, Reads

\* What is read are texts.
LEMMA LinesOK ==
    ASSUME NEW t \in Texts
    PROVE  LinesOf(t) \in Seq(Texts)
  <1>1. PICK g : Reads(g, t) /\ LinesOf(t) = g[Len(t) + 1]
    BY LinesUnrolls
  <1>2. Len(t) \in Nat
    BY DEF Texts
  <1> QED
    BY <1>1, <1>2 DEF Reads

\* One line more.
LEMMA LineIs ==
    ASSUME NEW x \in Texts, NEW y \in Texts, NEW z, z = x \o y \o <<"\n">>
    PROVE  /\ Len(z) = Len(x) + Len(y) + 1
           /\ z[Len(z)] = "\n"
           /\ \A j \in 1..Len(x) : z[j] = x[j]
           /\ \A j \in 1..Len(y) : z[Len(x) + j] = y[j]
  <1>1. x \in Seq(Letters) /\ y \in Seq(Letters) /\ Len(x) \in Nat /\ Len(y) \in Nat
    BY DEF Texts
  <1> DEFINE e == <<"\n">>
             g == x \o y
  <1>2. e \in Seq(Letters) /\ Len(e) = 1 /\ e[1] = "\n"
    BY DEF Letters
  <1>3. /\ g \in Seq(Letters) /\ Len(g) = Len(x) + Len(y)
        /\ \A j \in 1..Len(g) : g[j] = IF j <= Len(x) THEN x[j] ELSE y[j - Len(x)]
    BY <1>1, ConcatProperties
  <1>4. z = g \o e
    OBVIOUS
  <1> HIDE DEF g, e
  <1>5. /\ Len(z) = Len(g) + 1
        /\ \A j \in 1..Len(z) : z[j] = IF j <= Len(g) THEN g[j] ELSE e[j - Len(g)]
    BY <1>2, <1>3, <1>4, ConcatProperties
  <1>6. Len(g) \in Nat
    BY <1>1, <1>3
  <1>7. ASSUME NEW j \in 1..Len(x) PROVE z[j] = x[j]
    <2>1. j \in 1..Len(z) /\ j <= Len(g) /\ j \in 1..Len(g) /\ j <= Len(x)
      BY <1>1, <1>3, <1>5
    <2> QED
      BY <1>3, <1>5, <2>1
  <1>8. ASSUME NEW j \in 1..Len(y) PROVE z[Len(x) + j] = y[j]
    <2>1. /\ Len(x) + j \in 1..Len(z) /\ Len(x) + j <= Len(g) /\ Len(x) + j \in 1..Len(g)
          /\ ~(Len(x) + j <= Len(x)) /\ (Len(x) + j) - Len(x) = j
      BY <1>1, <1>3, <1>5
    <2> QED
      BY <1>3, <1>5, <2>1
  <1>9. z[Len(z)] = "\n"
    <2>1. Len(z) \in 1..Len(z) /\ ~(Len(z) <= Len(g)) /\ Len(z) - Len(g) = 1
      BY <1>5, <1>6
    <2> QED
      BY <1>2, <1>5, <2>1
  <1> QED
    BY <1>3, <1>5, <1>7, <1>8, <1>9

\* What is written: entry after entry, each up to a "\n" of its own.
LEMMA SpelledIs ==
    ASSUME NEW h \in Seq(Texts), NEW f, Spells(f, h)
    PROVE  /\ Len(f[0]) = 0
           /\ \A k \in 0..Len(h) : Len(f[k]) \in Nat /\ Len(f[k]) <= Len(f[Len(h)])
           /\ \A k \in 1..Len(h) :
                /\ Len(f[k]) = Len(f[k - 1]) + Len(h[k]) + 1
                /\ f[Len(h)][Len(f[k])] = "\n"
                /\ \A j \in 1..Len(h[k]) : f[Len(h)][Len(f[k - 1]) + j] = h[k][j]
  <1> DEFINE N == Len(h)
             P == {m \in Nat : m <= N =>
                     \A k \in 0..m : Len(f[k]) <= Len(f[m]) /\ \A j \in 1..Len(f[k]) : f[m][j] = f[k][j]}
  <1>1. N \in Nat /\ \A k \in 0..N : f[k] \in Texts /\ Len(f[k]) \in Nat
    BY DEF Spells, Texts
  <1>2. ASSUME NEW k \in 1..N
        PROVE  /\ Len(f[k]) = Len(f[k - 1]) + Len(h[k]) + 1
               /\ f[k][Len(f[k])] = "\n"
               /\ \A j \in 1..Len(h[k]) : f[k][Len(f[k - 1]) + j] = h[k][j]
               /\ \A j \in 1..Len(f[k - 1]) : f[k][j] = f[k - 1][j]
    <2>1. f[k] = f[k - 1] \o h[k] \o <<"\n">> /\ k - 1 \in 0..N
      <3> HIDE DEF P
      <3>1. k - 1 \in 0..N
        BY <1>1
      <3> QED
        BY <3>1 DEF Spells
    <2>2. f[k - 1] \in Texts /\ h[k] \in Texts
      BY <1>1, <2>1
    <2> HIDE DEF P
    <2> DEFINE a == f[k - 1]
               b == h[k]
               z == f[k]
    <2>3. z = a \o b \o <<"\n">> /\ a \in Texts /\ b \in Texts
      BY <2>1, <2>2
    <2> HIDE DEF a, b, z
    <2>4. /\ Len(z) = Len(a) + Len(b) + 1 /\ z[Len(z)] = "\n"
          /\ \A j \in 1..Len(a) : z[j] = a[j]
          /\ \A j \in 1..Len(b) : z[Len(a) + j] = b[j]
      BY <2>3, LineIs
    <2> QED
      BY <2>4 DEF a, b, z
  <1>3. 0 \in P
    BY <1>1
  <1>4. ASSUME NEW m \in Nat, m \in P PROVE m + 1 \in P
    <2> SUFFICES ASSUME m + 1 <= N, NEW k \in 0..(m + 1)
                 PROVE  Len(f[k]) <= Len(f[m + 1]) /\ \A j \in 1..Len(f[k]) : f[m + 1][j] = f[k][j]
      OBVIOUS
    <2>1. m + 1 \in 1..N /\ (m + 1) - 1 = m /\ m \in 0..N /\ k \in 0..N /\ m + 1 \in 0..N
      BY <1>1
    <2>2. Len(f[m]) <= Len(f[m + 1]) /\ \A j \in 1..Len(f[m]) : f[m + 1][j] = f[m][j]
      <3>1. h[m + 1] \in Seq(Letters)
        BY <2>1 DEF Texts
      <3>2. Len(h[m + 1]) \in Nat
        BY <3>1
      <3>3. Len(f[m + 1]) = Len(f[m]) + Len(h[m + 1]) + 1 /\ \A j \in 1..Len(f[m]) : f[m + 1][j] = f[m][j]
        BY <1>2, <2>1
      <3>4. Len(f[m]) \in Nat
        BY <1>1, <2>1
      <3> DEFINE a == Len(f[m])
                 b == Len(h[m + 1])
                 c == Len(f[m + 1])
      <3>5. a <= c
        <4>1. a \in Nat /\ b \in Nat /\ c = a + b + 1
          BY <3>2, <3>3, <3>4
        <4> HIDE DEF a, b, c
        <4> QED
          BY <4>1
      <3> QED
        BY <3>3, <3>5
    <2>3. CASE k = m + 1
      <3>1. Len(f[m + 1]) \in Nat
        BY <1>1, <2>1
      <3> QED
        BY <2>3, <3>1
    <2>4. CASE k # m + 1
      <3>1. k \in 0..m /\ m <= N
        BY <2>1, <2>4
      <3>2. Len(f[k]) <= Len(f[m]) /\ \A j \in 1..Len(f[k]) : f[m][j] = f[k][j]
        BY <1>4, <3>1
      <3>3. Len(f[k]) \in Nat /\ Len(f[m]) \in Nat /\ Len(f[m + 1]) \in Nat
        BY <1>1, <2>1
      <3> DEFINE a == Len(f[k])
                 b == Len(f[m])
                 c == Len(f[m + 1])
      <3>4. a <= c /\ \A j \in 1..a : j \in 1..b
        <4>1. a \in Nat /\ b \in Nat /\ c \in Nat /\ a <= b /\ b <= c
          BY <2>2, <3>2, <3>3
        <4> HIDE DEF a, b, c
        <4> QED
          BY <4>1
      <3>5. ASSUME NEW j \in 1..a PROVE f[m + 1][j] = f[k][j]
        <4>1. j \in 1..b
          BY <3>4
        <4> HIDE DEF P
        <4> QED
          BY <2>2, <3>2, <4>1
      <3> QED
        BY <3>4, <3>5
    <2> QED
      BY <2>3, <2>4
  <1>5. N \in P
    <2>1. \A m \in Nat : m \in P
      <3> HIDE DEF P
      <3> QED
        BY <1>3, <1>4, Induction
    <2> QED
      BY <1>1, <2>1
  <1>6. \A k \in 0..N : Len(f[k]) <= Len(f[N]) /\ \A j \in 1..Len(f[k]) : f[N][j] = f[k][j]
    BY <1>1, <1>5
  <1>7. ASSUME NEW k \in 1..N
        PROVE  /\ Len(f[k]) = Len(f[k - 1]) + Len(h[k]) + 1
               /\ f[N][Len(f[k])] = "\n"
               /\ \A j \in 1..Len(h[k]) : f[N][Len(f[k - 1]) + j] = h[k][j]
    <2>1. k \in 0..N /\ k - 1 \in 0..N
      BY <1>1
    <2>2. Len(h[k]) \in Nat
      <3>1. h[k] \in Seq(Letters)
        BY DEF Texts
      <3> QED
        BY <3>1
    <2> DEFINE a == Len(f[k - 1])
               b == Len(h[k])
               c == Len(f[k])
    <2>3. a \in Nat /\ b \in Nat /\ c = a + b + 1 /\ c <= Len(f[N])
      BY <1>1, <1>2, <1>6, <2>1, <2>2
    <2>4. c \in 1..c /\ \A j \in 1..b : a + j \in 1..c
      <3> HIDE DEF a, b, c
      <3> QED
        BY <2>3
    <2>5. \A j \in 1..c : f[N][j] = f[k][j]
      BY <1>6, <2>1
    <2>6. f[k][c] = "\n" /\ \A j \in 1..b : f[k][a + j] = h[k][j]
      BY <1>2
    <2> HIDE DEF P
    <2>7. f[N][c] = "\n"
      BY <2>4, <2>5, <2>6
    <2>8. \A j \in 1..b : f[N][a + j] = h[k][j]
      BY <2>4, <2>5, <2>6
    <2> QED
      BY <2>3, <2>7, <2>8
  <1>8. Len(f[0]) = 0
    BY DEF Spells
  <1> QED
    BY <1>1, <1>6, <1>7, <1>8

\* A history that is written and read again: bestlineHistoryLoad splits what
\* bestlineHistorySave wrote at the ends of its lines, and only there.
LEMMA ReadsBack ==
    ASSUME NEW h \in Seq(Texts), \A x \in Holds(h) : OneLine(x)
    PROVE  LinesOf(Spelled(h)) = Entries(h)
  <1> DEFINE N == Len(h)
  <1>1. PICK f : Spells(f, h) /\ Spelled(h) = f[N]
    BY SpelledUnrolls
  <1> DEFINE t == f[N]
             p(k) == Len(f[k])
  <1>2. N \in Nat /\ DOMAIN h = 1..N
    OBVIOUS
  <1>3. t \in Texts /\ Len(t) \in Nat
    BY <1>1, <1>2 DEF Spells, Texts
  <1>4. PICK g : Reads(g, t) /\ LinesOf(t) = g[Len(t) + 1]
    BY <1>3, LinesUnrolls
  <1>5. PICK d : Drops(d, Texts, h, <<>>) /\ Entries(h) = d[N]
    BY WithoutUnrolls DEF Entries
  <1>6. ASSUME NEW k \in 1..N
        PROVE  /\ h[k] \in Seq(Letters) /\ Len(h[k]) \in Nat /\ Trimmed(h[k]) = h[k]
               /\ \A j \in 1..Len(h[k]) : h[k][j] # "\n"
    <2>1. h[k] \in Seq(Letters) /\ h[k] \in Texts
      BY DEF Texts
    <2>2. Printable(h[k]) = h[k]
      BY <1>2 DEF Holds, OneLine
    <2>3. Holds(h[k]) = Holds(h[k]) \ {"\n", "\r"}
      BY <2>1, <2>2, PrintableOK
    <2>4. DOMAIN h[k] = 1..Len(h[k])
      BY <2>1
    <2>5. Trimmed(h[k]) = h[k]
      BY <2>1, <2>2, TrimmedOK
    <2> QED
      BY <2>1, <2>3, <2>4, <2>5 DEF Holds
  <1>7. /\ p(0) = 0
        /\ \A k \in 0..N : p(k) \in Nat /\ p(k) <= Len(t)
        /\ \A k \in 1..N : /\ p(k) = p(k - 1) + Len(h[k]) + 1
                           /\ t[p(k)] = "\n"
                           /\ \A j \in 1..Len(h[k]) : t[p(k - 1) + j] = h[k][j]
    BY <1>1, SpelledIs
  <1>8. p(N) = Len(t)
    OBVIOUS
  <1> HIDE DEF t, p
  \* Where lines end.
  <1>9. ASSUME NEW k \in 1..N
        PROVE  /\ p(k) \in Breaks(t)
               /\ \A e \in Breaks(t) : p(k - 1) < e => p(k) <= e
    <2>1. k \in 0..N /\ k - 1 \in 0..N
      BY <1>2
    <2> DEFINE a == p(k - 1)
               b == Len(h[k])
               c == p(k)
    <2>0. a \in Nat /\ b \in Nat /\ c = a + b + 1 /\ c <= Len(t)
      BY <1>6, <1>7, <2>1
    <2>2. p(k) \in 1..Len(t)
      <3>1. c \in 1..Len(t)
        <4> HIDE DEF a, b, c
        <4> QED
          BY <1>3, <2>0
      <3> QED
        BY <3>1
    <2>3. ASSUME NEW e \in Breaks(t), p(k - 1) < e, e < p(k) PROVE FALSE
      <3>1. e \in 1..Len(t) /\ t[e] = "\n"
        BY <1>3, <2>2, <2>3 DEF Breaks
      <3> DEFINE j == e - p(k - 1)
      <3>2. j \in 1..Len(h[k]) /\ p(k - 1) + j = e
        <4>1. e \in Nat /\ a < e /\ e < c /\ j = e - a
          BY <1>3, <2>3, <3>1
        <4> HIDE DEF a, b, c, j
        <4>2. j \in 1..b /\ a + j = e
          BY <2>0, <4>1
        <4> QED
          BY <4>2 DEF a, b
      <3>3. t[e] = h[k][j]
        BY <1>7, <3>2
      <3> QED
        BY <1>6, <3>1, <3>2, <3>3
    <2>4. \A e \in Breaks(t) : e \in Nat
      BY <1>3 DEF Breaks
    <2> QED
      BY <1>7, <2>1, <2>2, <2>3, <2>4 DEF Breaks
  <1>10. ASSUME NEW k \in 0..N, NEW i \in Breaks(t), p(k) < i, \A e \in Breaks(t) : p(k) < e => i <= e
         PROVE  LineStart(t, i) = p(k)
    <2>1. \A e \in Breaks(t) : e \in Nat /\ e >= 1
      BY <1>3 DEF Breaks
    <2>2. \A e \in Earlier(t, i) : e <= p(k)
      <3> SUFFICES ASSUME NEW e \in Breaks(t), e < i PROVE e <= p(k)
        BY DEF Earlier
      <3>1. e \in Nat /\ i \in Nat /\ p(k) \in Nat /\ ~(i <= e)
        BY <1>7, <2>1
      <3>2. ~(p(k) < e)
        BY <1>10, <3>1
      <3> QED
        BY <3>1, <3>2
    <2>3. CASE k = 0
      <3>1. Earlier(t, i) = {}
        BY <1>7, <2>1, <2>2, <2>3 DEF Earlier
      <3> QED
        BY <1>7, <2>3, <3>1 DEF LineStart
    <2>4. CASE k # 0
      <3>1. k \in 1..N
        BY <1>2, <2>4
      <3>2. p(k) \in Earlier(t, i)
        BY <1>9, <1>10, <3>1 DEF Earlier
      <3>3. \A m \in Earlier(t, i) : (\A o \in Earlier(t, i) : o <= m) => m = p(k)
        <4>1. \A m \in Earlier(t, i) : m \in Nat
          BY <2>1 DEF Earlier
        <4> QED
          BY <2>2, <3>2, <4>1
      <3> QED
        BY <2>2, <3>2, <3>3 DEF LineStart
    <2> QED
      BY <2>3, <2>4
  <1>11. ASSUME NEW k \in 1..N, g[p(k - 1)] = d[k - 1]
         PROVE  g[p(k)] = d[k]
    <2>1. k \in 0..N /\ k - 1 \in 0..N
      BY <1>2
    <2> DEFINE a == p(k - 1)
               b == p(k)
    <2>2. /\ a \in Nat /\ b = a + Len(h[k]) + 1 /\ b <= Len(t) /\ a < b /\ b \in 1..(Len(t) + 1) /\ b - 1 \in Nat
          /\ \A j \in 1..Len(h[k]) : t[a + j] = h[k][j]
      BY <1>3, <1>6, <1>7, <2>1
    <2>3. b \in Breaks(t) /\ LineStart(t, b) = a
      BY <1>9, <1>10, <2>1, <2>2
    <2>4. \A n \in Nat : a < n /\ n < b => n \notin Breaks(t)
      BY <1>9, <2>2
    <2> HIDE DEF a, b
    <2> DEFINE P == {n \in Nat : a <= n /\ n < b => g[n] = g[a]}
    <2>5. 0 \in P
      BY <2>2
    <2>6. ASSUME NEW n \in Nat, n \in P PROVE n + 1 \in P
      <3> SUFFICES ASSUME a <= n + 1, n + 1 < b PROVE g[n + 1] = g[a]
        OBVIOUS
      <3>1. CASE a = n + 1
        BY <3>1
      <3>2. CASE a < n + 1
        <4>1. n + 1 \in 1..(Len(t) + 1) /\ n + 1 \notin Breaks(t) /\ (n + 1) - 1 = n
          BY <1>3, <2>2, <2>4, <3>2
        <4>2. g[n + 1] = g[n]
          BY <1>4, <4>1 DEF Reads
        <4> QED
          BY <2>2, <2>6, <3>2, <4>2
      <3> QED
        BY <2>2, <3>1, <3>2
    <2>7. g[b - 1] = g[a]
      <3>1. \A n \in Nat : n \in P
        <4> HIDE DEF P
        <4> QED
          BY <2>5, <2>6, Induction
      <3>2. b - 1 \in P
        BY <2>2, <3>1
      <3>3. a <= b - 1 /\ b - 1 < b
        BY <2>2
      <3> QED
        BY <3>2, <3>3
    <2>8. SubSeq(t, a + 1, b - 1) = h[k]
      <3> DEFINE x == SubSeq(t, a + 1, b - 1)
                 y == h[k]
      <3>1. y \in Seq(Letters) /\ t \in Seq(Letters)
        BY <1>3, <1>6 DEF Texts
      <3>2. x \in Seq(Letters) /\ Len(x) = Len(y) /\ \A j \in 1..Len(y) : x[j] = t[a + j]
        <4>1. a + 1 \in 1..(Len(t) + 1) /\ b - 1 \in 0..Len(t) /\ (b - 1) - (a + 1) + 1 = Len(y) /\ Len(y) \in Nat
          BY <1>3, <1>6, <2>2
        <4> HIDE DEF y
        <4>2. b - 1 \in (a + 1)..Len(t) \/ b - 1 = a
          BY <1>3, <2>2, <4>1
        <4> QED
          BY <1>3, <2>2, <3>1, <4>1, <4>2
      <3>3. \A j \in 1..Len(y) : x[j] = y[j]
        BY <2>2, <3>2
      <3> HIDE DEF x, y
      <3>4. x = y
        BY <3>1, <3>2, <3>3, SeqEqual
      <3> QED
        BY <3>4 DEF x, y
    <2>9. LineUpTo(t, b) = h[k]
      BY <1>6, <2>3, <2>8 DEF LineUpTo
    <2>10. g[b] = IF h[k] # <<>> THEN Append(g[b - 1], h[k]) ELSE g[b - 1]
      BY <1>4, <2>2, <2>3, <2>9 DEF Reads
    <2>11. d[k] = IF h[k] = <<>> THEN d[k - 1] ELSE Append(d[k - 1], h[k])
      BY <1>5 DEF Drops
    <2>12. g[a] = d[k - 1]
      BY <1>11 DEF a
    <2>13. g[b] = d[k]
      BY <2>7, <2>10, <2>11, <2>12
    <2> QED
      BY <2>13 DEF b
  <1>12. g[p(N)] = d[N]
    <2> DEFINE P == {k \in Nat : k <= N => g[p(k)] = d[k]}
    <2>1. 0 \in P
      BY <1>4, <1>5, <1>7 DEF Reads, Drops
    <2>2. ASSUME NEW k \in Nat, k \in P PROVE k + 1 \in P
      <3>1. k + 1 <= N => k + 1 \in 1..N /\ (k + 1) - 1 = k /\ k <= N
        BY <1>2
      <3> QED
        BY <1>11, <2>2, <3>1
    <2>3. \A k \in Nat : k \in P
      <3> HIDE DEF P
      <3> QED
        BY <2>1, <2>2, Induction
    <2> QED
      BY <1>2, <2>3
  \* The file ends with a line's end, or is empty.
  <1>13. g[Len(t) + 1] = g[Len(t)]
    <2>1. LineStart(t, Len(t) + 1) = Len(t)
      <3>1. N \in 0..N /\ Len(t) + 1 \in Breaks(t) /\ p(N) < Len(t) + 1
        BY <1>2, <1>3, <1>8 DEF Breaks
      <3>2. \A e \in Breaks(t) : p(N) < e => Len(t) + 1 <= e
        BY <1>3, <1>8 DEF Breaks
      <3> QED
        BY <1>8, <1>10, <3>1, <3>2
    <2>2. Len(t) + 1 \in 1..(Len(t) + 1) /\ (Len(t) + 1) - 1 = Len(t)
      BY <1>3
    <2>3. SubSeq(t, Len(t) + 1, Len(t)) = <<>>
      BY <1>3, SubSeqEmpty
    <2>4. Trimmed(<<>>) = <<>>
      <3>1. <<>> \in Texts /\ <<>> \in Seq(Letters)
        BY TextsOK
      <3>2. Without(<<>>, "\n") = <<>> /\ Without(<<>>, "\r") = <<>>
        <4>1. Holds(<<>>) = {}
          BY DEF Holds
        <4> QED
          BY <3>1, <4>1, WithoutOK
      <3> QED
        BY <3>1, <3>2, TrimmedOK DEF Printable
    <2>5. LineUpTo(t, Len(t) + 1) = <<>>
      BY <2>1, <2>2, <2>3, <2>4 DEF LineUpTo
    <2> QED
      BY <1>4, <2>2, <2>5 DEF Reads
  <1> QED
    BY <1>1, <1>4, <1>5, <1>8, <1>12, <1>13 DEF t

Slots == Texts \cup {NoKey}

LEMMA EmptyOK ==
    <<>> \in Histories /\ <<>> \in Tries /\ Holds(<<>>) = {}
  <1>1. MaxHistory \in Nat
    BY BoundsAssumption
  <1>2. <<>> \in Histories /\ Holds(<<>>) = {}
    BY <1>1 DEF Histories, Holds
  <1>3. PICK n \in Nat : <<>> \in [1..n -> Nat \ {0}]
    <2>1. <<>> \in Seq(Nat \ {0})
      OBVIOUS
    <2> QED
      BY <2>1, SeqDef
  <1>4. n = 0
    <2>1. DOMAIN <<>> = 1..n /\ DOMAIN <<>> = {}
      BY <1>3
    <2> QED
      BY <2>1
  <1>5. 1..n \in SUBSET Words
    BY <1>4
  <1>6. <<>> \in Tries
    BY <1>3, <1>5 DEF Tries
  <1> QED
    BY <1>2, <1>6

-----------------------------------------------------------------------------
(* The hashset.                                                            *)

\* A hash is masked to the capacity less one.
HashesAreIndices ==
    \A k \in Texts : \A c \in Nat \ {0} : HashIndex(k, c) \in 0..(c - 1)

\* The tables there could be, and what is in them.
Tables == {[entries |-> e, size |-> n] : e \in Seq(Slots) \ {<<>>}, n \in Nat}
Taken(h) == {i \in 1..Capacity(h) : h.entries[i] # NoKey}
Keys(h) == {h.entries[i] : i \in Taken(h)}

\* The n-th entry of the walk to k.
At(h, k, n) ==
    IF 1 + HashIndex(k, Capacity(h)) + n <= Capacity(h)
    THEN 1 + HashIndex(k, Capacity(h)) + n
    ELSE 1 + HashIndex(k, Capacity(h)) + n - Capacity(h)

\* The walk to k comes to it before it comes to an entry without a key.
Findable(h, k) ==
    \E n \in 0..(Capacity(h) - 1) :
        h.entries[At(h, k, n)] = k /\ \A o \in 0..(n - 1) : h.entries[At(h, k, o)] # NoKey

\* Every key can be found, and there is an entry without one.
Sound(h) ==
    /\ h \in Tables
    /\ \A k \in Keys(h) : Findable(h, k)
    /\ IsFiniteSet(Taken(h))

LEMMA TableOK ==
    ASSUME NEW h \in Tables
    PROVE  /\ h.entries \in Seq(Slots) /\ h.size \in Nat /\ Capacity(h) \in Nat \ {0}
           /\ DOMAIN h.entries = 1..Capacity(h)
           /\ \A i \in 1..Capacity(h) : h.entries[i] \in Slots
           /\ Keys(h) \subseteq Texts
           /\ h = [entries |-> h.entries, size |-> h.size]
           /\ IsFiniteSet(Taken(h)) /\ Cardinality(Taken(h)) \in Nat
  <1>1. PICK e \in Seq(Slots) \ {<<>>}, n \in Nat : h = [entries |-> e, size |-> n]
    BY DEF Tables
  <1>2. h.entries = e /\ h.size = n
    BY <1>1
  <1>3. Len(e) \in Nat \ {0} /\ DOMAIN e = 1..Len(e) /\ \A i \in 1..Len(e) : e[i] \in Slots
    BY EmptySeq, LenProperties, ElementOfSeq
  <1>4. Keys(h) \subseteq Texts
    BY <1>2, <1>3 DEF Keys, Taken, Capacity, Slots
  <1>5. IsFiniteSet(1..Capacity(h))
    BY <1>2, <1>3, FS_Interval DEF Capacity
  <1>6. IsFiniteSet(Taken(h)) /\ Cardinality(Taken(h)) \in Nat
    <2>1. Taken(h) \subseteq 1..Capacity(h)
      BY DEF Taken
    <2> QED
      BY <1>5, <2>1, FS_Subset, FS_CardinalityType
  <1> QED
    BY <1>1, <1>2, <1>3, <1>4, <1>6 DEF Capacity

\* The walk stays in the table, and comes everywhere.
LEMMA WalkOK ==
    ASSUME HashesAreIndices, NEW h \in Tables, NEW k \in Texts
    PROVE  /\ \A n \in 0..(Capacity(h) - 1) : At(h, k, n) \in 1..Capacity(h)
           /\ \A i \in 1..Capacity(h) : \E n \in 0..(Capacity(h) - 1) : At(h, k, n) = i
  <1> DEFINE c == Capacity(h)
             x == HashIndex(k, c)
  <1>1. c \in Nat \ {0} /\ x \in 0..(c - 1)
    BY TableOK DEF HashesAreIndices
  <1>2. \A n : At(h, k, n) = IF 1 + x + n <= c THEN 1 + x + n ELSE 1 + x + n - c
    BY DEF At
  <1> HIDE DEF c, x
  <1>3. \A n \in 0..(c - 1) : At(h, k, n) \in 1..c
    BY <1>1, <1>2
  <1>4. ASSUME NEW i \in 1..c PROVE \E n \in 0..(c - 1) : At(h, k, n) = i
    <2>1. CASE i >= 1 + x
      <3>1. i - 1 - x \in 0..(c - 1) /\ At(h, k, i - 1 - x) = i
        BY <1>1, <1>2, <2>1
      <3> QED
        BY <3>1
    <2>2. CASE i < 1 + x
      <3>1. i + c - 1 - x \in 0..(c - 1) /\ At(h, k, i + c - 1 - x) = i
        BY <1>1, <1>2, <2>2
      <3> QED
        BY <3>1
    <2> QED
      BY <1>1, <2>1, <2>2
  <1> QED
    BY <1>3, <1>4 DEF c

\* The walk ends, at the first entry that holds the key or none.
LEMMA ProbeOK ==
    ASSUME HashesAreIndices, NEW h \in Tables, NEW k \in Texts,
           Cardinality(Taken(h)) < Capacity(h)
    PROVE  /\ Probe(h, k) \in 1..Capacity(h)
           /\ \E n \in 0..(Capacity(h) - 1) :
                 /\ Probe(h, k) = At(h, k, n) /\ h.entries[At(h, k, n)] \in {k, NoKey}
                 /\ \A o \in 0..(n - 1) : h.entries[At(h, k, o)] \notin {k, NoKey}
  <1> DEFINE c == Capacity(h)
             ends == {n \in 0..(c - 1) : h.entries[At(h, k, n)] \in {k, NoKey}}
  <1>1. Probe(h, k) = At(h, k, CHOOSE n \in ends : \A o \in ends : n <= o)
    BY DEF Probe, At
  <1>2. c \in Nat \ {0}
    BY TableOK
  <1>3. \E i \in 1..c : h.entries[i] = NoKey
    <2>1. SUFFICES ASSUME \A i \in 1..c : h.entries[i] # NoKey PROVE FALSE
      OBVIOUS
    <2>2. Taken(h) = 1..c
      BY <2>1 DEF Taken
    <2>3. Cardinality(1..c) = c
      BY <1>2, FS_Interval
    <2> QED
      BY <1>2, <2>2, <2>3
  <1>4. ends # {} /\ ends \in SUBSET Nat
    BY <1>2, <1>3, WalkOK
  <1>5. PICK m \in ends : \A o \in ends : m <= o
    <2> HIDE DEF ends
    <2> QED
      BY <1>4, Least
  <1> DEFINE n == CHOOSE n \in ends : \A o \in ends : n <= o
  <1>6. n \in ends /\ \A o \in ends : n <= o
    <2> HIDE DEF ends
    <2> QED
      BY <1>5
  <1>7. Probe(h, k) = At(h, k, n)
    BY <1>1
  <1> HIDE DEF n
  <1>8. n \in 0..(c - 1) /\ h.entries[At(h, k, n)] \in {k, NoKey}
    BY <1>6
  <1>9. \A o \in 0..(n - 1) : h.entries[At(h, k, o)] \notin {k, NoKey}
    <2>1. \A o \in 0..(n - 1) : o \in 0..(c - 1) /\ ~(n <= o)
      BY <1>2, <1>8
    <2> QED
      BY <1>6, <2>1
  <1> QED
    BY <1>7, <1>8, <1>9, WalkOK

\* hashset_exists answers what is in the set.
LEMMA ExistsOK ==
    ASSUME HashesAreIndices, NEW h, Sound(h), NEW k \in Texts,
           Cardinality(Taken(h)) < Capacity(h)
    PROVE  Exists(h, k) <=> k \in Keys(h)
  <1>1. h \in Tables
    BY DEF Sound
  <1>2. PICK n \in 0..(Capacity(h) - 1) :
            /\ Probe(h, k) = At(h, k, n) /\ h.entries[At(h, k, n)] \in {k, NoKey}
            /\ \A o \in 0..(n - 1) : h.entries[At(h, k, o)] \notin {k, NoKey}
    BY <1>1, ProbeOK
  <1>3. At(h, k, n) \in 1..Capacity(h)
    BY <1>1, WalkOK
  <1>4. k # NoKey
    BY TextsOK
  <1>5. ASSUME Exists(h, k) PROVE k \in Keys(h)
    BY <1>2, <1>3, <1>5 DEF Exists, Keys, Taken
  <1>6. ASSUME k \in Keys(h) PROVE Exists(h, k)
    <2>1. PICK m \in 0..(Capacity(h) - 1) :
             h.entries[At(h, k, m)] = k /\ \A o \in 0..(m - 1) : h.entries[At(h, k, o)] # NoKey
      BY <1>6 DEF Sound, Findable
    <2>2. Capacity(h) \in Nat
      BY <1>1, TableOK
    <2>3. ~(m < n)
      <3>1. m < n => m \in 0..(n - 1)
        BY <2>2
      <3> QED
        BY <1>2, <2>1, <3>1
    <2>4. m = n \/ n \in 0..(m - 1)
      BY <2>2, <2>3
    <2> QED
      BY <1>2, <1>4, <2>1, <2>4 DEF Exists
  <1> QED
    BY <1>5, <1>6

\* hashset_set_entry puts one key in and loses none.
LEMMA SetEntryOK ==
    ASSUME HashesAreIndices, NEW h, Sound(h), NEW k \in Texts,
           Cardinality(Taken(h)) < Capacity(h)
    PROVE  /\ Sound(SetEntry(h, k))
           /\ Keys(SetEntry(h, k)) = Keys(h) \cup {k}
           /\ Capacity(SetEntry(h, k)) = Capacity(h)
           /\ SetEntry(h, k).size = IF k \in Keys(h) THEN h.size ELSE h.size + 1
           /\ Cardinality(Taken(SetEntry(h, k))) <=
                 IF k \in Keys(h) THEN Cardinality(Taken(h)) ELSE Cardinality(Taken(h)) + 1
  <1> DEFINE p == Probe(h, k)
             e == h.entries
             f == [e EXCEPT ![p] = k]
             g == SetEntry(h, k)
             c == Capacity(h)
  <1>1. h \in Tables
    BY DEF Sound
  <1>2. /\ e \in Seq(Slots) /\ h.size \in Nat /\ c \in Nat \ {0} /\ DOMAIN e = 1..c
        /\ c = Len(e) /\ IsFiniteSet(Taken(h)) /\ Cardinality(Taken(h)) \in Nat
    BY <1>1, TableOK DEF Capacity
  <1>3. PICK n \in 0..(c - 1) :
            /\ p = At(h, k, n) /\ e[p] \in {k, NoKey}
            /\ \A o \in 0..(n - 1) : e[At(h, k, o)] \notin {k, NoKey}
    BY <1>1, ProbeOK
  <1>4. p \in 1..c
    BY <1>1, ProbeOK
  <1>5. k # NoKey /\ k \in Slots
    BY TextsOK DEF Slots
  <1>6. f \in Seq(Slots) /\ Len(f) = c /\ f # <<>> /\ \A i \in 1..c : f[i] = IF i = p THEN k ELSE e[i]
    <2> HIDE DEF p, e
    <2>1. f \in Seq(Slots) /\ Len(f) = c /\ \A i \in 1..c : f[i] = IF i = p THEN k ELSE e[i]
      BY <1>2, <1>4, <1>5, ExceptSeq
    <2> HIDE DEF f
    <2> QED
      BY <1>2, <2>1
  <1>7. Exists(h, k) <=> k \in Keys(h)
    BY ExistsOK
  <1> DEFINE m == IF k \in Keys(h) THEN h.size ELSE h.size + 1
  <1>8. g = [entries |-> f, size |-> m]
    BY <1>7 DEF SetEntry
  <1>9. m \in Nat
    BY <1>2
  <1> HIDE DEF f, m
  <1>10. g.entries = f /\ g.size = m /\ Capacity(g) = c /\ g \in Tables
    BY <1>6, <1>8, <1>9 DEF Tables, Capacity
  <1> HIDE DEF g, p, e, c
  <1>11. \A x, o : At(g, x, o) = At(h, x, o)
    BY <1>10 DEF At, c
  <1>12. \A i \in 1..c : e[i] # NoKey => f[i] # NoKey /\ (e[i] = f[i])
    BY <1>3, <1>4, <1>5, <1>6
  <1>13. Taken(g) = Taken(h) \cup {p} /\ (k \in Keys(h) => p \in Taken(h))
    <2>1. Taken(g) = {i \in 1..c : f[i] # NoKey} /\ Taken(h) = {i \in 1..c : e[i] # NoKey}
      BY <1>10 DEF Taken, c, e
    <2>2. Taken(g) = Taken(h) \cup {p}
      BY <1>4, <1>5, <1>6, <1>12, <2>1
    <2>3. k \in Keys(h) => p \in Taken(h)
      BY <1>4, <1>7, <2>1 DEF Exists, p, e
    <2> QED
      BY <2>2, <2>3
  <1>14. Keys(g) = Keys(h) \cup {k}
    <2>1. Keys(g) = {f[i] : i \in Taken(g)} /\ Keys(h) = {e[i] : i \in Taken(h)}
      BY <1>10 DEF Keys, e
    <2>2. f[p] = k
      BY <1>4, <1>6
    <2>3. \A i \in Taken(h) : f[i] = e[i]
      BY <1>12 DEF Taken, e, c
    <2> QED
      BY <1>13, <2>1, <2>2, <2>3
  <1>15. ASSUME NEW x \in Keys(g) PROVE Findable(g, x)
    <2>1. x \in Texts
      BY <1>10, TableOK
    <2>2. \A o \in 0..(c - 1) : At(h, x, o) \in 1..c /\ At(h, k, o) \in 1..c
      BY <1>1, <2>1, WalkOK DEF c
    <2>3. CASE x = k
      <3>1. f[At(h, k, n)] = k
        BY <1>3, <1>4, <1>6
      <3>2. \A o \in 0..(n - 1) : f[At(h, k, o)] # NoKey
        <4>1. \A o \in 0..(n - 1) : o \in 0..(c - 1)
          BY <1>2
        <4> QED
          BY <1>3, <1>12, <2>2, <4>1
      <3> QED
        BY <1>10, <1>11, <2>3, <3>1, <3>2 DEF Findable
    <2>4. CASE x # k
      <3>1. x \in Keys(h)
        BY <1>14, <2>4
      <3>2. PICK j \in 0..(c - 1) : e[At(h, x, j)] = x /\ \A o \in 0..(j - 1) : e[At(h, x, o)] # NoKey
        BY <3>1 DEF Sound, Findable, c, e
      <3>3. x # NoKey
        BY <2>1, TextsOK
      <3>4. f[At(h, x, j)] = x
        BY <1>12, <2>2, <3>2, <3>3
      <3>5. \A o \in 0..(j - 1) : f[At(h, x, o)] # NoKey
        <4>1. \A o \in 0..(j - 1) : o \in 0..(c - 1)
          BY <1>2, <3>2
        <4> QED
          BY <1>12, <2>2, <3>2, <4>1
      <3> QED
        BY <1>10, <1>11, <3>2, <3>4, <3>5 DEF Findable
    <2> QED
      BY <2>3, <2>4
  <1>16. Sound(g)
    BY <1>10, <1>15, TableOK DEF Sound
  <1>17. Cardinality(Taken(g)) <= IF k \in Keys(h) THEN Cardinality(Taken(h)) ELSE Cardinality(Taken(h)) + 1
    <2>1. CASE p \in Taken(h)
      <3>1. Taken(g) = Taken(h)
        BY <1>13, <2>1
      <3> QED
        BY <1>2, <3>1
    <2>2. CASE p \notin Taken(h)
      <3>1. Cardinality(Taken(g)) = Cardinality(Taken(h)) + 1
        BY <1>2, <1>13, <2>2, FS_AddElement
      <3> QED
        BY <1>2, <1>13, <2>2, <3>1
    <2> QED
      BY <2>1, <2>2
  <1> QED
    BY <1>10, <1>14, <1>16, <1>17 DEF g, m, c

\* A new table is empty.
LEMMA MallocOK ==
    ASSUME NEW c \in Nat \ {0}
    PROVE  /\ Sound(Malloc(c)) /\ Capacity(Malloc(c)) = c /\ Malloc(c).size = 0
           /\ Taken(Malloc(c)) = {} /\ Keys(Malloc(c)) = {}
  <1> DEFINE e == [i \in 1..c |-> NoKey]
  <1>1. e \in Seq(Slots) /\ Len(e) = c /\ e # <<>>
    <2>1. e \in [1..c -> Slots]
      BY DEF Slots
    <2>2. e \in Seq(Slots)
      BY <2>1
    <2>3. DOMAIN e = 1..c
      OBVIOUS
    <2>4. Len(e) = c
      BY <2>2, <2>3, LenProperties
    <2> HIDE DEF e
    <2> QED
      BY <2>2, <2>4
  <1>2. Malloc(c) = [entries |-> e, size |-> 0]
    BY DEF Malloc
  <1>3. \A i \in 1..c : e[i] = NoKey
    OBVIOUS
  <1> HIDE DEF e
  <1>4. Malloc(c) \in Tables /\ Malloc(c).entries = e /\ Capacity(Malloc(c)) = c /\ Malloc(c).size = 0
    BY <1>1, <1>2 DEF Tables, Capacity
  <1>5. Taken(Malloc(c)) = {}
    BY <1>3, <1>4 DEF Taken
  <1>6. Keys(Malloc(c)) = {}
    BY <1>5 DEF Keys
  <1> QED
    BY <1>4, <1>5, <1>6, FS_EmptySet DEF Sound

\* SetEntry makes tables of tables, whatever they are.
LEMMA SetEntryType ==
    ASSUME NEW h \in Tables, NEW k \in Texts
    PROVE  SetEntry(h, k) \in Tables
  <1> DEFINE e == h.entries
             p == Probe(h, k)
             f == [e EXCEPT ![p] = k]
             m == IF Exists(h, k) THEN h.size ELSE h.size + 1
  <1>1. e \in Seq(Slots) /\ h.size \in Nat /\ Len(e) \in Nat \ {0} /\ DOMAIN e = 1..Len(e)
        /\ \A i \in 1..Len(e) : e[i] \in Slots
    BY TableOK DEF Capacity
  <1>2. SetEntry(h, k) = [entries |-> f, size |-> m]
    BY DEF SetEntry
  <1>3. m \in Nat
    BY <1>1
  <1> HIDE DEF e, p, m
  <1>4. f \in [1..Len(e) -> Slots]
    BY <1>1 DEF Slots
  <1>5. f \in Seq(Slots) /\ DOMAIN f = 1..Len(e)
    BY <1>1, <1>4
  <1> HIDE DEF f
  <1>6. f # <<>>
    <2>1. 1 \in DOMAIN f /\ DOMAIN <<>> = {}
      BY <1>1, <1>5
    <2> QED
      BY <2>1
  <1> QED
    BY <1>2, <1>3, <1>5, <1>6 DEF Tables

\* g[i] is the new table once the first i entries of h have been moved.
Moves(g, h) ==
    /\ g \in [0..Capacity(h) -> Tables]
    /\ g[0] = Malloc(2 * Capacity(h))
    /\ \A i \in 1..Capacity(h) :
          g[i] = IF h.entries[i] = NoKey THEN g[i - 1] ELSE SetEntry(g[i - 1], h.entries[i])

LEMMA ExpandUnrolls ==
    ASSUME NEW h \in Tables
    PROVE  \E g : Moves(g, h) /\ Expand(h) = [g[Capacity(h)] EXCEPT !.size = h.size]
  <1> DEFINE N == Capacity(h)
             S == Tables
             base == Malloc(2 * Capacity(h))
             next(n, x) == IF h.entries[n] = NoKey THEN x ELSE SetEntry(x, h.entries[n])
             Cases(f) == [i \in 0..Capacity(h) |->
                             CASE i = 0 -> Malloc(2 * Capacity(h))
                               [] i > 0 /\ h.entries[i] = NoKey -> f[i - 1]
                               [] OTHER -> SetEntry(f[i - 1], h.entries[i])]
             moved == CHOOSE f : f = Cases(f)
             step == [n \in 1..N |-> [x \in S |-> next(n, x)]]
  <1>1. Expand(h) = [moved[N] EXCEPT !.size = h.size]
    BY DEF Expand
  <1>2. N \in Nat \ {0} /\ \A i \in 1..N : h.entries[i] \in Slots
    BY TableOK
  <1>3. ASSUME NEW n \in 1..N, NEW x \in S PROVE next(n, x) \in S
    BY <1>2, SetEntryType DEF Slots
  <1>4. base \in S
    <2>1. 2 * N \in Nat \ {0}
      BY <1>2
    <2> QED
      BY <2>1, MallocOK DEF Sound
  <1>5. \A n \in 0..N : \A f : n # 0 => Cases(f)[n] = next(n, f[n - 1])
    BY <1>2
  <1>6. \A f : Cases(f)[0] = base /\ Cases(f) = [n \in 0..N |-> Cases(f)[n]]
    BY <1>2
  <1> HIDE DEF N, next, S, Cases, base
  <1>7. step \in [1..N -> [S -> S]] /\ \A n \in 1..N : \A x \in S : step[n][x] = next(n, x)
    BY <1>3
  <1> HIDE DEF step
  <1>8. PICK f : Unrolls(f, N, S, base, step)
    BY <1>2, <1>4, <1>7, Defined
  <1>9. \A n \in 1..N : n - 1 \in 0..N /\ n \in 0..N /\ n # 0
    BY <1>2
  <1>10. \A n \in 0..N : n # 0 => n \in 1..N
    BY <1>2
  <1>11. f = Cases(f)
    <2>1. ASSUME NEW n \in 0..N PROVE f[n] = Cases(f)[n]
      <3>1. CASE n = 0
        BY <1>6, <1>8, <3>1 DEF Unrolls
      <3>2. CASE n # 0
        <4>1. n \in 1..N /\ f[n - 1] \in S
          BY <1>8, <1>9, <1>10, <3>2 DEF Unrolls
        <4>2. f[n] = step[n][f[n - 1]]
          BY <1>8, <4>1 DEF Unrolls
        <4>3. Cases(f)[n] = next(n, f[n - 1])
          BY <1>5, <3>2
        <4> QED
          BY <1>7, <4>1, <4>2, <4>3
      <3> QED
        BY <3>1, <3>2
    <2>2. f = [n \in 0..N |-> f[n]]
      BY <1>8 DEF Unrolls
    <2> QED
      BY <1>6, <2>1, <2>2
  <1>12. moved = Cases(moved)
    BY <1>11
  <1> HIDE DEF moved
  <1>13. moved[0] = base /\ \A n \in 1..N : moved[n] = next(n, moved[n - 1])
    BY <1>5, <1>6, <1>9, <1>12
  <1>14. \A n \in 0..N : moved[n] \in S
    <2>1. \A n \in 1..N : moved[n - 1] \in S => moved[n] \in S
      BY <1>3, <1>13
    <2> QED
      BY <1>2, <1>4, <1>13, <2>1, Preserved
  <1>15. moved = [n \in 0..N |-> moved[n]]
    BY <1>6, <1>12
  <1>16. moved \in [0..N -> S]
    BY <1>14, <1>15
  <1>17. \A n \in 1..N : moved[n] = IF h.entries[n] = NoKey THEN moved[n - 1]
                                    ELSE SetEntry(moved[n - 1], h.entries[n])
    BY <1>13 DEF next
  <1> QED
    BY <1>1, <1>13, <1>16, <1>17 DEF S, N, base, Moves

\* hashset_expand moves every key, to a table twice as large.
LEMMA ExpandOK ==
    ASSUME HashesAreIndices, NEW h, Sound(h)
    PROVE  /\ Sound(Expand(h)) /\ Keys(Expand(h)) = Keys(h)
           /\ Capacity(Expand(h)) = 2 * Capacity(h) /\ Expand(h).size = h.size
           /\ Cardinality(Taken(Expand(h))) <= Cardinality(Taken(h))
  <1> DEFINE N == Capacity(h)
             e == h.entries
             T(i) == Taken(h) \cap 1..i
  <1>1. h \in Tables
    BY DEF Sound
  <1>2. /\ N \in Nat \ {0} /\ 2 * N \in Nat \ {0} /\ \A i \in 1..N : e[i] \in Slots
        /\ IsFiniteSet(Taken(h)) /\ h.size \in Nat
    BY <1>1, TableOK
  <1>3. PICK g : Moves(g, h) /\ Expand(h) = [g[N] EXCEPT !.size = h.size]
    BY <1>1, ExpandUnrolls
  <1>4. \A i \in 0..N : IsFiniteSet(T(i)) /\ Cardinality(T(i)) \in Nat /\ Cardinality(T(i)) <= N
    <2> SUFFICES ASSUME NEW i \in 0..N
                 PROVE  IsFiniteSet(T(i)) /\ Cardinality(T(i)) \in Nat /\ Cardinality(T(i)) <= N
      OBVIOUS
    <2>1. T(i) \subseteq 1..N
      BY <1>2
    <2>2. IsFiniteSet(1..N) /\ Cardinality(1..N) = N
      <3>1. 1 \in Int /\ N \in Int /\ ~(1 > N) /\ N - 1 + 1 = N
        BY <1>2
      <3> QED
        BY <3>1, FS_Interval
    <2> QED
      BY <2>1, <2>2, FS_Subset, FS_CardinalityType
  <1> DEFINE Moved(i) == /\ Sound(g[i]) /\ Capacity(g[i]) = 2 * N
                         /\ Keys(g[i]) = {e[j] : j \in T(i)}
                         /\ Cardinality(Taken(g[i])) <= Cardinality(T(i))
             P == {i \in Nat : i <= N => Moved(i)}
  <1>5. 0 \in P
    <2>1. g[0] = Malloc(2 * N)
      BY <1>3 DEF Moves
    <2>2. T(0) = {}
      BY <1>2
    <2>3. Sound(g[0]) /\ Capacity(g[0]) = 2 * N /\ Keys(g[0]) = {} /\ Taken(g[0]) = {}
      BY <1>2, <2>1, MallocOK
    <2>4. Cardinality(Taken(g[0])) <= Cardinality(T(0))
      BY <2>2, <2>3, FS_EmptySet
    <2>5. Keys(g[0]) = {e[j] : j \in T(0)}
      BY <2>2, <2>3
    <2> QED
      BY <2>3, <2>4, <2>5
  <1>6. ASSUME NEW i \in Nat, i \in P PROVE i + 1 \in P
    <2> SUFFICES ASSUME i + 1 <= N PROVE Moved(i + 1)
      OBVIOUS
    <2>1. i + 1 \in 1..N /\ (i + 1) - 1 = i /\ i \in 0..N /\ i <= N /\ i + 1 \in 0..N
      BY <1>2
    <2>2. Moved(i)
      BY <1>6, <2>1
    <2>3. g[i + 1] = IF e[i + 1] = NoKey THEN g[i] ELSE SetEntry(g[i], e[i + 1])
      BY <1>3, <2>1 DEF Moves
    <2>4. CASE e[i + 1] = NoKey
      <3>1. T(i + 1) = T(i)
        BY <1>2, <2>1, <2>4 DEF Taken
      <3> QED
        BY <2>2, <2>3, <2>4, <3>1
    <2>5. CASE e[i + 1] # NoKey
      <3> DEFINE k == e[i + 1]
                 x == g[i]
      <3>1. k \in Texts
        BY <1>2, <2>1, <2>5 DEF Slots
      <3>2. T(i + 1) = T(i) \cup {i + 1} /\ i + 1 \notin T(i)
        BY <1>2, <2>1, <2>5 DEF Taken
      <3>3. Cardinality(T(i + 1)) = Cardinality(T(i)) + 1
        BY <1>4, <2>1, <3>2, FS_AddElement
      <3>4. x \in Tables /\ Cardinality(Taken(x)) \in Nat
        BY <2>2, TableOK DEF Sound
      <3>5. Cardinality(Taken(x)) < Capacity(x)
        <4>1. Cardinality(T(i)) \in Nat /\ Cardinality(T(i)) <= N /\ Cardinality(Taken(x)) <= Cardinality(T(i))
              /\ Capacity(x) = 2 * N
          BY <1>4, <2>1, <2>2
        <4> HIDE DEF T, N
        <4> QED
          BY <1>2, <3>4, <4>1
      <3>6. Sound(x) /\ Capacity(x) = 2 * N /\ Keys(x) = {e[j] : j \in T(i)}
        BY <2>2
      <3> HIDE DEF x, k, T, N, e, Moved, P
      <3>7. /\ Sound(SetEntry(x, k)) /\ Keys(SetEntry(x, k)) = Keys(x) \cup {k}
            /\ Capacity(SetEntry(x, k)) = Capacity(x)
            /\ Cardinality(Taken(SetEntry(x, k))) <= Cardinality(Taken(x)) + 1
        <4>1. Cardinality(Taken(SetEntry(x, k))) \in Nat
          BY <3>1, <3>4, SetEntryType, TableOK
        <4> QED
          BY <3>1, <3>4, <3>5, <3>6, <4>1, SetEntryOK
      <3>8. g[i + 1] = SetEntry(x, k)
        BY <2>3, <2>5 DEF x, k
      <3>9. Keys(SetEntry(x, k)) = {e[j] : j \in T(i + 1)}
        BY <3>2, <3>6, <3>7 DEF k
      <3>10. Cardinality(Taken(SetEntry(x, k))) <= Cardinality(T(i + 1))
        <4>1. /\ Cardinality(Taken(x)) <= Cardinality(T(i)) /\ Cardinality(T(i)) \in Nat
              /\ Cardinality(Taken(SetEntry(x, k))) \in Nat
          BY <1>4, <2>1, <2>2, <3>1, <3>4, SetEntryType, TableOK DEF Moved, x
        <4> QED
          BY <3>3, <3>4, <3>7, <4>1
      <3> QED
        BY <3>6, <3>7, <3>8, <3>9, <3>10 DEF Moved
    <2> QED
      BY <2>4, <2>5
  <1>7. Moved(N)
    <2>1. \A i \in Nat : i \in P
      <3> HIDE DEF P
      <3> QED
        BY <1>5, <1>6, Induction
    <2> HIDE DEF N, Moved
    <2>2. N \in P /\ N <= N
      BY <1>2, <2>1
    <2> QED
      BY <2>2
  <1>8. T(N) = Taken(h)
    BY DEF Taken
  <1>9. {e[j] : j \in T(N)} = Keys(h)
    BY <1>8 DEF Keys
  <1> DEFINE x == g[N]
             y == Expand(h)
  <1>10. Sound(x) /\ Capacity(x) = 2 * N /\ Keys(x) = Keys(h) /\ Cardinality(Taken(x)) <= Cardinality(Taken(h))
    BY <1>7, <1>8, <1>9
  <1>11. x \in Tables
    BY <1>10 DEF Sound
  <1>12. y = [x EXCEPT !.size = h.size]
    BY <1>3
  <1> HIDE DEF x, y, N, e, T, Moved, P
  <1>13. y \in Tables /\ y.entries = x.entries /\ y.size = h.size
    <2>1. PICK f \in Seq(Slots) \ {<<>>}, n \in Nat : x = [entries |-> f, size |-> n]
      BY <1>11 DEF Tables
    <2>2. y = [entries |-> f, size |-> h.size]
      BY <1>12, <2>1
    <2> QED
      BY <1>2, <2>1, <2>2 DEF Tables
  <1>14. Capacity(y) = Capacity(x) /\ Taken(y) = Taken(x) /\ Keys(y) = Keys(x)
    BY <1>13 DEF Capacity, Taken, Keys
  <1>15. \A k : Findable(x, k) => Findable(y, k)
    BY <1>13, <1>14 DEF Findable, At
  <1>16. Sound(y)
    BY <1>10, <1>13, <1>14, <1>15 DEF Sound
  <1> QED
    BY <1>10, <1>13, <1>14, <1>16 DEF y, N

\* No more than half of a table is taken.
Half(h) == Sound(h) /\ Cardinality(Taken(h)) <= h.size /\ h.size <= Capacity(h) \div 2

LEMMA HalfOK ==
    ASSUME NEW h, Half(h)
    PROVE  /\ h \in Tables /\ Sound(h) /\ Cardinality(Taken(h)) \in Nat /\ Capacity(h) \in Nat \ {0}
           /\ h.size \in Nat /\ Cardinality(Taken(h)) < Capacity(h)
  <1>1. h \in Tables /\ Sound(h)
    BY DEF Half, Sound
  <1> DEFINE c == Capacity(h)
             t == Cardinality(Taken(h))
             n == h.size
  <1>2. c \in Nat \ {0} /\ t \in Nat /\ n \in Nat /\ t <= n /\ n <= c \div 2
    BY <1>1, TableOK DEF Half
  <1> HIDE DEF c, t, n
  <1>3. t < c
    BY <1>2
  <1> QED
    BY <1>1, <1>2, <1>3 DEF c, t, n

LEMMA NewHashsetOK == Half(NewHashset) /\ Keys(NewHashset) = {}
  <1>1. DefaultCapacity \in Nat \ {0}
    BY CapacityAssumption
  <1>2. /\ Sound(NewHashset) /\ Capacity(NewHashset) = DefaultCapacity /\ NewHashset.size = 0
        /\ Taken(NewHashset) = {} /\ Keys(NewHashset) = {}
    BY <1>1, MallocOK DEF NewHashset
  <1>3. Cardinality(Taken(NewHashset)) = 0
    BY <1>2, FS_EmptySet
  <1> QED
    BY <1>1, <1>2, <1>3 DEF Half

\* hashset_set: the key is in, and so is all that was; half of the table stays free.
LEMMA SetKeyOK ==
    ASSUME HashesAreIndices, NEW h, Half(h), NEW k \in Texts
    PROVE  Half(SetKey(h, k)) /\ Keys(SetKey(h, k)) = Keys(h) \cup {k}
  <1> DEFINE g == IF h.size >= Capacity(h) \div 2 THEN Expand(h) ELSE h
  <1>1. /\ h \in Tables /\ Sound(h) /\ Cardinality(Taken(h)) \in Nat /\ Capacity(h) \in Nat \ {0}
        /\ h.size \in Nat /\ Cardinality(Taken(h)) < Capacity(h)
    BY HalfOK
  <1>2. /\ Sound(g) /\ Keys(g) = Keys(h) /\ g.size = h.size
        /\ Cardinality(Taken(g)) <= Cardinality(Taken(h)) /\ Cardinality(Taken(h)) <= h.size
        /\ h.size + 1 <= Capacity(g) \div 2 /\ Capacity(g) \in Nat
    <2>1. CASE h.size >= Capacity(h) \div 2
      <3>1. g = Expand(h)
        BY <2>1
      <3>2. /\ Sound(g) /\ Keys(g) = Keys(h) /\ g.size = h.size /\ Capacity(g) = 2 * Capacity(h)
            /\ Cardinality(Taken(g)) <= Cardinality(Taken(h))
        BY <1>1, <3>1, ExpandOK
      <3> DEFINE c == Capacity(h)
                 n == h.size
                 d == Capacity(g)
      <3>3. n + 1 <= d \div 2 /\ d \in Nat
        <4>1. c \in Nat \ {0} /\ n \in Nat /\ n <= c \div 2 /\ d = 2 * c
          BY <1>1, <3>2 DEF Half
        <4> HIDE DEF c, n, d
        <4> QED
          BY <4>1
      <3> QED
        BY <3>2, <3>3 DEF Half
    <2>2. CASE ~(h.size >= Capacity(h) \div 2)
      <3>1. g = h
        BY <2>2
      <3> DEFINE c == Capacity(h)
                 n == h.size
      <3>2. n + 1 <= c \div 2
        <4>1. c \in Nat \ {0} /\ n \in Nat /\ ~(n >= c \div 2)
          BY <1>1, <2>2
        <4> HIDE DEF c, n
        <4> QED
          BY <4>1
      <3> QED
        BY <1>1, <3>1, <3>2 DEF Half
    <2> QED
      BY <2>1, <2>2
  <1> HIDE DEF g
  <1>3. g \in Tables /\ Cardinality(Taken(g)) \in Nat /\ Capacity(g) \in Nat \ {0}
    BY <1>2, TableOK DEF Sound
  <1> DEFINE t == Cardinality(Taken(g))
             u == Cardinality(Taken(h))
             n == h.size
             c == Capacity(g)
             y == SetEntry(g, k)
  <1>4. t \in Nat /\ u \in Nat /\ n \in Nat /\ c \in Nat /\ t <= u /\ u <= n /\ n + 1 <= c \div 2
    BY <1>1, <1>2, <1>3
  <1>5. t < c
    <2> HIDE DEF t, u, n, c
    <2> QED
      BY <1>4
  <1>6. /\ Sound(y) /\ Keys(y) = Keys(g) \cup {k} /\ Capacity(y) = c
        /\ y.size = IF k \in Keys(g) THEN n ELSE n + 1
        /\ Cardinality(Taken(y)) <= IF k \in Keys(g) THEN t ELSE t + 1
    BY <1>2, <1>5, SetEntryOK
  <1>7. Cardinality(Taken(y)) \in Nat
    BY <1>6, TableOK DEF Sound
  <1>8. y = SetKey(h, k)
    BY DEF SetKey, g
  <1> HIDE DEF t, u, n, c, y
  <1>9. Half(y)
    <2> DEFINE v == Cardinality(Taken(y))
               w == y.size
    <2>1. v \in Nat /\ w \in {n, n + 1} /\ v <= w
      <3>1. CASE k \in Keys(g)
        BY <1>4, <1>6, <1>7, <3>1
      <3>2. CASE k \notin Keys(g)
        BY <1>4, <1>6, <1>7, <3>2
      <3> QED
        BY <3>1, <3>2
    <2>2. w <= c \div 2
      <3> HIDE DEF w, v
      <3> QED
        BY <1>4, <2>1
    <2> QED
      BY <1>6, <2>1, <2>2 DEF Half
  <1> QED
    BY <1>2, <1>6, <1>8, <1>9

\* k[n] are the keys seen among the first n entries of h, u[n] what is kept of those.
Sees(k, u, h) ==
    /\ k \in [0..Len(h) -> Tables] /\ u \in [0..Len(h) -> Seq(Texts)]
    /\ k[0] = NewHashset /\ u[0] = <<>>
    /\ \A n \in 1..Len(h) :
          IF h[n] = <<>> \/ Exists(k[n - 1], h[n])
          THEN k[n] = k[n - 1] /\ u[n] = u[n - 1]
          ELSE k[n] = SetKey(k[n - 1], h[n]) /\ u[n] = Append(u[n - 1], h[n])

LEMMA SetKeyType ==
    ASSUME NEW h \in Tables, NEW k \in Texts
    PROVE  SetKey(h, k) \in Tables
  <1>1. Expand(h) \in Tables
    <2>1. PICK g : Moves(g, h) /\ Expand(h) = [g[Capacity(h)] EXCEPT !.size = h.size]
      BY ExpandUnrolls
    <2>2. g[Capacity(h)] \in Tables /\ h.size \in Nat
      BY <2>1, TableOK DEF Moves
    <2>3. PICK e \in Seq(Slots) \ {<<>>}, n \in Nat : g[Capacity(h)] = [entries |-> e, size |-> n]
      BY <2>2 DEF Tables
    <2>4. Expand(h) = [entries |-> e, size |-> h.size]
      BY <2>1, <2>3
    <2> QED
      BY <2>2, <2>4 DEF Tables
  <1> QED
    BY <1>1, SetEntryType DEF SetKey

LEMMA UniqueUnrolls ==
    ASSUME NEW h \in Seq(Texts)
    PROVE  \E k, u : Sees(k, u, h) /\ Unique(h) = u[Len(h)]
  <1> DEFINE N == Len(h)
             S == Seq(Texts)
             nextK(i, x) == IF h[i] = <<>> \/ Exists(x, h[i]) THEN x ELSE SetKey(x, h[i])
             LoopK(f) == [i \in 0..N |-> IF i = 0 THEN NewHashset ELSE nextK(i, f[i - 1])]
             seen == CHOOSE f : f = LoopK(f)
             met(i) == h[i] = <<>> \/ Exists(seen[i - 1], h[i])
             next(n, x) == IF met(n) THEN x ELSE Append(x, h[n])
             Loop(f) == [i \in 0..N |-> IF i = 0 THEN <<>> ELSE next(i, f[i - 1])]
             upto == CHOOSE f : f = Loop(f)
             stepK == [n \in 1..N |-> [x \in Tables |-> nextK(n, x)]]
             step == [n \in 1..N |-> [x \in S |-> next(n, x)]]
  <1>1. Unique(h) = upto[N]
    BY DEF Unique
  <1>2. N \in Nat
    OBVIOUS
  <1>3. NewHashset \in Tables
    BY NewHashsetOK DEF Half, Sound
  <1>4. ASSUME NEW n \in 1..N, NEW x \in Tables PROVE nextK(n, x) \in Tables
    BY SetKeyType
  <1> HIDE DEF seen, met
  <1>5. ASSUME NEW n \in 1..N, NEW x \in S PROVE next(n, x) \in S
    OBVIOUS
  <1>6. <<>> \in S
    OBVIOUS
  <1> HIDE DEF N, S, next, nextK
  <1>7. stepK \in [1..N -> [Tables -> Tables]] /\ \A n \in 1..N : \A x \in Tables : stepK[n][x] = nextK(n, x)
    BY <1>4
  <1>8. step \in [1..N -> [S -> S]] /\ \A n \in 1..N : \A x \in S : step[n][x] = next(n, x)
    BY <1>5
  <1> HIDE DEF step, stepK
  <1>9. \A n \in 1..N : n - 1 \in 0..N /\ n \in 0..N /\ n # 0
    BY <1>2
  <1>10. \A n \in 0..N : n # 0 => n \in 1..N
    BY <1>2
  <1>11. seen = LoopK(seen)
    <2>1. PICK f : Unrolls(f, N, Tables, NewHashset, stepK)
      BY <1>2, <1>3, <1>7, Defined
    <2>2. \A n \in 0..N : f[n] = IF n = 0 THEN NewHashset ELSE nextK(n, f[n - 1])
      BY <1>7, <1>9, <1>10, <2>1 DEF Unrolls
    <2>3. f = LoopK(f)
      BY <2>1, <2>2 DEF Unrolls
    <2> QED
      BY <2>3 DEF seen
  <1>12. upto = Loop(upto)
    <2>1. PICK f : Unrolls(f, N, S, <<>>, step)
      BY <1>2, <1>6, <1>8, Defined
    <2>2. \A n \in 0..N : f[n] = IF n = 0 THEN <<>> ELSE next(n, f[n - 1])
      BY <1>8, <1>9, <1>10, <2>1 DEF Unrolls
    <2>3. f = Loop(f)
      BY <2>1, <2>2 DEF Unrolls
    <2> QED
      BY <2>3
  <1> HIDE DEF upto
  <1>13. seen[0] = NewHashset /\ \A n \in 1..N : seen[n] = nextK(n, seen[n - 1])
    BY <1>2, <1>9, <1>11
  <1>14. upto[0] = <<>> /\ \A n \in 1..N : upto[n] = next(n, upto[n - 1])
    BY <1>2, <1>9, <1>12
  <1>15. \A n \in 0..N : seen[n] \in Tables
    <2>1. \A n \in 1..N : seen[n - 1] \in Tables => seen[n] \in Tables
      BY <1>4, <1>13
    <2> QED
      BY <1>2, <1>3, <1>13, <2>1, Preserved
  <1>16. \A n \in 0..N : upto[n] \in S
    <2>1. \A n \in 1..N : upto[n - 1] \in S => upto[n] \in S
      BY <1>5, <1>14
    <2> QED
      BY <1>2, <1>6, <1>14, <2>1, Preserved
  <1>17. seen \in [0..N -> Tables] /\ upto \in [0..N -> S]
    <2>1. seen = [n \in 0..N |-> seen[n]] /\ upto = [n \in 0..N |-> upto[n]]
      BY <1>11, <1>12
    <2> QED
      BY <1>15, <1>16, <2>1
  <1>18. ASSUME NEW n \in 1..N
         PROVE  IF h[n] = <<>> \/ Exists(seen[n - 1], h[n])
                THEN seen[n] = seen[n - 1] /\ upto[n] = upto[n - 1]
                ELSE seen[n] = SetKey(seen[n - 1], h[n]) /\ upto[n] = Append(upto[n - 1], h[n])
    BY <1>13, <1>14 DEF nextK, next, met
  <1>19. Sees(seen, upto, h)
    BY <1>13, <1>14, <1>17, <1>18 DEF Sees, N, S
  <1> QED
    BY <1>1, <1>19 DEF N

\* What "history clean" writes are texts, whatever the set of those seen answers.
LEMMA UniqueOK ==
    ASSUME NEW h \in Seq(Texts)
    PROVE  Unique(h) \in Seq(Texts)
  <1>1. PICK k, u : Sees(k, u, h) /\ Unique(h) = u[Len(h)]
    BY UniqueUnrolls
  <1> QED
    BY <1>1 DEF Sees

\* An entry of u is in d before any of a later one.
InOrder(u, d) ==
    \A i, j \in DOMAIN u : i < j =>
        \E a \in DOMAIN d : d[a] = u[i] /\ \A b \in DOMAIN d : d[b] = u[j] => a < b

\* "history clean" keeps one of each entry that is not empty, in the order of the first
\* of each, and no other.
LEMMA UniqueIs ==
    ASSUME HashesAreIndices, NEW h \in Seq(Texts)
    PROVE  /\ Unique(h) \in Seq(Texts) /\ Len(Unique(h)) <= Len(h)
           /\ Holds(Unique(h)) = Holds(Entries(h))
           /\ InOrder(Unique(h), Entries(h))
  <1>1. PICK k, u : Sees(k, u, h) /\ Unique(h) = u[Len(h)]
    BY UniqueUnrolls
  <1>2. PICK d : Drops(d, Texts, h, <<>>) /\ Entries(h) = d[Len(h)]
    BY WithoutUnrolls DEF Entries
  <1> DEFINE N == Len(h)
             Kept(n) == /\ Half(k[n]) /\ Keys(k[n]) = Holds(d[n])
                        /\ Holds(u[n]) = Holds(d[n]) /\ Len(u[n]) <= n
                        /\ InOrder(u[n], d[n])
             P == {n \in Nat : n <= N => Kept(n)}
  <1>3. N \in Nat
    OBVIOUS
  <1>4. \A n \in 0..N : u[n] \in Seq(Texts) /\ d[n] \in Seq(Texts) /\ k[n] \in Tables
    BY <1>1, <1>2 DEF Sees, Drops
  <1>5. 0 \in P
    <2>1. k[0] = NewHashset /\ u[0] = <<>> /\ d[0] = <<>>
      BY <1>1, <1>2 DEF Sees, Drops
    <2>2. Holds(<<>>) = {} /\ Len(<<>>) = 0 /\ DOMAIN <<>> = {}
      BY EmptyOK
    <2>3. InOrder(<<>>, <<>>)
      BY <2>2 DEF InOrder
    <2>4. Kept(0)
      BY <2>1, <2>2, <2>3, NewHashsetOK
    <2> HIDE DEF Kept, N
    <2> QED
      BY <2>4
  <1>6. ASSUME NEW n \in Nat, n \in P PROVE n + 1 \in P
    <2> SUFFICES ASSUME n + 1 <= N PROVE Kept(n + 1)
      OBVIOUS
    <2> DEFINE x == h[n + 1]
               kn == k[n]
               un == u[n]
               dn == d[n]
    <2>1. n + 1 \in 1..N /\ (n + 1) - 1 = n /\ n \in 0..N /\ n <= N
      BY <1>3
    <2>2. /\ Half(kn) /\ Keys(kn) = Holds(dn) /\ Holds(un) = Holds(dn) /\ Len(un) <= n
          /\ InOrder(un, dn)
      BY <1>6, <2>1
    <2>3. x \in Texts
      BY <2>1
    <2>4. IF x = <<>> \/ Exists(kn, x) THEN k[n + 1] = kn /\ u[n + 1] = un
          ELSE k[n + 1] = SetKey(kn, x) /\ u[n + 1] = Append(un, x)
      BY <1>1, <2>1 DEF Sees
    <2>5. d[n + 1] = IF x = <<>> THEN dn ELSE Append(dn, x)
      BY <1>2, <2>1 DEF Drops
    <2>6. Exists(kn, x) <=> x \in Keys(kn)
      BY <2>2, <2>3, HalfOK, ExistsOK
    <2>7. un \in Seq(Texts) /\ dn \in Seq(Texts)
      BY <1>4, <2>1
    <2>8. Len(un) \in Nat /\ Len(dn) \in Nat /\ DOMAIN un = 1..Len(un) /\ DOMAIN dn = 1..Len(dn)
      BY <2>7, LenProperties
    <2>9. CASE x = <<>>
      BY <2>2, <2>4, <2>5, <2>8, <2>9
    <2>10. CASE x # <<>>
      <3> DEFINE dm == Append(dn, x)
      <3>1. /\ DOMAIN dm = 1..(Len(dn) + 1) /\ dm[Len(dn) + 1] = x
            /\ \A i \in 1..Len(dn) : dm[i] = dn[i]
        BY <2>3, <2>7
      <3>2. Holds(dm) = Holds(dn) \cup {x}
        BY <2>3, <2>7, AppendHolds
      <3>3. d[n + 1] = dm
        BY <2>5, <2>10
      <3> HIDE DEF dm, dn, un, kn, x
      <3>4. CASE x \in Holds(dn)
        <4>1. k[n + 1] = kn /\ u[n + 1] = un
          BY <2>2, <2>4, <2>6, <3>4
        <4>2. InOrder(un, dm)
          <5> SUFFICES ASSUME NEW i \in DOMAIN un, NEW j \in DOMAIN un, i < j
                       PROVE  \E a \in DOMAIN dm : dm[a] = un[i] /\ \A b \in DOMAIN dm : dm[b] = un[j] => a < b
            BY DEF InOrder
          <5>1. PICK a \in DOMAIN dn : dn[a] = un[i] /\ \A b \in DOMAIN dn : dn[b] = un[j] => a < b
            BY <2>2 DEF InOrder
          <5>2. a \in DOMAIN dm /\ dm[a] = un[i]
            BY <2>8, <3>1, <5>1
          <5>3. \A b \in DOMAIN dm : dm[b] = un[j] => a < b
            BY <2>8, <3>1, <5>1
          <5> QED
            BY <5>2, <5>3
        <4>3. Holds(dm) = Holds(dn)
          BY <3>2, <3>4
        <4>4. Len(un) <= n + 1
          BY <2>2, <2>8
        <4> QED
          BY <2>2, <3>3, <4>1, <4>2, <4>3, <4>4
      <3>5. CASE x \notin Holds(dn)
        <4> DEFINE um == Append(un, x)
        <4>1. k[n + 1] = SetKey(kn, x) /\ u[n + 1] = um
          BY <2>2, <2>4, <2>6, <2>10, <3>5
        <4>2. /\ DOMAIN um = 1..(Len(un) + 1) /\ um[Len(un) + 1] = x /\ Len(um) = Len(un) + 1
              /\ \A i \in 1..Len(un) : um[i] = un[i]
          BY <2>3, <2>7
        <4>3. Holds(um) = Holds(un) \cup {x}
          BY <2>3, <2>7, AppendHolds
        <4>4. Half(SetKey(kn, x)) /\ Keys(SetKey(kn, x)) = Keys(kn) \cup {x}
          BY <2>2, <2>3, SetKeyOK
        <4> HIDE DEF um
        <4>5. InOrder(um, dm)
          <5> SUFFICES ASSUME NEW i \in DOMAIN um, NEW j \in DOMAIN um, i < j
                       PROVE  \E a \in DOMAIN dm : dm[a] = um[i] /\ \A b \in DOMAIN dm : dm[b] = um[j] => a < b
            BY DEF InOrder
          <5>1. i \in DOMAIN un /\ um[i] = un[i]
            BY <2>8, <4>2
          <5>2. CASE j \in DOMAIN un
            <6>1. PICK a \in DOMAIN dn : dn[a] = un[i] /\ \A b \in DOMAIN dn : dn[b] = un[j] => a < b
              BY <2>2, <5>1, <5>2 DEF InOrder
            <6>2. a \in DOMAIN dm /\ dm[a] = um[i]
              BY <2>8, <3>1, <5>1, <6>1
            <6>3. um[j] = un[j]
              BY <2>8, <4>2, <5>2
            <6>4. \A b \in DOMAIN dm : dm[b] = um[j] => a < b
              BY <2>8, <3>1, <6>1, <6>3
            <6> QED
              BY <6>2, <6>4
          <5>3. CASE j \notin DOMAIN un
            <6>1. um[j] = x
              BY <2>8, <4>2, <5>3
            <6>2. un[i] \in Holds(dn)
              BY <2>2, <5>1 DEF Holds
            <6>3. PICK a \in DOMAIN dn : dn[a] = un[i]
              BY <6>2 DEF Holds
            <6>4. a \in DOMAIN dm /\ dm[a] = um[i]
              BY <2>8, <3>1, <5>1, <6>3
            <6>5. \A b \in DOMAIN dm : dm[b] = um[j] => a < b
              <7> SUFFICES ASSUME NEW b \in DOMAIN dm, dm[b] = x PROVE a < b
                BY <6>1
              <7>1. b \notin DOMAIN dn
                BY <2>8, <3>1, <3>5 DEF Holds
              <7> QED
                BY <2>8, <3>1, <7>1
            <6> QED
              BY <6>4, <6>5
          <5> QED
            BY <5>2, <5>3
        <4>6. Len(um) <= n + 1
          BY <2>2, <2>8, <4>2
        <4> QED
          BY <2>2, <3>2, <3>3, <4>1, <4>3, <4>4, <4>5, <4>6
      <3> QED
        BY <3>4, <3>5
    <2> QED
      BY <2>9, <2>10
  <1>7. Kept(N)
    <2>1. \A n \in Nat : n \in P
      <3> HIDE DEF P
      <3> QED
        BY <1>5, <1>6, Induction
    <2> HIDE DEF Kept, N
    <2>2. N \in P /\ N <= N
      BY <1>3, <2>1
    <2> QED
      BY <2>2
  <1>8. N \in 0..N
    BY <1>3
  <1> QED
    BY <1>1, <1>2, <1>4, <1>7, <1>8

-----------------------------------------------------------------------------
(* The trie.                                                               *)

LEMMA AcAddOK ==
    ASSUME NEW w \in Tries, NEW t \in Texts
    PROVE  /\ AcAdd(w, t) \in Tries
           /\ DOMAIN AcAdd(w, t) = DOMAIN w \cup (IF Fits(t) THEN {Printable(t)} ELSE {})
  <1>0. SUFFICES ASSUME Fits(t)
                 PROVE  /\ AcAdd(w, t) \in Tries
                        /\ DOMAIN AcAdd(w, t) = DOMAIN w \cup {Printable(t)}
    BY DEF AcAdd
  <1> DEFINE word == Printable(t)
  <1>1. word \in Words
    BY DEF Words
  <1>2. PICK A \in SUBSET Words : w \in [A -> Nat \ {0}]
    BY DEF Tries
  <1> HIDE DEF word
  <1>3. DOMAIN w = A /\ \A x \in A : w[x] \in Nat \ {0}
    BY <1>2
  <1> DEFINE weight(x) == (IF x \in DOMAIN w THEN w[x] ELSE 1) + (IF x = word THEN 1 ELSE 0)
  <1>4. \A x \in A \cup {word} : weight(x) \in Nat \ {0}
    BY <1>3
  <1>5. AcAdd(w, t) = [x \in A \cup {word} |-> weight(x)]
    BY <1>0, <1>3 DEF AcAdd, word
  <1> HIDE DEF weight
  <1>6. AcAdd(w, t) \in [A \cup {word} -> Nat \ {0}]
    BY <1>4, <1>5
  <1>7. A \cup {word} \in SUBSET Words
    BY <1>1, <1>2
  <1> QED
    BY <1>3, <1>6, <1>7 DEF Tries, word

\* f[n] is the trie once the first n entries of h have been added to w.
Adds(f, w, h) ==
    /\ f \in [0..Len(h) -> Tries]
    /\ f[0] = w
    /\ \A n \in 1..Len(h) : f[n] = AcAdd(f[n - 1], h[n])

LEMMA AcAddAllUnrolls ==
    ASSUME NEW w \in Tries, NEW h \in Seq(Texts)
    PROVE  \E f : Adds(f, w, h) /\ AcAddAll(w, h) = f[Len(h)]
  <1> DEFINE N == Len(h)
             next(n, x) == AcAdd(x, h[n])
             Loop(f) == [i \in 0..N |-> IF i = 0 THEN w ELSE next(i, f[i - 1])]
             upto == CHOOSE f : f = Loop(f)
             step == [n \in 1..N |-> [x \in Tries |-> next(n, x)]]
  <1>1. AcAddAll(w, h) = upto[N]
    BY DEF AcAddAll
  <1>2. N \in Nat
    OBVIOUS
  <1>3. ASSUME NEW n \in 1..N, NEW x \in Tries PROVE next(n, x) \in Tries
    <2>1. h[n] \in Texts
      OBVIOUS
    <2> QED
      BY <2>1, AcAddOK
  <1> HIDE DEF N, next
  <1>4. step \in [1..N -> [Tries -> Tries]]
        /\ \A n \in 1..N : \A x \in Tries : step[n][x] = next(n, x)
    BY <1>3
  <1> HIDE DEF step
  <1>5. PICK f : Unrolls(f, N, Tries, w, step)
    BY <1>2, <1>4, Defined
  <1>6. \A n \in 1..N : n - 1 \in 0..N /\ n \in 0..N /\ n # 0
    BY <1>2
  <1>7. \A n \in 0..N : n # 0 => n \in 1..N
    BY <1>2
  <1>8. \A n \in 0..N : f[n] = IF n = 0 THEN w ELSE next(n, f[n - 1])
    BY <1>4, <1>5, <1>6, <1>7 DEF Unrolls
  <1>9. f = Loop(f)
    BY <1>5, <1>8 DEF Unrolls
  <1>10. upto = Loop(upto)
    BY <1>9
  <1> HIDE DEF upto
  <1>11. upto[0] = w /\ \A n \in 1..N : upto[n] = next(n, upto[n - 1])
    BY <1>2, <1>6, <1>10
  <1>12. \A n \in 0..N : upto[n] \in Tries
    <2>1. \A n \in 1..N : upto[n - 1] \in Tries => upto[n] \in Tries
      BY <1>3, <1>11
    <2> QED
      BY <1>2, <1>11, <2>1, Preserved
  <1>13. upto = [n \in 0..N |-> upto[n]]
    BY <1>10
  <1>14. upto \in [0..N -> Tries]
    BY <1>12, <1>13
  <1> QED
    BY <1>1, <1>11, <1>14 DEF N, next, Adds

\* What is added together is in the trie, and so is what was in it.
LEMMA AcAddAllOK ==
    ASSUME NEW w \in Tries, NEW h \in Seq(Texts)
    PROVE  /\ AcAddAll(w, h) \in Tries
           /\ \A i \in 1..Len(h) : Fits(h[i]) => Printable(h[i]) \in DOMAIN AcAddAll(w, h)
  <1> DEFINE N == Len(h)
  <1>1. PICK f : Adds(f, w, h) /\ AcAddAll(w, h) = f[N]
    BY AcAddAllUnrolls
  <1>2. N \in Nat /\ \A n \in 0..N : f[n] \in Tries
    BY <1>1 DEF Adds
  <1>3. ASSUME NEW n \in 1..N
        PROVE  /\ DOMAIN f[n - 1] \subseteq DOMAIN f[n]
               /\ Fits(h[n]) => Printable(h[n]) \in DOMAIN f[n]
    <2>1. n - 1 \in 0..N /\ f[n] = AcAdd(f[n - 1], h[n]) /\ h[n] \in Texts
      BY <1>1, <1>2 DEF Adds
    <2>2. DOMAIN f[n] = DOMAIN f[n - 1] \cup (IF Fits(h[n]) THEN {Printable(h[n])} ELSE {})
      BY <1>2, <2>1, AcAddOK
    <2> QED
      BY <2>2
  <1> HIDE DEF N
  <1> DEFINE P == {n \in Nat : n <= N => \A i \in 1..n : Fits(h[i]) => Printable(h[i]) \in DOMAIN f[n]}
  <1>4. 0 \in P
    OBVIOUS
  <1>5. ASSUME NEW n \in Nat, n \in P PROVE n + 1 \in P
    <2>1. SUFFICES ASSUME n + 1 <= N, NEW i \in 1..(n + 1), Fits(h[i])
                   PROVE  Printable(h[i]) \in DOMAIN f[n + 1]
      OBVIOUS
    <2>2. n + 1 \in 1..N /\ (n + 1) - 1 = n /\ n <= N /\ (i = n + 1 \/ i \in 1..n)
      BY <1>2, <2>1
    <2>3. /\ DOMAIN f[n] \subseteq DOMAIN f[n + 1]
          /\ Fits(h[n + 1]) => Printable(h[n + 1]) \in DOMAIN f[n + 1]
      BY <1>3, <2>2
    <2> QED
      BY <1>5, <2>1, <2>2, <2>3
  <1>6. \A n \in Nat : n \in P
    <2> HIDE DEF P
    <2> QED
      BY <1>4, <1>5, Induction
  <1>7. N \in 0..N /\ \A i \in 1..N : Fits(h[i]) => Printable(h[i]) \in DOMAIN f[N]
    BY <1>2, <1>6
  <1> QED
    BY <1>1, <1>2, <1>7 DEF N

\* v and t part at k, where v ends or has the lower letter.
Parts(v, t, k) ==
    /\ k \in Nat \ {0} /\ k - 1 <= Len(v) /\ k <= Len(t)
    /\ \A j \in 1..(k - 1) : v[j] = t[j]
    /\ k = Len(v) + 1 \/ (k <= Len(v) /\ Rank[v[k]] < Rank[t[k]])

LEMMA WordsOK ==
    ASSUME NEW t \in Words
    PROVE  t \in Texts /\ Len(t) \in Nat /\ \A i \in 1..Len(t) : t[i] \in DOMAIN Rank /\ Rank[t[i]] \in Nat
  <1>1. PICK x \in Texts : t = Printable(x)
    BY DEF Words
  <1>2. t \in Seq(Letters) /\ Holds(t) = Holds(x) \ {"\n", "\r"}
    BY <1>1, PrintableOK DEF Texts
  <1>3. Len(t) \in Nat /\ DOMAIN t = 1..Len(t)
    BY <1>2
  <1>4. ASSUME NEW i \in 1..Len(t) PROVE t[i] \in DOMAIN Rank
    <2>1. t[i] \in Letters
      BY <1>2
    <2>2. t[i] \in Holds(t)
      BY <1>3 DEF Holds
    <2> QED
      BY <1>2, <2>1, <2>2 DEF Letters
  <1> QED
    BY <1>2, <1>3, <1>4, RankAssumption DEF Texts

LEMMA SamePrefix ==
    ASSUME NEW v \in Texts, NEW t \in Texts, NEW n \in Nat, n <= Len(v), n <= Len(t)
    PROVE  (SubSeq(v, 1, n) = SubSeq(t, 1, n)) <=> (\A j \in 1..n : v[j] = t[j])
  <1> DEFINE x == SubSeq(v, 1, n)
             y == SubSeq(t, 1, n)
  <1>1. v \in Seq(Letters) /\ t \in Seq(Letters) /\ Len(v) \in Nat /\ Len(t) \in Nat
    BY DEF Texts
  <1>2. /\ x \in Seq(Letters) /\ y \in Seq(Letters) /\ Len(x) = n /\ Len(y) = n
        /\ \A j \in 1..n : x[j] = v[j] /\ y[j] = t[j]
    BY <1>1
  <1> HIDE DEF x, y
  <1>3. (\A j \in 1..n : v[j] = t[j]) => x = y
    <2> SUFFICES ASSUME \A j \in 1..n : v[j] = t[j] PROVE x = y
      OBVIOUS
    <2>1. \A j \in 1..Len(x) : x[j] = y[j]
      BY <1>2
    <2> QED
      BY <1>2, <2>1, SeqEqual
  <1>4. x = y => \A j \in 1..n : v[j] = t[j]
    BY <1>2
  <1> QED
    BY <1>3, <1>4 DEF x, y

LEMMA BeforeIs ==
    ASSUME NEW v \in Words, NEW t \in Words
    PROVE  Before(v, t) <=> \E k \in Nat : Parts(v, t, k)
  <1> DEFINE n == IF Len(v) <= Len(t) THEN Len(v) ELSE Len(t)
             Lower(k) == SubSeq(v, 1, k - 1) = SubSeq(t, 1, k - 1) /\ Rank[v[k]] < Rank[t[k]]
  <1>1. /\ v \in Texts /\ t \in Texts /\ v \in Seq(Letters) /\ t \in Seq(Letters)
        /\ Len(v) \in Nat /\ Len(t) \in Nat
    BY WordsOK DEF Texts
  <1>2. Before(v, t) <=> (IsPrefix(v, t) /\ v # t) \/ \E k \in 1..n : Lower(k)
    BY DEF Before
  <1>3. SubSeq(v, 1, Len(v)) = v /\ SubSeq(t, 1, Len(t)) = t
    BY <1>1, SubSeqFull
  <1>4. ASSUME IsPrefix(v, t), v # t PROVE \E k \in Nat : Parts(v, t, k)
    <2>1. Len(v) <= Len(t) /\ SubSeq(t, 1, Len(v)) = SubSeq(v, 1, Len(v))
      BY <1>3, <1>4 DEF IsPrefix
    <2>2. \A j \in 1..Len(v) : v[j] = t[j]
      BY <1>1, <2>1, SamePrefix
    <2>3. Len(v) # Len(t)
      BY <1>1, <1>4, <2>2, SeqEqual
    <2>4. Parts(v, t, Len(v) + 1)
      BY <1>1, <2>1, <2>2, <2>3 DEF Parts
    <2> QED
      BY <1>1, <2>4
  <1>5. ASSUME NEW k \in 1..n, Lower(k) PROVE \E m \in Nat : Parts(v, t, m)
    <2>1. k \in Nat \ {0} /\ k - 1 \in Nat /\ k <= Len(v) /\ k <= Len(t) /\ k - 1 <= Len(v) /\ k - 1 <= Len(t)
      BY <1>1
    <2>2. \A j \in 1..(k - 1) : v[j] = t[j]
      BY <1>1, <1>5, <2>1, SamePrefix
    <2>3. Parts(v, t, k)
      BY <1>5, <2>1, <2>2 DEF Parts
    <2> QED
      BY <2>1, <2>3
  <1>6. ASSUME NEW k \in Nat, Parts(v, t, k)
        PROVE  (IsPrefix(v, t) /\ v # t) \/ \E m \in 1..n : Lower(m)
    <2>1. /\ k \in Nat \ {0} /\ k - 1 <= Len(v) /\ k <= Len(t) /\ k - 1 \in Nat /\ k - 1 <= Len(t)
          /\ \A j \in 1..(k - 1) : v[j] = t[j]
      BY <1>1, <1>6 DEF Parts
    <2>2. SubSeq(v, 1, k - 1) = SubSeq(t, 1, k - 1)
      BY <1>1, <2>1, SamePrefix
    <2>3. CASE k = Len(v) + 1
      <3>1. k - 1 = Len(v) /\ Len(v) <= Len(t) /\ Len(v) # Len(t)
        BY <1>1, <2>1, <2>3
      <3>2. SubSeq(t, 1, Len(v)) = v
        BY <1>3, <2>2, <3>1
      <3> QED
        BY <3>1, <3>2 DEF IsPrefix
    <2>4. CASE k <= Len(v) /\ Rank[v[k]] < Rank[t[k]]
      <3>1. k \in 1..n
        BY <1>1, <2>1, <2>4
      <3> QED
        BY <2>2, <2>4, <3>1
    <2> QED
      BY <1>6, <2>3, <2>4 DEF Parts
  <1> QED
    BY <1>2, <1>4, <1>5, <1>6

\* ac_match's order is one: of two words one comes first, and so on.
LEMMA BeforeOrders ==
    /\ \A t \in Words : ~Before(t, t)
    /\ \A u, v, t \in Words : Before(u, v) /\ Before(v, t) => Before(u, t)
    /\ \A v, t \in Words : v # t => Before(v, t) \/ Before(t, v)
  <1>1. ASSUME NEW t \in Words PROVE ~Before(t, t)
    <2>1. SUFFICES ASSUME NEW k \in Nat, Parts(t, t, k) PROVE FALSE
      BY BeforeIs
    <2>2. Len(t) \in Nat /\ \A i \in 1..Len(t) : Rank[t[i]] \in Nat
      BY WordsOK
    <2> QED
      BY <2>1, <2>2 DEF Parts
  <1>2. ASSUME NEW u \in Words, NEW v \in Words, NEW t \in Words, Before(u, v), Before(v, t)
        PROVE  Before(u, t)
    <2>1. PICK k \in Nat : Parts(u, v, k)
      BY <1>2, BeforeIs
    <2>2. PICK m \in Nat : Parts(v, t, m)
      BY <1>2, BeforeIs
    <2>3. /\ Len(u) \in Nat /\ \A i \in 1..Len(u) : Rank[u[i]] \in Nat
          /\ Len(v) \in Nat /\ \A i \in 1..Len(v) : Rank[v[i]] \in Nat
          /\ Len(t) \in Nat /\ \A i \in 1..Len(t) : Rank[t[i]] \in Nat
      BY WordsOK
    <2>4. /\ k \in Nat \ {0} /\ k - 1 <= Len(u) /\ k <= Len(v)
          /\ \A j \in 1..(k - 1) : u[j] = v[j]
          /\ k = Len(u) + 1 \/ (k <= Len(u) /\ Rank[u[k]] < Rank[v[k]])
      BY <2>1 DEF Parts
    <2>5. /\ m \in Nat \ {0} /\ m - 1 <= Len(v) /\ m <= Len(t)
          /\ \A j \in 1..(m - 1) : v[j] = t[j]
          /\ m = Len(v) + 1 \/ (m <= Len(v) /\ Rank[v[m]] < Rank[t[m]])
      BY <2>2 DEF Parts
    <2>6. CASE k < m
      <3>1. k \in 1..(m - 1) /\ k <= Len(t) /\ v[k] = t[k]
        BY <2>3, <2>4, <2>5, <2>6
      <3>2. \A j \in 1..(k - 1) : u[j] = t[j]
        <4>1. \A j \in 1..(k - 1) : j \in 1..(m - 1)
          BY <2>4, <2>5, <2>6
        <4> QED
          BY <2>4, <2>5, <4>1
      <3>3. Parts(u, t, k)
        BY <2>4, <3>1, <3>2 DEF Parts
      <3> QED
        BY <3>3, BeforeIs
    <2>7. CASE m < k
      <3>1. m \in 1..(k - 1) /\ m <= Len(v) /\ m <= Len(u) /\ m - 1 <= Len(u)
        BY <2>3, <2>4, <2>5, <2>7
      <3>2. Rank[u[m]] < Rank[t[m]]
        BY <2>3, <2>4, <2>5, <3>1
      <3>3. \A j \in 1..(m - 1) : u[j] = t[j]
        <4>1. \A j \in 1..(m - 1) : j \in 1..(k - 1)
          BY <2>4, <2>5, <2>7
        <4> QED
          BY <2>4, <2>5, <4>1
      <3>4. Parts(u, t, m)
        BY <2>5, <3>1, <3>2, <3>3 DEF Parts
      <3> QED
        BY <3>4, BeforeIs
    <2>8. CASE k = m
      <3>1. k <= Len(v) /\ Rank[v[k]] < Rank[t[k]] /\ k <= Len(t)
        BY <2>3, <2>4, <2>5, <2>8
      <3>2. \A j \in 1..(k - 1) : u[j] = t[j]
        BY <2>4, <2>5, <2>8
      <3>3. k = Len(u) + 1 \/ (k <= Len(u) /\ Rank[u[k]] < Rank[t[k]])
        <4>1. CASE k <= Len(u) /\ Rank[u[k]] < Rank[v[k]]
          <5>1. k \in 1..Len(u) /\ k \in 1..Len(v) /\ k \in 1..Len(t)
            BY <2>3, <2>4, <3>1, <4>1
          <5>2. Rank[u[k]] \in Nat /\ Rank[v[k]] \in Nat /\ Rank[t[k]] \in Nat
            BY <2>3, <5>1
          <5> QED
            BY <3>1, <4>1, <5>2
        <4> QED
          BY <2>4, <4>1
      <3>4. Parts(u, t, k)
        BY <2>4, <3>1, <3>2, <3>3 DEF Parts
      <3> QED
        BY <3>4, BeforeIs
    <2> QED
      BY <2>4, <2>5, <2>6, <2>7, <2>8
  <1>3. ASSUME NEW v \in Words, NEW t \in Words, v # t PROVE Before(v, t) \/ Before(t, v)
    <2>1. /\ v \in Seq(Letters) /\ t \in Seq(Letters) /\ Len(v) \in Nat /\ Len(t) \in Nat
          /\ \A i \in 1..Len(v) : v[i] \in DOMAIN Rank /\ Rank[v[i]] \in Nat
          /\ \A i \in 1..Len(t) : t[i] \in DOMAIN Rank /\ Rank[t[i]] \in Nat
      BY WordsOK DEF Texts
    <2> DEFINE T == {k \in Nat \ {0} : k > Len(v) \/ k > Len(t) \/ v[k] # t[k]}
    <2>2. T \in SUBSET Nat /\ T # {}
      <3>1. Len(v) + 1 \in T
        BY <2>1
      <3> QED
        BY <3>1
    <2>3. PICK k \in T : \A o \in T : k <= o
      <3> HIDE DEF T
      <3> QED
        BY <2>2, Least
    <2>4. k \in Nat \ {0} /\ (k > Len(v) \/ k > Len(t) \/ v[k] # t[k])
      BY <2>3
    <2>5. ASSUME NEW j \in 1..(k - 1) PROVE j <= Len(v) /\ j <= Len(t) /\ v[j] = t[j]
      <3>1. j \in Nat \ {0} /\ ~(k <= j)
        BY <2>4
      <3>2. j \notin T
        BY <2>3, <3>1
      <3> QED
        BY <2>1, <3>1, <3>2
    <2>6. k - 1 <= Len(v) /\ k - 1 <= Len(t)
      <3>1. CASE k = 1
        BY <2>1, <3>1
      <3>2. CASE k # 1
        <4>1. k - 1 \in 1..(k - 1)
          BY <2>4, <3>2
        <4> QED
          BY <2>5, <4>1
      <3> QED
        BY <3>1, <3>2
    <2>7. CASE k > Len(v) /\ k > Len(t)
      <3>1. Len(v) = k - 1 /\ Len(t) = k - 1
        BY <2>1, <2>4, <2>6, <2>7
      <3>2. \A j \in 1..Len(v) : v[j] = t[j]
        BY <2>5, <3>1
      <3>3. v = t
        BY <2>1, <3>1, <3>2, SeqEqual
      <3> QED
        BY <1>3, <3>3
    <2>8. CASE k > Len(v) /\ k <= Len(t)
      <3>1. Parts(v, t, k)
        BY <2>1, <2>4, <2>5, <2>6, <2>8 DEF Parts
      <3> QED
        BY <2>4, <3>1, BeforeIs
    <2>9. CASE k <= Len(v) /\ k > Len(t)
      <3>1. Parts(t, v, k)
        BY <2>1, <2>4, <2>5, <2>6, <2>9 DEF Parts
      <3> QED
        BY <2>4, <3>1, BeforeIs
    <2>10. CASE k <= Len(v) /\ k <= Len(t)
      <3>1. v[k] # t[k] /\ k \in 1..Len(v) /\ k \in 1..Len(t)
        BY <2>1, <2>4, <2>10
      <3>2. Rank[v[k]] < Rank[t[k]] \/ Rank[t[k]] < Rank[v[k]]
        BY <2>1, <3>1, RankAssumption
      <3>3. Parts(v, t, k) \/ Parts(t, v, k)
        BY <2>4, <2>5, <2>6, <2>10, <3>2 DEF Parts
      <3> QED
        BY <2>4, <3>3, BeforeIs
    <2> QED
      BY <2>1, <2>4, <2>7, <2>8, <2>9, <2>10
  <1> QED
    BY <1>1, <1>2, <1>3

\* Of finitely many, of any two of which one is better, one is the best.
LEMMA Best ==
    ASSUME NEW A, IsFiniteSet(A), A # {}, NEW R,
           \A x, y, z \in A : <<x, y>> \in R /\ <<y, z>> \in R => <<x, z>> \in R,
           \A x, y \in A : x # y => <<x, y>> \in R \/ <<y, x>> \in R
    PROVE  \E m \in A : \A x \in A \ {m} : <<m, x>> \in R
  <1> DEFINE P == {n \in Nat : \A T \in SUBSET A : Cardinality(T) = n + 1 =>
                      \E m \in T : \A x \in T \ {m} : <<m, x>> \in R}
  <1>1. \A T \in SUBSET A : IsFiniteSet(T)
    BY FS_Subset
  <1>2. 0 \in P
    <2> SUFFICES ASSUME NEW T \in SUBSET A, Cardinality(T) = 1
                 PROVE  \E m \in T : \A x \in T \ {m} : <<m, x>> \in R
      OBVIOUS
    <2>1. PICK m : T = {m}
      BY <1>1, FS_Singleton
    <2> QED
      BY <2>1
  <1>3. ASSUME NEW n \in Nat, n \in P PROVE n + 1 \in P
    <2> SUFFICES ASSUME NEW T \in SUBSET A, Cardinality(T) = (n + 1) + 1
                 PROVE  \E m \in T : \A x \in T \ {m} : <<m, x>> \in R
      OBVIOUS
    <2>1. T # {}
      BY FS_EmptySet
    <2>2. PICK z \in T : TRUE
      BY <2>1
    <2> DEFINE U == T \ {z}
    <2>3. Cardinality(U) = n + 1
      <3>1. Cardinality(U) = Cardinality(T) - 1
        BY <1>1, FS_RemoveElement
      <3> QED
        BY <3>1
    <2>4. PICK m \in U : \A x \in U \ {m} : <<m, x>> \in R
      BY <1>3, <2>3
    <2>5. CASE <<m, z>> \in R
      BY <2>4, <2>5
    <2>6. CASE <<m, z>> \notin R
      <3>1. <<z, m>> \in R
        BY <2>4, <2>6
      <3>2. \A x \in T \ {z} : <<z, x>> \in R
        BY <2>4, <3>1
      <3> QED
        BY <3>2
    <2> QED
      BY <2>5, <2>6
  <1>4. \A n \in Nat : n \in P
    <2> HIDE DEF P
    <2> QED
      BY <1>2, <1>3, Induction
  <1>5. Cardinality(A) \in Nat /\ Cardinality(A) # 0
    BY FS_CardinalityType, FS_EmptySet
  <1>6. Cardinality(A) - 1 \in P /\ Cardinality(A) = (Cardinality(A) - 1) + 1
    BY <1>4, <1>5
  <1> QED
    BY <1>6

\* In a trie of one history the weight of a word counts its entries, from one.
LEMMA WeightsCount ==
    ASSUME NEW h \in Seq(Texts)
    PROVE  LET w == AcAddAll(<<>>, h)
               at(x) == {i \in 1..Len(h) : Fits(h[i]) /\ Printable(h[i]) = x}
           IN  /\ w \in Tries /\ IsFiniteSet(DOMAIN w)
               /\ \A x \in DOMAIN w : Cardinality(at(x)) \in Nat /\ w[x] = Cardinality(at(x)) + 1
  <1> DEFINE w == AcAddAll(<<>>, h)
             N == Len(h)
             at(n, x) == {i \in 1..n : Fits(h[i]) /\ Printable(h[i]) = x}
  <1>1. <<>> \in Tries
    BY EmptyOK
  <1>2. PICK f : Adds(f, <<>>, h) /\ w = f[N]
    BY <1>1, AcAddAllUnrolls
  <1>3. N \in Nat /\ \A n \in 0..N : f[n] \in Tries
    BY <1>2 DEF Adds
  <1>4. \A n \in Nat : \A x : IsFiniteSet(at(n, x)) /\ Cardinality(at(n, x)) \in Nat
    <2> SUFFICES ASSUME NEW n \in Nat, NEW x PROVE IsFiniteSet(at(n, x)) /\ Cardinality(at(n, x)) \in Nat
      OBVIOUS
    <2>1. at(n, x) \subseteq 1..n /\ IsFiniteSet(1..n)
      BY FS_Interval
    <2> QED
      BY <2>1, FS_Subset, FS_CardinalityType
  <1> DEFINE Counts(n) == /\ IsFiniteSet(DOMAIN f[n])
                          /\ \A x : x \notin DOMAIN f[n] => at(n, x) = {}
                          /\ \A x \in DOMAIN f[n] : f[n][x] = Cardinality(at(n, x)) + 1
             P == {n \in Nat : n <= N => Counts(n)}
  <1>5. 0 \in P
    <2>1. f[0] = <<>> /\ DOMAIN <<>> = {}
      BY <1>2 DEF Adds
    <2>2. \A x : at(0, x) = {}
      OBVIOUS
    <2>3. Counts(0)
      BY <2>1, <2>2, FS_EmptySet
    <2> HIDE DEF Counts, N
    <2> QED
      BY <2>3
  <1>6. ASSUME NEW n \in Nat, n \in P PROVE n + 1 \in P
    <2> SUFFICES ASSUME n + 1 <= N PROVE Counts(n + 1)
      <3> HIDE DEF Counts, N
      <3> QED
        OBVIOUS
    <2> DEFINE t == h[n + 1]
               word == Printable(t)
               v == f[n]
               u == f[n + 1]
    <2>1. n + 1 \in 1..N /\ (n + 1) - 1 = n /\ n \in 0..N /\ n <= N
      BY <1>3
    <2>2. /\ IsFiniteSet(DOMAIN v) /\ \A x : x \notin DOMAIN v => at(n, x) = {}
          /\ \A x \in DOMAIN v : v[x] = Cardinality(at(n, x)) + 1
      BY <1>6, <2>1
    <2>3. u = AcAdd(v, t) /\ t \in Texts
      BY <1>2, <2>1 DEF Adds
    <2>0. CASE ~Fits(t)
      <3>1. u = v /\ \A x : at(n + 1, x) = at(n, x)
        BY <2>0, <2>3 DEF AcAdd
      <3> QED
        BY <2>2, <3>1
    <2>12. SUFFICES ASSUME Fits(t) PROVE Counts(n + 1)
      BY <2>0
    <2>4. u = [x \in DOMAIN v \cup {word} |->
                  (IF x \in DOMAIN v THEN v[x] ELSE 1) + (IF x = word THEN 1 ELSE 0)]
      BY <2>3, <2>12 DEF AcAdd
    <2>5. \A x : x # word => at(n + 1, x) = at(n, x)
      OBVIOUS
    <2>6. at(n + 1, word) = at(n, word) \cup {n + 1} /\ n + 1 \notin at(n, word)
      BY <2>12
    <2> HIDE DEF at, word, v, u, N, Counts, P
    <2>7. Cardinality(at(n + 1, word)) = Cardinality(at(n, word)) + 1
      BY <1>4, <2>6, FS_AddElement
    <2>8. DOMAIN u = DOMAIN v \cup {word}
      BY <2>4
    <2>9. IsFiniteSet(DOMAIN u)
      BY <2>2, <2>8, FS_AddElement
    <2>10. \A x : x \notin DOMAIN u => at(n + 1, x) = {}
      BY <2>2, <2>5, <2>8
    <2>11. ASSUME NEW x \in DOMAIN u PROVE u[x] = Cardinality(at(n + 1, x)) + 1
      <3>1. Cardinality(at(n, x)) \in Nat
        BY <1>4
      <3>2. (IF x \in DOMAIN v THEN v[x] ELSE 1) = Cardinality(at(n, x)) + 1
        <4>1. CASE x \in DOMAIN v
          BY <2>2, <4>1
        <4>2. CASE x \notin DOMAIN v
          <5>1. at(n, x) = {}
            BY <2>2, <4>2
          <5> QED
            BY <4>2, <5>1, FS_EmptySet
        <4> QED
          BY <4>1, <4>2
      <3>3. u[x] = (IF x \in DOMAIN v THEN v[x] ELSE 1) + (IF x = word THEN 1 ELSE 0)
        BY <2>4, <2>8
      <3>4. CASE x = word
        BY <2>7, <3>1, <3>2, <3>3, <3>4
      <3>5. CASE x # word
        BY <2>5, <3>1, <3>2, <3>3, <3>5
      <3> QED
        BY <3>4, <3>5
    <2> QED
      BY <2>9, <2>10, <2>11 DEF Counts, u
  <1>7. Counts(N)
    <2>1. \A n \in Nat : n \in P
      <3> HIDE DEF P
      <3> QED
        BY <1>5, <1>6, Induction
    <2> HIDE DEF Counts, N
    <2>2. N \in P /\ N <= N
      BY <1>3, <2>1
    <2> QED
      BY <2>2
  <1>8. N \in 0..N
    BY <1>3
  <1> QED
    BY <1>2, <1>3, <1>4, <1>7, <1>8

\* ac_first finds the one that comes first among the heaviest, if ac_match looks at all.
LEMMA FirstOK ==
    ASSUME NEW w \in Tries, IsFiniteSet(DOMAIN w), NEW p,
           NEW all, all = {t \in DOMAIN w : IsPrefix(p, t) /\ t # p},
           Cardinality(all) < MaxMatches, all # {}
    PROVE  /\ Cardinality(AcFirst(w, p)) = 1
           /\ \A m \in AcFirst(w, p) : m \in all /\ \A v \in all : w[v] <= w[m]
  <1>1. all \subseteq Words /\ all \subseteq DOMAIN w /\ \A x \in all : w[x] \in Nat
    <2>1. PICK A \in SUBSET Words : w \in [A -> Nat \ {0}]
      BY DEF Tries
    <2> QED
      BY <2>1
  <1>2. IsFiniteSet(all)
    BY FS_Subset
  <1>3. Cardinality(all) \in Nat /\ MaxMatches \in Nat
    BY <1>2, FS_CardinalityType, BoundsAssumption
  <1>4. Matches(w, p) = all
    <2>1. ASSUME NEW t \in all PROVE Cardinality({v \in all : Before(v, t)}) < MaxMatches - 1
      <3> DEFINE B == {v \in all : Before(v, t)}
      <3>1. B \subseteq all \ {t}
        BY <1>1, BeforeOrders
      <3>2. IsFiniteSet(all \ {t}) /\ Cardinality(all \ {t}) = Cardinality(all) - 1
        BY <1>2, FS_RemoveElement
      <3> HIDE DEF B
      <3>3. Cardinality(B) <= Cardinality(all) - 1 /\ Cardinality(B) \in Nat
        BY <3>1, <3>2, FS_Subset, FS_CardinalityType
      <3>4. Cardinality(B) < MaxMatches - 1
        BY <1>3, <3>3
      <3> QED
        BY <3>4 DEF B
    <2> QED
      BY <2>1 DEF Matches
  <1> DEFINE Better(t, v) == w[v] < w[t] \/ (w[v] = w[t] /\ Before(t, v))
             R == {q \in all \X all : Better(q[1], q[2])}
  <1>5. AcFirst(w, p) = {t \in all : \A v \in all \ {t} : Better(t, v)}
    BY <1>4 DEF AcFirst
  <1>6. \A x, y \in all : <<x, y>> \in R <=> Better(x, y)
    OBVIOUS
  <1>7. \A x, y, z \in all : Better(x, y) /\ Better(y, z) => Better(x, z)
    BY <1>1, BeforeOrders
  <1>8. \A x, y \in all : x # y => Better(x, y) \/ Better(y, x)
    BY <1>1, BeforeOrders
  <1>9. \A x \in all : ~Better(x, x)
    BY <1>1, BeforeOrders
  <1> HIDE DEF R
  <1>10. PICK m \in all : \A x \in all \ {m} : <<m, x>> \in R
    <2> HIDE DEF Better
    <2>1. \A x, y, z \in all : <<x, y>> \in R /\ <<y, z>> \in R => <<x, z>> \in R
      BY <1>6, <1>7
    <2>2. \A x, y \in all : x # y => <<x, y>> \in R \/ <<y, x>> \in R
      BY <1>6, <1>8
    <2>3. all # {}
      OBVIOUS
    <2> HIDE DEF Better
    <2> QED
      BY ONLY <1>2, <2>1, <2>2, <2>3, Best
  <1>11. \A x \in all \ {m} : Better(m, x)
    BY <1>6, <1>10
  <1>12. AcFirst(w, p) = {m}
    <2> HIDE DEF Better
    <2>1. m \in AcFirst(w, p)
      BY <1>5, <1>10, <1>11
    <2>2. ASSUME NEW t \in AcFirst(w, p), t # m PROVE FALSE
      <3>1. t \in all /\ Better(t, m) /\ Better(m, t)
        BY <1>5, <1>10, <1>11, <2>2
      <3> QED
        BY <1>7, <1>9, <3>1
    <2> QED
      BY <2>1, <2>2
  <1>13. \A v \in all : w[v] <= w[m]
    BY <1>1, <1>11
  <1>14. Cardinality({m}) = 1
    BY FS_Singleton
  <1> QED
    BY <1>12, <1>13, <1>14

-----------------------------------------------------------------------------
(* Histories.                                                              *)

LEMMA NewestOK ==
    ASSUME NEW h \in Seq(Slots), NEW n \in Nat
    PROVE  /\ Newest(h, n) \in Seq(Slots) /\ Len(Newest(h, n)) <= n
           /\ Holds(Newest(h, n)) \subseteq Holds(h)
  <1>1. CASE Len(h) <= n
    BY <1>1 DEF Newest
  <1>2. CASE Len(h) > n
    <2> DEFINE m == Len(h) - n + 1
               g == SubSeq(h, m, Len(h))
    <2>1. Len(h) \in Nat /\ m \in 1..(Len(h) + 1) /\ Len(h) - m + 1 = n
      BY <1>2
    <2>2. Newest(h, n) = g
      BY <1>2 DEF Newest
    <2>3. g \in Seq(Slots) /\ Len(g) = n /\ \A i \in 1..n : g[i] = h[m + i - 1] /\ m + i - 1 \in 1..Len(h)
      BY <2>1
    <2> HIDE DEF g
    <2>4. DOMAIN g = 1..n /\ DOMAIN h = 1..Len(h)
      BY <2>3
    <2> QED
      BY <2>2, <2>3, <2>4 DEF Holds
  <1> QED
    BY <1>1, <1>2

\* bestlineHistoryAdd: the newest entry is what was added, and nothing else is new.
LEMMA AddedOK ==
    ASSUME NEW h \in Histories, NEW t \in Texts
    PROVE  /\ Added(h, t) \in Histories /\ Added(h, t) # <<>>
           /\ Added(h, t)[Len(Added(h, t))] = t
           /\ Holds(Added(h, t)) \subseteq Holds(h) \cup {t}
  <1>1. h \in Seq(Slots) /\ Len(h) <= MaxHistory /\ MaxHistory - 1 \in Nat
    BY BoundsAssumption DEF Histories, Slots
  <1>2. CASE h # <<>> /\ h[Len(h)] = t
    BY <1>2 DEF Added
  <1>3. CASE ~(h # <<>> /\ h[Len(h)] = t)
    <2> DEFINE n == Newest(h, MaxHistory - 1)
    <2>1. n \in Seq(Slots) /\ Len(n) <= MaxHistory - 1 /\ Holds(n) \subseteq Holds(h)
      BY <1>1, NewestOK
    <2>2. Added(h, t) = Append(n, t)
      BY <1>3 DEF Added
    <2> HIDE DEF n
    <2>3. /\ Append(n, t) \in Seq(Slots) /\ Len(Append(n, t)) = Len(n) + 1
          /\ Append(n, t)[Len(n) + 1] = t
          /\ \A i \in 1..(Len(n) + 1) : i \in 1..Len(n) \/ i = Len(n) + 1
          /\ \A i \in 1..Len(n) : Append(n, t)[i] = n[i]
      BY <2>1 DEF Slots
    <2>4. Holds(Append(n, t)) \subseteq Holds(n) \cup {t}
      <3>1. DOMAIN Append(n, t) = 1..(Len(n) + 1) /\ DOMAIN n = 1..Len(n)
        BY <2>1, <2>3
      <3> QED
        BY <2>3, <3>1 DEF Holds
    <2>5. Len(n) \in Nat /\ Len(n) + 1 <= MaxHistory
      BY <2>1, BoundsAssumption
    <2>6. Append(n, t) # <<>>
      BY <2>3, <2>5
    <2> QED
      BY <2>1, <2>2, <2>3, <2>4, <2>5, <2>6 DEF Histories, Slots
  <1> QED
    BY <1>2, <1>3

\* The start of a history.
LEMMA StartOK ==
    ASSUME NEW h \in Histories, NEW n \in 0..Len(h)
    PROVE  SubSeq(h, 1, n) \in Histories /\ Holds(SubSeq(h, 1, n)) \subseteq Holds(h)
  <1> DEFINE g == SubSeq(h, 1, n)
  <1>1. h \in Seq(Slots) /\ Len(h) <= MaxHistory /\ Len(h) \in Nat /\ MaxHistory \in Nat
    BY BoundsAssumption DEF Histories, Slots
  <1>2. g \in Seq(Slots) /\ Len(g) = n /\ \A i \in 1..n : g[i] = h[i] /\ i \in 1..Len(h)
    BY <1>1
  <1> HIDE DEF g
  <1>3. DOMAIN g = 1..n /\ DOMAIN h = 1..Len(h)
    BY <1>1, <1>2
  <1>4. Len(g) <= MaxHistory
    BY <1>1, <1>2
  <1> QED
    BY <1>2, <1>3, <1>4 DEF Holds, Histories, Slots, g

LEMMA PromptedOK ==
    ASSUME NEW h \in Histories
    PROVE  Prompted(h) \in Histories /\ Holds(Prompted(h)) \subseteq Holds(h) \cup {<<>>}
  <1> DEFINE own == Added(h, <<>>)
  <1>1. own \in Histories /\ own # <<>> /\ Holds(own) \subseteq Holds(h) \cup {<<>>}
    BY TextsOK, AddedOK
  <1> HIDE DEF own
  <1>2. Len(own) - 1 \in 0..Len(own)
    BY <1>1 DEF Histories
  <1>3. SubSeq(own, 1, Len(own) - 1) \in Histories
        /\ Holds(SubSeq(own, 1, Len(own) - 1)) \subseteq Holds(own)
    BY <1>1, <1>2, StartOK
  <1> QED
    BY <1>1, <1>3 DEF Prompted, own

\* history_remove puts nothing new into the history but NULL.
LEMMA RemovedOK ==
    ASSUME NEW h \in Histories, NEW i \in 1..Len(h), NEW count \in Nat
    PROVE  Removed(h, i, count) \in Histories
           /\ Holds(Removed(h, i, count)) \subseteq Holds(h) \cup {NoKey}
  <1>1. h \in Seq(Slots) /\ Len(h) \in Nat /\ DOMAIN h = 1..Len(h) /\ Len(h) <= MaxHistory
    BY DEF Histories, Slots
  <1>2. ASSUME NEW x \in Holds(h) \cup {NoKey}
        PROVE  /\ [h EXCEPT ![i] = x] \in Histories
               /\ Len([h EXCEPT ![i] = x]) = Len(h)
               /\ Holds([h EXCEPT ![i] = x]) \subseteq Holds(h) \cup {NoKey}
    <2>1. x \in Slots
      BY <1>1 DEF Holds, Slots
    <2> DEFINE g == [h EXCEPT ![i] = x]
    <2>2. g \in Seq(Slots) /\ Len(g) = Len(h)
      BY <1>1, <2>1
    <2>3. DOMAIN g = DOMAIN h /\ \A k \in DOMAIN h : g[k] = IF k = i THEN x ELSE h[k]
      OBVIOUS
    <2> HIDE DEF g
    <2>4. Holds(g) \subseteq Holds(h) \cup {NoKey}
      BY <2>3 DEF Holds
    <2> QED
      BY <1>1, <2>2, <2>4 DEF Histories, Slots, g
  <1>3. CASE i = count
    BY <1>2, <1>3 DEF Removed
  <1>4. CASE i # count
    <2> DEFINE next == IF i < count /\ i < Len(h) THEN h[i + 1] ELSE NoKey
               g == [h EXCEPT ![i] = next]
    <2>1. next \in Holds(h) \cup {NoKey}
      <3>1. i < Len(h) => i + 1 \in DOMAIN h
        BY <1>1
      <3> QED
        BY <3>1 DEF Holds
    <2>2. Removed(h, i, count) = SubSeq(g, 1, Len(h) - 1)
      BY <1>4 DEF Removed
    <2> HIDE DEF next
    <2>3. g \in Histories /\ Len(g) = Len(h) /\ Holds(g) \subseteq Holds(h) \cup {NoKey}
      BY <1>2, <2>1
    <2> HIDE DEF g
    <2>4. Len(h) - 1 \in 0..Len(g)
      BY <1>1, <2>3
    <2>5. SubSeq(g, 1, Len(h) - 1) \in Histories /\ Holds(SubSeq(g, 1, Len(h) - 1)) \subseteq Holds(g)
      BY <2>3, <2>4, StartOK
    <2> QED
      BY <2>2, <2>3, <2>5
  <1> QED
    BY <1>3, <1>4

\* Two who write without knowing of each other leave a text all the same.
LEMMA OverwrittenOK ==
    ASSUME NEW f \in Texts, NEW t \in Texts
    PROVE  Overwritten(f, t) \in Texts
  <1>1. f \in Seq(Letters) /\ t \in Seq(Letters) /\ Len(f) \in Nat /\ Len(t) + 1 \in Nat \ {0}
    BY DEF Texts
  <1>2. SubSeq(f, Len(t) + 1, Len(f)) \in Seq(Letters)
    BY <1>1
  <1> QED
    BY <1>1, <1>2 DEF Overwritten, Texts

\* What is loaded from a text is a history without a NULL.
LEMMA LoadedOK ==
    ASSUME file \in Texts
    PROVE  Loaded \in Seq(Texts) /\ Loaded \in Histories
           /\ (Loaded # <<>> => Loaded[Len(Loaded)] # NoKey)
  <1> DEFINE a == LinesOf(file)
             g == Newest(a, MaxHistory)
  <1>1. a \in Seq(Texts) /\ MaxHistory \in Nat
    BY LinesOK, BoundsAssumption
  <1>2. a \in Seq(Slots)
    BY <1>1 DEF Slots
  <1> HIDE DEF a
  <1>3. g \in Seq(Slots) /\ Len(g) <= MaxHistory /\ Holds(g) \subseteq Holds(a)
    BY <1>1, <1>2, NewestOK
  <1>4. Loaded = g
    BY DEF Loaded, a
  <1> HIDE DEF g
  <1>5. Len(g) \in Nat /\ \A i \in 1..Len(g) : g[i] \in Texts
    <2>1. \A x \in Holds(a) : x \in Texts
      BY <1>1 DEF Holds
    <2>2. DOMAIN g = 1..Len(g) /\ Len(g) \in Nat
      BY <1>3
    <2> QED
      BY <1>3, <2>1, <2>2 DEF Holds
  <1>6. g \in Seq(Texts)
    BY <1>3, <1>5
  <1>7. g # <<>> => g[Len(g)] \in Texts
    BY <1>3, <1>5
  <1> QED
    BY <1>3, <1>4, <1>6, <1>7, TextsOK DEF Histories, Slots

-----------------------------------------------------------------------------
(* The invariant.                                                          *)

Stages == {"off", "crashed", "prompt", "ran", "saving", "clean", "clean saving",
           "clean saved", "clean writing", "clean written", "remove"}
Removals == {{}} \cup {{r} : r \in [text : Lines, count : Nat]}

Rest ==
    /\ shared \in [Shells -> BOOLEAN] /\ line \in [Shells -> Texts]
    /\ removing \in [Shells -> Removals] /\ file \in Texts

Types ==
    /\ pc \in [Shells -> Stages] /\ history \in [Shells -> Histories]
    /\ words \in [Shells -> Tries] /\ unlisted = [s \in Shells |-> unlisted[s]]
    /\ Rest

\* All that a history holds is in the trie, or is known not to be, or is too long for it.
Listed(h, w, u) ==
    \A t \in Holds(h) \ (u \cup {<<>>, NoKey}) : Fits(t) => Printable(t) \in DOMAIN w

\* Of one shell, at p with the history h, the trie w and what is not in it u: NULL is the
\* newest entry only until main has seen it, and is never written.
ShellOK(p, h, w, u) ==
    /\ p \in {"off", "crashed"} => h = <<>>
    /\ p \in {"clean saved", "clean writing"} => NoKey \notin Holds(h)
    /\ p = "prompt" /\ h # <<>> => h[Len(h)] # NoKey
    /\ Listed(h, w, u)

Inv == Types /\ \A s \in Shells : ShellOK(pc[s], history[s], words[s], unlisted[s])

Becomes(s, p, h, w, u) ==
    /\ pc' = [pc EXCEPT ![s] = p] /\ history' = [history EXCEPT ![s] = h]
    /\ words' = [words EXCEPT ![s] = w] /\ unlisted' = [unlisted EXCEPT ![s] = u]

\* A step of one shell is its own matter, but for the file.
LEMMA Frame ==
    ASSUME Inv, NEW s \in Shells, NEW p \in Stages, NEW h \in Histories, NEW w \in Tries, NEW u,
           Becomes(s, p, h, w, u), Rest', ShellOK(p, h, w, u)
    PROVE  Inv'
  <1>1. /\ pc \in [Shells -> Stages] /\ history \in [Shells -> Histories]
        /\ words \in [Shells -> Tries] /\ unlisted = [o \in Shells |-> unlisted[o]]
    BY DEF Inv, Types
  <1>2. /\ pc' = [pc EXCEPT ![s] = p] /\ history' = [history EXCEPT ![s] = h]
        /\ words' = [words EXCEPT ![s] = w] /\ unlisted' = [unlisted EXCEPT ![s] = u]
    BY DEF Becomes
  <1>3. pc' \in [Shells -> Stages] /\ history' \in [Shells -> Histories] /\ words' \in [Shells -> Tries]
    BY <1>1, <1>2
  <1>4. unlisted' = [o \in Shells |-> unlisted'[o]]
    BY <1>1, <1>2
  <1>5. ASSUME NEW o \in Shells
        PROVE  ShellOK(pc'[o], history'[o], words'[o], unlisted'[o])
    <2>1. CASE o = s
      <3>1. pc'[o] = p /\ history'[o] = h /\ words'[o] = w /\ unlisted'[o] = u
        BY <1>1, <1>2, <2>1
      <3> QED
        BY <3>1
    <2>2. CASE o # s
      <3>1. /\ pc'[o] = pc[o] /\ history'[o] = history[o] /\ words'[o] = words[o]
            /\ unlisted'[o] = unlisted[o]
        BY <1>1, <1>2, <2>2
      <3> QED
        BY <3>1 DEF Inv
    <2> QED
      BY <2>1, <2>2
  <1> QED
    BY <1>3, <1>4, <1>5 DEF Inv, Types

LEMMA Now ==
    ASSUME Inv, NEW s \in Shells
    PROVE  /\ pc[s] \in Stages /\ history[s] \in Histories /\ words[s] \in Tries
           /\ line[s] \in Texts /\ removing[s] \in Removals /\ file \in Texts
           /\ ShellOK(pc[s], history[s], words[s], unlisted[s])
           /\ Rest
           /\ pc = [pc EXCEPT ![s] = pc[s]] /\ history = [history EXCEPT ![s] = history[s]]
           /\ words = [words EXCEPT ![s] = words[s]]
           /\ unlisted = [unlisted EXCEPT ![s] = unlisted[s]]
  <1>1. /\ pc \in [Shells -> Stages] /\ history \in [Shells -> Histories]
        /\ words \in [Shells -> Tries] /\ unlisted = [o \in Shells |-> unlisted[o]] /\ Rest
    BY DEF Inv, Types
  <1>2. pc[s] \in Stages /\ history[s] \in Histories /\ words[s] \in Tries
    BY <1>1
  <1>3. line[s] \in Texts /\ removing[s] \in Removals /\ file \in Texts
    BY <1>1 DEF Rest
  <1>4. ShellOK(pc[s], history[s], words[s], unlisted[s])
    BY DEF Inv
  <1>5. pc = [pc EXCEPT ![s] = pc[s]] /\ history = [history EXCEPT ![s] = history[s]]
    BY <1>1
  <1>6. words = [words EXCEPT ![s] = words[s]] /\ unlisted = [unlisted EXCEPT ![s] = unlisted[s]]
    BY <1>1
  <1> QED
    BY <1>1, <1>2, <1>3, <1>4, <1>5, <1>6

\* What joins a history and what leaves it, for the trie.
LEMMA StaysListed ==
    ASSUME NEW h, NEW g, NEW w, NEW v, NEW u, NEW x, Listed(h, w, u),
           Holds(g) \subseteq Holds(h) \cup x, DOMAIN w \subseteq DOMAIN v,
           \A t \in x \ (u \cup {<<>>, NoKey}) : Fits(t) => Printable(t) \in DOMAIN v
    PROVE  Listed(g, v, u)
  BY DEF Listed

-----------------------------------------------------------------------------
(* Each action preserves it.                                               *)

LEMMA GoneOK ==
    ASSUME Inv, NEW s \in Shells, NEW to \in {"off", "crashed"}, Gone(s, to), file' \in Texts
    PROVE  Inv'
  <1>1. Becomes(s, to, <<>>, <<>>, {})
    BY DEF Gone, Becomes
  <1>2. Rest'
    <2>1. shared \in [Shells -> BOOLEAN] /\ line \in [Shells -> Texts] /\ removing \in [Shells -> Removals]
      BY Now DEF Rest
    <2>2. <<>> \in Texts /\ {} \in Removals
      BY TextsOK DEF Removals
    <2> QED
      BY <2>1, <2>2 DEF Gone, Rest
  <1>3. ShellOK(to, <<>>, <<>>, {})
    BY EmptyOK DEF ShellOK, Listed
  <1>4. to \in Stages
    BY DEF Stages
  <1> QED
    BY <1>1, <1>2, <1>3, <1>4, EmptyOK, Frame

\* The history becomes g, whose entries are those of the history and of x.
LEMMA HistoryChanges ==
    ASSUME Inv, NEW s \in Shells, NEW p \in Stages, NEW g \in Histories, NEW x,
           p \notin {"off", "crashed", "prompt", "clean saved", "clean writing"},
           pc' = [pc EXCEPT ![s] = p], history' = [history EXCEPT ![s] = g],
           Holds(g) \subseteq Holds(history[s]) \cup x, x \subseteq {<<>>, NoKey},
           words' = words, unlisted' = unlisted, Rest'
    PROVE  Inv'
  <1>1. Becomes(s, p, g, words[s], unlisted[s])
    BY Now DEF Becomes
  <1>2. Listed(g, words[s], unlisted[s])
    <2>1. Listed(history[s], words[s], unlisted[s])
      BY Now DEF ShellOK
    <2>2. \A t \in x \ (unlisted[s] \cup {<<>>, NoKey}) : Fits(t) => Printable(t) \in DOMAIN words[s]
      OBVIOUS
    <2> QED
      BY <2>1, <2>2, StaysListed
  <1>3. ShellOK(p, g, words[s], unlisted[s])
    BY <1>2 DEF ShellOK
  <1>4. words[s] \in Tries
    BY Now
  <1> QED
    BY <1>1, <1>3, <1>4, Frame

\* The shell goes on to p with the history it has.
LEMMA MemoryStays ==
    ASSUME Inv, NEW s \in Shells, NEW p \in Stages, p \notin {"off", "crashed", "prompt"},
           pc' = [pc EXCEPT ![s] = p], NoMemoryChanges, file' \in Texts,
           p \in {"clean saved", "clean writing"} => NoKey \notin Holds(history[s])
    PROVE  Inv'
  <1>1. Becomes(s, p, history[s], words[s], unlisted[s])
    BY Now DEF Becomes, NoMemoryChanges
  <1>2. Rest'
    <2>1. Rest
      BY Now
    <2> QED
      BY <2>1 DEF Rest, NoMemoryChanges
  <1>3. Listed(history[s], words[s], unlisted[s])
    BY Now DEF ShellOK
  <1>4. ShellOK(p, history[s], words[s], unlisted[s])
    BY <1>3 DEF ShellOK
  <1>5. history[s] \in Histories /\ words[s] \in Tries
    BY Now
  <1> QED
    BY <1>1, <1>2, <1>4, <1>5, Frame

\* What is loaded is listed.
LEMMA LoadOK ==
    ASSUME Inv, NEW s \in Shells, HistoryLoad(s), NEW p \in Stages,
           p \notin {"off", "crashed", "clean saved", "clean writing"},
           p = "prompt" => history[s] = <<>>,
           pc' = [pc EXCEPT ![s] = p], unlisted' = unlisted, Rest'
    PROVE  Inv'
  <1>1. CASE file = <<>>
    <2>1. Becomes(s, p, history[s], words[s], unlisted[s])
      BY <1>1, Now DEF Becomes, HistoryLoad
    <2>2. Listed(history[s], words[s], unlisted[s])
      BY Now DEF ShellOK
    <2>3. ShellOK(p, history[s], words[s], unlisted[s])
      BY <2>2 DEF ShellOK
    <2>4. history[s] \in Histories /\ words[s] \in Tries
      BY Now
    <2> QED
      BY <2>1, <2>3, <2>4, Frame
  <1>2. CASE file # <<>>
    <2> DEFINE h == Loaded
               w == AcAddAll(words[s], h)
    <2>1. h \in Seq(Texts) /\ h \in Histories /\ (h # <<>> => h[Len(h)] # NoKey)
      BY Now, LoadedOK
    <2>2. words[s] \in Tries
      BY Now
    <2>3. history' = [history EXCEPT ![s] = h] /\ words' = [words EXCEPT ![s] = w]
      BY <1>2 DEF HistoryLoad
    <2> HIDE DEF h
    <2>4. w \in Tries /\ \A i \in 1..Len(h) : Fits(h[i]) => Printable(h[i]) \in DOMAIN w
      BY <2>1, <2>2, AcAddAllOK
    <2> HIDE DEF w
    <2>5. \A t \in Holds(h) : Fits(t) => Printable(t) \in DOMAIN w
      <3>1. DOMAIN h = 1..Len(h)
        BY <2>1, LenProperties
      <3> QED
        BY <2>4, <3>1 DEF Holds
    <2>6. Listed(h, w, unlisted[s])
      BY <2>5 DEF Listed
    <2>7. ShellOK(p, h, w, unlisted[s])
      BY <2>1, <2>6 DEF ShellOK
    <2>8. Becomes(s, p, h, w, unlisted[s])
      BY <2>3, Now DEF Becomes
    <2> QED
      BY <2>1, <2>4, <2>7, <2>8, Frame
  <1> QED
    BY <1>1, <1>2

\* A new session; a command that finds the history as it was.
LEMMA StartPreserves ==
    ASSUME Inv, NEW s \in Shells, Start(s)
    PROVE  Inv'
  <1>1. history[s] = <<>>
    BY Now DEF Start, ShellOK
  <1>2. Rest'
    BY Now DEF Start, Rest
  <1>3. "prompt" \in Stages
    BY DEF Stages
  <1> QED
    BY <1>1, <1>2, <1>3, LoadOK DEF Start, ghosts

LEMMA EnterOK ==
    ASSUME Inv, NEW s \in Shells, NEW t \in Texts, NEW next \in {"ran", "clean"}, Enter(s, t, next),
           shared' = shared, removing' \in [Shells -> Removals], file' = file
    PROVE  pc' = [pc EXCEPT ![s] = next] /\ next \in Stages /\ Rest'
  <1>1. Rest
    BY Now
  <1> QED
    BY <1>1 DEF Enter, Rest, Stages

LEMMA CommandPreserves ==
    ASSUME Inv, NEW s \in Shells, Command(s)
    PROVE  Inv'
  <1>1. PICK t \in Lines : Enter(s, t, "ran")
    BY DEF Command
  <1>2. t \in Texts /\ removing \in [Shells -> Removals]
    BY TextsOK, Now DEF Rest
  <1>3. shared' = shared /\ removing' = removing /\ words' = words /\ file' = file /\ unlisted' = unlisted
        /\ history' = [history EXCEPT ![s] = Prompted(history[s])]
    BY DEF Command, ghosts
  <1>4. pc' = [pc EXCEPT ![s] = "ran"] /\ "ran" \in Stages /\ Rest'
    BY <1>1, <1>2, <1>3, EnterOK
  <1>5. history[s] \in Histories
    BY Now
  <1>6. Prompted(history[s]) \in Histories /\ Holds(Prompted(history[s])) \subseteq Holds(history[s]) \cup {<<>>}
    BY <1>5, PromptedOK
  <1> QED
    BY <1>3, <1>4, <1>6, HistoryChanges

\* "history add": what it adds is not in the trie, and known not to be.
LEMMA AddCommandPreserves ==
    ASSUME Inv, NEW s \in Shells, AddCommand(s)
    PROVE  Inv'
  <1> DEFINE h == Prompted(history[s])
  <1>1. PICK t \in Lines : /\ history' = [history EXCEPT ![s] = Added(h, t)]
                           /\ unlisted' = [unlisted EXCEPT ![s] = unlisted[s] \cup {t}]
    BY DEF AddCommand
  <1>2. AddLine \in Texts /\ t \in Texts /\ removing \in [Shells -> Removals]
    BY TextsOK, Now DEF Rest
  <1>3. pc' = [pc EXCEPT ![s] = "ran"] /\ "ran" \in Stages /\ Rest'
    BY <1>2, EnterOK DEF AddCommand
  <1>4. history[s] \in Histories /\ words[s] \in Tries /\ Listed(history[s], words[s], unlisted[s])
    BY Now DEF ShellOK
  <1>5. h \in Histories /\ Holds(h) \subseteq Holds(history[s]) \cup {<<>>}
    BY <1>4, PromptedOK
  <1> HIDE DEF h
  <1> DEFINE g == Added(h, t)
             u == unlisted[s] \cup {t}
  <1>6. g \in Histories /\ Holds(g) \subseteq Holds(h) \cup {t}
    BY <1>2, <1>5, AddedOK
  <1>7. Becomes(s, "ran", g, words[s], u)
    <2>1. words' = words
      BY DEF AddCommand
    <2> QED
      BY <1>1, <1>3, <2>1, Now DEF Becomes
  <1> HIDE DEF g
  <1>8. Listed(g, words[s], u)
    BY <1>4, <1>5, <1>6 DEF Listed
  <1>9. ShellOK("ran", g, words[s], u)
    BY <1>8 DEF ShellOK
  <1> HIDE DEF u
  <1> QED
    BY <1>3, <1>4, <1>6, <1>7, <1>9, Frame

LEMMA CleaningPreserves ==
    ASSUME Inv, NEW s \in Shells, NEW t \in {CleanLine, RemoveLine}, NEW what \in Removals,
           Cleaning(s, t, what)
    PROVE  Inv'
  <1> DEFINE h == Prompted(history[s])
             next == IF h = <<>> THEN "ran" ELSE "clean"
  <1>1. t \in Texts /\ removing \in [Shells -> Removals] /\ next \in {"ran", "clean"}
    BY TextsOK, Now DEF Rest
  <1>2. /\ Enter(s, t, next) /\ history' = [history EXCEPT ![s] = h]
        /\ removing' = [removing EXCEPT ![s] = what] /\ shared' = shared /\ words' = words
        /\ file' = file /\ unlisted' = unlisted
    BY DEF Cleaning, ghosts
  <1> HIDE DEF next
  <1>3. removing' \in [Shells -> Removals]
    BY <1>1, <1>2
  <1>4. pc' = [pc EXCEPT ![s] = next] /\ next \in Stages /\ Rest'
    BY <1>1, <1>2, <1>3, EnterOK
  <1>5. h \in Histories /\ Holds(h) \subseteq Holds(history[s]) \cup {<<>>}
    BY Now, PromptedOK
  <1> HIDE DEF h
  <1>6. next \notin {"off", "crashed", "prompt", "clean saved", "clean writing"}
    BY <1>1
  <1> QED
    BY <1>2, <1>4, <1>5, <1>6, HistoryChanges

\* The session goes on with the command in its history and in the trie, unless NULL is its
\* newest entry.
LEMMA RanPreserves ==
    ASSUME Inv, NEW s \in Shells, Ran(s)
    PROVE  Inv'
  <1> DEFINE crash == history[s] # <<>> /\ history[s][Len(history[s])] = NoKey
  <1>1. file' = file /\ file \in Texts
    BY Now DEF Ran
  <1>2. CASE crash
    BY <1>1, <1>2, GoneOK DEF Ran
  <1>3. CASE ~crash
    <2> DEFINE t == line[s]
               g == Added(history[s], t)
               w == AcAdd(words[s], t)
    <2>1. /\ pc' = [pc EXCEPT ![s] = "prompt"] /\ history' = [history EXCEPT ![s] = g]
          /\ words' = [words EXCEPT ![s] = w] /\ line' = [line EXCEPT ![s] = <<>>]
          /\ removing' = [removing EXCEPT ![s] = {}] /\ shared' = shared /\ unlisted' = unlisted
      BY <1>3 DEF Ran
    <2>2. /\ t \in Texts /\ history[s] \in Histories /\ words[s] \in Tries
          /\ Listed(history[s], words[s], unlisted[s])
      BY Now DEF ShellOK
    <2> HIDE DEF t
    <2>3. g \in Histories /\ g[Len(g)] = t /\ Holds(g) \subseteq Holds(history[s]) \cup {t}
      BY <2>2, AddedOK
    <2>4. w \in Tries /\ DOMAIN w = DOMAIN words[s] \cup (IF Fits(t) THEN {Printable(t)} ELSE {})
      BY <2>2, AcAddOK
    <2>5. Rest'
      <3>1. <<>> \in Texts /\ {} \in Removals
        BY TextsOK DEF Removals
      <3>2. line' \in [Shells -> Texts] /\ removing' \in [Shells -> Removals]
        BY <2>1, <3>1, Now DEF Rest
      <3> QED
        BY <1>1, <2>1, <3>2, Now DEF Rest
    <2> HIDE DEF g, w
    <2>6. Listed(g, w, unlisted[s])
      BY <2>2, <2>3, <2>4 DEF Listed
    <2>7. t # NoKey
      BY <2>2, TextsOK
    <2>8. ShellOK("prompt", g, w, unlisted[s])
      BY <2>3, <2>6, <2>7 DEF ShellOK
    <2>9. Becomes(s, "prompt", g, w, unlisted[s])
      BY <2>1, Now DEF Becomes
    <2>10. "prompt" \in Stages
      BY DEF Stages
    <2> QED
      BY <2>3, <2>4, <2>5, <2>8, <2>9, <2>10, Frame
  <1> QED
    BY <1>2, <1>3

LEMMA ExitPreserves ==
    ASSUME Inv, NEW s \in Shells, Exit(s)
    PROVE  Inv'
  <1>1. history[s] \in Histories /\ Rest
    BY Now
  <1>2. Prompted(history[s]) \in Histories /\ Holds(Prompted(history[s])) \subseteq Holds(history[s]) \cup {<<>>}
    BY <1>1, PromptedOK
  <1>3. /\ pc' = [pc EXCEPT ![s] = "saving"] /\ history' = [history EXCEPT ![s] = Prompted(history[s])]
        /\ words' = words /\ unlisted' = unlisted
    BY DEF Exit
  <1>4. Rest'
    BY <1>1, TextsOK DEF Exit, Truncate, Rest
  <1>5. "saving" \in Stages
    BY DEF Stages
  <1> QED
    BY <1>2, <1>3, <1>4, <1>5, HistoryChanges

\* A history without NULL is texts, and what it spells can be written.
LEMMA WrittenOK ==
    ASSUME Inv, NEW s \in Shells, NoKey \notin Holds(history[s])
    PROVE  /\ Overwritten(file, Spelled(history[s])) \in Texts
           /\ Overwritten(file, Spelled(Unique(history[s]))) \in Texts
  <1> DEFINE h == history[s]
  <1>1. h \in Seq(Slots) /\ NoKey \notin Holds(h)
    BY Now DEF Histories, Slots
  <1> HIDE DEF h
  <1>2. DOMAIN h = 1..Len(h) /\ Len(h) \in Nat
    BY <1>1
  <1>3. ASSUME NEW i \in 1..Len(h) PROVE h[i] \in Texts
    <2>1. h[i] \in Slots
      BY <1>1
    <2>2. h[i] \in Holds(h)
      BY <1>2 DEF Holds
    <2> QED
      BY <1>1, <2>1, <2>2 DEF Slots
  <1>4. h \in Seq(Texts)
    BY <1>1, <1>3
  <1>5. Spelled(h) \in Texts /\ Unique(h) \in Seq(Texts)
    BY <1>4, SpelledOK, UniqueOK
  <1>6. Spelled(Unique(h)) \in Texts /\ file \in Texts
    BY <1>5, SpelledOK, Now
  <1> QED
    BY <1>5, <1>6, OverwrittenOK DEF h

LEMMA SavedPreserves ==
    ASSUME Inv, NEW s \in Shells, Saved(s)
    PROVE  Inv'
  <1>1. CASE NoKey \in Holds(history[s])
    <2>1. Gone(s, "crashed") /\ file' \in Texts
      BY <1>1, Now DEF Saved
    <2> QED
      BY <2>1, GoneOK
  <1>2. CASE NoKey \notin Holds(history[s])
    <2>1. Gone(s, "off") /\ file' \in Texts
      BY <1>2, WrittenOK DEF Saved, Write
    <2> QED
      BY <2>1, GoneOK
  <1> QED
    BY <1>1, <1>2

LEMMA KillPreserves ==
    ASSUME Inv, NEW s \in Shells, Kill(s)
    PROVE  Inv'
  BY Now, GoneOK DEF Kill

LEMMA CleanSavesPreserves ==
    ASSUME Inv, NEW s \in Shells, CleanSaves(s)
    PROVE  Inv'
  <1>1. pc' = [pc EXCEPT ![s] = "clean saving"] /\ file' \in Texts /\ "clean saving" \in Stages
    BY TextsOK DEF CleanSaves, Then, Truncate, Stages
  <1> QED
    BY <1>1, MemoryStays DEF CleanSaves

LEMMA CleanSavedPreserves ==
    ASSUME Inv, NEW s \in Shells, CleanSaved(s)
    PROVE  Inv'
  <1>1. CASE NoKey \in Holds(history[s])
    <2>1. Gone(s, "crashed") /\ file' \in Texts
      BY <1>1, Now DEF CleanSaved
    <2> QED
      BY <2>1, GoneOK
  <1>2. CASE NoKey \notin Holds(history[s])
    <2>1. /\ pc' = [pc EXCEPT ![s] = "clean saved"] /\ file' \in Texts /\ "clean saved" \in Stages
          /\ NoMemoryChanges
      BY <1>2, WrittenOK DEF CleanSaved, Then, Write, Stages
    <2> QED
      BY <1>2, <2>1, MemoryStays
  <1> QED
    BY <1>1, <1>2

LEMMA CleanOpensPreserves ==
    ASSUME Inv, NEW s \in Shells, CleanOpens(s)
    PROVE  Inv'
  <1>1. /\ pc' = [pc EXCEPT ![s] = "clean writing"] /\ file' \in Texts /\ "clean writing" \in Stages
        /\ pc[s] = "clean saved" /\ NoMemoryChanges
    BY TextsOK DEF CleanOpens, Then, Truncate, Stages
  <1>2. NoKey \notin Holds(history[s])
    BY <1>1, Now DEF ShellOK
  <1> QED
    BY <1>1, <1>2, MemoryStays

LEMMA CleanWritesPreserves ==
    ASSUME Inv, NEW s \in Shells, CleanWrites(s)
    PROVE  Inv'
  <1>1. NoKey \notin Holds(history[s])
    BY Now DEF CleanWrites, Then, ShellOK
  <1>2. pc' = [pc EXCEPT ![s] = "clean written"] /\ file' \in Texts /\ "clean written" \in Stages
        /\ NoMemoryChanges
    BY <1>1, WrittenOK DEF CleanWrites, Then, Write, Stages
  <1> QED
    BY <1>1, <1>2, MemoryStays

LEMMA CleanedPreserves ==
    ASSUME Inv, NEW s \in Shells, Cleaned(s)
    PROVE  Inv'
  <1>1. file' = file /\ file \in Texts
    BY Now DEF Cleaned
  <1>2. CASE shared[s] /\ file # <<>>
    BY <1>1, <1>2, GoneOK DEF Cleaned
  <1>3. CASE ~(shared[s] /\ file # <<>>)
    <2> DEFINE p == IF removing[s] = {} THEN "ran" ELSE "remove"
    <2>1. /\ pc' = [pc EXCEPT ![s] = p] /\ HistoryLoad(s) /\ unlisted' = unlisted
          /\ shared' = shared /\ line' = line /\ removing' = removing
      BY <1>3 DEF Cleaned
    <2>2. p \in {"ran", "remove"}
      OBVIOUS
    <2> HIDE DEF p
    <2>3. p \in Stages /\ p \notin {"off", "crashed", "clean saved", "clean writing", "prompt"}
      BY <2>2 DEF Stages
    <2>4. Rest'
      BY <1>1, <2>1, Now DEF Rest
    <2> QED
      BY <2>1, <2>3, <2>4, LoadOK
  <1> QED
    BY <1>2, <1>3

LEMMA RemovePreserves ==
    ASSUME Inv, NEW s \in Shells, Remove(s)
    PROVE  Inv'
  <1> DEFINE h == history[s]
             at(r) == {i \in DOMAIN h : h[i] = r.text}
             first(r) == CHOOSE k \in at(r) : \A o \in at(r) : k <= o
  <1>1. PICK r \in removing[s] :
            IF at(r) = {} THEN UNCHANGED <<history, shared>>
            ELSE /\ history' = [history EXCEPT ![s] = Removed(h, first(r), r.count)]
                 /\ shared' = [shared EXCEPT ![s] = @ \/ (first(r) < r.count /\ first(r) + 1 < Len(h))]
    BY DEF Remove
  <1>2. r.count \in Nat
    BY Now DEF Removals
  <1>3. /\ pc' = [pc EXCEPT ![s] = "ran"] /\ "ran" \in Stages
        /\ line' = line /\ removing' = removing /\ words' = words /\ file' = file /\ unlisted' = unlisted
    BY DEF Remove, Then, Stages, ghosts
  <1>4. h \in Histories /\ h \in Seq(Slots) /\ Rest
    BY Now DEF Histories, Slots
  <1>5. CASE at(r) = {}
    <2>1. history' = [history EXCEPT ![s] = h] /\ shared' = shared
      BY <1>1, <1>5, Now
    <2>2. Rest'
      BY <1>3, <1>4, <2>1 DEF Rest
    <2>3. Holds(h) \subseteq Holds(history[s]) \cup {}
      OBVIOUS
    <2> QED
      BY <1>3, <1>4, <2>1, <2>2, <2>3, HistoryChanges
  <1>6. CASE at(r) # {}
    <2> DEFINE i == first(r)
               both == shared[s] \/ (i < r.count /\ i + 1 < Len(h))
               g == Removed(h, i, r.count)
    <2>1. history' = [history EXCEPT ![s] = g] /\ shared' = [shared EXCEPT ![s] = both]
      BY <1>1, <1>6
    <2>2. i \in 1..Len(h)
      <3> DEFINE T == at(r)
      <3>1. DOMAIN h = 1..Len(h) /\ Len(h) \in Nat
        BY <1>4, LenProperties
      <3>2. T \in SUBSET Nat /\ T \subseteq 1..Len(h)
        BY <3>1
      <3>3. T # {}
        BY <1>6
      <3> HIDE DEF T
      <3>4. \E m \in T : \A k \in T : m <= k
        BY <3>2, <3>3, Least
      <3>5. i = CHOOSE k \in T : \A o \in T : k <= o
        BY DEF T
      <3> HIDE DEF i
      <3> QED
        BY <3>2, <3>4, <3>5
    <2> HIDE DEF i
    <2>3. g \in Histories /\ Holds(g) \subseteq Holds(h) \cup {NoKey}
      BY <1>2, <1>4, <2>2, RemovedOK
    <2> HIDE DEF g
    <2>4. both \in BOOLEAN
      OBVIOUS
    <2> HIDE DEF both
    <2>5. shared' \in [Shells -> BOOLEAN]
      BY <1>4, <2>1, <2>4 DEF Rest
    <2>6. Rest'
      BY <1>3, <1>4, <2>5 DEF Rest
    <2> QED
      BY <1>3, <2>1, <2>3, <2>6, HistoryChanges
  <1> QED
    BY <1>5, <1>6

-----------------------------------------------------------------------------
(* The theorems.                                                           *)

LEMMA InitOK == Init => Inv
  <1> SUFFICES ASSUME Init PROVE Inv
    OBVIOUS
  <1> USE DEF Init
  <1>1. /\ pc \in [Shells -> Stages] /\ history \in [Shells -> Histories]
        /\ words \in [Shells -> Tries] /\ unlisted = [s \in Shells |-> unlisted[s]]
    BY EmptyOK DEF Stages
  <1>2. Rest
    BY TextsOK DEF Rest, Removals
  <1>3. ASSUME NEW s \in Shells PROVE ShellOK(pc[s], history[s], words[s], unlisted[s])
    <2>1. pc[s] = "off" /\ history[s] = <<>>
      OBVIOUS
    <2> QED
      BY <2>1, EmptyOK DEF ShellOK, Listed
  <1> QED
    BY <1>1, <1>2, <1>3 DEF Inv, Types

LEMMA StepOK == Inv /\ [Next]_vars => Inv'
  <1> SUFFICES ASSUME Inv, [Next]_vars PROVE Inv'
    OBVIOUS
  <1>1. CASE UNCHANGED vars
    BY <1>1 DEF vars, shell, ghosts, Inv, Types, Rest, ShellOK, Listed
  <1>2. ASSUME NEW s \in Shells, CleanCommand(s) \/ RemoveCommand(s)
        PROVE  Inv'
    <2>1. CASE CleanCommand(s)
      BY <2>1, CleaningPreserves DEF CleanCommand, Removals
    <2>2. CASE RemoveCommand(s)
      <3> DEFINE n == Len(Prompted(history[s]))
      <3>1. n \in Nat
        BY Now, PromptedOK DEF Histories
      <3> HIDE DEF n
      <3>2. PICK t \in Lines : Cleaning(s, RemoveLine, {[text |-> t, count |-> n]})
        BY <2>2 DEF RemoveCommand, n
      <3>3. {[text |-> t, count |-> n]} \in Removals
        BY <3>1 DEF Removals
      <3> QED
        BY <3>2, <3>3, CleaningPreserves
    <2> QED
      BY <1>2, <2>1, <2>2
  <1>3. CASE Next
    <2>1. PICK s \in Shells :
            \/ Start(s) \/ Command(s) \/ AddCommand(s) \/ CleanCommand(s) \/ RemoveCommand(s)
            \/ Ran(s) \/ Exit(s) \/ Saved(s) \/ Kill(s)
            \/ CleanSaves(s) \/ CleanSaved(s) \/ CleanOpens(s) \/ CleanWrites(s) \/ Cleaned(s)
            \/ Remove(s)
      BY <1>3 DEF Next
    <2>2. CASE Start(s) \/ Command(s) \/ AddCommand(s) \/ CleanCommand(s) \/ RemoveCommand(s)
      BY <1>2, <2>2, StartPreserves, CommandPreserves, AddCommandPreserves
    <2>3. CASE Ran(s) \/ Exit(s) \/ Saved(s) \/ Kill(s)
      BY <2>3, RanPreserves, ExitPreserves, SavedPreserves, KillPreserves
    <2>4. CASE CleanSaves(s) \/ CleanSaved(s) \/ CleanOpens(s) \/ CleanWrites(s) \/ Cleaned(s)
      BY <2>4, CleanSavesPreserves, CleanSavedPreserves, CleanOpensPreserves,
         CleanWritesPreserves, CleanedPreserves
    <2>5. CASE Remove(s)
      BY <2>5, RemovePreserves
    <2> QED
      BY <2>1, <2>2, <2>3, <2>4, <2>5
  <1> QED
    BY <1>1, <1>3

\* Every history is texts and NULLs and within its array; a NULL is the newest entry of no
\* shell at its prompt, and in no history that a clean writes; what is in a history is in
\* the trie of its shell, at every point of every command, or was put there by "history
\* add", or is longer than ac_add takes (main.c, bestline.c, ac.c).
THEOREM Invariance == Spec => []Inv
  BY InitOK, StepOK, PTL DEF Spec

\* The types of History: the history within its array, an entry at the prompt that is not
\* NULL, weights that are positive.
THEOREM TypesHold == Spec => []TypeOK
  <1>1. Inv => TypeOK
    <2> SUFFICES ASSUME Inv, NEW s \in Shells
                 PROVE  /\ pc[s] \in Stages /\ Len(history[s]) <= MaxHistory
                        /\ pc[s] = "prompt" /\ history[s] # <<>> => history[s][Len(history[s])] # NoKey
                        /\ shared[s] \in BOOLEAN /\ Cardinality(removing[s]) <= 1
                        /\ \A t \in DOMAIN words[s] : words[s][t] \in Nat \ {0}
      BY DEF TypeOK, Stages
    <2>1. pc[s] \in Stages /\ Len(history[s]) <= MaxHistory
      BY Now DEF Histories
    <2>2. pc[s] = "prompt" /\ history[s] # <<>> => history[s][Len(history[s])] # NoKey
      BY Now DEF ShellOK
    <2>3. shared[s] \in BOOLEAN
      BY Now DEF Rest
    <2>4. Cardinality(removing[s]) <= 1
      <3>1. removing[s] = {} \/ \E r : removing[s] = {r}
        BY Now DEF Removals
      <3>2. CASE removing[s] = {}
        BY <3>2, FS_EmptySet
      <3>3. CASE \E r : removing[s] = {r}
        <4>1. PICK r : removing[s] = {r}
          BY <3>3
        <4>2. Cardinality({r}) = 1
          BY FS_Singleton
        <4> QED
          BY <4>1, <4>2
      <3> QED
        BY <3>1, <3>2, <3>3
    <2>5. \A t \in DOMAIN words[s] : words[s][t] \in Nat \ {0}
      BY Now DEF Tries
    <2> QED
      BY <2>1, <2>2, <2>3, <2>4, <2>5
  <1> QED
    BY <1>1, Invariance, PTL

\* What a shell at its prompt has in its history can be completed, but for what "history
\* add" put there and for what is longer than ac_add takes (NCSH_MAX_INPUT), however many shells
\* load and overwrite the file in the meantime.
THEOREM EntriesAreCompleted == Spec => []HistoryIsCompleted
  <1>1. Inv => HistoryIsCompleted
    BY Now DEF HistoryIsCompleted, ShellOK, Listed
  <1> QED
    BY <1>1, Invariance, PTL

-----------------------------------------------------------------------------
(* What is in the file.                                                    *)

\* A file that is truncated stays empty, and one that is written stays as it is, as long
\* as no other shell has opened it.
Opened == {"saving", "clean saving", "clean writing"}

FileOf(s) ==
    /\ pc[s] \in Opened /\ writers \subseteq {s} => file = <<>>
    /\ pc[s] = "clean written" =>
          /\ NoKey \notin Holds(history[s])
          /\ writers \subseteq {s} => file = Spelled(Unique(history[s]))
    /\ pc[s] \in {"off", "crashed"} => words[s] = <<>>

SavedOK == \A h \in saved : h \in Seq(Texts) /\ Len(h) <= MaxHistory /\ file = Spelled(h)

FileInv == SavedOK /\ \A s \in Shells : FileOf(s)

\* What another shell has is as it was, unless the file was opened or written by this one.
LEMMA FrameFile ==
    ASSUME FileInv, NEW s \in Shells, FileOf(s)', SavedOK',
           \A o \in Shells \ {s} : pc'[o] = pc[o] /\ history'[o] = history[o] /\ words'[o] = words[o],
           (file' = file /\ writers' = writers) \/ s \in writers'
    PROVE  FileInv'
  <1>1. ASSUME NEW o \in Shells PROVE FileOf(o)'
    <2>1. CASE o = s
      BY <2>1
    <2>2. CASE o # s
      <3>1. pc'[o] = pc[o] /\ history'[o] = history[o] /\ words'[o] = words[o]
        BY <2>2
      <3>2. FileOf(o)
        BY DEF FileInv
      <3>3. CASE file' = file /\ writers' = writers
        BY <3>1, <3>2, <3>3 DEF FileOf
      <3>4. CASE s \in writers'
        <4>1. ~(writers' \subseteq {o})
          BY <2>2, <3>4
        <4> QED
          BY <3>1, <3>2, <4>1 DEF FileOf
      <3> QED
        BY <3>3, <3>4
    <2> QED
      BY <2>1, <2>2
  <1> QED
    BY <1>1 DEF FileInv

\* What a step of one shell is to the others.
LEMMA OthersStay ==
    ASSUME Inv, NEW s \in Shells,
           \E p : pc' = [pc EXCEPT ![s] = p],
           history' = history \/ \E h : history' = [history EXCEPT ![s] = h],
           words' = words \/ \E w : words' = [words EXCEPT ![s] = w]
    PROVE  \A o \in Shells \ {s} : pc'[o] = pc[o] /\ history'[o] = history[o] /\ words'[o] = words[o]
  <1>1. /\ pc \in [Shells -> Stages] /\ history \in [Shells -> Histories]
        /\ words \in [Shells -> Tries]
    BY DEF Inv, Types
  <1> SUFFICES ASSUME NEW o \in Shells, o # s
               PROVE  pc'[o] = pc[o] /\ history'[o] = history[o] /\ words'[o] = words[o]
    OBVIOUS
  <1>2. pc'[o] = pc[o]
    <2>1. PICK p : pc' = [pc EXCEPT ![s] = p]
      OBVIOUS
    <2> QED
      BY <1>1, <2>1
  <1>3. history'[o] = history[o]
    <2>1. CASE \E h : history' = [history EXCEPT ![s] = h]
      <3>1. PICK h : history' = [history EXCEPT ![s] = h]
        BY <2>1
      <3> QED
        BY <1>1, <3>1
    <2> QED
      BY <2>1
  <1>4. words'[o] = words[o]
    <2>1. CASE \E w : words' = [words EXCEPT ![s] = w]
      <3>1. PICK w : words' = [words EXCEPT ![s] = w]
        BY <2>1
      <3> QED
        BY <1>1, <3>1
    <2> QED
      BY <2>1
  <1> QED
    BY <1>2, <1>3, <1>4

\* A step that leaves the file alone, to where nothing is known of it.
LEMMA FileStays ==
    ASSUME Inv, FileInv, NEW s \in Shells, NEW p, p \notin Opened \cup {"clean written", "off", "crashed"},
           pc' = [pc EXCEPT ![s] = p],
           history' = history \/ \E h : history' = [history EXCEPT ![s] = h],
           words' = words \/ \E w : words' = [words EXCEPT ![s] = w],
           file' = file, writers' = writers, saved' = saved
    PROVE  FileInv'
  <1>1. pc'[s] = p
    BY DEF Inv, Types
  <1>2. FileOf(s)'
    BY <1>1 DEF FileOf
  <1>3. SavedOK'
    BY DEF FileInv, SavedOK
  <1> QED
    BY <1>2, <1>3, FrameFile, OthersStay

LEMMA GoneFile ==
    ASSUME Inv, FileInv, NEW s \in Shells, NEW to \in {"off", "crashed"}, Gone(s, to),
           (file' = file /\ writers' = writers) \/ s \in writers', SavedOK'
    PROVE  FileInv'
  <1>1. pc'[s] = to /\ words'[s] = <<>>
    BY DEF Inv, Types, Gone
  <1>2. FileOf(s)'
    BY <1>1 DEF FileOf, Opened
  <1>3. \A o \in Shells \ {s} : pc'[o] = pc[o] /\ history'[o] = history[o] /\ words'[o] = words[o]
    BY OthersStay DEF Gone
  <1> QED
    BY <1>2, <1>3, FrameFile

LEMMA TruncateFile ==
    ASSUME Inv, FileInv, NEW s \in Shells, NEW p \in Opened, Truncate(s), pc' = [pc EXCEPT ![s] = p],
           history' = history \/ \E h : history' = [history EXCEPT ![s] = h], words' = words
    PROVE  FileInv'
  <1>1. pc'[s] = p /\ p \notin {"clean written", "off", "crashed"}
    BY DEF Inv, Types, Opened
  <1>2. file' = <<>> /\ writers' = {s} /\ saved' = {}
    BY DEF Truncate
  <1>3. FileOf(s)' /\ SavedOK'
    BY <1>1, <1>2 DEF FileOf, SavedOK
  <1>4. \A o \in Shells \ {s} : pc'[o] = pc[o] /\ history'[o] = history[o] /\ words'[o] = words[o]
    BY OthersStay
  <1> QED
    BY <1>2, <1>3, <1>4, FrameFile

LEMMA OverwrittenEmpty ==
    ASSUME NEW t \in Texts
    PROVE  Overwritten(<<>>, t) = t
  <1>1. t \in Seq(Letters) /\ Len(t) + 1 \in Int /\ Len(<<>>) = 0 /\ 0 < Len(t) + 1
    BY DEF Texts
  <1>2. SubSeq(<<>>, Len(t) + 1, 0) = <<>>
    BY <1>1, SubSeqEmpty
  <1>3. t \o <<>> = t
    BY <1>1, ConcatEmptySeq
  <1> QED
    BY <1>1, <1>2, <1>3 DEF Overwritten

\* A history without NULL is texts.
LEMMA NoNull ==
    ASSUME Inv, NEW s \in Shells, NoKey \notin Holds(history[s])
    PROVE  history[s] \in Seq(Texts) /\ Len(history[s]) <= MaxHistory
  <1> DEFINE h == history[s]
  <1>1. h \in Seq(Slots) /\ NoKey \notin Holds(h) /\ Len(h) <= MaxHistory
    BY Now DEF Histories, Slots
  <1> HIDE DEF h
  <1>2. DOMAIN h = 1..Len(h) /\ Len(h) \in Nat
    BY <1>1
  <1>3. ASSUME NEW i \in 1..Len(h) PROVE h[i] \in Texts
    <2>1. h[i] \in Slots
      BY <1>1
    <2>2. h[i] \in Holds(h)
      BY <1>2 DEF Holds
    <2> QED
      BY <1>1, <2>1, <2>2 DEF Slots
  <1>4. h \in Seq(Texts)
    BY <1>1, <1>3
  <1> QED
    BY <1>1, <1>4 DEF h

LEMMA SavedFile ==
    ASSUME Inv, FileInv, NEW s \in Shells, Saved(s)
    PROVE  FileInv'
  <1>1. CASE NoKey \in Holds(history[s])
    <2>1. Gone(s, "crashed") /\ file' = file /\ writers' = writers /\ saved' = saved
      BY <1>1 DEF Saved
    <2>2. SavedOK'
      BY <2>1 DEF FileInv, SavedOK
    <2> QED
      BY <2>1, <2>2, GoneFile
  <1>2. CASE NoKey \notin Holds(history[s])
    <2> DEFINE h == history[s]
    <2>1. /\ Gone(s, "off") /\ file' = Overwritten(file, Spelled(h)) /\ writers' = writers \cup {s}
          /\ saved' = IF writers = {s} THEN {h} ELSE {}
      BY <1>2 DEF Saved, Write
    <2>2. h \in Seq(Texts) /\ Len(h) <= MaxHistory
      BY <1>2, NoNull
    <2>3. SavedOK'
      <3>1. CASE writers = {s}
        <4>1. file = <<>>
          BY <3>1 DEF FileInv, FileOf, Saved, Opened
        <4>2. file' = Spelled(h)
          BY <2>1, <2>2, <4>1, SpelledOK, OverwrittenEmpty
        <4> QED
          BY <2>1, <2>2, <3>1, <4>2 DEF SavedOK
      <3>2. CASE writers # {s}
        BY <2>1, <3>2 DEF SavedOK
      <3> QED
        BY <3>1, <3>2
    <2> QED
      BY <2>1, <2>3, GoneFile
  <1> QED
    BY <1>1, <1>2

LEMMA CleanSavedFile ==
    ASSUME Inv, FileInv, NEW s \in Shells, CleanSaved(s)
    PROVE  FileInv'
  <1>1. CASE NoKey \in Holds(history[s])
    <2>1. Gone(s, "crashed") /\ file' = file /\ writers' = writers /\ saved' = saved
      BY <1>1 DEF CleanSaved
    <2>2. SavedOK'
      BY <2>1 DEF FileInv, SavedOK
    <2> QED
      BY <2>1, <2>2, GoneFile
  <1>2. CASE NoKey \notin Holds(history[s])
    <2>1. /\ pc' = [pc EXCEPT ![s] = "clean saved"] /\ writers' = writers \cup {s} /\ saved' = {}
          /\ history' = history /\ words' = words
      BY <1>2 DEF CleanSaved, Then, Write, NoMemoryChanges
    <2>2. pc'[s] = "clean saved"
      BY <2>1 DEF Inv, Types
    <2>3. FileOf(s)' /\ SavedOK'
      BY <2>1, <2>2 DEF FileOf, SavedOK, Opened
    <2>4. \A o \in Shells \ {s} : pc'[o] = pc[o] /\ history'[o] = history[o] /\ words'[o] = words[o]
      BY <2>1, OthersStay
    <2> QED
      BY <2>1, <2>3, <2>4, FrameFile
  <1> QED
    BY <1>1, <1>2

LEMMA CleanWritesFile ==
    ASSUME Inv, FileInv, NEW s \in Shells, CleanWrites(s)
    PROVE  FileInv'
  <1> DEFINE h == history[s]
             t == Spelled(Unique(h))
  <1>1. /\ pc[s] = "clean writing" /\ pc' = [pc EXCEPT ![s] = "clean written"]
        /\ file' = Overwritten(file, t) /\ writers' = writers \cup {s} /\ saved' = {}
        /\ history' = history /\ words' = words
    BY DEF CleanWrites, Then, Write, NoMemoryChanges
  <1>2. NoKey \notin Holds(h)
    BY <1>1, Now DEF ShellOK
  <1>3. h \in Seq(Texts)
    BY <1>2, NoNull
  <1>4. t \in Texts
    BY <1>3, UniqueOK, SpelledOK
  <1>5. pc'[s] = "clean written"
    BY <1>1 DEF Inv, Types
  <1>6. writers' \subseteq {s} => file' = t
    <2>1. SUFFICES ASSUME writers' \subseteq {s} PROVE file' = t
      OBVIOUS
    <2>2. file = <<>>
      BY <1>1, <2>1 DEF FileInv, FileOf, Opened
    <2> HIDE DEF t
    <2> QED
      BY <1>1, <1>4, <2>2, OverwrittenEmpty
  <1>7. FileOf(s)' /\ SavedOK'
    BY <1>1, <1>2, <1>5, <1>6 DEF FileOf, SavedOK, Opened
  <1>8. \A o \in Shells \ {s} : pc'[o] = pc[o] /\ history'[o] = history[o] /\ words'[o] = words[o]
    BY <1>1, OthersStay
  <1> QED
    BY <1>1, <1>7, <1>8, FrameFile

LEMMA CommandsFile ==
    ASSUME Inv, FileInv, NEW s \in Shells,
           Start(s) \/ Command(s) \/ AddCommand(s) \/ CleanCommand(s) \/ RemoveCommand(s)
    PROVE  FileInv'
  <1>1. CASE Start(s)
    <2>1. /\ pc' = [pc EXCEPT ![s] = "prompt"] /\ HistoryLoad(s)
          /\ file' = file /\ writers' = writers /\ saved' = saved
      BY <1>1 DEF Start, ghosts
    <2> QED
      BY <2>1, FileStays DEF HistoryLoad, Opened
  <1>2. CASE Command(s)
    <2>1. /\ pc' = [pc EXCEPT ![s] = "ran"] /\ history' = [history EXCEPT ![s] = Prompted(@)]
          /\ words' = words /\ file' = file /\ writers' = writers /\ saved' = saved
      BY <1>2 DEF Command, Enter, ghosts
    <2> QED
      BY <2>1, FileStays DEF Opened
  <1>3. CASE AddCommand(s)
    <2>1. PICK t \in Lines : history' = [history EXCEPT ![s] = Added(Prompted(@), t)]
      BY <1>3 DEF AddCommand
    <2>2. /\ pc' = [pc EXCEPT ![s] = "ran"]
          /\ words' = words /\ file' = file /\ writers' = writers /\ saved' = saved
      BY <1>3 DEF AddCommand, Enter
    <2> QED
      BY <2>1, <2>2, FileStays DEF Opened
  <1>4. ASSUME NEW t, NEW what, Cleaning(s, t, what) PROVE FileInv'
    <2> DEFINE p == IF Prompted(history[s]) = <<>> THEN "ran" ELSE "clean"
    <2>1. /\ pc' = [pc EXCEPT ![s] = p] /\ history' = [history EXCEPT ![s] = Prompted(@)]
          /\ words' = words /\ file' = file /\ writers' = writers /\ saved' = saved
      BY <1>4 DEF Cleaning, Enter, ghosts
    <2>2. p \notin Opened \cup {"clean written", "off", "crashed"}
      BY DEF Opened
    <2> HIDE DEF p
    <2> QED
      BY <2>1, <2>2, FileStays
  <1> QED
    BY <1>1, <1>2, <1>3, <1>4 DEF CleanCommand, RemoveCommand

LEMMA RanFile ==
    ASSUME Inv, FileInv, NEW s \in Shells, Ran(s) \/ Kill(s) \/ Remove(s) \/ Cleaned(s)
    PROVE  FileInv'
  <1>1. file' = file /\ writers' = writers /\ saved' = saved
    BY DEF Ran, Kill, Remove, Cleaned, ghosts
  <1>2. SavedOK'
    BY <1>1 DEF FileInv, SavedOK
  <1>3. CASE Gone(s, "off") \/ Gone(s, "crashed")
    BY <1>1, <1>2, <1>3, GoneFile
  <1>4. CASE Ran(s) /\ ~Gone(s, "crashed")
    <2>1. /\ pc' = [pc EXCEPT ![s] = "prompt"] /\ history' = [history EXCEPT ![s] = Added(@, line[s])]
          /\ words' = [words EXCEPT ![s] = AcAdd(@, line[s])]
      BY <1>4 DEF Ran
    <2> QED
      BY <1>1, <2>1, FileStays DEF Opened
  <1>5. CASE Remove(s)
    <2>1. pc' = [pc EXCEPT ![s] = "ran"] /\ words' = words
      BY <1>5 DEF Remove, Then
    <2>2. history' = history \/ \E h : history' = [history EXCEPT ![s] = h]
      BY <1>5 DEF Remove
    <2> QED
      BY <1>1, <2>1, <2>2, FileStays DEF Opened
  <1>6. CASE Cleaned(s) /\ ~Gone(s, "crashed")
    <2> DEFINE p == IF removing[s] = {} THEN "ran" ELSE "remove"
    <2>1. pc' = [pc EXCEPT ![s] = p] /\ HistoryLoad(s)
      BY <1>6 DEF Cleaned
    <2>2. p \notin Opened \cup {"clean written", "off", "crashed"}
      BY DEF Opened
    <2> HIDE DEF p
    <2> QED
      BY <1>1, <2>1, <2>2, FileStays DEF HistoryLoad
  <1> QED
    BY <1>3, <1>4, <1>5, <1>6 DEF Kill

LEMMA TruncatesFile ==
    ASSUME Inv, FileInv, NEW s \in Shells, Exit(s) \/ CleanSaves(s) \/ CleanOpens(s)
    PROVE  FileInv'
  <1>1. CASE Exit(s)
    <2>1. /\ pc' = [pc EXCEPT ![s] = "saving"] /\ history' = [history EXCEPT ![s] = Prompted(@)]
          /\ words' = words /\ Truncate(s)
      BY <1>1 DEF Exit
    <2> QED
      BY <2>1, TruncateFile DEF Opened
  <1>2. CASE CleanSaves(s)
    <2>1. pc' = [pc EXCEPT ![s] = "clean saving"] /\ history' = history /\ words' = words /\ Truncate(s)
      BY <1>2 DEF CleanSaves, Then, NoMemoryChanges
    <2> QED
      BY <2>1, TruncateFile DEF Opened
  <1>3. CASE CleanOpens(s)
    <2>1. pc' = [pc EXCEPT ![s] = "clean writing"] /\ history' = history /\ words' = words /\ Truncate(s)
      BY <1>3 DEF CleanOpens, Then, NoMemoryChanges
    <2> QED
      BY <2>1, TruncateFile DEF Opened
  <1> QED
    BY <1>1, <1>2, <1>3

LEMMA FileInitOK == Init => FileInv
  BY DEF Init, FileInv, SavedOK, FileOf, Opened

LEMMA FileStepOK == Inv /\ FileInv /\ [Next]_vars => FileInv'
  <1> SUFFICES ASSUME Inv, FileInv, [Next]_vars PROVE FileInv'
    OBVIOUS
  <1>1. CASE UNCHANGED vars
    BY <1>1 DEF vars, shell, ghosts, FileInv, SavedOK, FileOf
  <1>2. CASE Next
    <2>1. PICK s \in Shells :
            \/ Start(s) \/ Command(s) \/ AddCommand(s) \/ CleanCommand(s) \/ RemoveCommand(s)
            \/ Ran(s) \/ Exit(s) \/ Saved(s) \/ Kill(s)
            \/ CleanSaves(s) \/ CleanSaved(s) \/ CleanOpens(s) \/ CleanWrites(s) \/ Cleaned(s)
            \/ Remove(s)
      BY <1>2 DEF Next
    <2> QED
      BY <2>1, CommandsFile, RanFile, TruncatesFile, SavedFile, CleanSavedFile, CleanWritesFile
  <1> QED
    BY <1>1, <1>2

\* The file a shell has opened is empty until it writes, and what it wrote is what its
\* history spells, unless another shell opened or wrote the file in between.
THEOREM FileInvariance == Spec => []FileInv
  BY Invariance, FileInitOK, FileStepOK, PTL DEF Spec

\* What is written takes a byte at least for each entry.
LEMMA SpelledEmpty ==
    ASSUME NEW h \in Seq(Texts), Spelled(h) = <<>>
    PROVE  h = <<>>
  <1>1. PICK f : Spells(f, h) /\ Spelled(h) = f[Len(h)]
    BY SpelledUnrolls
  <1>2. SUFFICES ASSUME h # <<>> PROVE FALSE
    OBVIOUS
  <1> DEFINE N == Len(h)
  <1>3. N \in 1..N /\ N - 1 \in 0..N /\ N \in 0..N
    BY <1>2
  <1> DEFINE a == Len(f[N - 1])
             b == Len(h[N])
  <1>4. Len(f[N]) = a + b + 1 /\ a \in Nat
    BY <1>1, <1>3, SpelledIs
  <1>5. b \in Nat
    <2>1. h[N] \in Seq(Letters)
      BY <1>3 DEF Texts
    <2> QED
      BY <2>1
  <1>6. Len(f[N]) = 0
    BY <1>1
  <1> HIDE DEF a, b
  <1> QED
    BY <1>4, <1>5, <1>6

LEMMA LoadsBack ==
    ASSUME NEW h \in Seq(Texts), Len(h) <= MaxHistory, \A x \in Holds(h) : OneLine(x), file = Spelled(h)
    PROVE  Loaded = Entries(h)
  <1>1. LinesOf(file) = Entries(h)
    BY ReadsBack
  <1>2. Len(Entries(h)) <= MaxHistory
    <2>1. Entries(h) \in Seq(Texts) /\ Len(Entries(h)) <= Len(h)
      BY WithoutOK DEF Entries
    <2>2. Len(Entries(h)) \in Nat /\ Len(h) \in Nat /\ MaxHistory \in Nat
      BY <2>1, BoundsAssumption
    <2> QED
      BY <2>1, <2>2
  <1> QED
    BY <1>1, <1>2 DEF Loaded, Newest

\* A shell that starts has the entries that were saved last, each once and in their order,
\* however the file came by them: unless an entry is of more than a line, or another shell
\* opened the file since it was opened for them.
THEOREM HistoryIsReloaded == Spec => ReloadsWhatWasSaved
  <1>1. ASSUME Inv, FileInv, NEW s \in Shells, Start(s), NEW h \in saved, \A t \in Holds(h) : OneLine(t)
        PROVE  history'[s] = Entries(h)
    <2>1. h \in Seq(Texts) /\ Len(h) <= MaxHistory /\ file = Spelled(h)
      BY <1>1 DEF FileInv, SavedOK
    <2>2. HistoryLoad(s) /\ pc[s] \in {"off", "crashed"}
      BY <1>1 DEF Start
    <2>3. CASE file = <<>>
      <3>1. h = <<>>
        BY <2>1, <2>3, SpelledEmpty
      <3>2. Entries(h) = <<>>
        <4>1. <<>> \notin Holds(h)
          BY <3>1, EmptyOK
        <4> QED
          BY <2>1, <3>1, <4>1, WithoutOK DEF Entries
      <3>3. history[s] = <<>> /\ history' = history
        BY <1>1, <2>2, <2>3, Now DEF HistoryLoad, ShellOK
      <3> QED
        BY <3>2, <3>3
    <2>4. CASE file # <<>>
      <3>1. history' = [history EXCEPT ![s] = Loaded]
        BY <2>2, <2>4 DEF HistoryLoad
      <3>2. Loaded = Entries(h)
        BY <1>1, <2>1, LoadsBack
      <3> QED
        BY <1>1, <3>1, <3>2 DEF Inv, Types
    <2> QED
      BY <2>3, <2>4
  <1>2. Inv /\ FileInv /\ [Next]_vars
        => [\A s \in Shells : Start(s) => \A h \in saved :
              (\A t \in Holds(h) : OneLine(t)) => history'[s] = Entries(h)]_vars
    BY <1>1
  <1> QED
    BY <1>2, Invariance, FileInvariance, PTL DEF Spec, ReloadsWhatWasSaved

\* "history clean" keeps one of each entry, in the order in which they were first entered:
\* for any hash, any capacity the set starts with and however often it grows, and for any
\* number of shells that write the file before and after.
THEOREM CleanKeepsEntries ==
    ASSUME HashesAreIndices
    PROVE  Spec => CleanKeepsOneOfEach
  <1> DEFINE Kept(s) ==
        LET old == Entries(history[s])
            new == history'[s]
            first(t) == CHOOSE i \in DOMAIN old : old[i] = t /\ \A j \in 1..(i - 1) : old[j] # t
        IN  /\ Holds(new) = Holds(old)
            /\ \A i, j \in DOMAIN new : i < j => first(new[i]) < first(new[j])
  <1>1. ASSUME Inv, FileInv, NEW s \in Shells, Cleaned(s), writers = {s}, ~shared[s],
               \A t \in Holds(history[s]) : OneLine(t), Entries(history[s]) # <<>>
        PROVE  Kept(s)
    <2> DEFINE h == history[s]
               old == Entries(h)
               new == history'[s]
               u == Unique(h)
               first(t) == CHOOSE i \in DOMAIN old : old[i] = t /\ \A j \in 1..(i - 1) : old[j] # t
    <2>1. NoKey \notin Holds(h) /\ file = Spelled(u)
      BY <1>1 DEF Cleaned, FileInv, FileOf
    <2>2. h \in Seq(Texts) /\ Len(h) <= MaxHistory
      BY <1>1, <2>1, NoNull
    <2>3. old \in Seq(Texts) /\ Holds(old) = Holds(h) \ {<<>>}
      BY <2>2, WithoutOK DEF Entries
    <2>4. u \in Seq(Texts) /\ Len(u) <= Len(h) /\ Holds(u) = Holds(old) /\ InOrder(u, old)
      BY <2>2, UniqueIs
    <2>5. u # <<>>
      <3>1. Len(old) \in Nat \ {0} /\ DOMAIN old = 1..Len(old)
        BY <1>1, <2>3, EmptySeq, LenProperties
      <3>2. old[1] \in Holds(old)
        BY <3>1 DEF Holds
      <3> QED
        BY <2>4, <3>2, EmptyOK
    <2>6. file # <<>>
      BY <2>1, <2>4, <2>5, SpelledEmpty
    <2>7. Loaded = u
      <3>1. Len(u) <= MaxHistory
        <4>1. Len(u) \in Nat /\ Len(h) \in Nat /\ MaxHistory \in Nat
          BY <2>2, <2>4, BoundsAssumption, LenProperties
        <4> QED
          BY <2>2, <2>4, <4>1
      <3>2. \A x \in Holds(u) : OneLine(x)
        BY <1>1, <2>3, <2>4
      <3>3. Loaded = Entries(u)
        BY <2>1, <2>4, <3>1, <3>2, LoadsBack
      <3>4. Entries(u) = u
        BY <2>3, <2>4, WithoutOK DEF Entries
      <3> QED
        BY <3>3, <3>4
    <2>8. new = u
      <3>1. history' = [history EXCEPT ![s] = Loaded]
        BY <1>1, <2>6 DEF Cleaned, HistoryLoad
      <3> QED
        BY <1>1, <2>7, <3>1 DEF Inv, Types
    <2> HIDE DEF new, u, old, h
    <2>9. DOMAIN old = 1..Len(old) /\ Len(old) \in Nat /\ DOMAIN u = 1..Len(u) /\ Len(u) \in Nat
      BY <2>3, <2>4, LenProperties
    <2>10. ASSUME NEW t \in Holds(old)
           PROVE  first(t) \in DOMAIN old /\ old[first(t)] = t /\ \A j \in 1..(first(t) - 1) : old[j] # t
      <3> DEFINE T == {i \in DOMAIN old : old[i] = t}
      <3>1. T \in SUBSET Nat /\ T # {}
        BY <2>9, <2>10 DEF Holds
      <3>2. PICK m \in T : \A o \in T : m <= o
        <4> HIDE DEF T
        <4> QED
          BY <3>1, Least
      <3>3. \A j \in 1..(m - 1) : old[j] # t
        <4>1. \A j \in 1..(m - 1) : j \in DOMAIN old /\ ~(m <= j)
          BY <2>9, <3>2
        <4> QED
          BY <3>2, <4>1
      <3> QED
        BY <3>2, <3>3
    <2>11. ASSUME NEW i \in DOMAIN u, NEW j \in DOMAIN u, i < j
           PROVE  first(u[i]) < first(u[j])
      <3>1. u[i] \in Holds(old) /\ u[j] \in Holds(old)
        BY <2>4, <2>11 DEF Holds
      <3> DEFINE a == first(u[i])
                 b == first(u[j])
      <3>2. /\ a \in DOMAIN old /\ old[a] = u[i] /\ \A o \in 1..(a - 1) : old[o] # u[i]
            /\ b \in DOMAIN old /\ old[b] = u[j]
        BY <2>10, <3>1
      <3>3. PICK c \in DOMAIN old : old[c] = u[i] /\ \A o \in DOMAIN old : old[o] = u[j] => c < o
        BY <2>4, <2>11 DEF InOrder
      <3> HIDE DEF a, b
      <3>4. c < b
        BY <3>2, <3>3
      <3>5. a <= c
        <4>1. ~(c \in 1..(a - 1))
          BY <3>2, <3>3
        <4> QED
          BY <2>9, <3>2, <3>3, <4>1
      <3>6. a < b
        BY <2>9, <3>2, <3>3, <3>4, <3>5
      <3> QED
        BY <3>6 DEF a, b
    <2> QED
      BY <2>4, <2>8, <2>11 DEF new, old, h
  <1>2. Inv /\ FileInv /\ [Next]_vars
        => [\A s \in Shells :
              /\ Cleaned(s) /\ writers = {s} /\ ~shared[s]
              /\ \A t \in Holds(history[s]) : OneLine(t)
              /\ Entries(history[s]) # <<>>
              => Kept(s)]_vars
    <2> HIDE DEF Kept
    <2> QED
      BY <1>1
  <1> QED
    BY <1>2, Invariance, FileInvariance, PTL DEF Spec, CleanKeepsOneOfEach

\* What a shell that has just started proposes goes on from what is typed and is in the
\* history no less often than any other that does, for any history and any file; as long
\* as no more of them go on from it than ac_match looks at, and leaving entries aside that are
\* longer than ac_add takes.
THEOREM MostUsedIsProposed == Spec => ProposesMostUsed
  <1> DEFINE Proposes(s) ==
        LET uses(t) == Cardinality({i \in DOMAIN history'[s] :
                                        Fits(history'[s][i]) /\ Printable(history'[s][i]) = t})
        IN  \A t \in Lines :
              LET all == {v \in DOMAIN words'[s] : IsPrefix(t, v) /\ v # t}
              IN  Cardinality(all) < MaxMatches /\ all # {} =>
                    /\ Cardinality(AcFirst(words'[s], t)) = 1
                    /\ \A m \in AcFirst(words'[s], t) : \A v \in all : uses(v) <= uses(m)
  <1>1. ASSUME Inv, FileInv, NEW s \in Shells, Start(s)
        PROVE  Proposes(s)
    <2>1. HistoryLoad(s) /\ pc[s] \in {"off", "crashed"}
      BY <1>1 DEF Start
    <2>2. words[s] = <<>>
      BY <1>1, <2>1 DEF FileInv, FileOf
    <2> DEFINE h == history'[s]
               w == words'[s]
               uses(t) == Cardinality({i \in DOMAIN h : Fits(h[i]) /\ Printable(h[i]) = t})
    <2>3. CASE file = <<>>
      <3>1. DOMAIN w = {}
        BY <2>1, <2>2, <2>3 DEF HistoryLoad
      <3> QED
        BY <3>1
    <2>4. CASE file # <<>>
      <3>1. Loaded \in Seq(Texts)
        BY <1>1, Now, LoadedOK
      <3>2. h = Loaded /\ w = AcAddAll(<<>>, Loaded)
        BY <1>1, <2>1, <2>2, <2>4 DEF HistoryLoad, Inv, Types
      <3> DEFINE at(x) == {i \in 1..Len(h) : Fits(h[i]) /\ Printable(h[i]) = x}
      <3>3. DOMAIN h = 1..Len(h)
        BY <3>1, <3>2, LenProperties
      <3>4. /\ w \in Tries /\ IsFiniteSet(DOMAIN w)
            /\ \A x \in DOMAIN w : Cardinality(at(x)) \in Nat /\ w[x] = Cardinality(at(x)) + 1
        BY <3>1, <3>2, WeightsCount
      <3>5. \A x : uses(x) = Cardinality(at(x))
        BY <3>3
      <3> HIDE DEF h, w, at, uses
      <3>6. ASSUME NEW t \in Lines, NEW all, all = {v \in DOMAIN w : IsPrefix(t, v) /\ v # t},
                   Cardinality(all) < MaxMatches, all # {}
            PROVE  /\ Cardinality(AcFirst(w, t)) = 1
                   /\ \A m \in AcFirst(w, t) : \A v \in all : uses(v) <= uses(m)
        <4>1. /\ Cardinality(AcFirst(w, t)) = 1
              /\ \A m \in AcFirst(w, t) : m \in all /\ \A v \in all : w[v] <= w[m]
          BY <3>4, <3>6, FirstOK
        <4>2. ASSUME NEW m \in AcFirst(w, t), NEW v \in all PROVE uses(v) <= uses(m)
          <5>1. m \in DOMAIN w /\ v \in DOMAIN w /\ w[v] <= w[m]
            BY <3>6, <4>1
          <5>2. uses(v) \in Nat /\ uses(m) \in Nat /\ w[v] = uses(v) + 1 /\ w[m] = uses(m) + 1
            BY <3>4, <3>5, <5>1
          <5> QED
            BY <5>1, <5>2
        <4> QED
          BY <4>1, <4>2
      <3> QED
        BY <3>6 DEF h, w, uses
    <2> QED
      BY <2>3, <2>4
  <1>2. Inv /\ FileInv /\ [Next]_vars => [\A s \in Shells : Start(s) => Proposes(s)]_vars
    <2> HIDE DEF Proposes
    <2> QED
      BY <1>1
  <1> QED
    BY <1>2, Invariance, FileInvariance, PTL DEF Spec, ProposesMostUsed
=============================================================================
