---------------------------- MODULE EditorProofs ----------------------------
(***************************************************************************)
(* The invariants of LineBuffer and Editor, for any text, any history, any *)
(* size of the history, the kill ring and the first buffer, and a careful  *)
(* user.                                                                   *)
(***************************************************************************)
EXTENDS Editor, Recursion, FiniteSetTheorems, SequenceTheorems

-----------------------------------------------------------------------------
(* Walks: from x, until it is in stops, to next; there the answer is out.  *)

Ends(g, X, stops, out, next) == g = [x \in X |-> IF x \in stops THEN out[x] ELSE g[next[x]]]
\* It leads down, in the rank of where it is.
Leads(X, rank, stops, next) ==
    /\ \A x \in X : rank[x] \in Nat
    /\ \A x \in X : x \notin stops => next[x] \in X /\ rank[next[x]] < rank[x]
\* It never leaves H, and at its stops the answer is in A.
Stays(X, stops, out, next, H, A) ==
    /\ \A x \in X : x \in H /\ x \notin stops => next[x] \in H
    /\ \A x \in X : x \in H /\ x \in stops => out[x] \in A

\* A walk that leads down ends, with an answer that is right for where it began if the
\* answers at its stops are, and with each step fewer are right.
LEMMA WalkEnds ==
    ASSUME NEW X, NEW rank, NEW stops, NEW out, NEW next, NEW right,
           \A x \in X : rank[x] \in Nat,
           \A x \in X : x \in stops => out[x] \in right[x],
           \A x \in X : x \notin stops => /\ next[x] \in X /\ rank[next[x]] < rank[x]
                                          /\ right[next[x]] \subseteq right[x]
    PROVE  /\ \E g : Ends(g, X, stops, out, next)
           /\ \A g : Ends(g, X, stops, out, next) => \A x \in X : g[x] \in right[x]
  <1> DEFINE V == UNION {right[x] : x \in X}
             order == [x \in X |-> rank[x]]
             at == X \cap stops
             answer == [x \in at |-> out[x]]
             to == [x \in X \ at |-> next[x]]
             comb == [x \in X \ at |-> [v \in V |-> v]]
  <1>1. order \in [X -> Nat] /\ at \in SUBSET X /\ comb \in [X \ at -> [V -> V]]
    OBVIOUS
  <1>2. answer \in [at -> V]
    OBVIOUS
  <1>3. to \in [X \ at -> X] /\ \A x \in X \ at : order[to[x]] < order[x]
    OBVIOUS
  <1>4. \A x \in X \ at : to[x] = next[x] /\ next[x] \in X /\ \A v \in V : comb[x][v] = v
    OBVIOUS
  <1>5. \A x \in X : (x \in at <=> x \in stops) /\ (x \in at => answer[x] = out[x])
    OBVIOUS
  <1>6. \E g : Ends(g, X, stops, out, next)
    <2> HIDE DEF V, order, at, answer, to, comb
    <2>1. PICK g : Solves(g, X, V, at, answer, to, comb)
      BY <1>1, <1>2, <1>3, Recursive
    <2>2. g \in [X -> V] /\ \A x \in X : g[x] = IF x \in at THEN answer[x] ELSE comb[x][g[to[x]]]
      BY <2>1 DEF Solves
    <2>3. ASSUME NEW x \in X PROVE g[x] = IF x \in stops THEN out[x] ELSE g[next[x]]
      <3>1. CASE x \in stops
        BY <1>5, <2>2, <3>1
      <3>2. CASE x \notin stops
        <4>1. x \in X \ at /\ next[x] \in X /\ to[x] = next[x] /\ g[next[x]] \in V
          BY <1>4, <1>5, <2>2, <3>2
        <4> QED
          BY <1>4, <2>2, <3>2, <4>1
      <3> QED
        BY <3>1, <3>2
    <2>4. Ends(g, X, stops, out, next)
      BY <2>2, <2>3 DEF Ends
    <2> QED
      BY <2>4
  <1>7. ASSUME NEW g, Ends(g, X, stops, out, next) PROVE \A x \in X : g[x] \in right[x]
    <2> DEFINE P == {x \in X : g[x] \in right[x]}
    <2>1. \A x \in X : g[x] = IF x \in stops THEN out[x] ELSE g[next[x]]
      BY <1>7 DEF Ends
    <2>2. ASSUME NEW x \in X, \A z \in X : rank[z] < rank[x] => z \in P PROVE x \in P
      BY <2>1, <2>2
    <2>3. \A x \in X : x \in P
      <3> HIDE DEF P
      <3> QED
        BY <2>2, RankInduction
    <2> QED
      BY <2>3
  <1> QED
    BY <1>6, <1>7

\* Walks whose answer is where they stop.
Walks(g, D, goes, next) == g = [q \in D |-> IF q \in goes THEN g[next[q]] ELSE q]

LEMMA WalkIsWalk ==
    ASSUME NEW D, NEW goes, NEW next, NEW g
    PROVE  Walks(g, D, goes, next) <=> Ends(g, D, D \ goes, [q \in D |-> q], next)
  BY DEF Walks, Ends

\* A walk to the right that goes on only before c, and there no further than c.
LEMMA WalkRight ==
    ASSUME NEW a \in Nat, NEW b \in Nat, NEW c \in Nat, c <= b, NEW goes, NEW next,
           \A q \in a..b : q \in goes => q < c /\ next[q] \in (q + 1)..c
    PROVE  /\ \E g : Walks(g, a..b, goes, next)
           /\ \A g : Walks(g, a..b, goes, next) => \A q \in a..b : q <= c => g[q] \in q..c
  <1> DEFINE X == a..b
             stops == X \ goes
             out == [q \in X |-> q]
             rank == [q \in X |-> b - q]
             right == [q \in X |-> IF q <= c THEN q..c ELSE {q}]
  <1>1. \A q \in X : rank[q] \in Nat
    OBVIOUS
  <1>2. \A q \in X : q \in stops => out[q] \in right[q]
    OBVIOUS
  <1>3. ASSUME NEW q \in X, q \notin stops
        PROVE  next[q] \in X /\ rank[next[q]] < rank[q] /\ right[next[q]] \subseteq right[q]
    <2>1. q < c /\ next[q] \in (q + 1)..c
      BY <1>3
    <2>2. next[q] \in X /\ b - next[q] < b - q
      BY <2>1
    <2>3. right[q] = q..c /\ right[next[q]] = next[q]..c
      BY <2>1, <2>2
    <2>4. right[next[q]] \subseteq right[q]
      BY <2>1, <2>3
    <2> QED
      BY <2>2, <2>4
  <1>4. \A q \in X : q <= c => right[q] = q..c
    OBVIOUS
  <1>5. \E g : Ends(g, X, stops, out, next)
    <2> HIDE DEF X, stops, out, rank, right
    <2> QED
      BY <1>1, <1>2, <1>3, WalkEnds
  <1>6. \A g : Ends(g, X, stops, out, next) => \A q \in X : g[q] \in right[q]
    <2> HIDE DEF X, stops, out, rank, right
    <2> QED
      BY <1>1, <1>2, <1>3, WalkEnds
  <1> HIDE DEF right
  <1> QED
    BY <1>4, <1>5, <1>6, WalkIsWalk

\* A walk to the left ends between the start and where it began.
LEMMA WalkLeft ==
    ASSUME NEW b \in Nat, NEW goes, NEW next,
           \A q \in 0..b : q \in goes => next[q] \in 0..(q - 1)
    PROVE  /\ \E g : Walks(g, 0..b, goes, next)
           /\ \A g : Walks(g, 0..b, goes, next) => \A q \in 0..b : g[q] \in 0..q
  <1> DEFINE X == 0..b
             stops == X \ goes
             out == [q \in X |-> q]
             rank == [q \in X |-> q]
             right == [q \in X |-> 0..q]
  <1>1. \A q \in X : rank[q] \in Nat
    OBVIOUS
  <1>2. \A q \in X : q \in stops => out[q] \in right[q]
    OBVIOUS
  <1>3. ASSUME NEW q \in X, q \notin stops
        PROVE  next[q] \in X /\ rank[next[q]] < rank[q] /\ right[next[q]] \subseteq right[q]
    <2>1. next[q] \in 0..(q - 1)
      BY <1>3
    <2>2. next[q] \in X /\ next[q] < q
      BY <2>1
    <2>3. 0..next[q] \subseteq 0..q
      BY <2>2
    <2> QED
      BY <2>2, <2>3
  <1>4. \A q \in X : right[q] = 0..q
    OBVIOUS
  <1>5. \E g : Ends(g, X, stops, out, next)
    <2> HIDE DEF X, stops, out, rank, right
    <2> QED
      BY <1>1, <1>2, <1>3, WalkEnds
  <1>6. \A g : Ends(g, X, stops, out, next) => \A q \in X : g[q] \in right[q]
    <2> HIDE DEF X, stops, out, rank, right
    <2> QED
      BY <1>1, <1>2, <1>3, WalkEnds
  <1> HIDE DEF right
  <1> QED
    BY <1>4, <1>5, <1>6, WalkIsWalk

\* A walk that begins in H stays in H, and ends in G if it leaves H there.
LEMMA WalkWithin ==
    ASSUME NEW D, NEW goes, NEW next, NEW rank, NEW g, Walks(g, D, goes, next),
           \A q \in D : rank[q] \in Nat,
           \A q \in D : q \in goes => next[q] \in D /\ rank[next[q]] < rank[q],
           NEW H, NEW G, \A q \in D : q \in H /\ q \in goes => next[q] \in H,
           \A q \in D : q \in H /\ q \notin goes => q \in G
    PROVE  \A q \in D : q \in H => g[q] \in G
  <1> DEFINE P == {q \in D : q \in H => g[q] \in G}
  <1>1. \A q \in D : g[q] = IF q \in goes THEN g[next[q]] ELSE q
    BY DEF Walks
  <1>2. ASSUME NEW q \in D, \A z \in D : rank[z] < rank[q] => z \in P PROVE q \in P
    BY <1>1, <1>2
  <1>3. \A q \in D : q \in P
    <2> HIDE DEF P
    <2> QED
      BY <1>2, RankInduction
  <1> QED
    BY <1>3

LEMMA EndsWithin ==
    ASSUME NEW X, NEW rank, NEW stops, NEW out, NEW next, NEW g, Ends(g, X, stops, out, next),
           Leads(X, rank, stops, next), NEW H, NEW A, Stays(X, stops, out, next, H, A)
    PROVE  \A x \in X : x \in H => g[x] \in A
  <1> DEFINE P == {x \in X : x \in H => g[x] \in A}
  <1>1. \A x \in X : g[x] = IF x \in stops THEN out[x] ELSE g[next[x]]
    BY DEF Ends
  <1>2. ASSUME NEW x \in X, \A z \in X : rank[z] < rank[x] => z \in P PROVE x \in P
    BY <1>1, <1>2 DEF Leads, Stays
  <1>3. \A x \in X : x \in P
    <2> HIDE DEF P
    <2>1. \A x \in X : rank[x] \in Nat
      BY DEF Leads
    <2> QED
      BY <1>2, <2>1, RankInduction
  <1> QED
    BY <1>3

\* Places that no step from rune to rune leaves; what steps lead to from p.
Closed(k, G) == \A q \in 0..k.len : q \in G => Forward(k, q) \in G /\ Backward(k, q) \in G
Reached(k, p, v) == \A G : Closed(k, G) /\ p \in G => v \in G

LEMMA ReachedOn ==
    ASSUME NEW k, NEW p, NEW v, NEW w, Reached(k, p, v), Reached(k, v, w)
    PROVE  Reached(k, p, w)
  BY DEF Reached

LEMMA ReachedStep ==
    ASSUME NEW k, NEW p, NEW v \in 0..k.len, Reached(k, p, v)
    PROVE  Reached(k, p, Forward(k, v)) /\ Reached(k, p, Backward(k, v)) /\ Reached(k, p, p)
  BY DEF Reached, Closed

-----------------------------------------------------------------------------
(* Stepping.                                                               *)

\* No continuation is at v.
Begun(s, v) == v >= Len(s) \/ s[v + 1] \notin Continuation

\* What a rune takes is there.
LEMMA RuneLengthOK ==
    ASSUME NEW k \in Line, NEW p \in 0..k.len
    PROVE  /\ p = k.len => RuneLength(k, p) = 0
           /\ p < k.len => RuneLength(k, p) \in 1..(k.len - p)
           /\ p < k.len /\ k.buf[p + 1] \notin Leading => RuneLength(k, p) = 1
           /\ p < k.len /\ k.buf[p + 1] \in Leading =>
                  LET v == p + RuneLength(k, p) IN v = k.len \/ Begun(k.buf, v)
  <1> DEFINE L == k.len
             on(q) == q < L /\ k.buf[q + 1] \in Continuation
             D == p..L
             Loop(g) == [q \in D |-> IF on(q) THEN g[q + 1] ELSE q]
             n == CHOOSE g : g = Loop(g)
             goes == {q \in D : on(q)}
             next == [q \in D |-> q + 1]
  <1>1. RuneLength(k, p) = CASE p >= L -> 0
                             [] p < L /\ k.buf[p + 1] \in Leading -> n[p + 1] - p
                             [] OTHER -> 1
    BY DEF RuneLength
  <1>2. L \in Nat /\ p \in Nat
    BY DEF Line
  <1> HIDE DEF L
  <1>3. \A q \in D : q \in goes => q < L /\ next[q] \in (q + 1)..L
    BY <1>2
  <1>4. \A g : Walks(g, D, goes, next) <=> g = Loop(g)
    BY DEF Walks
  <1> HIDE DEF on
  <1>5. n \in [D -> Int] /\ (\A q \in D : n[q] \in q..L) /\ Walks(n, D, goes, next)
    <2>1. /\ \E g : Walks(g, D, goes, next)
          /\ \A g : Walks(g, D, goes, next) => \A q \in D : q <= L => g[q] \in q..L
      <3>1. L <= L
        BY <1>2
      <3> HIDE DEF goes, next
      <3> QED
        BY <1>2, <1>3, <3>1, WalkRight
    <2>2. n = Loop(n)
      BY <1>4, <2>1
    <2>3. \A q \in D : q <= L
      BY <1>2
    <2>4. Walks(n, D, goes, next)
      BY <1>4, <2>2
    <2> HIDE DEF n, D
    <2>5. \A q \in D : n[q] \in q..L
      BY <2>1, <2>3, <2>4
    <2> USE DEF D
    <2>6. n = [q \in D |-> n[q]]
      BY <2>2
    <2> QED
      BY <1>2, <2>4, <2>5, <2>6
  <1> HIDE DEF n
  <1>11. \A q \in D : n[q] = L \/ Begun(k.buf, n[q])
    <2> DEFINE rank == [q \in D |-> L - q]
               G == {q \in D : q = L \/ Begun(k.buf, q)}
    <2>1. \A q \in D : rank[q] \in Nat
      BY <1>2
    <2>2. \A q \in D : q \in goes => next[q] \in D /\ rank[next[q]] < rank[q]
      BY <1>2, <1>3
    <2>3. \A q \in D : q \notin goes => q \in G
      BY <1>2 DEF on, Begun
    <2>4. \A q \in D : q \in goes => next[q] \in D
      BY <2>2
    <2> HIDE DEF rank, G, goes, next, D
    <2>5. \A q \in D : n[q] \in G
      BY <1>5, <2>1, <2>2, <2>3, <2>4, WalkWithin
    <2> QED
      BY <2>5 DEF G
  <1>6. p < L => n[p + 1] \in (p + 1)..L
    BY <1>2, <1>5
  <1>7. p < L => n[p + 1] - p \in 1..(L - p) /\ 1 \in 1..(L - p)
    BY <1>2, <1>6
  <1>8. p = L => RuneLength(k, p) = 0
    BY <1>1, <1>2
  <1>9. p < L => RuneLength(k, p) \in {n[p + 1] - p, 1}
    BY <1>1, <1>2
  <1>10. p < L /\ k.buf[p + 1] \notin Leading => RuneLength(k, p) = 1
    BY <1>1, <1>2
  <1>12. p < L /\ k.buf[p + 1] \in Leading =>
             p + RuneLength(k, p) = L \/ Begun(k.buf, p + RuneLength(k, p))
    <2> SUFFICES ASSUME p < L, k.buf[p + 1] \in Leading
                 PROVE  p + RuneLength(k, p) = L \/ Begun(k.buf, p + RuneLength(k, p))
      OBVIOUS
    <2>1. p + RuneLength(k, p) = n[p + 1]
      BY <1>1, <1>2, <1>6
    <2>2. p + 1 \in D
      BY <1>2
    <2> HIDE DEF D
    <2> QED
      BY <1>11, <2>1, <2>2
  <1> QED
    BY <1>2, <1>7, <1>8, <1>9, <1>10, <1>12 DEF L

LEMMA ForwardOK ==
    ASSUME NEW k \in Line, NEW p \in 0..k.len
    PROVE  Forward(k, p) \in p..k.len /\ (p < k.len => Forward(k, p) > p)
  <1>1. k.len \in Nat
    BY DEF Line
  <1>2. CASE p = k.len
    <2>1. RuneLength(k, p) = 0
      BY <1>2, RuneLengthOK
    <2> QED
      BY <1>1, <1>2, <2>1 DEF Forward
  <1>3. CASE p < k.len
    <2>1. RuneLength(k, p) \in 1..(k.len - p)
      BY <1>3, RuneLengthOK
    <2> QED
      BY <1>1, <1>3, <2>1 DEF Forward
  <1> QED
    BY <1>1, <1>2, <1>3

LEMMA BackwardOK ==
    ASSUME NEW k \in Line, NEW p \in Nat
    PROVE  /\ Backward(k, p) \in 0..p /\ (p > 0 => Backward(k, p) < p)
           /\ Backward(k, p) = 0 \/ Begun(k.buf, Backward(k, p))
  <1> DEFINE stop(q) == q = 0 \/ q >= Len(k.buf) \/ k.buf[q + 1] \notin Continuation
             D == 0..p
             Loop(g) == [q \in D |-> IF stop(q) THEN q ELSE g[q - 1]]
             b == CHOOSE g : g = Loop(g)
             goes == {q \in D : ~stop(q)}
             next == [q \in D |-> q - 1]
  <1>1. Backward(k, p) = IF p = 0 THEN 0 ELSE b[p - 1]
    BY DEF Backward
  <1>2. \A q \in D : stop(0)
    OBVIOUS
  <1> HIDE DEF stop
  <1>3. \A q \in D : q \in goes => next[q] \in 0..(q - 1)
    <2> SUFFICES ASSUME NEW q \in D, q \in goes PROVE next[q] \in 0..(q - 1)
      OBVIOUS
    <2>1. q # 0
      BY <1>2
    <2> QED
      BY <2>1
  <1>4. \A g : Walks(g, D, goes, next) <=> g = Loop(g)
    BY DEF Walks
  <1>5. /\ \E g : Walks(g, D, goes, next)
        /\ \A g : Walks(g, D, goes, next) => \A q \in D : g[q] \in 0..q
    <2> HIDE DEF goes, next
    <2> QED
      BY <1>3, WalkLeft
  <1>6. b = Loop(b)
    BY <1>4, <1>5
  <1>7. \A q \in D : b[q] \in 0..q
    BY <1>4, <1>5, <1>6
  <1>9. Walks(b, D, goes, next)
    BY <1>4, <1>6
  <1> HIDE DEF b
  <1>8. p > 0 => b[p - 1] \in 0..(p - 1)
    BY <1>7
  <1>10. \A q \in D : b[q] = 0 \/ Begun(k.buf, b[q])
    <2> DEFINE rank == [q \in D |-> q]
               G == {q \in D : q = 0 \/ Begun(k.buf, q)}
    <2>1. \A q \in D : rank[q] \in Nat
      OBVIOUS
    <2>2. \A q \in D : q \in goes => next[q] \in D /\ rank[next[q]] < rank[q]
      <3> SUFFICES ASSUME NEW q \in D, q \in goes PROVE next[q] \in D /\ rank[next[q]] < rank[q]
        OBVIOUS
      <3>1. next[q] \in 0..(q - 1)
        BY <1>3
      <3> QED
        BY <3>1
    <2>3. \A q \in D : q \notin goes => q \in G
      BY DEF stop, Begun
    <2>4. \A q \in D : q \in goes => next[q] \in D
      BY <2>2
    <2> HIDE DEF rank, G, goes, next, D
    <2>5. \A q \in D : b[q] \in G
      BY <1>9, <2>1, <2>2, <2>3, <2>4, WalkWithin
    <2> QED
      BY <2>5 DEF G
  <1>11. p > 0 => p - 1 \in D
    OBVIOUS
  <1> HIDE DEF D
  <1> QED
    BY <1>1, <1>8, <1>10, <1>11

\* A scan to the right stays inside the line.
LEMMA ForwardsOK ==
    ASSUME NEW k \in Line, NEW p \in 0..k.len, NEW kind
    PROVE  Forwards(k, p, kind) \in p..k.len /\ Reached(k, p, Forwards(k, p, kind))
  <1> DEFINE L == k.len
             on(q) == q < L /\ Is(kind, Rune(k, q))
             D == 0..(2 * L)
             Loop(g) == [q \in D |-> IF on(q) THEN g[Forward(k, q)] ELSE q]
             f == CHOOSE g : g = Loop(g)
             goes == {q \in D : on(q)}
             next == [q \in D |-> Forward(k, q)]
  <1>1. Forwards(k, p, kind) = f[p]
    BY DEF Forwards
  <1>2. L \in Nat /\ p \in Nat /\ p <= L
    BY DEF Line
  <1>3. \A q \in 0..L : q < L => Forward(k, q) \in (q + 1)..L
    <2> SUFFICES ASSUME NEW q \in 0..L, q < L PROVE Forward(k, q) \in (q + 1)..L
      OBVIOUS
    <2>1. Forward(k, q) \in q..L /\ Forward(k, q) > q
      BY ForwardOK
    <2> QED
      BY <1>2, <2>1
  <1>4. \A q \in D : on(q) => q < L
    OBVIOUS
  <1> HIDE DEF L, on
  <1>5. \A g : Walks(g, D, goes, next) <=> g = Loop(g)
    BY DEF Walks
  <1>6. \A q \in D : q \in goes => q \in 0..L /\ q < L /\ next[q] \in (q + 1)..L
    BY <1>2, <1>3, <1>4
  <1>7. /\ \E g : Walks(g, D, goes, next)
        /\ \A g : Walks(g, D, goes, next) => \A q \in D : q <= L => g[q] \in q..L
    <2>1. 2 * L \in Nat /\ L <= 2 * L
      BY <1>2
    <2> HIDE DEF goes, next
    <2> QED
      BY <1>2, <1>6, <2>1, WalkRight
  <1>8. f = Loop(f)
    BY <1>5, <1>7
  <1>9. p \in D
    BY <1>2
  <1>10. Walks(f, D, goes, next)
    BY <1>5, <1>8
  <1> HIDE DEF f
  <1>12. ASSUME NEW G, Closed(k, G), p \in G PROVE f[p] \in G
    <2> DEFINE rank == [q \in D |-> 2 * L - q]
    <2>1. \A q \in D : rank[q] \in Nat
      BY <1>2
    <2>2. \A q \in D : q \in goes => next[q] \in D /\ rank[next[q]] < rank[q]
      BY <1>2, <1>6
    <2>3. \A q \in D : q \in G /\ q \in goes => next[q] \in G
      BY <1>6, <1>12 DEF Closed, L
    <2> HIDE DEF rank, goes, next, D
    <2>4. \A q \in D : q \in G => f[q] \in G
      BY <1>10, <2>1, <2>2, <2>3, WalkWithin
    <2> QED
      BY <1>9, <1>12, <2>4
  <1> HIDE DEF D
  <1>11. f[p] \in p..L
    BY <1>2, <1>7, <1>9, <1>10
  <1> QED
    BY <1>1, <1>11, <1>12 DEF L, Reached

\* And one to the left.
LEMMA BackwardsOK ==
    ASSUME NEW k \in Line, NEW p \in Nat, NEW kind
    PROVE  /\ Backwards(k, p, kind) \in 0..p
           /\ p <= k.len => Reached(k, p, Backwards(k, p, kind))
  <1> DEFINE on(q) == q > 0 /\ Is(kind, Rune(k, Backward(k, q)))
             D == 0..p
             Loop(g) == [q \in D |-> IF on(q) THEN g[Backward(k, q)] ELSE q]
             b == CHOOSE g : g = Loop(g)
             goes == {q \in D : on(q)}
             next == [q \in D |-> Backward(k, q)]
  <1>1. Backwards(k, p, kind) = b[p]
    BY DEF Backwards
  <1>2. \A q \in D : on(q) => q > 0
    OBVIOUS
  <1> HIDE DEF on
  <1>3. \A q \in D : q \in goes => next[q] \in 0..(q - 1)
    <2> SUFFICES ASSUME NEW q \in D, q \in goes PROVE next[q] \in 0..(q - 1)
      OBVIOUS
    <2>1. q \in Nat /\ q > 0
      BY <1>2
    <2>2. Backward(k, q) \in 0..q /\ Backward(k, q) < q
      BY <2>1, BackwardOK
    <2> QED
      BY <2>1, <2>2
  <1>4. \A g : Walks(g, D, goes, next) <=> g = Loop(g)
    BY DEF Walks
  <1>5. /\ \E g : Walks(g, D, goes, next)
        /\ \A g : Walks(g, D, goes, next) => \A q \in D : g[q] \in 0..q
    <2> HIDE DEF goes, next
    <2> QED
      BY <1>3, WalkLeft
  <1>6. b = Loop(b)
    BY <1>4, <1>5
  <1>7. \A q \in D : b[q] \in 0..q
    BY <1>4, <1>5, <1>6
  <1>8. Walks(b, D, goes, next)
    BY <1>4, <1>6
  <1> HIDE DEF b
  <1>9. ASSUME p <= k.len, NEW G, Closed(k, G), p \in G PROVE b[p] \in G
    <2> DEFINE rank == [q \in D |-> q]
    <2>1. \A q \in D : rank[q] \in Nat
      OBVIOUS
    <2>2. \A q \in D : q \in goes => next[q] \in D /\ rank[next[q]] < rank[q]
      <3> SUFFICES ASSUME NEW q \in D, q \in goes PROVE next[q] \in D /\ rank[next[q]] < rank[q]
        OBVIOUS
      <3>1. next[q] \in 0..(q - 1)
        BY <1>3
      <3> QED
        BY <3>1
    <2>3. \A q \in D : q \in 0..k.len
      BY <1>9 DEF Line
    <2>4. \A q \in D : q \in G /\ q \in goes => next[q] \in G
      BY <1>9, <2>3 DEF Closed
    <2>5. p \in D
      OBVIOUS
    <2> HIDE DEF rank, goes, next, D
    <2>6. \A q \in D : q \in G => b[q] \in G
      <3> DEFINE H == G
      <3>1. \A q \in D : q \in H /\ q \in goes => next[q] \in H
        BY <2>4
      <3>2. \A q \in D : q \in H /\ q \notin goes => q \in H
        OBVIOUS
      <3>3. Walks(b, D, goes, next)
        BY <1>8
      <3> HIDE DEF H
      <3>4. \A q \in D : q \in H => b[q] \in H
        BY <2>1, <2>2, <3>1, <3>2, <3>3, WalkWithin
      <3> QED
        BY <3>4 DEF H
    <2> QED
      BY <1>9, <2>5, <2>6
  <1> QED
    BY <1>1, <1>7, <1>9 DEF Reached

LEMMA WordsOK ==
    ASSUME NEW k \in Line, NEW p \in 0..k.len
    PROVE  /\ ForwardWord(k, p) \in p..k.len /\ BackwardWord(k, p) \in 0..p
           /\ Reached(k, p, ForwardWord(k, p)) /\ Reached(k, p, BackwardWord(k, p))
  <1>1. k.len \in Nat /\ p \in Nat
    BY DEF Line
  <1>2. Forwards(k, p, "separator") \in p..k.len
    BY ForwardsOK
  <1>3. Forwards(k, p, "separator") \in 0..k.len
    BY <1>1, <1>2
  <1>4. ForwardWord(k, p) \in Forwards(k, p, "separator")..k.len
    BY <1>3, ForwardsOK DEF ForwardWord
  <1>5. Backwards(k, p, "separator") \in 0..p
    BY <1>1, BackwardsOK
  <1>6. BackwardWord(k, p) \in 0..Backwards(k, p, "separator")
    BY <1>1, <1>5, BackwardsOK DEF BackwardWord
  <1>7. Reached(k, p, ForwardWord(k, p))
    BY <1>3, ForwardsOK, ReachedOn DEF ForwardWord
  <1>8. Reached(k, p, BackwardWord(k, p))
    <2>1. Backwards(k, p, "separator") \in Nat /\ Backwards(k, p, "separator") <= k.len /\ p <= k.len
      BY <1>1, <1>5
    <2> QED
      BY <1>1, <2>1, BackwardsOK, ReachedOn DEF BackwardWord
  <1> QED
    BY <1>1, <1>2, <1>4, <1>5, <1>6, <1>7, <1>8

\* Where no rune is longer than a byte, the end of a word is inside the line.
LEMMA EscapeWordOK ==
    ASSUME NEW k \in Line, \A p \in 1..k.len : k.buf[p] \notin Leading, NEW i \in 0..k.len
    PROVE  EscapeWord(k, i) \in i..k.len
  <1> DEFINE L == k.len
             stop(q) == q = 0 \/ q >= L \/ Separator(Rune(k, q)) \/ Separator(Rune(k, Backward(k, q)))
             D == 0..(2 * L)
             Loop(g) == [q \in D |-> IF stop(q) THEN q ELSE g[q + RuneLength(k, Backward(k, q))]]
             e == CHOOSE g : g = Loop(g)
             goes == {q \in D : ~stop(q)}
             next == [q \in D |-> q + RuneLength(k, Backward(k, q))]
  <1>1. EscapeWord(k, i) = e[i]
    BY DEF EscapeWord
  <1>2. L \in Nat /\ i \in Nat /\ i <= L
    BY DEF Line
  <1>3. \A q \in D : ~stop(q) => q # 0 /\ q < L
    BY <1>2
  <1>4. \A q \in 0..L : q # 0 /\ q < L => RuneLength(k, Backward(k, q)) = 1
    <2> SUFFICES ASSUME NEW q \in 0..L, q # 0, q < L PROVE RuneLength(k, Backward(k, q)) = 1
      OBVIOUS
    <2>1. q \in Nat /\ q > 0
      BY <1>2
    <2>2. Backward(k, q) \in 0..q /\ Backward(k, q) < q
      BY <2>1, BackwardOK
    <2>3. Backward(k, q) \in 0..k.len /\ Backward(k, q) < k.len /\ Backward(k, q) + 1 \in 1..k.len
      BY <1>2, <2>1, <2>2
    <2>4. k.buf[Backward(k, q) + 1] \notin Leading
      BY <2>3
    <2> QED
      BY <2>3, <2>4, RuneLengthOK
  <1> HIDE DEF L, stop
  <1>5. \A g : Walks(g, D, goes, next) <=> g = Loop(g)
    BY DEF Walks
  <1>6. \A q \in D : q \in goes => q < L /\ next[q] \in (q + 1)..L
    BY <1>2, <1>3, <1>4
  <1>7. /\ \E g : Walks(g, D, goes, next)
        /\ \A g : Walks(g, D, goes, next) => \A q \in D : q <= L => g[q] \in q..L
    <2>1. 2 * L \in Nat /\ L <= 2 * L
      BY <1>2
    <2> HIDE DEF goes, next
    <2> QED
      BY <1>2, <1>6, <2>1, WalkRight
  <1>8. e = Loop(e)
    BY <1>5, <1>7
  <1>9. i \in D
    BY <1>2
  <1>10. Walks(e, D, goes, next)
    BY <1>5, <1>8
  <1> HIDE DEF e, D
  <1>11. e[i] \in i..L
    BY <1>2, <1>7, <1>9, <1>10
  <1> QED
    BY <1>1, <1>11 DEF L

-----------------------------------------------------------------------------
(* Brackets.                                                               *)

\* The bracket that is found is in the line.
LEMMA MirrorLeftOK ==
    ASSUME NEW k \in Line, k.pos \in 0..k.len
    PROVE  \A m \in MirrorLeft(k) : m[1] \in 0..k.len /\ Reached(k, k.pos, m[1])
  <1> DEFINE L == k.len
             index == Backward(k, k.pos)
             p(x) == Backward(k, x[1])
             r(x) == Rune(k, p(x))
             deeper(x) == IF r(x) = Close THEN 1 ELSE IF r(x) = Open THEN -1 ELSE 0
             X == (0..L) \X Nat
             match(x) == r(x) = Open /\ x[2] = 0
             stop(x) == p(x) = 0 \/ match(x)
             end(x) == IF match(x) THEN {<<p(x), index>>} ELSE {}
             Loop(g) == [x \in X |-> IF stop(x) THEN end(x) ELSE g[<<p(x), x[2] + deeper(x)>>]]
             down == CHOOSE g : g = Loop(g)
             stops == {x \in X : stop(x)}
             out == [x \in X |-> end(x)]
             next == [x \in X |-> <<p(x), x[2] + deeper(x)>>]
             rank == [x \in X |-> x[1]]
             right == [x \in X |-> SUBSET ((0..L) \X {index})]
  <1>1. MirrorLeft(k) = IF index > 0 /\ Rune(k, index) = Close THEN down[<<index, 0>>] ELSE {}
    BY DEF MirrorLeft
  <1>2. L \in Nat /\ index \in 0..L
    <2>1. k.len \in Nat /\ k.pos \in Nat
      BY DEF Line
    <2>2. index \in 0..k.pos
      BY <2>1, BackwardOK
    <2> QED
      BY <2>1, <2>2
  <1>3. ASSUME NEW x \in X PROVE p(x) \in 0..x[1] /\ p(x) \in 0..L /\ (x[1] > 0 => p(x) < x[1])
    <2>1. x[1] \in Nat /\ x[1] <= L
      BY <1>2
    <2>2. Backward(k, x[1]) \in 0..x[1] /\ (x[1] > 0 => Backward(k, x[1]) < x[1])
      BY <2>1, BackwardOK
    <2> QED
      BY <1>2, <2>1, <2>2
  <1>16. ASSUME NEW x \in X, NEW G, Closed(k, G), x[1] \in G PROVE p(x) \in G
    BY <1>16 DEF Closed
  <1>17. ASSUME NEW G, Closed(k, G), k.pos \in G PROVE index \in G
    BY <1>17 DEF Closed
  <1> HIDE DEF p, L, index
  <1>4. \A x \in X : x \in stops => out[x] \in right[x]
    <2> SUFFICES ASSUME NEW x \in X PROVE end(x) \in SUBSET ((0..L) \X {index})
      BY DEF stops, out, right
    <2>1. p(x) \in 0..L
      BY <1>3
    <2> QED
      BY <2>1
  <1>5. ASSUME NEW x \in X, x \notin stops
        PROVE  next[x] \in X /\ rank[next[x]] < rank[x] /\ right[next[x]] \subseteq right[x]
    <2>1. p(x) # 0 /\ ~match(x)
      BY <1>5
    <2>2. p(x) \in 0..x[1] /\ p(x) \in 0..L /\ (x[1] > 0 => p(x) < x[1]) /\ x[1] \in 0..L /\ x[2] \in Nat
      BY <1>3
    <2>3. p(x) < x[1]
      BY <2>1, <2>2
    <2>4. x[2] + deeper(x) \in Nat
      BY <2>1, <2>2
    <2> HIDE DEF deeper, match
    <2>5. next[x] = <<p(x), x[2] + deeper(x)>> /\ next[x] \in X
      BY <2>2, <2>4
    <2>6. rank[next[x]] = p(x) /\ rank[x] = x[1]
      BY <2>5
    <2>7. right[next[x]] = right[x]
      BY <2>5
    <2> QED
      BY <2>3, <2>5, <2>6, <2>7
  <1>6. \A x \in X : rank[x] \in Nat
    BY <1>2
  <1>7. \A g : Ends(g, X, stops, out, next) <=> g = Loop(g)
    BY DEF Ends
  <1>8. \A x \in X : right[x] = SUBSET ((0..L) \X {index})
    OBVIOUS
  <1>18. ASSUME NEW G, Closed(k, G)
         PROVE  /\ \A x \in X : x[1] \in G /\ x \notin stops => next[x][1] \in G
                /\ \A x \in X : x[1] \in G /\ x \in stops => out[x] \in SUBSET (G \X {index})
    <2>1. \A x \in X : x \notin stops => next[x][1] = p(x)
      OBVIOUS
    <2>2. \A x \in X : x[1] \in G => p(x) \in G
      BY <1>16, <1>18
    <2>3. \A x \in X : p(x) \in G => end(x) \in SUBSET (G \X {index})
      OBVIOUS
    <2>4. \A x \in X : out[x] = end(x)
      OBVIOUS
    <2> HIDE DEF X, stops, out, next, end
    <2> QED
      BY <2>1, <2>2, <2>3, <2>4
  <1> HIDE DEF X, stops, out, next, rank, right
  <1>9. \E g : Ends(g, X, stops, out, next)
    BY <1>4, <1>5, <1>6, WalkEnds
  <1>10. \A g : Ends(g, X, stops, out, next) => \A x \in X : g[x] \in right[x]
    BY <1>4, <1>5, <1>6, WalkEnds
  <1>11. down = Loop(down)
    BY <1>7, <1>9
  <1>12. Ends(down, X, stops, out, next)
    BY <1>7, <1>11
  <1> HIDE DEF down
  <1>13. \A x \in X : down[x] \in SUBSET ((0..L) \X {index})
    BY <1>8, <1>10, <1>12
  <1>14. <<index, 0>> \in X
    BY <1>2 DEF X
  <1>15. MirrorLeft(k) \in SUBSET ((0..L) \X {index})
    BY <1>1, <1>13, <1>14
  <1>19. ASSUME NEW G, Closed(k, G), k.pos \in G PROVE MirrorLeft(k) \in SUBSET (G \X {index})
    <2> DEFINE H == {x \in X : x[1] \in G}
               A == SUBSET (G \X {index})
    <2>1. \A x \in X : x \in H /\ x \notin stops => next[x] \in H
      BY <1>5, <1>18, <1>19
    <2>2. \A x \in X : x \in H /\ x \in stops => out[x] \in A
      BY <1>18, <1>19
    <2>3. <<index, 0>> \in H
      BY <1>14, <1>17, <1>19
    <2>4. {} \in A
      OBVIOUS
    <2> HIDE DEF H, A
    <2>5. \A x \in X : x \in H => down[x] \in A
      <3>1. Leads(X, rank, stops, next)
        BY <1>5, <1>6 DEF Leads
      <3>2. Stays(X, stops, out, next, H, A)
        BY <2>1, <2>2 DEF Stays
      <3> QED
        BY <1>12, <3>1, <3>2, EndsWithin
    <2>6. MirrorLeft(k) \in A
      BY <1>1, <1>14, <2>3, <2>4, <2>5
    <2> QED
      BY <2>6 DEF A
  <1>20. ASSUME NEW m \in MirrorLeft(k) PROVE Reached(k, k.pos, m[1])
    BY <1>19 DEF Reached
  <1> QED
    BY <1>15, <1>20 DEF L

LEMMA MirrorRightOK ==
    ASSUME NEW k \in Line, k.pos \in 0..k.len
    PROVE  \A m \in MirrorRight(k) : m[2] \in 0..k.len /\ Reached(k, k.pos, m[2])
  <1> DEFINE L == k.len
             pos == k.pos
             p(x) == Forward(k, x[1])
             r(x) == Rune(k, p(x))
             deeper(x) == IF r(x) = Open THEN 1 ELSE IF r(x) = Close THEN -1 ELSE 0
             X == (0..L) \X Nat
             match(x) == r(x) = Close /\ x[2] = 0
             stop(x) == Forward(k, p(x)) >= L \/ match(x)
             end(x) == IF match(x) THEN {<<pos, p(x)>>} ELSE {}
             Loop(g) == [x \in X |-> IF stop(x) THEN end(x) ELSE g[<<p(x), x[2] + deeper(x)>>]]
             up == CHOOSE g : g = Loop(g)
             stops == {x \in X : stop(x)}
             out == [x \in X |-> end(x)]
             next == [x \in X |-> <<p(x), x[2] + deeper(x)>>]
             rank == [x \in X |-> L - x[1]]
             right == [x \in X |-> SUBSET ({pos} \X (0..L))]
  <1>1. MirrorRight(k) = IF Rune(k, pos) = Open THEN up[<<pos, 0>>] ELSE {}
    BY DEF MirrorRight
  <1>2. L \in Nat /\ pos \in 0..L
    BY DEF Line
  <1>3. ASSUME NEW x \in X
        PROVE  p(x) \in 0..L /\ (x[1] < L => p(x) > x[1]) /\ (x[1] = L => p(x) = L)
               /\ Forward(k, p(x)) \in p(x)..L
    <2>1. x[1] \in 0..k.len
      OBVIOUS
    <2>2. Forward(k, x[1]) \in x[1]..k.len /\ (x[1] < k.len => Forward(k, x[1]) > x[1])
      BY <2>1, ForwardOK
    <2>3. p(x) \in 0..k.len
      BY <1>2, <2>1, <2>2
    <2>4. Forward(k, p(x)) \in p(x)..k.len
      BY <2>3, ForwardOK
    <2> QED
      BY <1>2, <2>1, <2>2, <2>3, <2>4
  <1>4. \A x \in X : ~stop(x) => p(x) < L
    <2> SUFFICES ASSUME NEW x \in X, ~stop(x) PROVE p(x) < L
      OBVIOUS
    <2>1. Forward(k, p(x)) \in p(x)..L /\ p(x) \in 0..L
      BY <1>3
    <2>2. ~(Forward(k, p(x)) >= L)
      OBVIOUS
    <2> HIDE DEF p
    <2> QED
      BY <1>2, <2>1, <2>2
  <1>17. ASSUME NEW x \in X, NEW G, Closed(k, G), x[1] \in G PROVE p(x) \in G
    BY <1>17 DEF Closed
  <1> HIDE DEF p, L, pos
  <1>5. \A x \in X : x \in stops => out[x] \in right[x]
    <2> SUFFICES ASSUME NEW x \in X PROVE end(x) \in SUBSET ({pos} \X (0..L))
      BY DEF stops, out, right
    <2>1. p(x) \in 0..L
      BY <1>3
    <2> QED
      BY <2>1
  <1>6. ASSUME NEW x \in X, x \notin stops
        PROVE  next[x] \in X /\ rank[next[x]] < rank[x] /\ right[next[x]] \subseteq right[x]
    <2>1. ~match(x) /\ p(x) < L
      BY <1>4, <1>6
    <2>2. /\ p(x) \in 0..L /\ (x[1] < L => p(x) > x[1]) /\ (x[1] = L => p(x) = L)
          /\ x[1] \in 0..L /\ x[2] \in Nat
      BY <1>3
    <2>3. p(x) > x[1]
      BY <1>2, <2>1, <2>2
    <2>4. x[2] + deeper(x) \in Nat
      BY <2>1, <2>2
    <2> HIDE DEF deeper, match
    <2>5. next[x] = <<p(x), x[2] + deeper(x)>> /\ next[x] \in X
      BY <2>2, <2>4
    <2>6. rank[next[x]] = L - p(x) /\ rank[x] = L - x[1]
      BY <2>5
    <2>7. right[next[x]] = right[x]
      BY <2>5
    <2>8. L - p(x) < L - x[1]
      BY <1>2, <2>2, <2>3
    <2> QED
      BY <2>5, <2>6, <2>7, <2>8
  <1>7. \A x \in X : rank[x] \in Nat
    BY <1>2
  <1>8. \A g : Ends(g, X, stops, out, next) <=> g = Loop(g)
    BY DEF Ends
  <1>9. \A x \in X : right[x] = SUBSET ({pos} \X (0..L))
    OBVIOUS
  <1>18. ASSUME NEW G, Closed(k, G)
         PROVE  /\ \A x \in X : x[1] \in G /\ x \notin stops => next[x][1] \in G
                /\ \A x \in X : x[1] \in G /\ x \in stops => out[x] \in SUBSET ({pos} \X G)
    <2>1. \A x \in X : x \notin stops => next[x][1] = p(x)
      OBVIOUS
    <2>2. \A x \in X : x[1] \in G => p(x) \in G
      BY <1>17, <1>18
    <2>3. \A x \in X : p(x) \in G => end(x) \in SUBSET ({pos} \X G)
      OBVIOUS
    <2>4. \A x \in X : out[x] = end(x)
      OBVIOUS
    <2> HIDE DEF X, stops, out, next, end
    <2> QED
      BY <2>1, <2>2, <2>3, <2>4
  <1> HIDE DEF X, stops, out, next, rank, right
  <1>10. \E g : Ends(g, X, stops, out, next)
    BY <1>5, <1>6, <1>7, WalkEnds
  <1>11. \A g : Ends(g, X, stops, out, next) => \A x \in X : g[x] \in right[x]
    BY <1>5, <1>6, <1>7, WalkEnds
  <1>12. up = Loop(up)
    BY <1>8, <1>10
  <1>13. Ends(up, X, stops, out, next)
    BY <1>8, <1>12
  <1> HIDE DEF up
  <1>14. \A x \in X : up[x] \in SUBSET ({pos} \X (0..L))
    BY <1>9, <1>11, <1>13
  <1>15. <<pos, 0>> \in X
    BY <1>2 DEF X
  <1>16. MirrorRight(k) \in SUBSET ({pos} \X (0..L))
    BY <1>1, <1>14, <1>15
  <1>19. ASSUME NEW G, Closed(k, G), pos \in G PROVE MirrorRight(k) \in SUBSET ({pos} \X G)
    <2> DEFINE H == {x \in X : x[1] \in G}
               A == SUBSET ({pos} \X G)
    <2>1. \A x \in X : x \in H /\ x \notin stops => next[x] \in H
      BY <1>6, <1>18, <1>19
    <2>2. \A x \in X : x \in H /\ x \in stops => out[x] \in A
      BY <1>18, <1>19
    <2>3. <<pos, 0>> \in H
      BY <1>15, <1>19
    <2>4. {} \in A
      OBVIOUS
    <2> HIDE DEF H, A
    <2>5. \A x \in X : x \in H => up[x] \in A
      <3>1. Leads(X, rank, stops, next)
        BY <1>6, <1>7 DEF Leads
      <3>2. Stays(X, stops, out, next, H, A)
        BY <2>1, <2>2 DEF Stays
      <3> QED
        BY <1>13, <3>1, <3>2, EndsWithin
    <2>6. MirrorRight(k) \in A
      BY <1>1, <1>15, <2>3, <2>4, <2>5
    <2> QED
      BY <2>6 DEF A
  <1>20. ASSUME NEW m \in MirrorRight(k) PROVE Reached(k, k.pos, m[2])
    BY <1>19 DEF Reached, pos
  <1> QED
    BY <1>16, <1>20 DEF L

\* What a scan outside of brackets finds is on its way.
LEMMA ScanRightOK ==
    ASSUME NEW k \in Line, NEW p \in 0..k.len, NEW kind
    PROVE  ScanRight(k, p, kind) \in p..k.len /\ Reached(k, p, ScanRight(k, p, kind))
  <1> DEFINE L == k.len
             r(x) == Rune(k, x[1])
             inside(x) == IF x[2] = 0 THEN r(x) = Open ELSE r(x) # Close
             stop(x) == x[1] = L \/ (x[2] = 0 /\ r(x) # Open /\ Is(kind, r(x)))
             X == (0..L) \X (0..1)
             Loop(g) == [x \in X |-> IF stop(x) THEN x[1]
                                     ELSE g[<<Forward(k, x[1]), IF inside(x) THEN 1 ELSE 0>>]]
             to == CHOOSE g : g = Loop(g)
             stops == {x \in X : stop(x)}
             out == [x \in X |-> x[1]]
             next == [x \in X |-> <<Forward(k, x[1]), IF inside(x) THEN 1 ELSE 0>>]
             rank == [x \in X |-> L - x[1]]
             right == [x \in X |-> x[1]..L]
  <1>1. ScanRight(k, p, kind) = to[<<p, 0>>]
    BY DEF ScanRight
  <1>2. L \in Nat /\ p \in 0..L
    BY DEF Line
  <1>3. \A q \in 0..L : q < L => Forward(k, q) \in (q + 1)..L
    <2> SUFFICES ASSUME NEW q \in 0..L, q < L PROVE Forward(k, q) \in (q + 1)..L
      OBVIOUS
    <2>1. Forward(k, q) \in q..L /\ Forward(k, q) > q
      BY ForwardOK
    <2> QED
      BY <1>2, <2>1
  <1>4. \A x \in X : ~stop(x) => x[1] # L
    OBVIOUS
  <1> HIDE DEF L, stop, inside
  <1>5. \A x \in X : x \in stops => out[x] \in right[x]
    BY <1>2
  <1>6. ASSUME NEW x \in X, x \notin stops
        PROVE  next[x] \in X /\ rank[next[x]] < rank[x] /\ right[next[x]] \subseteq right[x]
    <2>1. x[1] \in 0..L /\ x[1] < L
      BY <1>2, <1>4, <1>6
    <2>2. Forward(k, x[1]) \in (x[1] + 1)..L
      BY <1>3, <2>1
    <2>3. /\ next[x] = <<Forward(k, x[1]), IF inside(x) THEN 1 ELSE 0>> /\ next[x] \in X
      BY <1>2, <2>1, <2>2
    <2>4. rank[next[x]] = L - Forward(k, x[1]) /\ rank[x] = L - x[1]
      BY <2>3
    <2>5. right[next[x]] = Forward(k, x[1])..L /\ right[x] = x[1]..L
      BY <2>3
    <2>6. L - Forward(k, x[1]) < L - x[1] /\ Forward(k, x[1])..L \subseteq x[1]..L
      BY <1>2, <2>1, <2>2
    <2> QED
      BY <2>3, <2>4, <2>5, <2>6
  <1>7. \A x \in X : rank[x] \in Nat
    BY <1>2
  <1>8. \A g : Ends(g, X, stops, out, next) <=> g = Loop(g)
    BY DEF Ends
  <1>9. <<p, 0>> \in X /\ right[<<p, 0>>] = p..L
    BY <1>2
  <1>15. ASSUME NEW G, Closed(k, G)
         PROVE  /\ \A x \in X : x[1] \in G /\ x \notin stops => next[x][1] \in G
                /\ \A x \in X : x[1] \in G /\ x \in stops => out[x] \in G
    <2>1. \A x \in X : x[1] \in 0..k.len /\ next[x][1] = Forward(k, x[1]) /\ out[x] = x[1]
      BY DEF L
    <2> HIDE DEF X, stops, out, next
    <2> QED
      BY <1>15, <2>1 DEF Closed
  <1> HIDE DEF X, stops, out, next, rank, right
  <1>10. \E g : Ends(g, X, stops, out, next)
    BY <1>5, <1>6, <1>7, WalkEnds
  <1>11. \A g : Ends(g, X, stops, out, next) => \A x \in X : g[x] \in right[x]
    BY <1>5, <1>6, <1>7, WalkEnds
  <1>12. to = Loop(to)
    BY <1>8, <1>10
  <1>13. Ends(to, X, stops, out, next)
    BY <1>8, <1>12
  <1> HIDE DEF to
  <1>14. to[<<p, 0>>] \in p..L
    BY <1>9, <1>11, <1>13
  <1>16. ASSUME NEW G, Closed(k, G), p \in G PROVE to[<<p, 0>>] \in G
    <2> DEFINE H == {x \in X : x[1] \in G}
    <2>1. \A x \in X : x \in H /\ x \notin stops => next[x] \in H
      BY <1>6, <1>15, <1>16
    <2>2. \A x \in X : x \in H /\ x \in stops => out[x] \in G
      BY <1>15, <1>16
    <2>3. <<p, 0>> \in H /\ <<p, 0>> \in X
      BY <1>9, <1>16
    <2> HIDE DEF H
    <2>4. \A x \in X : x \in H => to[x] \in G
      <3>1. Leads(X, rank, stops, next)
        BY <1>6, <1>7 DEF Leads
      <3>2. Stays(X, stops, out, next, H, G)
        BY <2>1, <2>2 DEF Stays
      <3> QED
        BY <1>13, <3>1, <3>2, EndsWithin
    <2> QED
      BY <2>3, <2>4
  <1> QED
    BY <1>1, <1>14, <1>16 DEF L, Reached

LEMMA ScanLeftOK ==
    ASSUME NEW k \in Line, NEW p \in 0..k.len
    PROVE  ScanLeft(k, p) \in 0..p /\ Reached(k, p, ScanLeft(k, p))
  <1> DEFINE L == k.len
             r(x) == Rune(k, Backward(k, x[1]))
             inside(x) == IF x[2] = 0 THEN r(x) = Close ELSE r(x) # Open
             stop(x) == x[1] = 0 \/ (x[2] = 0 /\ r(x) # Close /\ Separator(r(x)))
             X == (0..L) \X (0..1)
             Loop(g) == [x \in X |-> IF stop(x) THEN x[1]
                                     ELSE g[<<Backward(k, x[1]), IF inside(x) THEN 1 ELSE 0>>]]
             to == CHOOSE g : g = Loop(g)
             stops == {x \in X : stop(x)}
             out == [x \in X |-> x[1]]
             next == [x \in X |-> <<Backward(k, x[1]), IF inside(x) THEN 1 ELSE 0>>]
             rank == [x \in X |-> x[1]]
             right == [x \in X |-> 0..x[1]]
  <1>1. ScanLeft(k, p) = to[<<p, 0>>]
    BY DEF ScanLeft
  <1>2. L \in Nat /\ p \in 0..L
    BY DEF Line
  <1>3. \A x \in X : ~stop(x) => x[1] # 0
    OBVIOUS
  <1> HIDE DEF L, stop, inside
  <1>4. \A x \in X : x \in stops => out[x] \in right[x]
    BY <1>2
  <1>5. ASSUME NEW x \in X, x \notin stops
        PROVE  next[x] \in X /\ rank[next[x]] < rank[x] /\ right[next[x]] \subseteq right[x]
    <2>1. x[1] \in 0..L /\ x[1] \in Nat /\ x[1] > 0
      BY <1>2, <1>3, <1>5
    <2>2. Backward(k, x[1]) \in 0..x[1] /\ Backward(k, x[1]) < x[1]
      BY <2>1, BackwardOK
    <2>3. /\ next[x] = <<Backward(k, x[1]), IF inside(x) THEN 1 ELSE 0>> /\ next[x] \in X
      BY <1>2, <2>1, <2>2
    <2>4. rank[next[x]] = Backward(k, x[1]) /\ rank[x] = x[1]
      BY <2>3
    <2>5. right[next[x]] = 0..Backward(k, x[1]) /\ right[x] = 0..x[1]
      BY <2>3
    <2>6. 0..Backward(k, x[1]) \subseteq 0..x[1]
      BY <1>2, <2>1, <2>2
    <2> QED
      BY <2>2, <2>3, <2>4, <2>5, <2>6
  <1>6. \A x \in X : rank[x] \in Nat
    BY <1>2
  <1>7. \A g : Ends(g, X, stops, out, next) <=> g = Loop(g)
    BY DEF Ends
  <1>8. <<p, 0>> \in X /\ right[<<p, 0>>] = 0..p
    BY <1>2
  <1>14. ASSUME NEW G, Closed(k, G)
         PROVE  /\ \A x \in X : x[1] \in G /\ x \notin stops => next[x][1] \in G
                /\ \A x \in X : x[1] \in G /\ x \in stops => out[x] \in G
    <2>1. \A x \in X : x[1] \in 0..k.len /\ next[x][1] = Backward(k, x[1]) /\ out[x] = x[1]
      BY DEF L
    <2> HIDE DEF X, stops, out, next
    <2> QED
      BY <1>14, <2>1 DEF Closed
  <1> HIDE DEF X, stops, out, next, rank, right
  <1>9. \E g : Ends(g, X, stops, out, next)
    BY <1>4, <1>5, <1>6, WalkEnds
  <1>10. \A g : Ends(g, X, stops, out, next) => \A x \in X : g[x] \in right[x]
    BY <1>4, <1>5, <1>6, WalkEnds
  <1>11. to = Loop(to)
    BY <1>7, <1>9
  <1>12. Ends(to, X, stops, out, next)
    BY <1>7, <1>11
  <1> HIDE DEF to
  <1>13. to[<<p, 0>>] \in 0..p
    BY <1>8, <1>10, <1>12
  <1>15. ASSUME NEW G, Closed(k, G), p \in G PROVE to[<<p, 0>>] \in G
    <2> DEFINE H == {x \in X : x[1] \in G}
    <2>1. \A x \in X : x \in H /\ x \notin stops => next[x] \in H
      BY <1>5, <1>14, <1>15
    <2>2. \A x \in X : x \in H /\ x \in stops => out[x] \in G
      BY <1>14, <1>15
    <2>3. <<p, 0>> \in H /\ <<p, 0>> \in X
      BY <1>8, <1>15
    <2> HIDE DEF H
    <2>4. \A x \in X : x \in H => to[x] \in G
      <3>1. Leads(X, rank, stops, next)
        BY <1>5, <1>6 DEF Leads
      <3>2. Stays(X, stops, out, next, H, G)
        BY <2>1, <2>2 DEF Stays
      <3> QED
        BY <1>12, <3>1, <3>2, EndsWithin
    <2> QED
      BY <2>3, <2>4
  <1> QED
    BY <1>1, <1>13, <1>15 DEF Reached

-----------------------------------------------------------------------------
(* The buffer.                                                             *)

\* What every key needs of the line, but for the cursor; and the cursor.
Sized(k) == /\ k \in Line /\ k.len <= Len(k.buf) /\ Len(k.buf) < k.buflen
            /\ 2 <= k.buflen /\ k.yi <= k.yj
Fine(k) == Sized(k) /\ k.pos \in 0..k.len

\* A line of the same place in the history.
Kept(k, j) == Fine(j) /\ j.hindex = k.hindex

\* The buffer grows by halves, once it holds two bytes, until there is room.
LEMMA GrownOK ==
    ASSUME NEW m \in Nat, NEW n \in Nat, 2 <= m
    PROVE  Grown(m, n) \in Nat /\ Grown(m, n) >= n /\ Grown(m, n) >= m
  <1> DEFINE X == m..(2 * n)
             Loop(g) == [q \in X |-> IF q >= n THEN q ELSE g[q + q \div 2]]
             up == CHOOSE g : g = Loop(g)
             stops == {q \in X : q >= n}
             out == [q \in X |-> q]
             next == [q \in X |-> q + q \div 2]
             rank == [q \in X |-> 2 * n - q]
             right == [q \in X |-> {v \in Nat : v >= n /\ v >= m}]
  <1>1. Grown(m, n) = IF m >= n THEN m ELSE up[m]
    BY DEF Grown
  <1>2. ASSUME NEW q \in X PROVE q \in Nat /\ q >= m /\ q >= 2 /\ q \div 2 \in 1..q /\ 2 * (q \div 2) <= q
    <2>1. q \in Nat /\ q >= m /\ q >= 2
      OBVIOUS
    <2> QED
      BY <2>1
  <1>3. \A q \in X : q \in stops => out[q] \in right[q]
    BY <1>2
  <1>4. ASSUME NEW q \in X, q \notin stops
        PROVE  next[q] \in X /\ rank[next[q]] < rank[q] /\ right[next[q]] \subseteq right[q]
    <2>1. q \in Nat /\ q < n /\ q >= m /\ q \div 2 \in 1..q
      BY <1>2, <1>4
    <2> DEFINE h == q \div 2
    <2>2. h \in 1..q /\ next[q] = q + h
      BY <2>1
    <2> HIDE DEF h
    <2>3. q + h \in X
      BY <2>1, <2>2
    <2>4. rank[q + h] = 2 * n - (q + h) /\ rank[q] = 2 * n - q
      BY <2>3
    <2>5. 2 * n - (q + h) < 2 * n - q
      BY <2>1, <2>2
    <2>6. right[q + h] = right[q]
      BY <2>3
    <2> QED
      BY <2>2, <2>3, <2>4, <2>5, <2>6
  <1>5. \A q \in X : rank[q] \in Nat
    OBVIOUS
  <1>6. \A g : Ends(g, X, stops, out, next) <=> g = Loop(g)
    BY DEF Ends
  <1>7. m < n => m \in X
    OBVIOUS
  <1>8. \A q \in X : right[q] = {v \in Nat : v >= n /\ v >= m}
    OBVIOUS
  <1> HIDE DEF X, stops, out, next, rank, right
  <1>9. \E g : Ends(g, X, stops, out, next)
    BY <1>3, <1>4, <1>5, WalkEnds
  <1>10. \A g : Ends(g, X, stops, out, next) => \A q \in X : g[q] \in right[q]
    BY <1>3, <1>4, <1>5, WalkEnds
  <1>11. up = Loop(up)
    BY <1>6, <1>9
  <1>12. Ends(up, X, stops, out, next)
    BY <1>6, <1>11
  <1> HIDE DEF up
  <1>13. m < n => up[m] \in Nat /\ up[m] >= n /\ up[m] >= m
    BY <1>7, <1>8, <1>10, <1>12
  <1> QED
    BY <1>1, <1>13

\* A part of a text, and a part that is not there.
LEMMA BytesOK ==
    ASSUME NEW s \in Seq(Byte), NEW j \in 0..Len(s), NEW i \in 0..j
    PROVE  Bytes(s, i, j) \in Seq(Byte) /\ Len(Bytes(s, i, j)) = j - i
  <1>1. Len(s) \in Nat /\ i + 1 \in Int /\ j \in Int
    OBVIOUS
  <1>2. \A q \in (i + 1)..j : s[q] \in Byte
    <2>1. \A q \in (i + 1)..j : q \in 1..Len(s)
      BY <1>1
    <2> QED
      BY <2>1
  <1>3. /\ SubSeq(s, i + 1, j) \in Seq(Byte)
        /\ Len(SubSeq(s, i + 1, j)) = IF i + 1 <= j THEN j - (i + 1) + 1 ELSE 0
    BY <1>1, <1>2, SubSeqProperties
  <1> QED
    BY <1>1, <1>3 DEF Bytes

LEMMA BytesEmpty ==
    ASSUME NEW s, NEW i \in Nat, NEW j \in Nat, j <= i
    PROVE  Bytes(s, i, j) = <<>>
  BY SubSeqEmpty DEF Bytes

LEMMA Joined ==
    ASSUME NEW s \in Seq(Byte), NEW t \in Seq(Byte)
    PROVE  s \o t \in Seq(Byte) /\ Len(s \o t) = Len(s) + Len(t)
  BY ConcatProperties

LEMMA AtOK ==
    ASSUME NEW k, Sized(k), NEW p \in 0..k.len
    PROVE  Kept(k, At(k, p))
  <1>1. k.len \in Nat /\ p \in Int
    BY DEF Sized, Line
  <1> QED
    BY <1>1 DEF Kept, Fine, Sized, At, Line

\* Taking out a part of the line leaves a line.
LEMMA CutOK ==
    ASSUME NEW k, Sized(k), NEW j \in 0..k.len, NEW i \in 0..j
    PROVE  /\ Sized(Cut(k, i, j)) /\ Cut(k, i, j).len = k.len - (j - i)
           /\ Cut(k, i, j).pos = k.pos /\ Cut(k, i, j).hindex = k.hindex
  <1> DEFINE b == k.buf
             L == k.len
             cut == Cut(k, i, j)
             text == IF Settled(k) THEN Bytes(b, 0, i) \o Bytes(b, j, L)
                     ELSE Bytes(b, 0, i) \o Bytes(b, j, L + 1) \o Bytes(b, i + L - j + 1, Len(b))
  <1>1. k \in Line /\ b \in Seq(Byte) /\ Len(b) \in Nat /\ L \in Nat /\ L <= Len(b)
    BY DEF Sized, Line
  <1>2. i \in Nat /\ j \in Nat /\ i <= j /\ j <= L
    BY <1>1
  <1>3. Bytes(b, 0, i) \in Seq(Byte) /\ Len(Bytes(b, 0, i)) = i
    <2>1. i \in 0..Len(b) /\ 0 \in 0..i /\ i - 0 = i
      BY <1>1, <1>2
    <2> QED
      BY <1>1, <2>1, BytesOK
  <1>4. text \in Seq(Byte) /\ Len(text) >= L - (j - i) /\ Len(text) <= Len(b)
    <2>1. CASE Settled(k)
      <3>1. Bytes(b, j, L) \in Seq(Byte) /\ Len(Bytes(b, j, L)) = L - j
        <4>1. L \in 0..Len(b) /\ j \in 0..L
          BY <1>1, <1>2
        <4> QED
          BY <1>1, <4>1, BytesOK
      <3>2. text = Bytes(b, 0, i) \o Bytes(b, j, L)
        BY <2>1
      <3>3. text \in Seq(Byte) /\ Len(text) = i + (L - j)
        BY <1>3, <3>1, <3>2, Joined
      <3> HIDE DEF text, L
      <3> QED
        BY <1>1, <1>2, <3>3
    <2>2. CASE ~Settled(k)
      <3>1. L + 1 <= Len(b)
        BY <1>1, <2>2 DEF Settled
      <3>2. Bytes(b, j, L + 1) \in Seq(Byte) /\ Len(Bytes(b, j, L + 1)) = L + 1 - j
        <4> DEFINE m == L + 1
        <4>1. m \in 0..Len(b) /\ j \in 0..m
          BY <1>1, <1>2, <3>1
        <4>2. b \in Seq(Byte)
          BY <1>1
        <4> HIDE DEF m, b, L, text, cut
        <4>3. Bytes(b, j, m) \in Seq(Byte) /\ Len(Bytes(b, j, m)) = m - j
          BY <4>1, <4>2, BytesOK
        <4>4. m - j = L + 1 - j
          BY <1>1, <1>2 DEF m
        <4> QED
          BY <4>3, <4>4 DEF m
      <3> DEFINE n == i + L - j + 1
      <3>3. Bytes(b, n, Len(b)) \in Seq(Byte) /\ Len(Bytes(b, n, Len(b))) = Len(b) - n
        <4>1. Len(b) \in 0..Len(b) /\ n \in 0..Len(b)
          BY <1>1, <1>2, <3>1
        <4> QED
          BY <1>1, <4>1, BytesOK
      <3>4. text = Bytes(b, 0, i) \o Bytes(b, j, L + 1) \o Bytes(b, n, Len(b))
        BY <2>2
      <3>5. /\ Bytes(b, 0, i) \o Bytes(b, j, L + 1) \in Seq(Byte)
            /\ Len(Bytes(b, 0, i) \o Bytes(b, j, L + 1)) = i + (L + 1 - j)
        BY <1>3, <3>2, Joined
      <3>6. text \in Seq(Byte) /\ Len(text) = (i + (L + 1 - j)) + (Len(b) - n)
        BY <3>3, <3>4, <3>5, Joined
      <3> HIDE DEF text, L, b
      <3> QED
        BY <1>1, <1>2, <3>1, <3>6
    <2> QED
      BY <2>1, <2>2
  <1>5. cut = [k EXCEPT !.buf = text, !.len = L - (j - i)]
    BY DEF Cut
  <1>6. L - (j - i) \in Nat
    BY <1>1, <1>2
  <1>7. Len(b) < k.buflen /\ k.buflen \in Nat /\ Len(text) \in Nat
    BY <1>4 DEF Sized, Line
  <1>8. Len(text) < k.buflen
    BY <1>1, <1>4, <1>7
  <1> HIDE DEF text, cut
  <1>9. cut \in Line
    BY <1>1, <1>4, <1>5, <1>6 DEF Line
  <1>10. /\ cut.buf = text /\ cut.len = L - (j - i) /\ cut.pos = k.pos /\ cut.hindex = k.hindex
         /\ cut.buflen = k.buflen /\ cut.yi = k.yi /\ cut.yj = k.yj
    BY <1>5, <1>9 DEF Line
  <1> QED
    BY <1>4, <1>8, <1>9, <1>10 DEF Sized, cut

\* And the zero is at its end, if it was before.
LEMMA CutSettled ==
    ASSUME NEW k, Sized(k), Settled(k), NEW j \in 0..k.len, NEW i \in 0..j
    PROVE  /\ Settled(Cut(k, i, j))
           /\ Cut(k, i, j).buf = Bytes(k.buf, 0, i) \o Bytes(k.buf, j, k.len)
  <1> DEFINE b == k.buf
             head == Bytes(b, 0, i)
             tail == Bytes(b, j, k.len)
  <1>1. k \in Line /\ b \in Seq(Byte) /\ Len(b) = k.len /\ k.len \in Nat /\ i \in Nat /\ j \in Nat
    BY DEF Sized, Line, Settled
  <1>2. head \in Seq(Byte) /\ Len(head) = i
    <2>1. i \in 0..Len(b) /\ 0 \in 0..i /\ i - 0 = i
      BY <1>1
    <2> QED
      BY <1>1, <2>1, BytesOK
  <1>3. tail \in Seq(Byte) /\ Len(tail) = k.len - j
    <2>1. k.len \in 0..Len(b)
      BY <1>1
    <2> QED
      BY <1>1, <2>1, BytesOK
  <1>4. Cut(k, i, j) = [k EXCEPT !.buf = head \o tail, !.len = k.len - (j - i)]
    BY DEF Cut
  <1> HIDE DEF head, tail
  <1>5. Cut(k, i, j).buf = head \o tail /\ Cut(k, i, j).len = k.len - (j - i)
    BY <1>1, <1>4 DEF Line
  <1>6. Len(head \o tail) = i + (k.len - j)
    BY <1>2, <1>3, Joined
  <1>7. Settled(Cut(k, i, j))
    BY <1>1, <1>5, <1>6 DEF Settled
  <1> QED
    BY <1>5, <1>7 DEF head, tail

\* And putting the cursor inside of what is left.
LEMMA CutAtOK ==
    ASSUME NEW k, Sized(k), NEW j \in 0..k.len, NEW i \in 0..j, NEW p \in 0..(k.len - (j - i))
    PROVE  Kept(k, At(Cut(k, i, j), p))
  <1>1. Sized(Cut(k, i, j)) /\ Cut(k, i, j).len = k.len - (j - i) /\ Cut(k, i, j).hindex = k.hindex
    BY CutOK
  <1>2. Kept(Cut(k, i, j), At(Cut(k, i, j), p))
    BY <1>1, AtOK
  <1> QED
    BY <1>1, <1>2 DEF Kept

LEMMA Joined3 ==
    ASSUME NEW s \in Seq(Byte), NEW t \in Seq(Byte), NEW u \in Seq(Byte)
    PROVE  s \o t \o u \in Seq(Byte) /\ Len(s \o t \o u) = Len(s) + Len(t) + Len(u)
  <1>1. s \o t \in Seq(Byte) /\ Len(s \o t) = Len(s) + Len(t)
    BY Joined
  <1>2. s \o t \o u \in Seq(Byte) /\ Len(s \o t \o u) = Len(s \o t) + Len(u)
    BY <1>1, Joined
  <1> QED
    BY <1>1, <1>2

\* Two parts of a text change places, next to each other and around a third.
LEMMA Swapped ==
    ASSUME NEW s \in Seq(Byte), NEW c \in 0..Len(s), NEW b \in 0..c, NEW a \in 0..b
    PROVE  LET t == Bytes(s, 0, a) \o Bytes(s, b, c) \o Bytes(s, a, b) \o Bytes(s, c, Len(s))
           IN  t \in Seq(Byte) /\ Len(t) = Len(s)
  <1> DEFINE n == Len(s)
  <1>1. n \in Nat /\ a \in Nat /\ b \in Nat /\ c \in Nat /\ a <= b /\ b <= c /\ c <= n
    OBVIOUS
  <1>2. Bytes(s, 0, a) \in Seq(Byte) /\ Len(Bytes(s, 0, a)) = a
    <2>1. a \in 0..Len(s) /\ 0 \in 0..a /\ a - 0 = a
      BY <1>1
    <2> QED
      BY <2>1, BytesOK
  <1>3. Bytes(s, b, c) \in Seq(Byte) /\ Len(Bytes(s, b, c)) = c - b
    BY BytesOK
  <1>4. Bytes(s, a, b) \in Seq(Byte) /\ Len(Bytes(s, a, b)) = b - a
    <2>1. b \in 0..Len(s)
      BY <1>1
    <2> QED
      BY <2>1, BytesOK
  <1>5. Bytes(s, c, n) \in Seq(Byte) /\ Len(Bytes(s, c, n)) = n - c
    <2>1. n \in 0..Len(s) /\ c \in 0..n
      BY <1>1
    <2> QED
      BY <2>1, BytesOK
  <1> DEFINE t == Bytes(s, 0, a) \o Bytes(s, b, c) \o Bytes(s, a, b)
             u == t \o Bytes(s, c, n)
  <1>6. t \in Seq(Byte) /\ Len(t) = a + (c - b) + (b - a)
    BY <1>2, <1>3, <1>4, Joined3
  <1>7. u \in Seq(Byte) /\ Len(u) = Len(t) + (n - c)
    <2> HIDE DEF t, n
    <2> QED
      BY <1>5, <1>6, Joined
  <1>8. Len(u) = n
    <2> HIDE DEF t, u, n
    <2> QED
      BY <1>1, <1>6, <1>7
  <1> QED
    BY <1>7, <1>8

Around(s, a, b, c, d) ==
    Bytes(s, 0, a) \o Bytes(s, c, d) \o Bytes(s, b, c) \o Bytes(s, a, b) \o Bytes(s, d, Len(s))

LEMMA SwappedAround ==
    ASSUME NEW s \in Seq(Byte), NEW d \in 0..Len(s), NEW c \in 0..d, NEW b \in 0..c, NEW a \in 0..b
    PROVE  Around(s, a, b, c, d) \in Seq(Byte) /\ Len(Around(s, a, b, c, d)) = Len(s)
  <1> DEFINE n == Len(s)
  <1>1. /\ n \in Nat /\ a \in Nat /\ b \in Nat /\ c \in Nat /\ d \in Nat
        /\ a <= b /\ b <= c /\ c <= d /\ d <= n
    OBVIOUS
  <1>2. Bytes(s, 0, a) \in Seq(Byte) /\ Len(Bytes(s, 0, a)) = a
    <2>1. a \in 0..Len(s) /\ 0 \in 0..a /\ a - 0 = a
      BY <1>1
    <2> QED
      BY <2>1, BytesOK
  <1>3. Bytes(s, c, d) \in Seq(Byte) /\ Len(Bytes(s, c, d)) = d - c
    BY BytesOK
  <1>4. Bytes(s, b, c) \in Seq(Byte) /\ Len(Bytes(s, b, c)) = c - b
    <2>1. c \in 0..Len(s)
      BY <1>1
    <2> QED
      BY <2>1, BytesOK
  <1>5. Bytes(s, a, b) \in Seq(Byte) /\ Len(Bytes(s, a, b)) = b - a
    <2>1. b \in 0..Len(s)
      BY <1>1
    <2> QED
      BY <2>1, BytesOK
  <1>6. Bytes(s, d, n) \in Seq(Byte) /\ Len(Bytes(s, d, n)) = n - d
    <2>1. n \in 0..Len(s) /\ d \in 0..n
      BY <1>1
    <2> QED
      BY <2>1, BytesOK
  <1> DEFINE t == Bytes(s, 0, a) \o Bytes(s, c, d) \o Bytes(s, b, c)
             u == t \o Bytes(s, a, b) \o Bytes(s, d, n)
  <1>7. t \in Seq(Byte) /\ Len(t) = a + (d - c) + (c - b)
    BY <1>2, <1>3, <1>4, Joined3, SMTT(30)
  <1>8. /\ u \in Seq(Byte)
        /\ Len(u) = Len(t) + Len(Bytes(s, a, b)) + Len(Bytes(s, d, n))
    <2> HIDE DEF t, n
    <2> QED
      BY <1>5, <1>6, <1>7, Joined3
  <1>9. Len(u) = n
    <2>1. Len(u) = Len(t) + (b - a) + (n - d)
      BY <1>5, <1>6, <1>8
    <2> HIDE DEF t, u, n
    <2> QED
      BY <1>1, <1>7, <2>1
  <1> QED
    BY <1>8, <1>9 DEF Around

\* The line with another text, in a buffer it fits into.
LEMMA RewrittenOK ==
    ASSUME NEW k, Sized(k), NEW text \in Seq(Byte), NEW n \in 0..Len(text), NEW p \in 0..n,
           NEW m \in Nat, Len(text) < m, 2 <= m, NEW j \in Line,
           j.buf = text, j.len = n, j.pos = p, j.buflen = m, j.hindex = k.hindex, j.yi <= j.yj
    PROVE  Kept(k, j)
  BY DEF Kept, Fine, Sized, Line

\* With a text of the same length in the same buffer.
LEMMA ReplacedOK ==
    ASSUME NEW k, Sized(k), NEW text \in Seq(Byte), Len(text) = Len(k.buf), NEW p \in 0..k.len
    PROVE  Kept(k, [k EXCEPT !.pos = p, !.buf = text])
  <1> DEFINE j == [k EXCEPT !.pos = p, !.buf = text]
  <1>1. k \in Line /\ p \in Int
    BY DEF Sized, Line
  <1>2. j \in Line
    BY <1>1 DEF Line
  <1>3. j.buf = text /\ j.len = k.len /\ j.pos = p /\ j.buflen = k.buflen /\ j.hindex = k.hindex
        /\ j.yi = k.yi /\ j.yj = k.yj
    BY <1>1 DEF Line
  <1> HIDE DEF j
  <1>4. Kept(k, j)
    BY <1>2, <1>3 DEF Kept, Fine, Sized
  <1> QED
    BY <1>4 DEF j

-----------------------------------------------------------------------------
(* The keys that put text in.                                              *)

LEMMA InsertOK ==
    ASSUME NEW k, Fine(k), NEW s \in Seq(Byte)
    PROVE  Kept(k, Insert(k, s))
  <1> DEFINE text == Bytes(k.buf, 0, k.pos) \o s \o Bytes(k.buf, k.pos, k.len)
             n == k.len + Len(s)
             p == k.pos + Len(s)
             m == Grown(k.buflen, n + 1)
             j == Insert(k, s)
  <1>1. /\ k \in Line /\ k.buf \in Seq(Byte) /\ k.len \in Nat /\ k.pos \in 0..k.len
        /\ k.len <= Len(k.buf) /\ Len(k.buf) \in Nat /\ k.buflen \in Nat /\ 2 <= k.buflen /\ Len(s) \in Nat
    BY DEF Fine, Sized, Line
  <1>2. Bytes(k.buf, 0, k.pos) \in Seq(Byte) /\ Len(Bytes(k.buf, 0, k.pos)) = k.pos
    <2>1. k.pos \in 0..Len(k.buf) /\ 0 \in 0..k.pos /\ k.pos - 0 = k.pos
      BY <1>1
    <2> QED
      BY <1>1, <2>1, BytesOK
  <1>3. Bytes(k.buf, k.pos, k.len) \in Seq(Byte) /\ Len(Bytes(k.buf, k.pos, k.len)) = k.len - k.pos
    <2>1. k.len \in 0..Len(k.buf)
      BY <1>1
    <2> QED
      BY <1>1, <2>1, BytesOK
  <1>4. text \in Seq(Byte) /\ Len(text) = k.pos + Len(s) + (k.len - k.pos)
    BY <1>2, <1>3, Joined3
  <1>5. n \in Nat /\ n + 1 \in Nat /\ p \in 0..n
    BY <1>1, SMTT(30)
  <1>6. Len(text) = n
    <2> HIDE DEF text
    <2> QED
      BY <1>1, <1>4
  <1>7. m \in Nat /\ m >= n + 1 /\ m >= k.buflen
    <2> HIDE DEF n
    <2> QED
      BY <1>1, <1>5, GrownOK
  <1>8. j = [k EXCEPT !.buf = text, !.pos = p, !.len = n, !.buflen = m]
    BY DEF Insert
  <1> HIDE DEF text, n, p, m, j
  <1>9. j \in Line
    <2>1. p \in Int
      BY <1>5
    <2> QED
      BY <1>1, <1>4, <1>5, <1>7, <1>8, <2>1 DEF Line
  <1>10. /\ j.buf = text /\ j.len = n /\ j.pos = p /\ j.buflen = m /\ j.hindex = k.hindex
         /\ j.yi = k.yi /\ j.yj = k.yj
    BY <1>1, <1>8 DEF Line
  <1>11. k.yi <= k.yj /\ Sized(k)
    BY DEF Fine, Sized
  <1>12. n \in 0..Len(text) /\ Len(text) < m /\ 2 <= m
    BY <1>1, <1>5, <1>6, <1>7
  <1>13. Kept(k, j)
    BY <1>4, <1>5, <1>7, <1>9, <1>10, <1>11, <1>12, RewrittenOK
  <1> QED
    BY <1>13 DEF j

\* A yank into a line that a zero ends.
LEMMA YankOK ==
    ASSUME NEW k, Fine(k), NEW s \in Seq(Byte), Settled(k)
    PROVE  Kept(k, Yank(k, s))
  <1> DEFINE b == k.buf
             z == Len(s)
             head == Bytes(b, 0, k.pos)
             tail == Bytes(b, k.pos, k.len)
             text == head \o s \o tail
             n == k.len + z
             p == k.pos + z
             m == Grown(k.buflen, n + 1)
             j == Yank(k, s)
  <1>1. /\ k \in Line /\ b \in Seq(Byte) /\ k.len \in Nat /\ k.pos \in 0..k.len /\ k.len = Len(b)
        /\ Len(b) \in Nat /\ k.buflen \in Nat /\ 2 <= k.buflen /\ Len(b) < k.buflen /\ z \in Nat
    BY DEF Fine, Sized, Line, Settled
  <1>2. head \in Seq(Byte) /\ Len(head) = k.pos
    <2>1. k.pos \in 0..Len(b) /\ 0 \in 0..k.pos /\ k.pos - 0 = k.pos
      BY <1>1
    <2> QED
      BY <1>1, <2>1, BytesOK
  <1>3. tail \in Seq(Byte) /\ Len(tail) = k.len - k.pos
    <2>1. k.len \in 0..Len(b)
      BY <1>1
    <2> QED
      BY <1>1, <2>1, BytesOK
  <1>4. text \in Seq(Byte) /\ Len(text) = Len(head) + z + Len(tail)
    <2> HIDE DEF head, tail
    <2> QED
      BY <1>2, <1>3, Joined3
  <1>5. n \in Nat /\ n + 1 \in Nat /\ p \in 0..n
    BY <1>1
  <1>6. m \in Nat /\ m >= n + 1 /\ m >= k.buflen
    <2> HIDE DEF n
    <2> QED
      BY <1>1, <1>5, GrownOK
  <1>7. j = [k EXCEPT !.buf = text, !.buflen = m, !.yi = k.pos, !.yj = p, !.pos = p, !.len = n]
    BY DEF Yank
  <1>8. Len(text) = n
    <2>1. k.pos \in Int /\ k.len \in Int /\ z \in Int
      BY <1>1
    <2> HIDE DEF head, tail, text, z
    <2> QED
      BY <1>2, <1>3, <1>4, <2>1 DEF n
  <1>9. p \in Nat /\ k.pos \in Nat /\ k.pos <= p
    BY <1>1
  <1> HIDE DEF text, n, p, m, j, b
  <1>10. j \in Line
    <2>1. p \in Int
      BY <1>9
    <2> QED
      BY <1>1, <1>4, <1>5, <1>6, <1>7, <1>9, <2>1 DEF Line
  <1>11. /\ j.buf = text /\ j.len = n /\ j.pos = p /\ j.buflen = m /\ j.hindex = k.hindex
         /\ j.yi = k.pos /\ j.yj = p
    BY <1>1, <1>7 DEF Line
  <1>12. Sized(k) /\ n \in 0..Len(text) /\ Len(text) < m /\ 2 <= m
    BY <1>1, <1>5, <1>6, <1>8 DEF Fine
  <1>13. Kept(k, j)
    BY <1>4, <1>5, <1>6, <1>9, <1>10, <1>11, <1>12, RewrittenOK
  <1> QED
    BY <1>13 DEF j

\* What every proof about a key starts from.
LEMMA FineFields ==
    ASSUME NEW k, Fine(k)
    PROVE  /\ k \in Line /\ k.buf \in Seq(Byte) /\ k.len \in Nat /\ k.pos \in Nat /\ k.pos \in 0..k.len
           /\ k.len <= Len(k.buf) /\ Len(k.buf) \in Nat /\ k.buflen \in Nat /\ Len(k.buf) < k.buflen
           /\ 2 <= k.buflen /\ k.yi \in Nat /\ k.yj \in Nat /\ k.yi <= k.yj /\ k.mark \in Nat
           /\ k.len \in 0..k.len
  BY DEF Fine, Sized, Line

\* A rune of the line is a text.
LEMMA RuneOK ==
    ASSUME NEW k, Fine(k), NEW p \in 0..k.len, p < k.len
    PROVE  Rune(k, p) \in Seq(Byte)
  <1> DEFINE n == p + RuneLength(k, p)
  <1>1. RuneLength(k, p) \in 1..(k.len - p) /\ p \in Nat
    BY FineFields, RuneLengthOK
  <1>2. n \in 0..Len(k.buf) /\ p \in 0..n
    BY <1>1, FineFields
  <1>3. Bytes(k.buf, p, n) \in Seq(Byte)
    <2> HIDE DEF n
    <2> QED
      BY <1>2, BytesOK, FineFields
  <1> QED
    BY <1>3 DEF Rune

\* What is put together of the runes from the cursor on and of their other cases: it is
\* of every kind of text that these are of.
Spelling(k, G, W, first, rest) ==
    /\ <<>> \in W /\ \A u, v \in W : u \o v \in W
    /\ \A q \in 0..k.len : q \in G /\ q < k.len => Rune(k, q) \in W
    /\ \A r \in DOMAIN first : first[r] \in W
    /\ \A r \in DOMAIN rest : rest[r] \in W
Spelled(k, first, rest, w) ==
    \A G, W : Closed(k, G) /\ k.pos \in G /\ Spelling(k, G, W, first, rest) => w \in W

\* A word in other letters.
LEMMA XlatWordOK ==
    ASSUME NEW k, Fine(k), NEW first, NEW rest,
           \A r \in DOMAIN first : first[r] \in Seq(Byte),
           \A r \in DOMAIN rest : rest[r] \in Seq(Byte)
    PROVE  /\ Kept(k, XlatWord(k, first, rest))
           /\ \/ XlatWord(k, first, rest) = k
              \/ \E a, b \in 0..k.len : \E w \in Seq(Byte) :
                     /\ Reached(k, k.pos, a) /\ Reached(k, k.pos, b)
                     /\ Spelled(k, first, rest, w)
                     /\ XlatWord(k, first, rest).buf =
                            Bytes(k.buf, 0, a) \o w \o Bytes(k.buf, b, k.len)
                     /\ XlatWord(k, first, rest).pos = a + Len(w)
                     /\ XlatWord(k, first, rest).len = Len(XlatWord(k, first, rest).buf)
  <1> DEFINE L == k.len
             i == Forwards(k, k.pos, "separator")
             j == Forwards(k, i, "letter")
             Xlat(r, f) == IF r \in DOMAIN f THEN f[r] ELSE r
             x(q) == Xlat(Rune(k, q), IF q = i THEN first ELSE rest)
             D == i..L
             V == Seq(Byte)
             Loop(g) == [q \in D |-> IF q >= j THEN <<>> ELSE x(q) \o g[Forward(k, q)]]
             word == CHOOSE g : g = Loop(g)
             stops == {q \in D : q >= j}
             out == [q \in stops |-> <<>>]
             next == [q \in D \ stops |-> Forward(k, q)]
             comb == [q \in D \ stops |-> [v \in V |-> x(q) \o v]]
             rank == [q \in D |-> L - q]
             text == Bytes(k.buf, 0, i) \o word[i] \o Bytes(k.buf, j, k.len)
             n == L + Len(word[i]) - (j - i)
             p == i + Len(word[i])
             m == Grown(k.buflen, i + Len(word[i]) + k.len - j + 1)
             new == [k EXCEPT !.buf = text, !.pos = p, !.len = n, !.buflen = m]
  <1>1. XlatWord(k, first, rest) = IF i = j THEN k ELSE new
    BY DEF XlatWord
  <1>2. L \in Nat /\ i \in 0..L /\ j \in i..L /\ i \in Nat /\ j \in Nat
    <2>1. k \in Line /\ k.pos \in 0..k.len /\ k.len \in Nat /\ k.pos \in Nat
      BY FineFields
    <2>2. i \in k.pos..k.len
      BY <2>1, ForwardsOK
    <2>3. i \in 0..k.len
      BY <2>1, <2>2
    <2>4. j \in i..k.len
      <3> HIDE DEF i
      <3> QED
        BY <2>1, <2>3, ForwardsOK
    <2> HIDE DEF i, j
    <2> QED
      BY <2>1, <2>3, <2>4
  <1>3. ASSUME NEW q \in D, q < j
        PROVE  x(q) \in V /\ Forward(k, q) \in (q + 1)..L /\ Forward(k, q) \in D
    <2> HIDE DEF i, j
    <2>1. q \in 0..k.len /\ q < k.len /\ k \in Line
      BY <1>2, <1>3, FineFields
    <2>2. Rune(k, q) \in Seq(Byte)
      BY <2>1, RuneOK
    <2>3. Forward(k, q) \in q..k.len /\ Forward(k, q) > q
      BY <2>1, ForwardOK
    <2>4. x(q) \in V
      BY <2>2
    <2>5. Forward(k, q) \in (q + 1)..L /\ Forward(k, q) \in D
      BY <1>2, <2>1, <2>3
    <2> QED
      BY <2>4, <2>5
  <1>4. \E g : g = Loop(g)
    <2> HIDE DEF i, j, L, x
    <2>1. rank \in [D -> Nat] /\ stops \in SUBSET D
      BY <1>2
    <2>2. out \in [stops -> V]
      OBVIOUS
    <2>3. \A q \in D \ stops : q < j
      BY <1>2
    <2>4. next \in [D \ stops -> D]
      BY <1>3, <2>3
    <2>5. comb \in [D \ stops -> [V -> V]]
      <3>1. \A q \in D \ stops : \A v \in V : x(q) \o v \in V
        <4> SUFFICES ASSUME NEW q \in D \ stops, NEW v \in V PROVE x(q) \o v \in V
          OBVIOUS
        <4>1. x(q) \in Seq(Byte)
          BY <1>3, <2>3
        <4> QED
          BY <4>1, Joined
      <3> QED
        BY <3>1
    <2>6. \A q \in D \ stops : rank[next[q]] < rank[q]
      <3> SUFFICES ASSUME NEW q \in D \ stops PROVE rank[next[q]] < rank[q]
        OBVIOUS
      <3>1. next[q] \in (q + 1)..L /\ next[q] \in D
        BY <1>3, <2>3
      <3>2. rank[next[q]] = L - next[q] /\ rank[q] = L - q
        BY <3>1
      <3> QED
        BY <1>2, <3>1, <3>2
    <2>7. \A q \in D : q \in stops => out[q] = <<>>
      OBVIOUS
    <2>8. \A q \in D : q \in stops <=> q >= j
      OBVIOUS
    <2>9. \A q \in D \ stops : next[q] = Forward(k, q) /\ \A v \in V : comb[q][v] = x(q) \o v
      OBVIOUS
    <2> HIDE DEF D, V, stops, out, next, comb, rank
    <2>10. PICK g : Solves(g, D, V, stops, out, next, comb)
      BY <2>1, <2>2, <2>4, <2>5, <2>6, Recursive
    <2>11. g \in [D -> V] /\ \A q \in D : g[q] = IF q \in stops THEN out[q] ELSE comb[q][g[next[q]]]
      BY <2>10 DEF Solves
    <2>12. ASSUME NEW q \in D PROVE g[q] = IF q >= j THEN <<>> ELSE x(q) \o g[Forward(k, q)]
      <3>1. CASE q \in stops
        BY <2>7, <2>8, <2>11, <3>1
      <3>2. CASE q \notin stops
        <4>1. next[q] \in D /\ g[next[q]] \in V
          BY <2>4, <2>11, <3>2
        <4>2. next[q] = Forward(k, q) /\ comb[q][g[next[q]]] = x(q) \o g[next[q]]
          BY <2>9, <3>2, <4>1
        <4>3. g[q] = x(q) \o g[Forward(k, q)]
          BY <2>11, <3>2, <4>2
        <4>4. ~(q >= j)
          BY <2>8, <3>2
        <4> QED
          BY <4>3, <4>4
      <3> QED
        BY <3>1, <3>2
    <2>13. g = Loop(g)
      BY <2>11, <2>12
    <2> QED
      BY <2>13
  <1>5. word = Loop(word)
    BY <1>4
  <1>6. word[i] \in Seq(Byte) /\ Len(word[i]) \in Nat
    <2> HIDE DEF word, i, j, L, x, V
    <2> DEFINE P == {q \in D : word[q] \in V}
    <2>1. \A q \in D : rank[q] \in Nat
      BY <1>2
    <2>2. \A q \in D : word[q] = IF q >= j THEN <<>> ELSE x(q) \o word[Forward(k, q)]
      BY <1>5
    <2>3. ASSUME NEW q \in D, \A z \in D : rank[z] < rank[q] => z \in P PROVE q \in P
      <3>1. CASE q >= j
        <4>1. word[q] = <<>>
          BY <2>2, <3>1
        <4>2. <<>> \in V
          BY DEF V
        <4> QED
          BY <4>1, <4>2
      <3>2. CASE ~(q >= j)
        <4>1. q < j
          BY <1>2, <3>2
        <4>2. x(q) \in Seq(Byte) /\ Forward(k, q) \in (q + 1)..L /\ Forward(k, q) \in D
          BY <1>3, <4>1 DEF V
        <4>3. rank[Forward(k, q)] = L - Forward(k, q) /\ rank[q] = L - q
          BY <4>2
        <4>4. rank[Forward(k, q)] < rank[q]
          BY <1>2, <4>2, <4>3
        <4>5. word[Forward(k, q)] \in Seq(Byte)
          BY <2>3, <4>2, <4>4 DEF V
        <4>6. x(q) \o word[Forward(k, q)] \in Seq(Byte)
          BY <4>2, <4>5, Joined
        <4> QED
          BY <2>2, <3>2, <4>6 DEF V
      <3> QED
        BY <3>1, <3>2
    <2>4. \A q \in D : q \in P
      <3> HIDE DEF D, P, rank
      <3> QED
        BY <2>1, <2>3, RankInduction
    <2>5. i \in D
      BY <1>2
    <2>6. word[i] \in V
      BY <2>4, <2>5
    <2> QED
      BY <2>6 DEF V
  <1>20. Reached(k, k.pos, i) /\ Reached(k, k.pos, j)
    <2>1. k \in Line /\ k.pos \in 0..k.len
      BY FineFields
    <2>2. Reached(k, k.pos, i)
      BY <2>1, ForwardsOK
    <2>3. Reached(k, i, j)
      <3> HIDE DEF i
      <3> QED
        BY <1>2, <2>1, ForwardsOK
    <2> QED
      BY <2>2, <2>3, ReachedOn
  <1>21. ASSUME NEW G, NEW W, Closed(k, G), k.pos \in G, Spelling(k, G, W, first, rest)
         PROVE  word[i] \in W
    <2> DEFINE P == {q \in D : q \in G => word[q] \in W}
    <2>1. ASSUME NEW q \in D, q \in G, q < j PROVE x(q) \in W /\ Forward(k, q) \in G
      <3> HIDE DEF i, j, word
      <3>1. q \in 0..k.len /\ q < k.len
        BY <1>2, <2>1
      <3>2. Rune(k, q) \in W /\ Forward(k, q) \in G
        BY <1>21, <2>1, <3>1 DEF Spelling, Closed
      <3> QED
        BY <1>21, <3>2 DEF Spelling
    <2>2. i \in G
      BY <1>20, <1>21 DEF Reached
    <2> HIDE DEF word, i, j, L, x, V
    <2>3. \A q \in D : rank[q] \in Nat
      BY <1>2
    <2>4. \A q \in D : word[q] = IF q >= j THEN <<>> ELSE x(q) \o word[Forward(k, q)]
      BY <1>5
    <2>5. ASSUME NEW q \in D, \A z \in D : rank[z] < rank[q] => z \in P PROVE q \in P
      <3>1. CASE q >= j
        <4>1. word[q] = <<>>
          BY <2>4, <3>1
        <4> QED
          BY <1>21, <4>1 DEF Spelling
      <3>2. CASE ~(q >= j) /\ q \in G
        <4>1. q < j
          BY <1>2, <3>2
        <4>2. x(q) \in W /\ Forward(k, q) \in G /\ Forward(k, q) \in (q + 1)..L /\ Forward(k, q) \in D
          BY <1>3, <2>1, <3>2, <4>1
        <4>3. rank[Forward(k, q)] = L - Forward(k, q) /\ rank[q] = L - q
          BY <4>2
        <4>4. rank[Forward(k, q)] < rank[q]
          BY <1>2, <4>2, <4>3
        <4>5. word[Forward(k, q)] \in W
          BY <2>5, <4>2, <4>4
        <4>6. x(q) \o word[Forward(k, q)] \in W
          BY <1>21, <4>2, <4>5 DEF Spelling
        <4> QED
          BY <2>4, <3>2, <4>6
      <3> QED
        BY <3>1, <3>2
    <2>6. \A q \in D : q \in P
      <3> HIDE DEF D, P, rank
      <3> QED
        BY <2>3, <2>5, RankInduction
    <2>7. i \in D
      BY <1>2
    <2> QED
      BY <2>2, <2>6, <2>7
  <1>22. Spelled(k, first, rest, word[i])
    <2> HIDE DEF word, i
    <2> QED
      BY <1>21 DEF Spelled
  <1> DEFINE w == Len(word[i])
             head == Bytes(k.buf, 0, i)
             tail == Bytes(k.buf, j, L)
  <1>7. head \in Seq(Byte) /\ Len(head) = i /\ tail \in Seq(Byte) /\ Len(tail) = L - j
    <2> HIDE DEF i, j
    <2>1. i \in 0..Len(k.buf) /\ 0 \in 0..i /\ i - 0 = i /\ L \in 0..Len(k.buf) /\ j \in 0..L
          /\ k.buf \in Seq(Byte)
      BY <1>2, FineFields
    <2>2. head \in Seq(Byte) /\ Len(head) = i
      BY <2>1, BytesOK
    <2>3. tail \in Seq(Byte) /\ Len(tail) = L - j
      BY <2>1, BytesOK
    <2> QED
      BY <2>2, <2>3
  <1>8. text \in Seq(Byte) /\ Len(text) = Len(head) + w + Len(tail)
    <2>1. text = head \o word[i] \o tail
      OBVIOUS
    <2> HIDE DEF text, head, tail, word, i, j
    <2> QED
      BY <1>6, <1>7, <2>1, Joined3
  <1>9. w \in Nat
    BY <1>6
  <1> DEFINE c == i + w + L - j + 1
  <1>10. m = Grown(k.buflen, c)
    OBVIOUS
  <1>11. n = L + w - (j - i) /\ p = i + w
    OBVIOUS
  <1>12. new = [k EXCEPT !.buf = text, !.pos = p, !.len = n, !.buflen = m]
    OBVIOUS
  <1> HIDE DEF word, i, j, L, text, head, tail, w, n, p, m, new
  <1>13. n \in Nat /\ p \in 0..n /\ p \in Int /\ c \in Nat /\ c = n + 1 /\ Len(text) = n
    BY <1>2, <1>7, <1>8, <1>9, <1>11
  <1> HIDE DEF c
  <1>14. m \in Nat /\ m >= c /\ m >= k.buflen
    BY <1>10, <1>13, GrownOK, FineFields
  <1>15. new \in Line
    <2>1. k \in Line
      BY FineFields
    <2> QED
      BY <1>8, <1>12, <1>13, <1>14, <2>1 DEF Line
  <1>16. /\ new.buf = text /\ new.len = n /\ new.pos = p /\ new.buflen = m /\ new.hindex = k.hindex
         /\ new.yi = k.yi /\ new.yj = k.yj
    BY <1>12, FineFields DEF Line
  <1>17. Sized(k) /\ n \in 0..Len(text) /\ Len(text) < m /\ 2 <= m /\ new.yi <= new.yj
    BY <1>13, <1>14, <1>16, FineFields DEF Fine
  <1>18. Kept(k, new)
    BY <1>8, <1>13, <1>14, <1>15, <1>16, <1>17, RewrittenOK
  <1>19. Kept(k, k)
    BY DEF Kept
  <1>23. \E a, b \in 0..k.len : \E u \in Seq(Byte) :
             /\ Reached(k, k.pos, a) /\ Reached(k, k.pos, b) /\ Spelled(k, first, rest, u)
             /\ new.buf = Bytes(k.buf, 0, a) \o u \o Bytes(k.buf, b, k.len)
             /\ new.pos = a + Len(u) /\ new.len = Len(new.buf)
    <2>1. text = Bytes(k.buf, 0, i) \o word[i] \o Bytes(k.buf, j, k.len) /\ p = i + Len(word[i])
      BY <1>11 DEF text, p
    <2>2. i \in 0..k.len /\ j \in 0..k.len
      BY <1>2 DEF L
    <2> DEFINE u == word[i]
    <2>3. u \in Seq(Byte) /\ Spelled(k, first, rest, u)
      BY <1>6, <1>22
    <2>4. /\ new.buf = Bytes(k.buf, 0, i) \o u \o Bytes(k.buf, j, k.len)
          /\ new.pos = i + Len(u) /\ new.len = Len(new.buf)
      BY <1>13, <1>16, <2>1
    <2> HIDE DEF u
    <2> QED
      BY <1>20, <2>2, <2>3, <2>4
  <1> QED
    BY <1>1, <1>18, <1>19, <1>23

-----------------------------------------------------------------------------
(* The keys that move the cursor.                                          *)

LEMMA MoveOK ==
    ASSUME NEW k, Fine(k), NEW p \in 0..k.len
    PROVE  Kept(k, At(k, p))
  BY AtOK DEF Fine

LEMMA StayOK ==
    ASSUME NEW k, Fine(k)
    PROVE  Kept(k, k)
  BY DEF Kept

LEMMA KeptTwice ==
    ASSUME NEW k, NEW j, NEW i, Kept(k, j), Kept(j, i)
    PROVE  Kept(k, i)
  BY DEF Kept

LEMMA HomeOK ==
    ASSUME NEW k, Fine(k) PROVE Kept(k, Home(k)) /\ Kept(k, End(k))
  <1>1. 0 \in 0..k.len /\ k.len \in 0..k.len
    BY FineFields
  <1> QED
    BY <1>1, MoveOK DEF Home, End

LEMMA LeftKeyOK ==
    ASSUME NEW k, Fine(k) PROVE Kept(k, LeftKey(k))
  <1>1. k \in Line /\ k.pos \in Nat /\ k.pos \in 0..k.len /\ k.len \in Nat
    BY FineFields
  <1>2. Backward(k, k.pos) \in 0..k.pos
    BY <1>1, BackwardOK
  <1>3. Backward(k, k.pos) \in 0..k.len
    BY <1>1, <1>2
  <1> QED
    BY <1>3, MoveOK DEF LeftKey

LEMMA RightOK ==
    ASSUME NEW k, Fine(k)
    PROVE  /\ Kept(k, Right(k))
           /\ k.pos # k.len =>
                  \E p \in 0..k.len : Right(k) = At(k, p) /\ (p = k.len \/ Begun(k.buf, p))
  <1> DEFINE L == k.len
             on(q) == q < L /\ k.buf[q + 1] \in Continuation
             D == 0..L
             Loop(g) == [q \in D |-> IF on(q) THEN g[q + 1] ELSE q]
             r == CHOOSE g : g = Loop(g)
             goes == {q \in D : on(q)}
             next == [q \in D |-> q + 1]
  <1>1. Right(k) = IF k.pos = L THEN k ELSE At(k, r[k.pos + 1])
    BY DEF Right
  <1>2. L \in Nat /\ k.pos \in 0..L
    BY FineFields
  <1>3. \A q \in D : on(q) => q < L
    OBVIOUS
  <1> HIDE DEF L, on
  <1>4. \A q \in D : q \in goes => q < L /\ next[q] \in (q + 1)..L
    BY <1>2, <1>3
  <1>5. \A g : Walks(g, D, goes, next) <=> g = Loop(g)
    BY DEF Walks
  <1>6. /\ \E g : Walks(g, D, goes, next)
        /\ \A g : Walks(g, D, goes, next) => \A q \in D : q <= L => g[q] \in q..L
    <2>1. L <= L /\ 0 \in Nat
      BY <1>2
    <2> HIDE DEF goes, next
    <2> QED
      BY <1>2, <1>4, <2>1, WalkRight
  <1>7. r = Loop(r)
    BY <1>5, <1>6
  <1>8. Walks(r, D, goes, next)
    BY <1>5, <1>7
  <1>9. k.pos # L => k.pos + 1 \in D /\ k.pos + 1 <= L
    BY <1>2
  <1> HIDE DEF r
  <1>12. \A q \in D : r[q] = L \/ Begun(k.buf, r[q])
    <2> DEFINE rank == [q \in D |-> L - q]
               G == {q \in D : q = L \/ Begun(k.buf, q)}
    <2>1. \A q \in D : rank[q] \in Nat
      BY <1>2
    <2>2. \A q \in D : q \in goes => next[q] \in D /\ rank[next[q]] < rank[q]
      BY <1>2, <1>4
    <2>3. \A q \in D : q \notin goes => q \in G
      BY <1>2 DEF on, Begun
    <2>4. \A q \in D : q \in goes => next[q] \in D
      BY <2>2
    <2> HIDE DEF rank, G, goes, next, D
    <2>5. \A q \in D : r[q] \in G
      BY <1>8, <2>1, <2>2, <2>3, <2>4, WalkWithin
    <2> QED
      BY <2>5 DEF G
  <1> HIDE DEF D
  <1>10. k.pos # L => r[k.pos + 1] \in (k.pos + 1)..L
    BY <1>6, <1>8, <1>9
  <1>11. k.pos # L => r[k.pos + 1] \in 0..k.len
    BY <1>2, <1>10 DEF L
  <1>13. k.pos # L => r[k.pos + 1] = L \/ Begun(k.buf, r[k.pos + 1])
    BY <1>9, <1>12
  <1> QED
    BY <1>1, <1>11, <1>13, MoveOK, StayOK DEF L

LEMMA LeftWordOK ==
    ASSUME NEW k, Fine(k) PROVE Kept(k, LeftWord(k)) /\ Kept(k, RightWord(k))
  <1>1. k \in Line /\ k.pos \in Nat /\ k.pos \in 0..k.len /\ k.len \in Nat
    BY FineFields
  <1>2. ForwardWord(k, k.pos) \in k.pos..k.len /\ BackwardWord(k, k.pos) \in 0..k.pos
    BY <1>1, WordsOK
  <1>3. ForwardWord(k, k.pos) \in 0..k.len /\ BackwardWord(k, k.pos) \in 0..k.len
    BY <1>1, <1>2
  <1> QED
    BY <1>3, MoveOK DEF LeftWord, RightWord

LEMMA LeftExprOK ==
    ASSUME NEW k, Fine(k) PROVE Kept(k, LeftExpr(k))
  <1> DEFINE j == At(k, Backwards(k, k.pos, "xeparator"))
  <1>1. k \in Line /\ k.pos \in Nat /\ k.pos \in 0..k.len /\ k.len \in Nat
    BY FineFields
  <1>2. Backwards(k, k.pos, "xeparator") \in 0..k.pos
    BY <1>1, BackwardsOK
  <1>3. Kept(k, j)
    <2>1. Backwards(k, k.pos, "xeparator") \in 0..k.len
      BY <1>1, <1>2
    <2> QED
      BY <2>1, MoveOK
  <1>4. LeftExpr(k) = IF MirrorLeft(j) = {} THEN At(j, Backwards(j, j.pos, "letter"))
                      ELSE At(j, (CHOOSE m \in MirrorLeft(j) : TRUE)[1])
    BY DEF LeftExpr
  <1> HIDE DEF j
  <1>5. Fine(j) /\ j \in Line /\ j.pos \in Nat /\ j.pos \in 0..j.len /\ j.len \in Nat
    BY <1>3, FineFields DEF Kept
  <1>6. CASE MirrorLeft(j) = {}
    <2>1. Backwards(j, j.pos, "letter") \in 0..j.pos
      BY <1>5, BackwardsOK
    <2>2. Backwards(j, j.pos, "letter") \in 0..j.len
      BY <1>5, <2>1
    <2> QED
      BY <1>3, <1>4, <1>5, <1>6, <2>2, MoveOK, KeptTwice
  <1>7. CASE MirrorLeft(j) # {}
    <2> DEFINE m == CHOOSE m \in MirrorLeft(j) : TRUE
    <2>1. m \in MirrorLeft(j)
      BY <1>7
    <2> HIDE DEF m
    <2>2. m[1] \in 0..j.len
      BY <1>5, <2>1, MirrorLeftOK
    <2>3. LeftExpr(k) = At(j, m[1])
      BY <1>4, <1>7 DEF m
    <2> QED
      BY <1>3, <1>5, <2>2, <2>3, MoveOK, KeptTwice
  <1> QED
    BY <1>6, <1>7

LEMMA RightExprOK ==
    ASSUME NEW k, Fine(k) PROVE Kept(k, RightExpr(k))
  <1> DEFINE j == At(k, Forwards(k, k.pos, "xeparator"))
  <1>1. k \in Line /\ k.pos \in Nat /\ k.pos \in 0..k.len /\ k.len \in Nat
    BY FineFields
  <1>2. Forwards(k, k.pos, "xeparator") \in k.pos..k.len
    BY <1>1, ForwardsOK
  <1>3. Kept(k, j)
    <2>1. Forwards(k, k.pos, "xeparator") \in 0..k.len
      BY <1>1, <1>2
    <2> QED
      BY <2>1, MoveOK
  <1>4. RightExpr(k) = IF MirrorRight(j) = {} THEN At(j, Forwards(j, j.pos, "letter"))
                       ELSE At(j, Forward(j, (CHOOSE m \in MirrorRight(j) : TRUE)[2]))
    BY DEF RightExpr
  <1> HIDE DEF j
  <1>5. Fine(j) /\ j \in Line /\ j.pos \in Nat /\ j.pos \in 0..j.len /\ j.len \in Nat
    BY <1>3, FineFields DEF Kept
  <1>6. CASE MirrorRight(j) = {}
    <2>1. Forwards(j, j.pos, "letter") \in j.pos..j.len
      BY <1>5, ForwardsOK
    <2>2. Forwards(j, j.pos, "letter") \in 0..j.len
      BY <1>5, <2>1
    <2> QED
      BY <1>3, <1>4, <1>5, <1>6, <2>2, MoveOK, KeptTwice
  <1>7. CASE MirrorRight(j) # {}
    <2> DEFINE m == CHOOSE m \in MirrorRight(j) : TRUE
    <2>1. m \in MirrorRight(j)
      BY <1>7
    <2> HIDE DEF m
    <2>2. m[2] \in 0..j.len
      BY <1>5, <2>1, MirrorRightOK
    <2>3. Forward(j, m[2]) \in m[2]..j.len
      BY <1>5, <2>2, ForwardOK
    <2>4. Forward(j, m[2]) \in 0..j.len
      BY <1>5, <2>2, <2>3
    <2>5. RightExpr(k) = At(j, Forward(j, m[2]))
      BY <1>4, <1>7 DEF m
    <2> QED
      BY <1>3, <1>5, <2>4, <2>5, MoveOK, KeptTwice
  <1> QED
    BY <1>6, <1>7

LEMMA MarkOK ==
    ASSUME NEW k, Fine(k) PROVE Kept(k, SetMark(k)) /\ Kept(k, GotoMark(k))
  <1>1. Kept(k, SetMark(k))
    <2> DEFINE j == [k EXCEPT !.mark = k.pos]
    <2>1. k \in Line /\ k.pos \in Nat
      BY FineFields
    <2>2. j \in Line
      BY <2>1 DEF Line
    <2>3. /\ j.buf = k.buf /\ j.len = k.len /\ j.pos = k.pos /\ j.buflen = k.buflen
          /\ j.hindex = k.hindex /\ j.yi = k.yi /\ j.yj = k.yj
      BY <2>1 DEF Line
    <2> HIDE DEF j
    <2>4. Kept(k, j)
      BY <2>2, <2>3 DEF Kept, Fine, Sized
    <2> QED
      BY <2>4 DEF j, SetMark
  <1>2. k.mark > k.len \/ k.mark \in 0..k.len
    BY FineFields
  <1> QED
    BY <1>1, <1>2, MoveOK, StayOK DEF GotoMark

-----------------------------------------------------------------------------
(* The keys that take text out.                                            *)

LEMMA DeleteOK ==
    ASSUME NEW k, Fine(k) PROVE Kept(k, Delete(k))
  <1> DEFINE f == Forward(k, k.pos)
  <1>1. k \in Line /\ k.pos \in Nat /\ k.pos \in 0..k.len /\ k.len \in Nat /\ Sized(k)
    BY FineFields DEF Fine
  <1>2. f \in k.pos..k.len
    BY <1>1, ForwardOK
  <1> HIDE DEF f
  <1>3. f \in 0..k.len /\ k.pos \in 0..f /\ k.pos \in 0..(k.len - (f - k.pos))
    BY <1>1, <1>2
  <1>4. /\ Sized(Cut(k, k.pos, f)) /\ Cut(k, k.pos, f).len = k.len - (f - k.pos)
        /\ Cut(k, k.pos, f).pos = k.pos /\ Cut(k, k.pos, f).hindex = k.hindex
    BY <1>1, <1>3, CutOK
  <1>5. Kept(k, Cut(k, k.pos, f))
    BY <1>3, <1>4 DEF Kept, Fine
  <1> QED
    BY <1>5, StayOK DEF Delete, f

LEMMA RuboutOK ==
    ASSUME NEW k, Fine(k) PROVE Kept(k, Rubout(k))
  <1> DEFINE b == Backward(k, k.pos)
  <1>1. k \in Line /\ k.pos \in Nat /\ k.pos \in 0..k.len /\ k.len \in Nat /\ Sized(k)
    BY FineFields DEF Fine
  <1>2. b \in 0..k.pos
    BY <1>1, BackwardOK
  <1> HIDE DEF b
  <1>3. b \in 0..(k.len - (k.pos - b))
    BY <1>1, <1>2
  <1>4. Kept(k, At(Cut(k, b, k.pos), b))
    BY <1>1, <1>2, <1>3, CutAtOK
  <1> QED
    BY <1>4, StayOK DEF Rubout, b

\* The keys that kill, and what they kill.
LEMMA DeleteWordOK ==
    ASSUME NEW k, Fine(k) PROVE Kept(k, DeleteWord(k)) /\ DeleteWordKills(k) \in Seq(Byte)
  <1> DEFINE f == ForwardWord(k, k.pos)
  <1>1. /\ k \in Line /\ k.pos \in Nat /\ k.pos \in 0..k.len /\ k.len \in Nat /\ Sized(k)
        /\ k.len <= Len(k.buf) /\ Len(k.buf) \in Nat /\ k.buf \in Seq(Byte)
    BY FineFields DEF Fine
  <1>2. f \in k.pos..k.len
    BY <1>1, WordsOK
  <1> HIDE DEF f
  <1>3. f \in 0..k.len /\ f \in 0..Len(k.buf) /\ k.pos \in 0..f /\ k.pos \in 0..(k.len - (f - k.pos))
    BY <1>1, <1>2
  <1>4. /\ Sized(Cut(k, k.pos, f)) /\ Cut(k, k.pos, f).len = k.len - (f - k.pos)
        /\ Cut(k, k.pos, f).pos = k.pos /\ Cut(k, k.pos, f).hindex = k.hindex
    BY <1>1, <1>3, CutOK
  <1>5. Kept(k, Cut(k, k.pos, f))
    BY <1>3, <1>4 DEF Kept, Fine
  <1>6. Kept(k, DeleteWord(k))
    BY <1>5, StayOK DEF DeleteWord, f
  <1>7. Bytes(k.buf, k.pos, f) \in Seq(Byte)
    BY <1>1, <1>3, BytesOK
  <1> QED
    BY <1>6, <1>7 DEF DeleteWordKills, f

LEMMA RuboutWordOK ==
    ASSUME NEW k, Fine(k) PROVE Kept(k, RuboutWord(k)) /\ RuboutWordKills(k) \in Seq(Byte)
  <1> DEFINE b == BackwardWord(k, k.pos)
  <1>1. /\ k \in Line /\ k.pos \in Nat /\ k.pos \in 0..k.len /\ k.len \in Nat /\ Sized(k)
        /\ k.len <= Len(k.buf) /\ Len(k.buf) \in Nat /\ k.buf \in Seq(Byte)
    BY FineFields DEF Fine
  <1>2. b \in 0..k.pos
    BY <1>1, WordsOK
  <1> HIDE DEF b
  <1>3. b \in 0..(k.len - (k.pos - b)) /\ k.pos \in 0..Len(k.buf)
    BY <1>1, <1>2
  <1>4. Kept(k, At(Cut(k, b, k.pos), b))
    BY <1>1, <1>2, <1>3, CutAtOK
  <1>5. Kept(k, RuboutWord(k))
    BY <1>4, StayOK DEF RuboutWord, b
  <1>6. Bytes(k.buf, b, k.pos) \in Seq(Byte)
    BY <1>1, <1>2, <1>3, BytesOK
  <1> QED
    BY <1>5, <1>6 DEF RuboutWordKills, b

LEMMA KillLeftOK ==
    ASSUME NEW k, Fine(k) PROVE Kept(k, KillLeft(k)) /\ KillLeftKills(k) \in Seq(Byte)
  <1>1. /\ k.pos \in Nat /\ k.pos \in 0..k.len /\ k.len \in Nat /\ Sized(k)
        /\ k.len <= Len(k.buf) /\ Len(k.buf) \in Nat /\ k.buf \in Seq(Byte)
    BY FineFields DEF Fine
  <1>2. 0 \in 0..k.pos /\ 0 \in 0..(k.len - (k.pos - 0)) /\ k.pos \in 0..Len(k.buf)
    BY <1>1
  <1>3. Kept(k, At(Cut(k, 0, k.pos), 0))
    BY <1>1, <1>2, CutAtOK
  <1>4. Bytes(k.buf, 0, k.pos) \in Seq(Byte)
    BY <1>1, <1>2, BytesOK
  <1> QED
    BY <1>3, <1>4 DEF KillLeft, KillLeftKills

LEMMA KillRightOK ==
    ASSUME NEW k, Fine(k) PROVE Kept(k, KillRight(k)) /\ KillRightKills(k) \in Seq(Byte)
  <1> DEFINE text == Bytes(k.buf, 0, k.pos)
             j == [k EXCEPT !.buf = text, !.len = k.pos]
  <1>1. /\ k \in Line /\ k.pos \in Nat /\ k.pos \in 0..k.len /\ k.len \in Nat /\ Sized(k)
        /\ k.len <= Len(k.buf) /\ Len(k.buf) \in Nat /\ k.buf \in Seq(Byte)
        /\ k.buflen \in Nat /\ Len(k.buf) < k.buflen /\ 2 <= k.buflen /\ k.yi <= k.yj
    BY FineFields DEF Fine
  <1>2. k.pos \in 0..Len(k.buf) /\ 0 \in 0..k.pos /\ k.len \in 0..Len(k.buf) /\ k.pos - 0 = k.pos
    BY <1>1
  <1>3. text \in Seq(Byte) /\ Len(text) = k.pos
    BY <1>1, <1>2, BytesOK
  <1>4. Bytes(k.buf, k.pos, k.len) \in Seq(Byte)
    BY <1>1, <1>2, BytesOK
  <1> HIDE DEF text
  <1>5. j \in Line
    BY <1>1, <1>3 DEF Line
  <1>6. /\ j.buf = text /\ j.len = k.pos /\ j.pos = k.pos /\ j.buflen = k.buflen
        /\ j.hindex = k.hindex /\ j.yi = k.yi /\ j.yj = k.yj
    BY <1>1 DEF Line
  <1> HIDE DEF j
  <1>7. k.pos \in 0..Len(text) /\ k.pos \in 0..k.pos /\ Len(text) < k.buflen
    BY <1>1, <1>3
  <1>8. Kept(k, j)
    BY <1>1, <1>3, <1>5, <1>6, <1>7, RewrittenOK
  <1> QED
    BY <1>4, <1>8 DEF KillRight, KillRightKills, j, text

LEMMA SqueezeOK ==
    ASSUME NEW k, Fine(k) PROVE Kept(k, Squeeze(k))
  <1> DEFINE i == Backwards(k, k.pos, "separator")
             j == Forwards(k, k.pos, "separator")
  <1>1. k \in Line /\ k.pos \in Nat /\ k.pos \in 0..k.len /\ k.len \in Nat /\ Sized(k)
    BY FineFields DEF Fine
  <1>2. i \in 0..k.pos /\ j \in k.pos..k.len
    BY <1>1, BackwardsOK, ForwardsOK
  <1> HIDE DEF i, j
  <1>3. j \in 0..k.len /\ i \in 0..j /\ i \in 0..(k.len - (j - i))
    BY <1>1, <1>2
  <1>4. Kept(k, At(Cut(k, i, j), i))
    BY <1>1, <1>3, CutAtOK
  <1> QED
    BY <1>4, StayOK DEF Squeeze, i, j

-----------------------------------------------------------------------------
(* The keys that change text.                                              *)

LEMMA TransposeOK ==
    ASSUME NEW k, Fine(k) PROVE Kept(k, Transpose(k))
  <1> DEFINE b == IF k.pos = k.len THEN k.pos - 1 ELSE k.pos
             a == Backward(k, b)
             c == Forward(k, b)
             s == k.buf
             text == Bytes(s, 0, a) \o Bytes(s, b, c) \o Bytes(s, a, b) \o Bytes(s, c, Len(s))
  <1>1. /\ k \in Line /\ k.pos \in Nat /\ k.pos \in 0..k.len /\ k.len \in Nat /\ Sized(k)
        /\ k.len <= Len(s) /\ Len(s) \in Nat /\ s \in Seq(Byte)
    BY FineFields DEF Fine
  <1>2. Transpose(k) = IF k.len = 0 \/ ~(a < b /\ b < c) THEN k
                       ELSE [k EXCEPT !.pos = c, !.buf = text]
    BY DEF Transpose
  <1>3. CASE k.len = 0
    BY <1>2, <1>3, StayOK
  <1>4. CASE k.len # 0
    <2>1. b \in Nat /\ b \in 0..k.len
      BY <1>1, <1>4
    <2> HIDE DEF b
    <2>2. a \in 0..b
      BY <1>1, <2>1, BackwardOK
    <2>3. c \in b..k.len
      BY <1>1, <2>1, ForwardOK
    <2> HIDE DEF a, c
    <2>4. c \in 0..Len(s) /\ b \in 0..c /\ a \in 0..b /\ c \in 0..k.len
      BY <1>1, <2>1, <2>2, <2>3
    <2>5. text \in Seq(Byte) /\ Len(text) = Len(s)
      <3> HIDE DEF s
      <3> QED
        BY <1>1, <2>4, Swapped
    <2> HIDE DEF text
    <2>6. Kept(k, [k EXCEPT !.pos = c, !.buf = text])
      BY <1>1, <2>4, <2>5, ReplacedOK
    <2> QED
      BY <1>2, <2>6, StayOK
  <1> QED
    BY <1>3, <1>4

LEMMA TransposeWordsOK ==
    ASSUME NEW k, Fine(k), \A p \in 1..k.len : k.buf[p] \notin Leading
    PROVE  Kept(k, TransposeWords(k))
  <1> DEFINE i == IF k.pos = k.len THEN BackwardWord(k, k.pos) ELSE k.pos
             pi == EscapeWord(k, i)
             xj == Backwards(k, pi, "separator")
             xi == Backwards(k, xj, "letter")
             yi == Forwards(k, pi, "separator")
             yj == Forwards(k, yi, "letter")
             s == k.buf
             text == Around(s, xi, xj, yi, yj)
  <1>1. /\ k \in Line /\ k.pos \in Nat /\ k.pos \in 0..k.len /\ k.len \in Nat /\ Sized(k)
        /\ k.len <= Len(s) /\ Len(s) \in Nat /\ s \in Seq(Byte)
    BY FineFields DEF Fine
  <1>2. TransposeWords(k) = IF ~(xi < xj /\ xj < yi /\ yi < yj) THEN k
                            ELSE [k EXCEPT !.pos = yj, !.buf = text]
    BY DEF TransposeWords, Around
  <1>3. i \in 0..k.len
    <2>1. BackwardWord(k, k.pos) \in 0..k.pos
      BY <1>1, WordsOK
    <2> QED
      BY <1>1, <2>1
  <1> HIDE DEF i
  <1>4. pi \in i..k.len
    BY <1>1, <1>3, EscapeWordOK
  <1>5. pi \in 0..k.len /\ pi \in Nat
    BY <1>1, <1>3, <1>4
  <1> HIDE DEF pi
  <1>6. xj \in 0..pi /\ yi \in pi..k.len
    BY <1>1, <1>5, BackwardsOK, ForwardsOK
  <1>7. xj \in Nat /\ yi \in 0..k.len
    BY <1>1, <1>5, <1>6
  <1> HIDE DEF xj, yi
  <1>8. xi \in 0..xj /\ yj \in yi..k.len
    BY <1>1, <1>7, BackwardsOK, ForwardsOK
  <1> HIDE DEF xi, yj
  <1>9. yj \in 0..Len(s) /\ yj \in 0..k.len /\ yi \in 0..yj /\ xj \in 0..yi /\ xi \in 0..xj
    BY <1>1, <1>5, <1>6, <1>7, <1>8
  <1>10. text \in Seq(Byte) /\ Len(text) = Len(s)
    <2> HIDE DEF s
    <2> QED
      BY <1>1, <1>9, SwappedAround
  <1> HIDE DEF text
  <1>11. Kept(k, [k EXCEPT !.pos = yj, !.buf = text])
    BY <1>1, <1>9, <1>10, ReplacedOK
  <1> QED
    BY <1>2, <1>11, StayOK

LEMMA OtherCaseOK ==
    ASSUME NEW k, Fine(k)
    PROVE  /\ Kept(k, UppercaseWord(k)) /\ Kept(k, LowercaseWord(k))
           /\ Kept(k, CapitalizeWord(k))
  <1>1. /\ \A r \in DOMAIN Upper : Upper[r] \in Seq(Byte)
        /\ \A r \in DOMAIN Lower : Lower[r] \in Seq(Byte)
    BY CaseAssumption
  <1>2. \A r \in DOMAIN <<>> : (<<>>)[r] \in Seq(Byte)
    OBVIOUS
  <1>3. Kept(k, UppercaseWord(k)) /\ Kept(k, LowercaseWord(k))
    BY <1>1, XlatWordOK DEF UppercaseWord, LowercaseWord
  <1>4. Kept(k, CapitalizeWord(k))
    BY <1>1, <1>2, XlatWordOK DEF CapitalizeWord
  <1> QED
    BY <1>3, <1>4

LEMMA BarfOK ==
    ASSUME NEW k, Fine(k) PROVE Kept(k, Barf(k))
  <1> DEFINE end == ScanRight(k, k.pos, "close")
             before == Backwards(k, end, "xeparator")
             item == ScanLeft(k, before)
             to == Backwards(k, item, "xeparator")
             n == RuneLength(k, end)
             c == end + n
             s == k.buf
             p == IF k.pos > to THEN k.pos + n ELSE k.pos
             text == Bytes(s, 0, to) \o Bytes(s, end, c) \o Bytes(s, to, end) \o Bytes(s, c, Len(s))
  <1>1. /\ k \in Line /\ k.pos \in Nat /\ k.pos \in 0..k.len /\ k.len \in Nat /\ Sized(k)
        /\ k.len <= Len(s) /\ Len(s) \in Nat /\ s \in Seq(Byte)
    BY FineFields DEF Fine
  <1>2. Barf(k) = IF end = k.len \/ item = 0 THEN k ELSE [k EXCEPT !.buf = text, !.pos = p]
    BY DEF Barf
  <1>3. end \in k.pos..k.len
    BY <1>1, ScanRightOK
  <1> HIDE DEF end
  <1>4. end \in 0..k.len /\ end \in Nat
    BY <1>1, <1>3
  <1>5. before \in 0..end
    BY <1>1, <1>4, BackwardsOK
  <1> HIDE DEF before
  <1>6. before \in 0..k.len
    BY <1>1, <1>4, <1>5
  <1>7. item \in 0..before
    BY <1>1, <1>6, ScanLeftOK
  <1> HIDE DEF item
  <1>8. item \in Nat /\ item <= end
    BY <1>4, <1>5, <1>7
  <1>9. to \in 0..item
    BY <1>1, <1>8, BackwardsOK
  <1> HIDE DEF to
  <1>10. CASE end = k.len
    BY <1>2, <1>10, StayOK
  <1>11. CASE end # k.len
    <2>1. end < k.len
      BY <1>1, <1>4, <1>11
    <2>2. n \in 1..(k.len - end)
      BY <1>1, <1>4, <2>1, RuneLengthOK
    <2> HIDE DEF n
    <2>3. c \in 0..Len(s) /\ end \in 0..c /\ to \in 0..end
      BY <1>1, <1>4, <1>8, <1>9, <2>2
    <2>4. p \in 0..k.len
      BY <1>1, <1>3, <1>4, <1>8, <1>9, <2>2
    <2> HIDE DEF c, p
    <2>5. text \in Seq(Byte) /\ Len(text) = Len(s)
      <3> HIDE DEF s
      <3> QED
        BY <1>1, <2>3, Swapped
    <2> HIDE DEF text
    <2>6. Kept(k, [k EXCEPT !.pos = p, !.buf = text])
      BY <1>1, <2>4, <2>5, ReplacedOK
    <2>7. [k EXCEPT !.pos = p, !.buf = text] = [k EXCEPT !.buf = text, !.pos = p]
      BY <1>1 DEF Line
    <2> QED
      BY <1>2, <2>6, <2>7, StayOK
  <1> QED
    BY <1>10, <1>11

LEMMA SlurpOK ==
    ASSUME NEW k, Fine(k) PROVE Kept(k, Slurp(k))
  <1> DEFINE point == ScanRight(k, k.pos, "close")
             start == Forward(k, point)
             item == Forwards(k, start, "xeparator")
             to == ScanRight(k, item, "separator")
             s == k.buf
             text == Bytes(s, 0, point) \o Bytes(s, start, to) \o Bytes(s, point, start)
                     \o Bytes(s, to, Len(s))
  <1>1. /\ k \in Line /\ k.pos \in Nat /\ k.pos \in 0..k.len /\ k.len \in Nat /\ Sized(k)
        /\ k.len <= Len(s) /\ Len(s) \in Nat /\ s \in Seq(Byte)
    BY FineFields DEF Fine
  <1>2. Slurp(k) = IF point = k.len THEN k ELSE [k EXCEPT !.buf = text]
    BY DEF Slurp
  <1>3. point \in k.pos..k.len
    BY <1>1, ScanRightOK
  <1> HIDE DEF point
  <1>4. point \in 0..k.len /\ point \in Nat
    BY <1>1, <1>3
  <1>5. start \in point..k.len
    BY <1>1, <1>4, ForwardOK
  <1> HIDE DEF start
  <1>6. start \in 0..k.len /\ start \in Nat
    BY <1>1, <1>4, <1>5
  <1>7. item \in start..k.len
    BY <1>1, <1>6, ForwardsOK
  <1> HIDE DEF item
  <1>8. item \in 0..k.len
    BY <1>1, <1>6, <1>7
  <1>9. to \in item..k.len
    BY <1>1, <1>8, ScanRightOK
  <1> HIDE DEF to
  <1>10. to \in 0..Len(s) /\ start \in 0..to /\ point \in 0..start
    BY <1>1, <1>4, <1>5, <1>6, <1>7, <1>8, <1>9
  <1>11. text \in Seq(Byte) /\ Len(text) = Len(s)
    <2> HIDE DEF s
    <2> QED
      BY <1>1, <1>10, Swapped
  <1> HIDE DEF text
  <1>12. Kept(k, [k EXCEPT !.pos = k.pos, !.buf = text])
    BY <1>1, <1>11, ReplacedOK
  <1>13. [k EXCEPT !.pos = k.pos, !.buf = text] = [k EXCEPT !.buf = text]
    BY <1>1 DEF Line
  <1> QED
    BY <1>2, <1>12, <1>13, StayOK

-----------------------------------------------------------------------------
(* The kill ring.                                                          *)

Rings == [i : 0..(Ring - 1), p : [0..(Ring - 1) -> Seq(Byte)]]

LEMMA InRing == \A n \in Int : n % Ring \in 0..(Ring - 1)
  BY SizeAssumption

LEMMA PushedOK ==
    ASSUME NEW r \in Rings, NEW text \in Seq(Byte) PROVE Pushed(r, text) \in Rings
  <1> DEFINE i == (r.i + 1) % Ring
  <1>1. r.i \in 0..(Ring - 1) /\ r.p \in [0..(Ring - 1) -> Seq(Byte)] /\ r.i + 1 \in Int
    BY SizeAssumption DEF Rings
  <1>2. i \in 0..(Ring - 1)
    BY <1>1, InRing
  <1> HIDE DEF i
  <1>3. [r.p EXCEPT ![i] = text] \in [0..(Ring - 1) -> Seq(Byte)]
    BY <1>1, <1>2
  <1>4. [i |-> i, p |-> [r.p EXCEPT ![i] = text]] \in Rings
    BY <1>2, <1>3 DEF Rings
  <1>5. Pushed(r, text) = IF text = <<>> THEN r ELSE [i |-> i, p |-> [r.p EXCEPT ![i] = text]]
    BY DEF Pushed, i
  <1> QED
    BY <1>4, <1>5

LEMMA RotatedOK ==
    ASSUME NEW r \in Rings PROVE Rotated(r) \in Rings
  <1> DEFINE before(n) == (r.i - n) % Ring
             holding == {n \in 1..Ring : r.p[before(n)] # <<>>}
             least == CHOOSE n \in holding : \A k \in holding : n <= k
  <1>1. r.i \in 0..(Ring - 1) /\ r.p \in [0..(Ring - 1) -> Seq(Byte)]
    BY DEF Rings
  <1>2. Rotated(r) = IF holding = {} THEN r ELSE [r EXCEPT !.i = before(least)]
    BY DEF Rotated
  <1>3. holding # {} => least \in 1..Ring
    <2>1. holding \in SUBSET Nat /\ holding \subseteq 1..Ring
      OBVIOUS
    <2> HIDE DEF holding
    <2>2. holding # {} => \E n \in holding : \A k \in holding : n <= k
      BY <2>1, Least
    <2> QED
      BY <2>1, <2>2
  <1> HIDE DEF holding, least
  <1>4. holding # {} => r.i - least \in Int
    BY <1>1, <1>3, SizeAssumption
  <1>5. holding # {} => before(least) \in 0..(Ring - 1)
    BY <1>4, InRing
  <1> HIDE DEF before
  <1>6. holding # {} => [r EXCEPT !.i = before(least)] \in Rings
    BY <1>5 DEF Rings
  <1> QED
    BY <1>2, <1>6

LEMMA YankedOK ==
    ASSUME NEW k, Fine(k), NEW r \in Rings, Settled(k) \/ r.p[r.i] = <<>>
    PROVE  Kept(k, Yanked(k, r))
  <1>1. r.p[r.i] \in Seq(Byte)
    BY DEF Rings
  <1> QED
    BY <1>1, YankOK, StayOK DEF Yanked

\* The last yank goes again if the cursor is at its end.
LEMMA UnyankOK ==
    ASSUME NEW k, Fine(k), Settled(k), k.pos = k.yj
    PROVE  Kept(k, Unyank(k)) /\ Settled(Unyank(k))
  <1> DEFINE cut == Cut(k, k.yi, k.yj)
  <1>1. /\ k \in Line /\ k.pos \in Nat /\ k.pos \in 0..k.len /\ k.len \in Nat /\ Sized(k)
        /\ k.yi \in Nat /\ k.yj \in Nat /\ k.yi <= k.yj
    BY FineFields DEF Fine
  <1>2. k.yj \in 0..k.len /\ k.yi \in 0..k.yj /\ k.yi \in 0..(k.len - (k.yj - k.yi))
    BY <1>1
  <1>3. Kept(k, At(cut, k.yi)) /\ Settled(cut) /\ cut \in Line
    BY <1>1, <1>2, CutAtOK, CutOK, CutSettled DEF Sized
  <1>4. k.pos - (k.yj - k.yi) = k.yi
    BY <1>1
  <1>5. [cut EXCEPT !.pos = k.pos - (k.yj - k.yi)] = At(cut, k.yi)
    BY <1>4 DEF At
  <1> HIDE DEF cut
  <1>6. Settled(At(cut, k.yi))
    BY <1>3 DEF At, Settled, Line
  <1> QED
    BY <1>3, <1>5, <1>6, StayOK DEF Unyank, cut


-----------------------------------------------------------------------------
(* The history.                                                            *)

Histories == {h \in Seq(Seq(Byte)) : Len(h) <= MaxHistory}

\* The history never grows beyond its array, nor does it shrink when a line is added.
LEMMA AddedOK ==
    ASSUME NEW h \in Histories, NEW line \in Seq(Byte)
    PROVE  /\ Added(h, line) \in Histories
           /\ Len(Added(h, line)) >= Len(h) /\ Len(Added(h, line)) >= 1
           /\ h # <<>> /\ h[Len(h)] = line => Added(h, line) = h
           /\ ~(h # <<>> /\ h[Len(h)] = line) =>
                  Len(Added(h, line)) = IF Len(h) = MaxHistory THEN MaxHistory ELSE Len(h) + 1
  <1>1. h \in Seq(Seq(Byte)) /\ Len(h) \in Nat /\ Len(h) <= MaxHistory /\ MaxHistory \in Nat /\ MaxHistory >= 2
    BY SizeAssumption DEF Histories
  <1>2. CASE h # <<>> /\ h[Len(h)] = line
    <2>1. Added(h, line) = h
      BY <1>2 DEF Added
    <2>2. Len(h) >= 1
      BY <1>1, <1>2
    <2> QED
      BY <1>1, <1>2, <2>1, <2>2
  <1>3. CASE ~(h # <<>> /\ h[Len(h)] = line) /\ Len(h) = MaxHistory
    <2>1. Added(h, line) = Append(Tail(h), line)
      BY <1>3 DEF Added
    <2>2. Tail(h) \in Seq(Seq(Byte)) /\ Len(Tail(h)) = Len(h) - 1
      BY <1>1, <1>3
    <2>3. /\ Append(Tail(h), line) \in Seq(Seq(Byte))
          /\ Len(Append(Tail(h), line)) = Len(Tail(h)) + 1
      BY <2>2
    <2>4. Len(Added(h, line)) = MaxHistory /\ Added(h, line) \in Histories
      BY <1>1, <1>3, <2>1, <2>2, <2>3 DEF Histories
    <2> QED
      BY <1>1, <1>3, <2>4
  <1>4. CASE ~(h # <<>> /\ h[Len(h)] = line) /\ Len(h) # MaxHistory
    <2>1. Added(h, line) = Append(h, line)
      BY <1>4 DEF Added
    <2>2. Append(h, line) \in Seq(Seq(Byte)) /\ Len(Append(h, line)) = Len(h) + 1
      BY <1>1
    <2>3. Len(Added(h, line)) = Len(h) + 1 /\ Added(h, line) \in Histories
      BY <1>1, <1>4, <2>1, <2>2 DEF Histories
    <2> QED
      BY <1>1, <1>4, <2>3
  <1> QED
    BY <1>2, <1>3, <1>4

LEMMA PoppedOK ==
    ASSUME NEW h \in Histories
    PROVE  Popped(h) \in Histories /\ Len(Popped(h)) = IF h = <<>> THEN 0 ELSE Len(h) - 1
  <1>1. h \in Seq(Seq(Byte)) /\ Len(h) \in Nat /\ Len(h) <= MaxHistory /\ MaxHistory \in Nat
    BY SizeAssumption DEF Histories
  <1>2. CASE h = <<>>
    BY <1>2 DEF Popped
  <1>3. CASE h # <<>>
    <2>1. Len(h) >= 1
      BY <1>1, <1>3
    <2>2. \A i \in 1..(Len(h) - 1) : h[i] \in Seq(Byte)
      BY <1>1
    <2>3. /\ SubSeq(h, 1, Len(h) - 1) \in Seq(Seq(Byte))
          /\ Len(SubSeq(h, 1, Len(h) - 1)) = IF 1 <= Len(h) - 1 THEN Len(h) - 1 - 1 + 1 ELSE 0
      <3>1. 1 \in Int /\ Len(h) - 1 \in Int
        BY <1>1
      <3> QED
        BY <2>2, <3>1, SubSeqProperties
    <2>4. Popped(h) = SubSeq(h, 1, Len(h) - 1)
      BY <1>3 DEF Popped
    <2>5. Len(SubSeq(h, 1, Len(h) - 1)) = Len(h) - 1
      <3> DEFINE n == Len(SubSeq(h, 1, Len(h) - 1))
                 z == Len(h)
      <3>1. n = IF 1 <= z - 1 THEN z - 1 - 1 + 1 ELSE 0
        BY <2>3
      <3>2. z \in Nat /\ z >= 1
        BY <1>1, <2>1
      <3> HIDE DEF n, z
      <3>3. n = z - 1
        BY <3>1, <3>2
      <3> QED
        BY <3>3 DEF n, z
    <2> QED
      BY <1>1, <1>3, <2>3, <2>4, <2>5 DEF Histories
  <1> QED
    BY <1>2, <1>3

\* The line goes to the entry it leaves; the others stay.
LEMMA StoredOK ==
    ASSUME NEW h \in Histories, NEW k, Fine(k), k.hindex < Len(h)
    PROVE  /\ Stored(h, k) \in Histories /\ Len(Stored(h, k)) = Len(h)
           /\ Slot(h, k.hindex) \in 1..Len(h) /\ Stored(h, k)[Slot(h, k.hindex)] = k.buf
           /\ \A q \in 1..Len(h) : q # Slot(h, k.hindex) => Stored(h, k)[q] = h[q]
  <1> DEFINE z == Slot(h, k.hindex)
  <1>1. h \in Seq(Seq(Byte)) /\ Len(h) \in Nat /\ k.hindex \in Nat /\ k.buf \in Seq(Byte)
    BY FineFields DEF Histories, Line
  <1>2. z \in 1..Len(h)
    BY <1>1 DEF Slot
  <1>3. Stored(h, k) = [h EXCEPT ![z] = k.buf]
    BY DEF Stored
  <1> HIDE DEF z
  <1>4. Stored(h, k) \in Seq(Seq(Byte)) /\ Len(Stored(h, k)) = Len(h)
    BY <1>1, <1>2, <1>3
  <1>5. Stored(h, k)[z] = k.buf /\ \A q \in 1..Len(h) : q # z => Stored(h, k)[q] = h[q]
    BY <1>1, <1>2, <1>3
  <1> QED
    BY <1>2, <1>4, <1>5 DEF Histories, z

\* The line of the entry that is entered, with the cursor in it.
LEMMA EnteredOK ==
    ASSUME NEW h \in Histories, NEW k, Fine(k), k.hindex < Len(h), NEW i \in 0..(Len(h) - 1)
    PROVE  LET j == Entered(h, k, i)
               text == Stored(h, k)[Slot(h, i)]
           IN  /\ Fine(j) /\ j.hindex = i /\ j.buf = text /\ text \in Seq(Byte)
               /\ \A p \in 0..Len(text) : Fine([j EXCEPT !.pos = p])
  <1> DEFINE text == Stored(h, k)[Slot(h, i)]
             n == Len(text)
             m == Grown(k.buflen, n + 1)
             j == Entered(h, k, i)
  <1>1. Stored(h, k) \in Seq(Seq(Byte)) /\ Len(Stored(h, k)) = Len(h) /\ Len(h) \in Nat
    BY StoredOK DEF Histories
  <1>2. Slot(h, i) \in 1..Len(h) /\ i \in Nat
    BY <1>1 DEF Slot
  <1>3. text \in Seq(Byte) /\ n \in Nat
    <2>1. text \in Seq(Byte)
      BY <1>1, <1>2
    <2> HIDE DEF text
    <2> QED
      BY <2>1
  <1>4. j = [k EXCEPT !.buf = text, !.len = n, !.pos = n, !.hindex = i, !.buflen = m]
    BY DEF Entered
  <1>5. k \in Line /\ k.buflen \in Nat /\ 2 <= k.buflen /\ k.yi <= k.yj
    BY FineFields
  <1> HIDE DEF text, n
  <1>6. m \in Nat /\ m >= n + 1 /\ m >= k.buflen
    <2>1. n + 1 \in Nat
      BY <1>3
    <2> QED
      BY <1>5, <2>1, GrownOK
  <1> HIDE DEF m, j
  <1>7. j \in Line
    <2>1. n \in Int
      BY <1>3
    <2> QED
      BY <1>2, <1>3, <1>4, <1>5, <1>6, <2>1 DEF Line
  <1>8. /\ j.buf = text /\ j.len = n /\ j.pos = n /\ j.hindex = i /\ j.buflen = m
        /\ j.yi = k.yi /\ j.yj = k.yj
    BY <1>4, <1>5 DEF Line
  <1>9. Sized(j) /\ n = Len(text)
    BY <1>3, <1>5, <1>6, <1>7, <1>8 DEF Sized, n
  <1>10. \A p \in 0..n : Fine(At(j, p))
    BY <1>8, <1>9, AtOK DEF Kept
  <1>11. \A p \in 0..n : Fine([j EXCEPT !.pos = p])
    BY <1>10 DEF At
  <1>12. Fine(j)
    BY <1>3, <1>8, <1>9 DEF Fine
  <1> QED
    BY <1>3, <1>8, <1>9, <1>11, <1>12 DEF j, text

-----------------------------------------------------------------------------
(* The invariant.                                                          *)

Sorts ==
    /\ pc \in {"prompt", "edit", "search", "over"} /\ Fine(l) /\ full \in Seq(Byte)
    /\ history \in Histories /\ ring \in Rings
    /\ search \in [ab : Seq(Byte), pos : Nat, index : Nat]
    /\ keys \in 0..MaxKeys /\ entries \in Nat /\ entries <= MaxHistory

\* The entry the editor put in is still the one that will be taken out, and the line is
\* that of an entry.
Placed ==
    pc \in {"edit", "search"} =>
        /\ l.hindex < Len(history)
        /\ \/ Len(history) = entries + 1
           \/ entries = MaxHistory /\ Len(history) = MaxHistory

\* Where the search leads, the line is what the entry holds, so that what is found in the
\* entry is in the line; and the cursor it began with is inside of what it began with.
Searching ==
    pc = "search" =>
        /\ history[Slot(history, l.hindex)] \in {l.buf, <<>>}
        /\ search.index < Len(history)
        /\ search.pos <= Len(Stored(history, l)[Slot(history, search.index)])

Inv == Sorts /\ pastemode \in BOOLEAN /\ Placed /\ HistoryKept /\ Searching

\* A new line.
LEMMA NewLineOK == Fine(NewLine(FirstBuflen)) /\ NewLine(FirstBuflen).hindex = 0
  <1> DEFINE k == NewLine(FirstBuflen)
  <1>1. FirstBuflen \in Nat /\ FirstBuflen >= 2 /\ <<>> \in Seq(Byte) /\ Len(<<>>) = 0
    BY SizeAssumption
  <1>2. k \in Line
    BY <1>1 DEF NewLine, Line
  <1>3. /\ k.buf = <<>> /\ k.len = 0 /\ k.pos = 0 /\ k.buflen = FirstBuflen /\ k.yi = 0 /\ k.yj = 0
        /\ k.hindex = 0
    BY DEF NewLine
  <1> HIDE DEF k
  <1>4. Fine(k) /\ k.hindex = 0
    BY <1>1, <1>2, <1>3 DEF Fine, Sized
  <1> QED
    BY <1>4 DEF k

LEMMA InitInv == Init => Inv
  <1> SUFFICES ASSUME Init PROVE Inv
    OBVIOUS
  <1> DEFINE k == NewLine(FirstBuflen)
  <1>1. Fine(k)
    BY NewLineOK
  <1>2. FirstHistory \in Histories /\ Len(FirstHistory) \in Nat /\ Len(FirstHistory) <= MaxHistory
    <2>1. FirstHistory \in Seq(Seq(Byte)) /\ Len(FirstHistory) \in Nat
      <3>1. FirstHistory \in Seq(Seq(Byte) \ {<<>>})
        BY TextAssumption
      <3> QED
        BY <3>1
    <2> QED
      BY <2>1, SizeAssumption DEF Histories
  <1>3. ring \in Rings
    <2>1. 0 \in 0..(Ring - 1)
      BY SizeAssumption
    <2>2. [j \in 0..(Ring - 1) |-> <<>>] \in [0..(Ring - 1) -> Seq(Byte)]
      OBVIOUS
    <2> QED
      BY <2>1, <2>2 DEF Init, Rings
  <1>4. /\ pc = "prompt" /\ l = k /\ full = <<>> /\ history = FirstHistory /\ search = NoSearch
        /\ keys = 0 /\ entries = Len(FirstHistory)
    BY DEF Init
  <1> HIDE DEF k
  <1>5. Sorts
    <2>1. NoSearch \in [ab : Seq(Byte), pos : Nat, index : Nat]
      BY DEF NoSearch
    <2>2. keys \in 0..MaxKeys
      BY <1>4, SizeAssumption
    <2> QED
      BY <1>1, <1>2, <1>3, <1>4, <2>1, <2>2 DEF Sorts
  <1>6. HistoryKept
    <2>1. MaxHistory \in Nat
      BY SizeAssumption
    <2>2. Len(history) = entries /\ entries \in Nat
      BY <1>2, <1>4
    <2> QED
      BY <2>1, <2>2 DEF HistoryKept
  <1>7. Placed /\ Searching
    BY DEF Init, Placed, Searching
  <1>8. pastemode \in BOOLEAN
    BY DEF Init
  <1> QED
    BY <1>5, <1>6, <1>7, <1>8 DEF Inv

\* The entries of a history, one that is empty at its end aside.
LEMMA Counted ==
    ASSUME NEW h \in Histories
    PROVE  Cardinality({k \in DOMAIN h : k < Len(h) \/ h[k] # <<>>})
               = IF h # <<>> /\ h[Len(h)] = <<>> THEN Len(h) - 1 ELSE Len(h)
  <1> DEFINE S == {k \in DOMAIN h : k < Len(h) \/ h[k] # <<>>}
  <1>1. Len(h) \in Nat /\ DOMAIN h = 1..Len(h) /\ (h # <<>> => Len(h) >= 1) /\ (h = <<>> => Len(h) = 0)
    BY DEF Histories
  <1>2. CASE h # <<>> /\ h[Len(h)] = <<>>
    <2>1. S = 1..(Len(h) - 1)
      BY <1>1, <1>2
    <2>2. Cardinality(1..(Len(h) - 1)) = IF 1 > Len(h) - 1 THEN 0 ELSE Len(h) - 1 - 1 + 1
      <3>1. 1 \in Int /\ Len(h) - 1 \in Int
        BY <1>1
      <3> QED
        BY <3>1, FS_Interval
    <2>3. Cardinality(1..(Len(h) - 1)) = Len(h) - 1
      BY <1>1, <1>2, <2>2
    <2> QED
      BY <1>2, <2>1, <2>3
  <1>3. CASE ~(h # <<>> /\ h[Len(h)] = <<>>)
    <2>1. S = 1..Len(h)
      BY <1>1, <1>3
    <2>2. Cardinality(1..Len(h)) = IF 1 > Len(h) THEN 0 ELSE Len(h) - 1 + 1
      <3>1. 1 \in Int /\ Len(h) \in Int
        BY <1>1
      <3> QED
        BY <3>1, FS_Interval
    <2>3. Cardinality(1..Len(h)) = Len(h)
      BY <1>1, <2>2
    <2> QED
      BY <1>3, <2>1, <2>3
  <1> QED
    BY <1>2, <1>3

-----------------------------------------------------------------------------
(* A command begins, and ends.                                             *)

LEMMA BeginStep ==
    ASSUME Inv, Begin PROVE Inv'
  <1>1. Sorts /\ history \in Histories
    BY DEF Inv, Sorts
  <1>2. /\ pc' = "edit" /\ l' = NewLine(FirstBuflen) /\ full' = <<>> /\ pastemode' = FALSE
        /\ history' = Added(history, <<>>)
        /\ entries' = Cardinality({k \in DOMAIN history : k < Len(history) \/ history[k] # <<>>})
        /\ UNCHANGED <<ring, search, keys, typed>>
    BY DEF Begin
  <1>3. <<>> \in Seq(Byte) /\ Len(history) \in Nat /\ Len(history) <= MaxHistory /\ MaxHistory \in Nat
    BY <1>1, SizeAssumption DEF Histories
  <1>4. /\ history' \in Histories /\ Len(history') >= 1
        /\ history # <<>> /\ history[Len(history)] = <<>> => history' = history
        /\ ~(history # <<>> /\ history[Len(history)] = <<>>) =>
               Len(history') = IF Len(history) = MaxHistory THEN MaxHistory ELSE Len(history) + 1
    BY <1>1, <1>2, <1>3, AddedOK
  <1>5. entries' = IF history # <<>> /\ history[Len(history)] = <<>> THEN Len(history) - 1 ELSE Len(history)
    BY <1>1, <1>2, Counted
  <1>6. /\ entries' \in Nat /\ entries' <= MaxHistory
        /\ \/ Len(history') = entries' + 1
           \/ entries' = MaxHistory /\ Len(history') = MaxHistory
    <2>1. CASE history # <<>> /\ history[Len(history)] = <<>>
      BY <1>3, <1>4, <1>5, <2>1
    <2>2. CASE ~(history # <<>> /\ history[Len(history)] = <<>>)
      BY <1>3, <1>4, <1>5, <2>2
    <2> QED
      BY <2>1, <2>2
  <1>7. Sorts'
    BY <1>1, <1>2, <1>3, <1>4, <1>6, NewLineOK DEF Sorts
  <1>8. Placed'
    <2>1. l'.hindex < Len(history')
      BY <1>2, <1>4, NewLineOK DEF Histories
    <2> QED
      BY <1>6, <2>1 DEF Placed
  <1>9. HistoryKept' /\ Searching'
    BY <1>2 DEF HistoryKept, Searching
  <1>10. (pastemode \in BOOLEAN)'
    BY <1>2
  <1> QED
    BY <1>7, <1>8, <1>9, <1>10 DEF Inv

\* A command that ends.
LEMMA EndStep ==
    ASSUME Inv, pc \in {"edit", "search"}, pc' \in {"prompt", "over"}, Freed,
           history' \in Histories, Len(history') >= Len(Popped(history)),
           search' \in {search, NoSearch}, keys' \in 0..MaxKeys, ring' = ring, entries' = entries,
           pastemode' \in {pastemode, FALSE}
    PROVE  Inv'
  <1>1. Sorts /\ history \in Histories /\ Placed
    BY DEF Inv, Sorts
  <1>2. l' = NewLine(FirstBuflen) /\ full' = <<>>
    BY DEF Freed
  <1>3. /\ Len(history) \in Nat /\ Len(history) <= MaxHistory /\ MaxHistory \in Nat
        /\ MaxHistory >= 2 /\ entries \in Nat /\ Len(history') \in Nat
    BY <1>1, SizeAssumption DEF Histories, Sorts
  <1>4. Len(history) >= 1
    <2>1. l.hindex < Len(history) /\ l.hindex \in Nat
      BY <1>1 DEF Placed, Sorts, Fine, Sized, Line
    <2> QED
      BY <1>3, <2>1
  <1>5. Len(Popped(history)) = Len(history) - 1
    BY <1>1, <1>4, PoppedOK
  <1>6. HistoryKept'
    <2>1. \/ Len(history) = entries + 1
          \/ entries = MaxHistory /\ Len(history) = MaxHistory
      BY <1>1 DEF Placed
    <2>2. Len(history') >= (IF entries = MaxHistory THEN entries - 1 ELSE entries)
      BY <1>3, <1>5, <2>1
    <2> QED
      BY <2>2 DEF HistoryKept
  <1>7. Sorts'
    <2>1. NoSearch \in [ab : Seq(Byte), pos : Nat, index : Nat]
      BY DEF NoSearch
    <2>2. search' \in [ab : Seq(Byte), pos : Nat, index : Nat]
      BY <1>1, <2>1 DEF Sorts
    <2> QED
      BY <1>1, <1>2, <2>2, NewLineOK DEF Sorts
  <1>8. Placed' /\ Searching'
    BY DEF Placed, Searching
  <1>9. (pastemode \in BOOLEAN)'
    BY DEF Inv
  <1> QED
    BY <1>6, <1>7, <1>8, <1>9 DEF Inv

LEMMA KeyCounted ==
    ASSUME Inv, keys < MaxKeys, keys' = keys + 1
    PROVE  keys' \in 0..MaxKeys
  BY SizeAssumption DEF Inv, Sorts

\* What the line gives the command.
LEMMA FinishedOK ==
    ASSUME Inv PROVE Finished \in Seq(Byte)
  <1>1. full \in Seq(Byte) /\ Fine(l)
    BY DEF Inv, Sorts
  <1>2. l.len \in 0..Len(l.buf) /\ 0 \in 0..l.len /\ l.buf \in Seq(Byte)
    BY <1>1, FineFields
  <1>3. Bytes(l.buf, 0, l.len) \in Seq(Byte)
    BY <1>2, BytesOK
  <1> QED
    BY <1>1, <1>3, Joined DEF Finished

LEMMA SubmitStep ==
    ASSUME Inv, Careful, Submit PROVE Inv'
  <1>1. ~pastemode /\ pc = "edit" /\ keys < MaxKeys /\ keys' = keys + 1
    BY DEF Submit, Uses, Press
  <1>2. /\ pc' = "prompt" /\ history' = Added(Popped(history), Finished) /\ Freed
        /\ pastemode' = pastemode /\ ring' = ring /\ search' = search /\ entries' = entries
    BY <1>1 DEF Submit, ghosts
  <1>3. Popped(history) \in Histories
    BY PoppedOK DEF Inv, Sorts
  <1>4. Added(Popped(history), Finished) \in Histories
        /\ Len(Added(Popped(history), Finished)) >= Len(Popped(history))
    BY <1>3, AddedOK, FinishedOK
  <1>5. keys' \in 0..MaxKeys
    BY <1>1, KeyCounted
  <1> QED
    BY <1>1, <1>2, <1>4, <1>5, EndStep

LEMMA InterruptStep ==
    ASSUME Inv, Interrupt PROVE Inv'
  <1>1. /\ pc \in {"edit", "search"} /\ keys < MaxKeys /\ keys' = keys + 1 /\ pc' = "prompt"
        /\ history' = Popped(history) /\ Freed /\ pastemode' = FALSE /\ search' = NoSearch
        /\ ring' = ring /\ entries' = entries
    BY DEF Interrupt, ghosts
  <1>2. Popped(history) \in Histories /\ Len(Popped(history)) \in Nat
    BY PoppedOK DEF Inv, Sorts, Histories
  <1>3. keys' \in 0..MaxKeys
    BY <1>1, KeyCounted
  <1>4. history' \in Histories /\ Len(history') >= Len(Popped(history))
    BY <1>1, <1>2
  <1>5. pc' \in {"prompt", "over"} /\ search' \in {search, NoSearch} /\ pastemode' \in {pastemode, FALSE}
    BY <1>1
  <1> HIDE DEF NoSearch
  <1> QED
    BY <1>1, <1>3, <1>4, <1>5, EndStep

LEMMA EndOfFileStep ==
    ASSUME Inv, EndOfFile PROVE Inv'
  <1>1. /\ pc = "edit" /\ keys < MaxKeys /\ keys' = keys + 1 /\ pc' = "over"
        /\ history' = Popped(history) /\ Freed /\ pastemode' = pastemode /\ search' = search
        /\ ring' = ring /\ entries' = entries
    BY DEF EndOfFile, Press, ghosts
  <1>2. Popped(history) \in Histories /\ Len(Popped(history)) \in Nat
    BY PoppedOK DEF Inv, Sorts, Histories
  <1>3. keys' \in 0..MaxKeys
    BY <1>1, KeyCounted
  <1> QED
    BY <1>1, <1>2, <1>3, EndStep

\* A key in the edited line, whatever becomes of the finished lines and the ring.
LEMMA LineStep ==
    ASSUME Inv, pc = "edit", keys < MaxKeys, keys' = keys + 1, Kept(l, l'),
           full' \in Seq(Byte), ring' \in Rings, pastemode' \in BOOLEAN,
           UNCHANGED <<pc, history, search, ghosts>>
    PROVE  Inv'
  <1>1. keys' \in 0..MaxKeys
    BY KeyCounted
  <1>2. pc' = pc /\ history' = history /\ search' = search /\ entries' = entries
    BY DEF ghosts
  <1>3. Fine(l') /\ l'.hindex = l.hindex
    BY DEF Kept
  <1>4. Sorts'
    BY <1>1, <1>2, <1>3 DEF Inv, Sorts
  <1>5. Placed'
    BY <1>2, <1>3 DEF Inv, Placed
  <1>6. HistoryKept' /\ Searching'
    BY <1>2 DEF HistoryKept, Searching
  <1> QED
    BY <1>4, <1>5, <1>6 DEF Inv

LEMMA ResetOK ==
    ASSUME NEW k \in Line PROVE [k EXCEPT !.len = 0, !.pos = 0] \in Line
  <1>1. \A n \in Nat, p \in Int : [k EXCEPT !.len = n, !.pos = p] \in Line
    BY DEF Line
  <1>2. 0 \in Nat /\ 0 \in Int
    OBVIOUS
  <1> QED
    BY <1>1, <1>2

LEMMA NewLineKeyStep ==
    ASSUME Inv, NewLineKey PROVE Inv'
  <1> DEFINE j == [l EXCEPT !.len = 0, !.pos = 0]
  <1>1. /\ pc = "edit" /\ keys < MaxKeys /\ keys' = keys + 1 /\ full' = Finished \o <<"\n">>
        /\ l' = j /\ pastemode' = pastemode /\ ring' = ring
        /\ UNCHANGED <<pc, history, search, ghosts>>
    BY DEF NewLineKey, Press
  <1>2. full' \in Seq(Byte)
    <2>1. <<"\n">> \in Seq(Byte)
      BY TextAssumption
    <2> QED
      BY <1>1, <2>1, FinishedOK, Joined
  <1>3. Kept(l, l')
    <2>1. Fine(l) /\ l \in Line
      BY DEF Inv, Sorts, Fine, Sized
    <2>2. j \in Line
      BY <2>1, ResetOK
    <2>3. /\ j.buf = l.buf /\ j.len = 0 /\ j.pos = 0 /\ j.buflen = l.buflen /\ j.hindex = l.hindex
          /\ j.yi = l.yi /\ j.yj = l.yj
      BY <2>1 DEF Line
    <2>4. Len(l.buf) \in Nat
      BY <2>1, FineFields
    <2> HIDE DEF j
    <2>5. Kept(l, j)
      BY <2>1, <2>2, <2>3, <2>4 DEF Kept, Fine, Sized
    <2> QED
      BY <1>1, <2>5
  <1>4. ring' \in Rings /\ pastemode' \in BOOLEAN
    BY <1>1 DEF Inv, Sorts
  <1> QED
    BY <1>1, <1>2, <1>3, <1>4, LineStep

LEMMA PasteStep ==
    ASSUME Inv, Paste PROVE Inv'
  <1>1. /\ pc = "edit" /\ keys < MaxKeys /\ keys' = keys + 1 /\ full' = full /\ l' = l
        /\ ring' = ring /\ UNCHANGED <<pc, history, search, ghosts>>
    BY DEF Paste, Press
  <1>2. pastemode' \in BOOLEAN
    BY DEF Paste
  <1>3. Fine(l) /\ full \in Seq(Byte) /\ ring \in Rings
    BY DEF Inv, Sorts
  <1> QED
    BY <1>1, <1>2, <1>3, StayOK, LineStep

LEMMA EditStep ==
    ASSUME Inv, NEW key, NEW k, Edit(key, k), Kept(l, k) PROVE Inv'
  <1>1. /\ pc = "edit" /\ keys < MaxKeys /\ keys' = keys + 1 /\ full' = full /\ l' = k
        /\ ring' = ring /\ pastemode' = pastemode /\ UNCHANGED <<pc, history, search, ghosts>>
    BY DEF Edit, Press
  <1>2. full \in Seq(Byte) /\ ring \in Rings /\ pastemode \in BOOLEAN
    BY DEF Inv, Sorts
  <1> QED
    BY <1>1, <1>2, LineStep

-----------------------------------------------------------------------------
(* The keys.                                                               *)

LEMMA LineIsFine ==
    ASSUME Inv PROVE Fine(l) /\ ring \in Rings /\ history \in Histories
  BY DEF Inv, Sorts

LEMMA MoveStep ==
    ASSUME Inv, Move PROVE Inv'
  <1>1. Fine(l)
    BY LineIsFine
  <1>2. CASE Edit("home", Home(l))
    BY <1>1, <1>2, HomeOK, EditStep
  <1>3. CASE Edit("end", End(l))
    BY <1>1, <1>3, HomeOK, EditStep
  <1>4. CASE Edit("left", LeftKey(l))
    BY <1>1, <1>4, LeftKeyOK, EditStep
  <1>5. CASE Edit("right", Right(l))
    BY <1>1, <1>5, RightOK, EditStep
  <1>6. CASE Edit("leftword", LeftWord(l))
    BY <1>1, <1>6, LeftWordOK, EditStep
  <1>7. CASE Edit("rightword", RightWord(l))
    BY <1>1, <1>7, LeftWordOK, EditStep
  <1>8. CASE Edit("leftexpr", LeftExpr(l))
    BY <1>1, <1>8, LeftExprOK, EditStep
  <1>9. CASE Edit("rightexpr", RightExpr(l))
    BY <1>1, <1>9, RightExprOK, EditStep
  <1>10. CASE Edit("mark", SetMark(l))
    BY <1>1, <1>10, MarkOK, EditStep
  <1>11. CASE Edit("ctrlx", GotoMark(l))
    BY <1>1, <1>11, MarkOK, EditStep
  <1>12. CASE Edit("ctrlx", l)
    BY <1>1, <1>12, StayOK, EditStep
  <1> QED
    BY <1>2, <1>3, <1>4, <1>5, <1>6, <1>7, <1>8, <1>9, <1>10, <1>11, <1>12 DEF Move

LEMMA ChangeStep ==
    ASSUME Inv, Careful, Change PROVE Inv'
  <1>1. Fine(l)
    BY LineIsFine
  <1>2. ASSUME NEW r \in Runes, Edit("type", Insert(l, r)) PROVE Inv'
    <2>1. r \in Seq(Byte)
      BY TextAssumption
    <2> QED
      BY <1>1, <1>2, <2>1, InsertOK, EditStep
  <1>3. CASE Edit("delete", Delete(l))
    BY <1>1, <1>3, DeleteOK, EditStep
  <1>4. CASE Edit("rubout", Rubout(l))
    BY <1>1, <1>4, RuboutOK, EditStep
  <1>5. CASE Edit("transpose", Transpose(l))
    BY <1>1, <1>5, TransposeOK, EditStep
  <1>6. CASE Uses("transposewords") /\ Edit("transposewords", TransposeWords(l))
    <2>1. \A p \in 1..l.len : l.buf[p] \notin Leading
      BY <1>6 DEF Uses
    <2> QED
      BY <1>1, <1>6, <2>1, TransposeWordsOK, EditStep
  <1>7. CASE Edit("uppercase", UppercaseWord(l))
    BY <1>1, <1>7, OtherCaseOK, EditStep
  <1>8. CASE Edit("lowercase", LowercaseWord(l))
    BY <1>1, <1>8, OtherCaseOK, EditStep
  <1>9. CASE Edit("capitalize", CapitalizeWord(l))
    BY <1>1, <1>9, OtherCaseOK, EditStep
  <1>10. CASE Edit("squeeze", Squeeze(l))
    BY <1>1, <1>10, SqueezeOK, EditStep
  <1>11. CASE Edit("barf", Barf(l))
    BY <1>1, <1>11, BarfOK, EditStep
  <1>12. CASE Edit("slurp", Slurp(l))
    BY <1>1, <1>12, SlurpOK, EditStep
  <1> QED
    BY <1>2, <1>3, <1>4, <1>5, <1>6, <1>7, <1>8, <1>9, <1>10, <1>11, <1>12 DEF Change

LEMMA QuoteStep ==
    ASSUME Inv, Quote PROVE Inv'
  <1>1. PICK key \in {"yank", "left"} : Edit(key, Insert(l, Escaped))
    BY DEF Quote
  <1>2. Escaped \in Seq(Byte) /\ Fine(l)
    BY TextAssumption, LineIsFine
  <1>3. Kept(l, Insert(l, Escaped))
    BY <1>2, InsertOK
  <1> QED
    BY <1>1, <1>3, EditStep

LEMMA KillStep ==
    ASSUME Inv, NEW key, NEW k, NEW text, Kill(key, k, text), Kept(l, k) /\ text \in Seq(Byte)
    PROVE  Inv'
  <1>1. /\ pc = "edit" /\ keys < MaxKeys /\ keys' = keys + 1 /\ full' = full /\ l' = k
        /\ ring' = Pushed(ring, text) /\ pastemode' = pastemode
        /\ UNCHANGED <<pc, history, search, ghosts>>
    BY DEF Kill, Press
  <1>2. full \in Seq(Byte) /\ ring \in Rings /\ pastemode \in BOOLEAN
    BY DEF Inv, Sorts
  <1>3. ring' \in Rings
    BY <1>1, <1>2, PushedOK
  <1> QED
    BY <1>1, <1>2, <1>3, LineStep

LEMMA KillsStep ==
    ASSUME Inv, Kills PROVE Inv'
  <1>1. Fine(l)
    BY LineIsFine
  <1>2. CASE Kill("killleft", KillLeft(l), KillLeftKills(l))
    BY <1>1, <1>2, KillLeftOK, KillStep
  <1>3. CASE Kill("killright", KillRight(l), KillRightKills(l))
    BY <1>1, <1>3, KillRightOK, KillStep
  <1>4. CASE Kill("ruboutword", RuboutWord(l), RuboutWordKills(l))
    BY <1>1, <1>4, RuboutWordOK, KillStep
  <1>5. CASE Kill("deleteword", DeleteWord(l), DeleteWordKills(l))
    BY <1>1, <1>5, DeleteWordOK, KillStep
  <1> QED
    BY <1>2, <1>3, <1>4, <1>5 DEF Kills

LEMMA YankStep ==
    ASSUME Inv, Careful, YankKey PROVE Inv'
  <1>1. (Settled(l) \/ ring.p[ring.i] = <<>>) /\ Edit("yank", Yanked(l, ring))
    BY DEF YankKey, Uses
  <1>2. Kept(l, Yanked(l, ring))
    BY <1>1, LineIsFine, YankedOK
  <1> QED
    BY <1>1, <1>2, EditStep

LEMMA RotateStep ==
    ASSUME Inv, Careful, RotateKey PROVE Inv'
  <1> DEFINE r == Rotated(ring)
             k == Unyank(l)
  <1>1. /\ pc = "edit" /\ keys < MaxKeys /\ keys' = keys + 1 /\ full' = full
        /\ pastemode' = pastemode /\ UNCHANGED <<pc, history, search, ghosts>>
    BY DEF RotateKey, Press
  <1>2. l.pos = l.yj /\ Settled(l)
    BY DEF RotateKey, Uses
  <1>3. \/ ring' = r /\ l' = Yanked(k, r)
        \/ ring' = ring /\ l' = l
    BY DEF RotateKey
  <1>4. full \in Seq(Byte) /\ ring \in Rings /\ pastemode \in BOOLEAN /\ Fine(l)
    BY DEF Inv, Sorts
  <1>5. r \in Rings
    BY <1>4, RotatedOK
  <1>6. Kept(l, k) /\ Settled(k)
    BY <1>2, <1>4, UnyankOK
  <1> HIDE DEF r, k
  <1>7. Kept(k, Yanked(k, r))
    BY <1>2, <1>5, <1>6, YankedOK DEF Kept
  <1>8. Kept(l, l') /\ ring' \in Rings
    BY <1>3, <1>4, <1>5, <1>6, <1>7, KeptTwice, StayOK
  <1> QED
    BY <1>1, <1>4, <1>8, LineStep

LEMMA CompleteStep ==
    ASSUME Inv, Careful, Complete PROVE Inv'
  <1>1. /\ pc = "edit" /\ keys < MaxKeys /\ keys' = keys + 1 /\ full' = full /\ ring' = ring
        /\ pastemode' = pastemode /\ UNCHANGED <<pc, history, search, ghosts>>
    BY DEF Complete, Press
  <1>2. l.pos = l.len
    BY DEF Complete, Uses
  <1>3. PICK s \in Suffixes :
            LET text == Bytes(l.buf, 0, l.pos) \o s
            IN  l' = [l EXCEPT !.buf = text, !.len = Len(text), !.pos = @ + Len(text) - l.len,
                               !.buflen = Grown(@, Len(text) + 1)]
    BY DEF Complete
  <1> DEFINE text == Bytes(l.buf, 0, l.pos) \o s
             n == Len(text)
             m == Grown(l.buflen, n + 1)
  <1>4. l' = [l EXCEPT !.buf = text, !.len = n, !.pos = l.pos + n - l.len, !.buflen = m]
    BY <1>3
  <1>5. /\ l \in Line /\ l.len \in Nat /\ l.buf \in Seq(Byte) /\ l.len <= Len(l.buf)
        /\ l.buflen \in Nat /\ 2 <= l.buflen /\ l.yi <= l.yj /\ Sized(l)
    BY LineIsFine, FineFields DEF Fine
  <1>6. text \in Seq(Byte)
    <2>1. l.pos \in 0..Len(l.buf) /\ 0 \in 0..l.pos
      BY <1>2, <1>5
    <2>2. Bytes(l.buf, 0, l.pos) \in Seq(Byte)
      BY <1>5, <2>1, BytesOK
    <2>3. s \in Seq(Byte)
      BY TextAssumption
    <2> QED
      BY <2>2, <2>3, Joined
  <1> HIDE DEF text
  <1>7. n \in Nat /\ n + 1 \in Nat
    BY <1>6
  <1>8. n = Len(text)
    OBVIOUS
  <1> HIDE DEF n
  <1>9. l.pos + n - l.len = n
    BY <1>2, <1>5, <1>7
  <1>10. m \in Nat /\ m >= n + 1
    BY <1>5, <1>7, GrownOK
  <1> HIDE DEF m
  <1>11. l' = [l EXCEPT !.buf = text, !.len = n, !.pos = n, !.buflen = m]
    BY <1>4, <1>9
  <1>12. l' \in Line
    <2>1. n \in Int
      BY <1>7
    <2> QED
      BY <1>5, <1>6, <1>7, <1>10, <1>11, <2>1 DEF Line
  <1>13. /\ l'.buf = text /\ l'.len = n /\ l'.pos = n /\ l'.buflen = m /\ l'.hindex = l.hindex
         /\ l'.yi = l.yi /\ l'.yj = l.yj
    BY <1>5, <1>11 DEF Line
  <1>14. Kept(l, l')
    <2>1. n \in 0..Len(text) /\ n \in 0..n /\ Len(text) < m /\ 2 <= m
      <3>1. m >= l.buflen
        BY <1>5, <1>7, GrownOK DEF m
      <3> QED
        BY <1>5, <1>7, <1>8, <1>10, <3>1
    <2>2. l'.len <= Len(l'.buf) /\ Len(l'.buf) < l'.buflen /\ 2 <= l'.buflen /\ l'.yi <= l'.yj
          /\ l'.pos \in 0..l'.len
      BY <1>5, <1>13, <2>1
    <2> QED
      BY <1>12, <1>13, <2>2 DEF Kept, Fine, Sized
  <1>15. full \in Seq(Byte) /\ ring \in Rings /\ pastemode \in BOOLEAN
    BY DEF Inv, Sorts
  <1> QED
    BY <1>1, <1>14, <1>15, LineStep

\* The line and the history change with another entry entered.
LEMMA TravelStep ==
    ASSUME Inv, Travel PROVE Inv'
  <1>1. /\ pc = "edit" /\ keys < MaxKeys /\ keys' = keys + 1
        /\ UNCHANGED <<full, pastemode, ring, search, ghosts>>
    BY DEF Travel, Press
  <1>2. PICK i : Moves(i) /\ Goto(i)
    BY DEF Travel
  <1>3. i \in 0..(Len(history) - 1)
    BY <1>2 DEF Moves
  <1>4. Sorts /\ history \in Histories /\ Fine(l) /\ l.hindex < Len(history) /\ Placed
    BY <1>1 DEF Inv, Sorts, Placed
  <1>5. history' = Stored(history, l) /\ l' = Entered(history, l, i) /\ pc' = pc
    BY <1>2, <1>4 DEF Goto
  <1>6. history' \in Histories /\ Len(history') = Len(history)
    BY <1>4, <1>5, StoredOK
  <1>7. Fine(l') /\ l'.hindex = i
    BY <1>3, <1>4, <1>5, EnteredOK
  <1>8. i < Len(history')
    BY <1>3, <1>4, <1>6 DEF Histories
  <1>9. keys' \in 0..MaxKeys
    BY <1>1, KeyCounted
  <1>10. full' = full /\ pastemode' = pastemode /\ ring' = ring /\ search' = search /\ entries' = entries
    BY <1>1 DEF ghosts
  <1>11. Sorts'
    BY <1>4, <1>5, <1>6, <1>7, <1>9, <1>10 DEF Sorts
  <1>12. Placed'
    BY <1>1, <1>4, <1>6, <1>7, <1>8, <1>10 DEF Placed
  <1>13. HistoryKept' /\ Searching'
    BY <1>1, <1>5 DEF HistoryKept, Searching
  <1>14. (pastemode \in BOOLEAN)'
    BY <1>10 DEF Inv
  <1> QED
    BY <1>11, <1>12, <1>13, <1>14 DEF Inv

-----------------------------------------------------------------------------
(* The search.                                                             *)

LEMMA SearchBegins ==
    ASSUME Inv, Careful, Search PROVE Inv'
  <1>1. /\ pc = "edit" /\ keys < MaxKeys /\ keys' = keys + 1 /\ pc' = "search"
        /\ search' = [ab |-> <<>>, pos |-> l.pos, index |-> l.hindex]
        /\ UNCHANGED <<editing, history, ring, entries>>
    BY DEF Search, Press
  <1>2. history[Slot(history, l.hindex)] \in {l.buf, <<>>}
    BY DEF Search, Uses
  <1>3. Sorts /\ history \in Histories /\ Fine(l) /\ l.hindex < Len(history) /\ Placed
    BY <1>1 DEF Inv, Sorts, Placed
  <1>4. l' = l /\ full' = full /\ pastemode' = pastemode /\ history' = history /\ ring' = ring
        /\ entries' = entries
    BY <1>1 DEF editing
  <1>5. search' \in [ab : Seq(Byte), pos : Nat, index : Nat]
    <2>1. l.pos \in Nat /\ l.hindex \in Nat /\ <<>> \in Seq(Byte)
      BY <1>3, FineFields DEF Line
    <2> QED
      BY <1>1, <2>1
  <1>6. keys' \in 0..MaxKeys
    BY <1>1, KeyCounted
  <1>7. Sorts'
    BY <1>1, <1>3, <1>4, <1>5, <1>6 DEF Sorts
  <1>8. Placed'
    BY <1>1, <1>3, <1>4 DEF Placed
  <1>9. HistoryKept'
    BY <1>1 DEF HistoryKept
  <1>10. Searching'
    <2>1. search'.pos = l.pos /\ search'.index = l.hindex
      BY <1>1
    <2>2. Stored(history, l)[Slot(history, l.hindex)] = l.buf
      BY <1>3, StoredOK
    <2>3. l.pos <= Len(l.buf)
      BY <1>3, FineFields
    <2> QED
      BY <1>2, <1>3, <1>4, <2>1, <2>2, <2>3 DEF Searching
  <1>11. (pastemode \in BOOLEAN)'
    BY <1>4 DEF Inv
  <1> QED
    BY <1>7, <1>8, <1>9, <1>10, <1>11 DEF Inv

\* What is found is in an entry, at a place inside of it.
LEMMA FoundOK ==
    ASSUME Inv, NEW ab \in Seq(Byte), NEW i \in Nat, NEW j \in Int
    PROVE  \A f \in Found(ab, i, j) : /\ f[1] \in 0..(Len(history) - 1)
                                      /\ f[2] \in 0..Len(history[Slot(history, f[1])])
  <1> DEFINE text(k) == history[Slot(history, k)]
             Limit(k) == IF k = i /\ j + Len(ab) < Len(text(k)) THEN j + Len(ab) ELSE Len(text(k))
             in(k) == Begins(text(k), Limit(k), ab)
             where == {k \in i..(Len(history) - 1) : in(k) # {}}
             first == CHOOSE k \in where : \A o \in where : k <= o
             place == CHOOSE x \in in(first) : \A o \in in(first) : o <= x
  <1> SUFFICES ASSUME NEW f \in Found(ab, i, j)
               PROVE  /\ f[1] \in 0..(Len(history) - 1)
                      /\ f[2] \in 0..Len(history[Slot(history, f[1])])
    OBVIOUS
  <1>1. Found(ab, i, j) = IF where = {} THEN {} ELSE {<<first, place>>}
    BY DEF Found
  <1>2. where # {} /\ f[1] = first /\ f[2] = place
    <2> HIDE DEF where, first, place
    <2>1. where # {}
      BY <1>1
    <2>2. f = <<first, place>>
      BY <1>1, <2>1
    <2> QED
      BY <2>1, <2>2
  <1>3. history \in Seq(Seq(Byte)) /\ Len(history) \in Nat /\ Len(ab) \in Nat
    BY DEF Inv, Sorts, Histories
  <1>4. first \in where
    <2>1. where \in SUBSET Nat
      OBVIOUS
    <2> HIDE DEF where
    <2> QED
      BY <1>2, <2>1, Least
  <1>5. first \in i..(Len(history) - 1) /\ in(first) # {}
    BY <1>4
  <1> HIDE DEF first
  <1>6. first \in 0..(Len(history) - 1)
    BY <1>3, <1>5
  <1>7. Slot(history, first) \in 1..Len(history)
    BY <1>3, <1>6 DEF Slot
  <1>8. text(first) \in Seq(Byte) /\ history[Slot(history, f[1])] = text(first)
    BY <1>2, <1>3, <1>7
  <1> HIDE DEF text
  <1>9. Len(text(first)) \in Nat /\ Limit(first) \in Int /\ Limit(first) <= Len(text(first))
    BY <1>3, <1>8
  <1>10. in(first) \subseteq 0..(Limit(first) - Len(ab))
    BY DEF Begins
  <1> HIDE DEF in, Limit
  <1>11. in(first) \in SUBSET Nat /\ \A x \in in(first) : x <= Len(text(first))
    BY <1>3, <1>9, <1>10
  <1>12. place \in in(first)
    BY <1>5, <1>9, <1>11, Greatest
  <1> HIDE DEF place
  <1>13. place \in 0..Len(text(first))
    BY <1>9, <1>11, <1>12
  <1> QED
    BY <1>2, <1>6, <1>8, <1>13

\* What the search needs is still so when the line moves to another entry, to a place
\* inside of it.
LEMMA SearchMoves ==
    ASSUME Inv, pc = "search", NEW i \in 0..(Len(history) - 1),
           NEW p \in 0..Len(Stored(history, l)[Slot(history, i)]),
           history' = Stored(history, l), l' = [Entered(history, l, i) EXCEPT !.pos = p],
           search' \in [ab : Seq(Byte), pos : Nat, index : Nat],
           pc' \in {"edit", "search"},
           pc' = "search" => search'.pos = search.pos /\ search'.index = search.index,
           keys' \in 0..MaxKeys, UNCHANGED <<full, pastemode, ring, ghosts>>
    PROVE  Inv'
  <1> DEFINE h == Stored(history, l)
             k == Entered(history, l, i)
  <1>1. Sorts /\ history \in Histories /\ Fine(l) /\ l.hindex < Len(history) /\ Placed /\ Searching
    BY DEF Inv, Sorts, Placed
  <1>2. h \in Histories /\ Len(h) = Len(history) /\ Len(history) \in Nat
    BY <1>1, StoredOK DEF Histories
  <1>3. /\ Fine(k) /\ k.hindex = i /\ k.buf = h[Slot(history, i)]
        /\ Fine([k EXCEPT !.pos = p])
    BY <1>1, EnteredOK
  <1>4. l' = [k EXCEPT !.pos = p]
    OBVIOUS
  <1> HIDE DEF k
  <1>5. Fine(l') /\ l'.hindex = i /\ l'.buf = h[Slot(history, i)]
    <2>1. k \in Line
      BY <1>3, FineFields
    <2>2. l'.hindex = k.hindex /\ l'.buf = k.buf
      BY <1>4, <2>1 DEF Line
    <2> QED
      BY <1>3, <1>4, <2>2
  <1>6. i < Len(history')
    BY <1>2
  <1>7. full' = full /\ pastemode' = pastemode /\ ring' = ring /\ entries' = entries /\ history' = h
    BY DEF ghosts
  <1> HIDE DEF h
  <1>8. Sorts'
    BY <1>1, <1>2, <1>5, <1>7 DEF Sorts
  <1>9. Placed'
    BY <1>1, <1>2, <1>5, <1>6, <1>7 DEF Placed
  <1>10. HistoryKept'
    BY DEF HistoryKept
  <1>11. Searching'
    <2> SUFFICES ASSUME pc' = "search"
                 PROVE  /\ history'[Slot(history', l'.hindex)] \in {l'.buf, <<>>}
                        /\ search'.index < Len(history')
                        /\ search'.pos <= Len(Stored(history', l')[Slot(history', search'.index)])
      BY DEF Searching
    <2>1. \A x : Slot(h, x) = Slot(history, x)
      BY <1>2 DEF Slot
    <2>2. /\ search.index < Len(history) /\ search.index \in Nat
          /\ search.pos <= Len(h[Slot(history, search.index)])
      BY <1>1 DEF Searching, Sorts, h
    <2>3. search'.pos = search.pos /\ search'.index = search.index
      OBVIOUS
    <2>4. h[Slot(h, l'.hindex)] = l'.buf
      BY <1>5, <2>1
    <2>5. l'.hindex < Len(h)
      BY <1>2, <1>5
    <2> DEFINE z == Slot(h, search.index)
    <2>6. z \in 1..Len(h)
      BY <1>2, <2>2, SMTT(30) DEF Slot
    <2>7. Stored(h, l')[z] = h[z]
      <3>1. CASE z = Slot(h, l'.hindex)
        BY <1>2, <1>5, <2>4, <2>5, <3>1, StoredOK, ZenonT(30)
      <3>2. CASE z # Slot(h, l'.hindex)
        <4> HIDE DEF z
        <4> QED
          BY <1>2, <1>5, <2>5, <2>6, <3>2, StoredOK
      <3> QED
        BY <3>1, <3>2
    <2>8. search.pos <= Len(Stored(h, l')[z])
      BY <2>1, <2>2, <2>7
    <2> QED
      BY <1>2, <1>7, <2>2, <2>3, <2>4, <2>8
  <1>12. (pastemode \in BOOLEAN)'
    BY <1>7 DEF Inv
  <1> QED
    BY <1>8, <1>9, <1>10, <1>11, <1>12 DEF Inv

\* A key in the search.
LEMMA SearchForStep ==
    ASSUME Inv, pc = "search", NEW ab \in Seq(Byte), NEW i \in Nat, NEW j \in Int,
           SearchFor(ab, i, j), keys' \in 0..MaxKeys
    PROVE  Inv'
  <1>1. /\ search' = [search EXCEPT !.ab = ab]
        /\ UNCHANGED <<pc, full, pastemode, ring, ghosts>>
    BY DEF SearchFor
  <1>2. Sorts /\ history \in Histories /\ Fine(l) /\ l.hindex < Len(history) /\ Placed /\ Searching
        /\ search \in [ab : Seq(Byte), pos : Nat, index : Nat]
    BY DEF Inv, Sorts, Placed
  <1>3. /\ search' \in [ab : Seq(Byte), pos : Nat, index : Nat]
        /\ search'.pos = search.pos /\ search'.index = search.index
    BY <1>1, <1>2
  <1>4. CASE Found(ab, i, j) = {}
    <2>1. l' = l /\ history' = history /\ full' = full /\ pastemode' = pastemode /\ ring' = ring
          /\ entries' = entries /\ pc' = pc
      BY <1>1, <1>4 DEF SearchFor, ghosts
    <2>2. Sorts'
      BY <1>2, <1>3, <2>1 DEF Sorts
    <2>3. Placed' /\ HistoryKept'
      BY <1>2, <2>1 DEF Placed, HistoryKept
    <2>4. Searching'
      BY <1>2, <1>3, <2>1 DEF Searching
    <2>5. (pastemode \in BOOLEAN)'
      BY <2>1 DEF Inv
    <2> QED
      BY <2>2, <2>3, <2>4, <2>5 DEF Inv
  <1>5. CASE Found(ab, i, j) # {}
    <2> DEFINE f == CHOOSE x \in Found(ab, i, j) : TRUE
    <2>1. f \in Found(ab, i, j)
      BY <1>5
    <2>2. history' = Stored(history, l) /\ l' = [Entered(history, l, f[1]) EXCEPT !.pos = f[2]]
      BY <1>5 DEF SearchFor
    <2> HIDE DEF f
    <2>3. f[1] \in 0..(Len(history) - 1) /\ f[2] \in 0..Len(history[Slot(history, f[1])])
      BY <2>1, FoundOK
    <2> DEFINE a == f[1]
               z == Slot(history, a)
    <2>4. Len(history) \in Nat /\ history \in Seq(Seq(Byte)) /\ l.hindex \in Nat
          /\ l.buf \in Seq(Byte)
      BY <1>2, FineFields, SMTT(30) DEF Histories, Line
    <2>5. z \in 1..Len(history)
      <3>1. a \in 0..(Len(history) - 1)
        BY <2>3
      <3> HIDE DEF a
      <3> QED
        BY <2>4, <3>1 DEF Slot
    <2>6. f[2] \in 0..Len(Stored(history, l)[z])
      <3>1. CASE z = Slot(history, l.hindex)
        <4>1. Stored(history, l)[z] = l.buf
          BY <1>2, <3>1, StoredOK
        <4>2. history[z] \in {l.buf, <<>>}
          BY <1>2, <3>1 DEF Searching
        <4>3. f[2] \in 0..Len(history[z]) /\ Len(l.buf) \in Nat
          BY <2>3, <2>4
        <4>4. CASE history[z] = l.buf
          BY <4>1, <4>3, <4>4
        <4>5. CASE history[z] = <<>>
          <5>1. f[2] = 0
            BY <4>3, <4>5
          <5> QED
            BY <4>1, <4>3, <5>1
        <4> QED
          BY <4>2, <4>4, <4>5
      <3>2. CASE z # Slot(history, l.hindex)
        <4>1. Stored(history, l)[z] = history[z]
          <5> HIDE DEF z
          <5> QED
            BY <1>2, <2>5, <3>2, StoredOK
        <4> QED
          BY <2>3, <4>1
      <3> QED
        BY <3>1, <3>2
    <2>7. pc' \in {"edit", "search"}
      BY <1>1
    <2>8. UNCHANGED <<full, pastemode, ring, ghosts>>
      BY <1>1
    <2> QED
      BY <1>3, <2>2, <2>3, <2>6, <2>7, <2>8, SearchMoves
  <1> QED
    BY <1>4, <1>5

\* Where the search is from.
LEMMA SearchFrom ==
    ASSUME Inv, pc = "search"
    PROVE  /\ search.ab \in Seq(Byte) /\ l.hindex \in Nat /\ l.hindex + 1 \in Nat
           /\ l.pos \in Int /\ l.pos - 1 \in Int /\ Len(history) \in Nat
  <1>1. Fine(l) /\ search \in [ab : Seq(Byte), pos : Nat, index : Nat] /\ history \in Histories
    BY DEF Inv, Sorts
  <1>2. l.hindex \in Nat /\ l.pos \in Int /\ Len(history) \in Nat
    BY <1>1 DEF Fine, Sized, Line, Histories
  <1> QED
    BY <1>1, <1>2

LEMMA SearchTypeStep ==
    ASSUME Inv, SearchType PROVE Inv'
  <1>1. PICK r \in Runes : SearchKey("type") /\ SearchFor(search.ab \o r, l.hindex, l.pos)
    BY DEF SearchType
  <1>2. pc = "search" /\ keys' \in 0..MaxKeys
    BY <1>1, KeyCounted DEF SearchKey
  <1>3. search.ab \o r \in Seq(Byte)
    <2>1. r \in Seq(Byte) /\ search.ab \in Seq(Byte)
      BY <1>2, TextAssumption, SearchFrom
    <2> QED
      BY <2>1, Joined
  <1> QED
    BY <1>1, <1>2, <1>3, SearchFrom, SearchForStep

LEMMA SearchRuboutStep ==
    ASSUME Inv, SearchRubout PROVE Inv'
  <1> DEFINE ab == SubSeq(search.ab, 1, Len(search.ab) - 1)
  <1>1. SearchKey("rubout") /\ SearchFor(ab, l.hindex, l.pos)
    BY DEF SearchRubout
  <1>2. pc = "search" /\ keys' \in 0..MaxKeys
    BY <1>1, KeyCounted DEF SearchKey
  <1>3. ab \in Seq(Byte)
    <2>1. search.ab \in Seq(Byte) /\ Len(search.ab) - 1 \in Int
      BY <1>2, SearchFrom
    <2>2. \A q \in 1..(Len(search.ab) - 1) : search.ab[q] \in Byte
      BY <2>1
    <2> QED
      BY <2>1, <2>2, SubSeqProperties
  <1> HIDE DEF ab
  <1> QED
    BY <1>1, <1>2, <1>3, SearchFrom, SearchForStep

LEMMA SearchAgainStep ==
    ASSUME Inv, SearchAgain PROVE Inv'
  <1>1. SearchKey("search")
    BY DEF SearchAgain
  <1>2. pc = "search" /\ keys' \in 0..MaxKeys
    BY <1>1, KeyCounted DEF SearchKey
  <1>3. CASE l.pos > 0
    <2>1. SearchFor(search.ab, l.hindex, l.pos - 1)
      BY <1>3, SearchFrom, <1>2 DEF SearchAgain
    <2> QED
      BY <1>2, <2>1, SearchFrom, SearchForStep
  <1>4. CASE l.pos = 0 /\ l.hindex + 1 < Len(history)
    <2> DEFINE n == Len(history[Slot(history, l.hindex + 1)])
    <2>1. SearchFor(search.ab, l.hindex + 1, n)
      BY <1>4 DEF SearchAgain
    <2>2. n \in Int
      <3>1. history \in Seq(Seq(Byte))
        BY DEF Inv, Sorts, Histories
      <3>2. Slot(history, l.hindex + 1) \in 1..Len(history)
        BY <1>2, <1>4, SearchFrom DEF Slot
      <3>3. history[Slot(history, l.hindex + 1)] \in Seq(Byte)
        BY <3>1, <3>2
      <3> QED
        BY <3>3
    <2> HIDE DEF n
    <2> QED
      BY <1>2, <2>1, <2>2, SearchFrom, SearchForStep
  <1>5. CASE ~(l.pos > 0) /\ ~(l.pos = 0 /\ l.hindex + 1 < Len(history))
    <2>1. SearchFor(search.ab, l.hindex, l.pos)
      BY <1>5 DEF SearchAgain
    <2> QED
      BY <1>2, <2>1, SearchFrom, SearchForStep
  <1> QED
    BY <1>3, <1>4, <1>5

LEMMA SearchCancelStep ==
    ASSUME Inv, SearchCancel PROVE Inv'
  <1>1. /\ pc = "search" /\ keys < MaxKeys /\ keys' = keys + 1 /\ pc' = "edit"
        /\ history' = Stored(history, l)
        /\ l' = [Entered(history, l, search.index) EXCEPT !.pos = search.pos]
        /\ search' = NoSearch /\ UNCHANGED <<full, pastemode, ring, ghosts>>
    BY DEF SearchCancel, SearchKey
  <1>2. /\ search.index \in 0..(Len(history) - 1)
        /\ search.pos \in 0..Len(Stored(history, l)[Slot(history, search.index)])
    <2>1. /\ search.index < Len(history) /\ search.index \in Nat /\ Len(history) \in Nat
          /\ search.pos <= Len(Stored(history, l)[Slot(history, search.index)]) /\ search.pos \in Nat
      BY <1>1 DEF Inv, Searching, Sorts, Histories
    <2>2. Len(Stored(history, l)[Slot(history, search.index)]) \in Nat
      <3>1. l.hindex < Len(history) /\ Fine(l) /\ history \in Histories
        BY <1>1 DEF Inv, Placed, Sorts
      <3>2. search.index \in 0..(Len(history) - 1)
        BY <2>1
      <3>3. Stored(history, l)[Slot(history, search.index)] \in Seq(Byte)
        BY <3>1, <3>2, EnteredOK
      <3> QED
        BY <3>3
    <2> QED
      BY <2>1, <2>2
  <1>3. search' \in [ab : Seq(Byte), pos : Nat, index : Nat]
    <2>1. <<>> \in Seq(Byte)
      OBVIOUS
    <2> QED
      BY <1>1, <2>1 DEF NoSearch
  <1>4. keys' \in 0..MaxKeys
    BY <1>1, KeyCounted
  <1> QED
    BY <1>1, <1>2, <1>3, <1>4, SearchMoves

LEMMA SearchEndStep ==
    ASSUME Inv, SearchEnd PROVE Inv'
  <1>1. /\ pc = "search" /\ pc' = "edit" /\ search' = NoSearch
        /\ l' = l /\ full' = full /\ pastemode' = pastemode /\ history' = history /\ ring' = ring
        /\ keys' = keys /\ entries' = entries
    BY DEF SearchEnd, editing, ghosts
  <1>2. search' \in [ab : Seq(Byte), pos : Nat, index : Nat]
    <2>1. <<>> \in Seq(Byte)
      OBVIOUS
    <2> QED
      BY <1>1, <2>1 DEF NoSearch
  <1>3. Sorts'
    BY <1>1, <1>2 DEF Inv, Sorts
  <1>4. Placed' /\ HistoryKept' /\ Searching'
    BY <1>1 DEF Inv, Placed, HistoryKept, Searching
  <1>5. (pastemode \in BOOLEAN)'
    BY <1>1 DEF Inv
  <1> QED
    BY <1>3, <1>4, <1>5 DEF Inv

-----------------------------------------------------------------------------
(* The theorems.                                                           *)

\* The invariant holds of everything a careful user can do at any number of prompts: it
\* adds to TypeOK and CursorInLine that the kill ring, the history and the search hold
\* texts, that the entry a command put into the history is still there while it is edited,
\* and that the search stays inside of the entries it goes through.
THEOREM Invariance ==
    ASSUME Careful PROVE Spec => []Inv
  <1>1. Init => Inv
    BY InitInv
  <1>2. Inv /\ [Next]_vars => Inv'
    <2> SUFFICES ASSUME Inv, [Next]_vars PROVE Inv'
      OBVIOUS
    <2>1. CASE UNCHANGED vars
      <3>1. /\ pc' = pc /\ l' = l /\ full' = full /\ pastemode' = pastemode /\ history' = history
            /\ ring' = ring /\ search' = search /\ keys' = keys /\ entries' = entries
        BY <2>1 DEF vars, editing, ghosts
      <3> QED
        BY <3>1 DEF Inv, Sorts, Placed, HistoryKept, Searching
    <2>2. CASE Next
      BY <2>2, BeginStep, SubmitStep, NewLineKeyStep, InterruptStep, EndOfFileStep, PasteStep,
         MoveStep, ChangeStep, QuoteStep, KillsStep, YankStep, RotateStep, CompleteStep,
         TravelStep, SearchBegins, SearchTypeStep, SearchRuboutStep, SearchAgainStep,
         SearchCancelStep, SearchEndStep DEF Next
    <2> QED
      BY <2>1, <2>2
  <1> QED
    BY <1>1, <1>2, PTL DEF Spec

\* The kill ring and the history stay within their arrays, and the line is that of an
\* entry the history has.
THEOREM TypesHold ==
    ASSUME Careful PROVE Spec => []TypeOK
  <1>1. Inv => TypeOK
    <2> SUFFICES ASSUME Inv PROVE TypeOK
      OBVIOUS
    <2>1. l \in Line
      BY DEF Inv, Sorts, Fine, Sized
    <2>2. ring.i \in 0..(Ring - 1) /\ DOMAIN ring.p = 0..(Ring - 1)
      BY DEF Inv, Sorts, Rings
    <2>3. Len(history) <= MaxHistory
      BY DEF Inv, Sorts, Histories
    <2>4. pc \in {"edit", "search"} => l.hindex < Len(history)
      BY DEF Inv, Placed
    <2>5. pc \in {"prompt", "edit", "search", "crashed", "over"} /\ keys \in 0..MaxKeys
      BY DEF Inv, Sorts
    <2>6. pastemode \in BOOLEAN
      BY DEF Inv
    <2> QED
      BY <2>1, <2>2, <2>3, <2>4, <2>5, <2>6 DEF TypeOK
  <1> QED
    BY <1>1, Invariance, PTL

\* No key leaves the cursor outside of the line or the line outside of its buffer, in any
\* order and on any text: what every memmove and memcpy of the editing keys relies on.
THEOREM CursorStaysInLine ==
    ASSUME Careful PROVE Spec => []CursorInLine
  <1>1. Inv => CursorInLine
    BY FineFields DEF Inv, Sorts, CursorInLine
  <1> QED
    BY <1>1, Invariance, PTL

\* However a command is edited and ended, the history has lost nothing but its oldest
\* entry when it was full.
THEOREM EntriesAreKept ==
    ASSUME Careful PROVE Spec => []HistoryKept
  <1>1. Inv => HistoryKept
    BY DEF Inv
  <1> QED
    BY <1>1, Invariance, PTL

-----------------------------------------------------------------------------
(* Ctrl-G.                                                                 *)

\* Where the search began there is still what there was when it did, and Ctrl-G goes there.
Returns ==
    pc = "search" =>
        /\ Stored(history, l)[Slot(history, search.index)] = typed.buf
        /\ search.pos = typed.pos

\* To store a line that is what its entry holds changes nothing.
LEMMA StoredAlready ==
    ASSUME NEW h \in Histories, NEW k, Fine(k), k.hindex < Len(h), k.buf = h[Slot(h, k.hindex)],
           NEW x \in 0..(Len(h) - 1)
    PROVE  Stored(h, k)[Slot(h, x)] = h[Slot(h, x)]
  <1> DEFINE z == Slot(h, x)
  <1>1. Len(h) \in Nat
    BY DEF Histories
  <1>2. z \in 1..Len(h)
    BY <1>1 DEF Slot
  <1> HIDE DEF z
  <1>3. z = Slot(h, k.hindex) => Stored(h, k)[z] = h[z]
    BY StoredOK
  <1>4. z # Slot(h, k.hindex) => Stored(h, k)[z] = h[z]
    BY <1>2, StoredOK
  <1>5. Stored(h, k)[z] = h[z]
    BY <1>3, <1>4
  <1> QED
    BY <1>5 DEF z

\* The line that the search goes to.
LEMMA EnteredAt ==
    ASSUME NEW h \in Histories, NEW k, Fine(k), k.hindex < Len(h), NEW i \in 0..(Len(h) - 1)
    PROVE  LET e == Entered(h, k, i)
           IN  /\ e.hindex = i /\ e.buf = Stored(h, k)[Slot(h, i)]
               /\ e.len = Len(Stored(h, k)[Slot(h, i)]) /\ e \in Line
  <1> DEFINE text == Stored(h, k)[Slot(h, i)]
             e == Entered(h, k, i)
  <1>1. k \in Line
    BY FineFields
  <1>2. Fine(e) /\ e.hindex = i /\ e.buf = text
    BY EnteredOK
  <1>3. e \in Line
    BY <1>2, FineFields
  <1>4. e.len = Len(text)
    BY <1>1 DEF Entered, Line
  <1> QED
    BY <1>2, <1>3, <1>4

LEMMA SearchForReturns ==
    ASSUME Inv, Inv', Returns, pc = "search", NEW ab \in Seq(Byte), NEW i \in Nat, NEW j \in Int,
           SearchFor(ab, i, j)
    PROVE  Returns'
  <1>1. /\ search' = [search EXCEPT !.ab = ab] /\ pc' = "search" /\ typed' = typed
    BY DEF SearchFor, ghosts
  <1>2. /\ history \in Histories /\ Fine(l) /\ l.hindex < Len(history)
        /\ search \in [ab : Seq(Byte), pos : Nat, index : Nat]
        /\ search.index < Len(history) /\ Len(history) \in Nat
    BY DEF Inv, Sorts, Placed, Searching, Histories
  <1>3. search'.pos = search.pos /\ search'.index = search.index /\ search.index \in 0..(Len(history) - 1)
    BY <1>1, <1>2
  <1>4. /\ Stored(history, l)[Slot(history, search.index)] = typed.buf
        /\ search.pos = typed.pos
    BY DEF Returns
  <1>5. CASE Found(ab, i, j) = {}
    <2>1. l' = l /\ history' = history
      BY <1>5 DEF SearchFor
    <2> QED
      BY <1>1, <1>3, <1>4, <2>1 DEF Returns
  <1>6. CASE Found(ab, i, j) # {}
    <2> DEFINE f == CHOOSE x \in Found(ab, i, j) : TRUE
               h == Stored(history, l)
    <2>1. f \in Found(ab, i, j)
      BY <1>6
    <2>2. history' = h /\ l' = [Entered(history, l, f[1]) EXCEPT !.pos = f[2]]
      BY <1>6 DEF SearchFor
    <2> HIDE DEF f
    <2>3. f[1] \in 0..(Len(history) - 1)
      BY <2>1, FoundOK
    <2>4. l'.hindex = f[1] /\ l'.buf = h[Slot(history, f[1])]
      <3> DEFINE a == f[1]
                 p == f[2]
      <3>1. a \in 0..(Len(history) - 1) /\ l' = [Entered(history, l, a) EXCEPT !.pos = p]
        BY <2>2, <2>3
      <3> HIDE DEF a, p
      <3> DEFINE e == Entered(history, l, a)
      <3>2. e.hindex = a /\ e.buf = Stored(history, l)[Slot(history, a)] /\ e \in Line
        BY <1>2, <3>1, EnteredAt
      <3>3. l' = [e EXCEPT !.pos = p]
        BY <3>1
      <3> HIDE DEF e
      <3>4. l'.hindex = e.hindex /\ l'.buf = e.buf
        BY <3>2, <3>3 DEF Line
      <3> QED
        BY <3>2, <3>4 DEF a
    <2>5. h \in Histories /\ Len(h) = Len(history)
      BY <1>2, StoredOK
    <2>6. \A x : Slot(h, x) = Slot(history, x)
      BY <2>5 DEF Slot
    <2>7. Fine(l') /\ l'.hindex < Len(h)
      BY <1>1, <2>2 DEF Inv, Sorts, Placed
    <2> HIDE DEF h
    <2>8. l'.buf = h[Slot(h, l'.hindex)]
      BY <2>4, <2>6
    <2>9. search.index \in 0..(Len(h) - 1)
      BY <1>3, <2>5
    <2>10. Stored(h, l')[Slot(h, search.index)] = h[Slot(h, search.index)]
      BY <2>5, <2>7, <2>8, <2>9, StoredAlready
    <2>11. h[Slot(h, search.index)] = typed.buf
      BY <1>4, <2>6 DEF h
    <2> QED
      BY <1>1, <1>3, <1>4, <2>2, <2>10, <2>11 DEF Returns
  <1> QED
    BY <1>5, <1>6

\* What begins the search, what goes on with it, and what has nothing to do with it.
LEMMA ReturnsStep ==
    ASSUME Inv, Inv', Returns, [Next]_vars PROVE Returns'
  <1>1. CASE UNCHANGED vars
    <2>1. /\ pc' = pc /\ l' = l /\ history' = history /\ search' = search /\ typed' = typed
      BY <1>1 DEF vars, editing, ghosts
    <2> QED
      BY <2>1 DEF Returns
  <1>2. CASE Search
    <2>1. /\ pc = "edit" /\ search'.pos = l.pos /\ search'.index = l.hindex /\ typed' = l
          /\ l' = l /\ history' = history
      BY <1>2 DEF Search, Press, editing
    <2>2. history \in Histories /\ Fine(l) /\ l.hindex < Len(history)
      BY <2>1 DEF Inv, Sorts, Placed
    <2>3. Stored(history, l)[Slot(history, l.hindex)] = l.buf
      BY <2>2, StoredOK
    <2> QED
      BY <2>1, <2>3 DEF Returns
  <1>3. CASE SearchType
    <2>1. PICK r \in Runes : SearchKey("type") /\ SearchFor(search.ab \o r, l.hindex, l.pos)
      BY <1>3 DEF SearchType
    <2>2. pc = "search" /\ r \in Seq(Byte)
      BY <2>1, TextAssumption DEF SearchKey
    <2>3. search.ab \o r \in Seq(Byte)
      BY <2>2, SearchFrom, Joined
    <2> QED
      BY <2>1, <2>2, <2>3, SearchFrom, SearchForReturns
  <1>4. CASE SearchRubout
    <2> DEFINE ab == SubSeq(search.ab, 1, Len(search.ab) - 1)
    <2>1. pc = "search" /\ SearchFor(ab, l.hindex, l.pos)
      BY <1>4 DEF SearchRubout, SearchKey
    <2>2. ab \in Seq(Byte)
      <3>1. search.ab \in Seq(Byte) /\ Len(search.ab) - 1 \in Int
        BY <2>1, SearchFrom
      <3>2. \A q \in 1..(Len(search.ab) - 1) : search.ab[q] \in Byte
        BY <3>1
      <3> QED
        BY <3>1, <3>2, SubSeqProperties
    <2> HIDE DEF ab
    <2> QED
      BY <2>1, <2>2, SearchFrom, SearchForReturns
  <1>5. CASE SearchAgain
    <2>1. pc = "search"
      BY <1>5 DEF SearchAgain, SearchKey
    <2>2. CASE l.pos > 0
      <3>1. SearchFor(search.ab, l.hindex, l.pos - 1)
        BY <1>5, <2>1, <2>2, SearchFrom DEF SearchAgain
      <3> QED
        BY <2>1, <3>1, SearchFrom, SearchForReturns
    <2>3. CASE l.pos = 0 /\ l.hindex + 1 < Len(history)
      <3> DEFINE n == Len(history[Slot(history, l.hindex + 1)])
      <3>1. SearchFor(search.ab, l.hindex + 1, n)
        BY <1>5, <2>3 DEF SearchAgain
      <3>2. n \in Int
        <4>1. history \in Seq(Seq(Byte))
          BY DEF Inv, Sorts, Histories
        <4>2. Slot(history, l.hindex + 1) \in 1..Len(history)
          BY <2>1, <2>3, SearchFrom DEF Slot
        <4>3. history[Slot(history, l.hindex + 1)] \in Seq(Byte)
          BY <4>1, <4>2
        <4> QED
          BY <4>3
      <3> HIDE DEF n
      <3> QED
        BY <2>1, <3>1, <3>2, SearchFrom, SearchForReturns
    <2>4. CASE ~(l.pos > 0) /\ ~(l.pos = 0 /\ l.hindex + 1 < Len(history))
      <3>1. SearchFor(search.ab, l.hindex, l.pos)
        BY <1>5, <2>4 DEF SearchAgain
      <3> QED
        BY <2>1, <3>1, SearchFrom, SearchForReturns
    <2> QED
      BY <2>2, <2>3, <2>4
  <1>6. CASE SearchCancel \/ SearchEnd
    BY <1>6 DEF SearchCancel, SearchEnd, Returns
  <1>7. ASSUME pc = "edit", pc' = pc PROVE Returns'
    BY <1>7 DEF Returns
  <1>8. CASE Begin
    BY <1>8 DEF Begin, Returns
  <1>9. CASE Submit \/ Interrupt \/ EndOfFile
    <2>1. pc' \in {"prompt", "edit", "over", "crashed"}
      BY <1>9 DEF Submit, Interrupt, EndOfFile, Press
    <2> QED
      BY <2>1 DEF Returns
  <1>10. CASE NewLineKey \/ Paste \/ Move \/ Change \/ Quote \/ Kills \/ YankKey \/ RotateKey
              \/ Complete
    <2>1. pc = "edit" /\ pc' = pc
      BY <1>10 DEF NewLineKey, Paste, Move, Change, Quote, Kills, YankKey, RotateKey, Complete,
                   Edit, Kill, Press
    <2> QED
      BY <1>7, <2>1
  <1>11. CASE Travel
    <2>1. pc' \in {pc, "crashed"} /\ pc = "edit"
      BY <1>11 DEF Travel, Goto, Press
    <2> QED
      BY <2>1 DEF Returns
  <1> QED
    BY <1>1, <1>2, <1>3, <1>4, <1>5, <1>6, <1>8, <1>9, <1>10, <1>11 DEF Next

\* Ctrl-G gives back the line and the cursor the search began with, though every step of
\* the search has written the line it left into the history (bestlineSearch), for any
\* text that is looked for and any number of steps.
THEOREM CancelGivesBack ==
    ASSUME Careful PROVE Spec => CancelRestores
  <1>1. Init => Returns
    BY DEF Init, Returns
  <1>2. Inv /\ Inv' /\ Returns /\ [Next]_vars => Returns'
    BY ReturnsStep
  <1>3. Spec => []Returns
    BY <1>1, <1>2, Invariance, PTL DEF Spec
  <1> DEFINE Restored == SearchCancel /\ Settled(typed) =>
                             /\ Bytes(l'.buf, 0, l'.len) = Bytes(typed.buf, 0, typed.len)
                             /\ l'.pos = typed.pos
  <1>4. ASSUME Inv, Returns PROVE Restored
    <2> SUFFICES ASSUME SearchCancel, Settled(typed)
                 PROVE  /\ Bytes(l'.buf, 0, l'.len) = Bytes(typed.buf, 0, typed.len)
                        /\ l'.pos = typed.pos
      OBVIOUS
    <2> DEFINE e == Entered(history, l, search.index)
    <2>1. pc = "search" /\ l' = [e EXCEPT !.pos = search.pos]
      BY DEF SearchCancel, SearchKey
    <2>2. /\ history \in Histories /\ Fine(l) /\ l.hindex < Len(history)
          /\ search.index < Len(history) /\ search.index \in Nat /\ Len(history) \in Nat
      BY <1>4, <2>1 DEF Inv, Sorts, Placed, Searching, Histories
    <2>3. search.index \in 0..(Len(history) - 1)
      BY <2>2
    <2>4. e \in Line /\ e.buf = typed.buf /\ e.len = Len(typed.buf)
      BY <1>4, <2>1, <2>2, <2>3, EnteredAt DEF Returns
    <2> HIDE DEF e
    <2>5. l'.buf = e.buf /\ l'.len = e.len /\ l'.pos = search.pos
      BY <2>1, <2>4 DEF Line
    <2>6. search.pos = typed.pos /\ Len(typed.buf) = typed.len
      BY <1>4, <2>1 DEF Returns, Settled
    <2> QED
      BY <2>4, <2>5, <2>6
  <1>5. Inv /\ Returns => [Restored]_vars
    BY <1>4
  <1> QED
    BY <1>3, <1>5, Invariance, PTL DEF CancelRestores

-----------------------------------------------------------------------------
(* Ctrl-Y after a key that kills.                                          *)

\* The two ends of a text, cut where they were joined.
LEMMA CutWhereJoined ==
    ASSUME NEW a \in Seq(Byte), NEW c \in Seq(Byte)
    PROVE  LET w == a \o c IN Bytes(w, 0, Len(a)) = a /\ Bytes(w, Len(a), Len(w)) = c
  <1> DEFINE w == a \o c
             n == Len(a)
             m == Len(c)
  <1>1. n \in Nat /\ m \in Nat /\ w \in Seq(Byte) /\ Len(w) = n + m
    BY Joined
  <1>2. /\ \A q \in 1..n : w[q] = a[q]
        /\ \A q \in 1..m : w[n + q] = c[q]
    <2>1. \A q \in 1..(n + m) : w[q] = IF q <= n THEN a[q] ELSE c[q - n]
      BY ConcatProperties
    <2> HIDE DEF w, n, m
    <2>2. \A q \in 1..m : n + q \in 1..(n + m) /\ ~(n + q <= n) /\ (n + q) - n = q
      BY <1>1
    <2>3. \A q \in 1..n : q \in 1..(n + m) /\ q <= n
      BY <1>1
    <2> QED
      BY <2>1, <2>2, <2>3
  <1>3. \A q \in 1..(n + m) : w[q] \in Byte
    BY <1>1
  <1>4. Bytes(w, 0, n) = a
    <2> DEFINE s == SubSeq(w, 1, n)
    <2>1. 1 \in Int /\ n \in Int /\ \A q \in 1..n : w[q] \in Byte
      BY <1>1, <1>3
    <2>2. /\ s \in Seq(Byte) /\ Len(s) = IF 1 <= n THEN n - 1 + 1 ELSE 0
          /\ \A q \in 1..(n - 1 + 1) : s[q] = w[1 + q - 1]
      <3> HIDE DEF w, n
      <3> QED
        BY <2>1, SubSeqProperties
    <2>3. Len(s) = n /\ \A q \in 1..Len(s) : s[q] = a[q]
      <3> HIDE DEF w, s, n, m
      <3>1. Len(s) = n /\ n - 1 + 1 = n
        BY <1>1, <2>2
      <3>2. \A q \in 1..n : 1 + q - 1 = q
        BY <1>1
      <3> QED
        BY <1>2, <2>2, <3>1, <3>2
    <2>4. s = a
      <3> HIDE DEF s
      <3> QED
        BY <2>2, <2>3, SeqEqual
    <2> QED
      BY <2>4 DEF Bytes
  <1>5. Bytes(w, n, n + m) = c
    <2> DEFINE s == SubSeq(w, n + 1, n + m)
    <2>1. n + 1 \in Int /\ n + m \in Int /\ \A q \in (n + 1)..(n + m) : w[q] \in Byte
      BY <1>1, <1>3
    <2>2. /\ s \in Seq(Byte) /\ Len(s) = IF n + 1 <= n + m THEN n + m - (n + 1) + 1 ELSE 0
          /\ \A q \in 1..(n + m - (n + 1) + 1) : s[q] = w[n + 1 + q - 1]
      <3> DEFINE x == n + 1
                 y == n + m
      <3>1. x \in Int /\ y \in Int /\ \A q \in x..y : w[q] \in Byte
        BY <2>1
      <3> HIDE DEF w, x, y
      <3>2. /\ SubSeq(w, x, y) \in Seq(Byte) /\ Len(SubSeq(w, x, y)) = IF x <= y THEN y - x + 1 ELSE 0
            /\ \A q \in 1..(y - x + 1) : SubSeq(w, x, y)[q] = w[x + q - 1]
        BY <3>1, SubSeqProperties
      <3> QED
        BY <3>2 DEF x, y
    <2>3. Len(s) = m /\ \A q \in 1..Len(s) : s[q] = c[q]
      <3> HIDE DEF w, s, n, m
      <3>1. Len(s) = m /\ n + m - (n + 1) + 1 = m
        BY <1>1, <2>2
      <3>2. \A q \in 1..m : n + 1 + q - 1 = n + q
        BY <1>1
      <3> QED
        BY <1>2, <2>2, <3>1, <3>2
    <2>4. s = c
      <3> HIDE DEF s
      <3> QED
        BY <2>2, <2>3, SeqEqual
    <2> QED
      BY <2>4 DEF Bytes
  <1> QED
    BY <1>1, <1>4, <1>5

\* A text is what lies before a part of it, the part, and what lies after.
LEMMA ThreeParts ==
    ASSUME NEW s \in Seq(Byte), NEW j \in 0..Len(s), NEW i \in 0..j
    PROVE  Bytes(s, 0, i) \o Bytes(s, i, j) \o Bytes(s, j, Len(s)) = s
  <1>1. Len(s) \in Nat /\ i \in Nat /\ j \in Nat /\ i <= j /\ j <= Len(s)
    OBVIOUS
  <1>2. Bytes(s, 0, i) \o Bytes(s, i, j) = Bytes(s, 0, j)
    <2>1. 1 \in 1..(Len(s) + 1) /\ i \in (1 - 1)..Len(s) /\ j \in i..Len(s) /\ 0 + 1 = 1
      BY <1>1
    <2>2. SubSeq(s, 1, i) \o SubSeq(s, i + 1, j) = SubSeq(s, 1, j)
      BY <2>1, ConcatAdjacentSubSeq
    <2> QED
      BY <2>1, <2>2 DEF Bytes
  <1>3. Bytes(s, 0, j) \o Bytes(s, j, Len(s)) = Bytes(s, 0, Len(s))
    <2>1. /\ 1 \in 1..(Len(s) + 1) /\ j \in (1 - 1)..Len(s) /\ Len(s) \in j..Len(s) /\ 0 + 1 = 1
      BY <1>1
    <2>2. SubSeq(s, 1, j) \o SubSeq(s, j + 1, Len(s)) = SubSeq(s, 1, Len(s))
      BY <2>1, ConcatAdjacentSubSeq
    <2> QED
      BY <2>1, <2>2 DEF Bytes
  <1>4. Bytes(s, 0, Len(s)) = s
    <2>1. 0 + 1 = 1
      OBVIOUS
    <2> QED
      BY <2>1, SubSeqFull DEF Bytes
  <1> QED
    BY <1>2, <1>3, <1>4

\* A line a part was taken out of, with the cursor where it was, and the part is back.
LEMMA YankedBack ==
    ASSUME NEW s \in Seq(Byte), NEW j \in 0..Len(s), NEW i \in 0..j, NEW k \in Line,
           k.buf = Bytes(s, 0, i) \o Bytes(s, j, Len(s)), Settled(k), k.pos = i
    PROVE  Yank(k, Bytes(s, i, j)).buf = s
  <1> DEFINE a == Bytes(s, 0, i)
             t == Bytes(s, i, j)
             c == Bytes(s, j, Len(s))
  <1>1. Len(s) \in Nat /\ i \in Nat /\ j \in Nat /\ i <= j /\ j <= Len(s)
    OBVIOUS
  <1>2. a \in Seq(Byte) /\ Len(a) = i
    <2>1. i \in 0..Len(s) /\ 0 \in 0..i /\ i - 0 = i
      BY <1>1
    <2> QED
      BY <2>1, BytesOK
  <1>3. c \in Seq(Byte)
    <2>1. Len(s) \in 0..Len(s) /\ j \in 0..Len(s)
      BY <1>1
    <2> QED
      BY <2>1, BytesOK
  <1>4. a \o t \o c = s
    BY ThreeParts
  <1> HIDE DEF a, t, c
  <1>5. Bytes(k.buf, 0, i) = a /\ Bytes(k.buf, i, Len(k.buf)) = c
    <2>1. k.buf = a \o c
      BY DEF a, c
    <2> QED
      BY <1>2, <1>3, <2>1, CutWhereJoined
  <1>6. Len(k.buf) = k.len
    BY DEF Settled
  <1>7. Yank(k, t).buf = Bytes(k.buf, 0, k.pos) \o t \o Bytes(k.buf, k.pos, k.len)
    BY DEF Yank, Line
  <1>8. Yank(k, t).buf = s
    BY <1>4, <1>5, <1>6, <1>7
  <1> QED
    BY <1>8 DEF t

\* What was pushed is what Ctrl-Y takes.
LEMMA PushedTop ==
    ASSUME NEW r \in Rings, NEW text \in Seq(Byte), text # <<>>
    PROVE  Pushed(r, text).p[Pushed(r, text).i] = text
  <1> DEFINE i == (r.i + 1) % Ring
  <1>1. r.i \in 0..(Ring - 1) /\ r.p \in [0..(Ring - 1) -> Seq(Byte)] /\ r.i + 1 \in Int
    BY SizeAssumption DEF Rings
  <1>2. i \in 0..(Ring - 1)
    BY <1>1, InRing
  <1>3. Pushed(r, text) = [i |-> i, p |-> [r.p EXCEPT ![i] = text]]
    BY DEF Pushed
  <1> HIDE DEF i
  <1>4. [r.p EXCEPT ![i] = text][i] = text
    BY <1>1, <1>2
  <1>5. Pushed(r, text).i = i /\ Pushed(r, text).p = [r.p EXCEPT ![i] = text]
    BY <1>3
  <1> QED
    BY <1>4, <1>5

\* A killing key that takes bytes i to j - 1 out of the line and leaves the cursor there.
LEMMA KillUndone ==
    ASSUME NEW k, Fine(k), Settled(k), NEW r \in Rings, NEW j \in 0..k.len, NEW i \in 0..j,
           NEW x, x \in Line, Settled(x), x.pos = i,
           x.buf = Bytes(k.buf, 0, i) \o Bytes(k.buf, j, k.len),
           Pushed(r, Bytes(k.buf, i, j)) # r
    PROVE  Yanked(x, Pushed(r, Bytes(k.buf, i, j))).buf = k.buf
  <1> DEFINE text == Bytes(k.buf, i, j)
             R == Pushed(r, text)
  <1>1. k.buf \in Seq(Byte) /\ Len(k.buf) = k.len
    BY FineFields DEF Settled
  <1>2. text \in Seq(Byte)
    BY <1>1, BytesOK
  <1>3. Yank(x, text).buf = k.buf
    <2>1. j \in 0..Len(k.buf) /\ x.buf = Bytes(k.buf, 0, i) \o Bytes(k.buf, j, Len(k.buf))
      BY <1>1
    <2> QED
      BY <1>1, <2>1, YankedBack
  <1> HIDE DEF text
  <1>4. text # <<>>
    BY DEF Pushed, text
  <1>5. R.p[R.i] = text
    BY <1>2, <1>4, PushedTop
  <1> HIDE DEF R
  <1>6. Yanked(x, R) = Yank(x, text)
    BY <1>4, <1>5 DEF Yanked
  <1> QED
    BY <1>3, <1>6 DEF R, text

\* The line with a part cut out.
LEMMA CutLine ==
    ASSUME NEW k, Fine(k), Settled(k), NEW j \in 0..k.len, NEW i \in 0..j, NEW p \in Int
    PROVE  LET x == At(Cut(k, i, j), p)
           IN  /\ x \in Line /\ Settled(x) /\ x.pos = p
               /\ x.buf = Bytes(k.buf, 0, i) \o Bytes(k.buf, j, k.len)
  <1> DEFINE b == k.buf
             text == Bytes(b, 0, i) \o Bytes(b, j, k.len)
             cut == Cut(k, i, j)
             x == At(cut, p)
  <1>1. k \in Line /\ Sized(k) /\ b \in Seq(Byte) /\ Len(b) = k.len /\ k.len \in Nat
    BY FineFields DEF Fine, Settled
  <1>2. i \in Nat /\ j \in Nat /\ i <= j /\ j <= k.len
    BY <1>1
  <1>3. Bytes(b, 0, i) \in Seq(Byte) /\ Len(Bytes(b, 0, i)) = i
    <2>1. i \in 0..Len(b) /\ 0 \in 0..i /\ i - 0 = i
      BY <1>1, <1>2
    <2> QED
      BY <1>1, <2>1, BytesOK
  <1>4. Bytes(b, j, k.len) \in Seq(Byte) /\ Len(Bytes(b, j, k.len)) = k.len - j
    <2>1. k.len \in 0..Len(b) /\ j \in 0..k.len
      BY <1>1
    <2> QED
      BY <1>1, <2>1, BytesOK
  <1>5. text \in Seq(Byte) /\ Len(text) = i + (k.len - j)
    BY <1>3, <1>4, Joined
  <1>6. cut \in Line /\ cut.len = k.len - (j - i) /\ cut.buf = text
    <2>1. cut \in Line /\ cut.len = k.len - (j - i)
      BY <1>1, CutOK DEF Sized
    <2>2. cut.buf = text
      BY <1>1 DEF Cut, Line
    <2> QED
      BY <2>1, <2>2
  <1> HIDE DEF cut, text
  <1>7. x \in Line /\ x.pos = p /\ x.buf = text /\ x.len = k.len - (j - i)
    BY <1>6 DEF At, Line
  <1>8. Len(text) = k.len - (j - i)
    BY <1>1, <1>2, <1>5
  <1> HIDE DEF x
  <1>9. Settled(x)
    BY <1>7, <1>8 DEF Settled
  <1> QED
    BY <1>7, <1>9 DEF x, cut, text

\* Ctrl-Y right after a killing key puts the line back as it was, whatever key killed and
\* however much (bestlineRingPush, bestlineEditYank), for any line and any kill ring.
THEOREM YankGivesBack ==
    ASSUME Careful PROVE Spec => YankUndoesKill
  <1> DEFINE GivenBack == Kills /\ ring' # ring /\ Settled(l) => Yanked(l', ring').buf = l.buf
  <1>1. ASSUME Inv PROVE GivenBack
    <2> SUFFICES ASSUME Kills, ring' # ring, Settled(l) PROVE Yanked(l', ring').buf = l.buf
      OBVIOUS
    <2>1. Fine(l) /\ ring \in Rings
      BY <1>1 DEF Inv, Sorts
    <2>2. /\ l \in Line /\ l.pos \in 0..l.len /\ l.len \in Nat /\ l.pos \in Nat
          /\ l.buf \in Seq(Byte) /\ Len(l.buf) = l.len
      BY <2>1, FineFields DEF Settled
    <2>3. ASSUME NEW j \in 0..l.len, NEW i \in 0..j, l' = At(Cut(l, i, j), i),
                 ring' = Pushed(ring, Bytes(l.buf, i, j))
          PROVE  Yanked(l', ring').buf = l.buf
      <3>1. /\ l' \in Line /\ Settled(l') /\ l'.pos = i
            /\ l'.buf = Bytes(l.buf, 0, i) \o Bytes(l.buf, j, l.len)
        <4>1. i \in Int
          BY <2>2
        <4> QED
          BY <2>1, <2>3, <4>1, CutLine
      <3>2. Pushed(ring, Bytes(l.buf, i, j)) # ring
        BY <2>3
      <3>3. Yanked(l', Pushed(ring, Bytes(l.buf, i, j))).buf = l.buf
        BY <2>1, <3>1, <3>2, KillUndone
      <3> QED
        BY <2>3, <3>3
    <2>4. CASE Kill("killleft", KillLeft(l), KillLeftKills(l))
      <3>1. l' = At(Cut(l, 0, l.pos), 0) /\ ring' = Pushed(ring, Bytes(l.buf, 0, l.pos))
        BY <2>4 DEF Kill, KillLeft, KillLeftKills
      <3>2. 0 \in 0..l.pos
        BY <2>2
      <3> QED
        BY <2>2, <2>3, <3>1, <3>2
    <2>5. CASE Kill("killright", KillRight(l), KillRightKills(l))
      <3> DEFINE a == Bytes(l.buf, 0, l.pos)
      <3>1. l' = [l EXCEPT !.buf = a, !.len = l.pos] /\ ring' = Pushed(ring, Bytes(l.buf, l.pos, l.len))
        BY <2>5 DEF Kill, KillRight, KillRightKills
      <3>2. l.pos \in 0..Len(l.buf) /\ 0 \in 0..l.pos /\ l.pos - 0 = l.pos /\ l.len \in 0..l.len
        BY <2>2
      <3>3. a \in Seq(Byte) /\ Len(a) = l.pos
        BY <2>2, <3>2, BytesOK
      <3>4. a \o Bytes(l.buf, l.len, l.len) = a
        <4>1. Bytes(l.buf, l.len, l.len) = <<>>
          BY <2>2, BytesEmpty
        <4> HIDE DEF a
        <4> QED
          BY <3>3, <4>1, ConcatEmptySeq
      <3> HIDE DEF a
      <3>5. l' \in Line /\ l'.buf = a /\ l'.len = l.pos /\ l'.pos = l.pos
        BY <2>2, <3>1, <3>3 DEF Line
      <3>6. Settled(l')
        BY <3>3, <3>5 DEF Settled
      <3>7. l'.buf = Bytes(l.buf, 0, l.pos) \o Bytes(l.buf, l.len, l.len)
        BY <3>4, <3>5 DEF a
      <3>8. l.pos \in 0..l.len /\ l'.pos = l.pos /\ l' \in Line
        BY <2>2, <3>5
      <3>9. Pushed(ring, Bytes(l.buf, l.pos, l.len)) # ring
        BY <3>1
      <3>10. Yanked(l', Pushed(ring, Bytes(l.buf, l.pos, l.len))).buf = l.buf
        BY <2>1, <3>2, <3>6, <3>7, <3>8, <3>9, KillUndone
      <3> QED
        BY <3>1, <3>10
    <2>6. CASE Kill("ruboutword", RuboutWord(l), RuboutWordKills(l))
      <3> DEFINE b == BackwardWord(l, l.pos)
      <3>1. b \in 0..l.pos
        BY <2>2, WordsOK
      <3>2. /\ l' = IF l.pos = 0 THEN l ELSE At(Cut(l, b, l.pos), b)
            /\ ring' = Pushed(ring, Bytes(l.buf, b, l.pos))
        BY <2>6 DEF Kill, RuboutWord, RuboutWordKills
      <3> HIDE DEF b
      <3>3. l.pos # 0
        <4> SUFFICES ASSUME l.pos = 0 PROVE FALSE
          OBVIOUS
        <4>1. b = 0
          BY <3>1
        <4>2. Bytes(l.buf, b, l.pos) = <<>>
          BY <4>1, BytesEmpty
        <4> QED
          BY <3>2, <4>2 DEF Pushed
      <3> QED
        BY <2>2, <2>3, <3>1, <3>2, <3>3
    <2>7. CASE Kill("deleteword", DeleteWord(l), DeleteWordKills(l))
      <3> DEFINE f == ForwardWord(l, l.pos)
      <3>1. f \in l.pos..l.len
        BY <2>2, WordsOK
      <3>2. /\ l' = IF l.pos = l.len THEN l ELSE Cut(l, l.pos, f)
            /\ ring' = Pushed(ring, Bytes(l.buf, l.pos, f))
        BY <2>7 DEF Kill, DeleteWord, DeleteWordKills
      <3> HIDE DEF f
      <3>3. l.pos # l.len
        <4> SUFFICES ASSUME l.pos = l.len PROVE FALSE
          OBVIOUS
        <4>1. f = l.pos
          BY <2>2, <3>1
        <4>2. Bytes(l.buf, l.pos, f) = <<>>
          BY <2>2, <4>1, BytesEmpty
        <4> QED
          BY <3>2, <4>2 DEF Pushed
      <3>4. f \in 0..l.len /\ l.pos \in 0..f
        BY <2>2, <3>1
      <3>5. Cut(l, l.pos, f) = At(Cut(l, l.pos, f), l.pos)
        <4> DEFINE cut == Cut(l, l.pos, f)
        <4>1. cut \in Line /\ cut.pos = l.pos
          BY <2>1, <3>4, CutOK DEF Fine, Sized
        <4> HIDE DEF cut
        <4>2. cut = At(cut, l.pos)
          BY <4>1 DEF At, Line
        <4> QED
          BY <4>2 DEF cut
      <3> QED
        BY <2>3, <3>2, <3>3, <3>4, <3>5
    <2> QED
      BY <2>4, <2>5, <2>6, <2>7 DEF Kills
  <1>2. Inv => [GivenBack]_vars
    BY <1>1
  <1> QED
    BY <1>2, Invariance, PTL DEF YankUndoesKill

-----------------------------------------------------------------------------
(* Text of whole runes.                                                    *)

\* The rune at i ends inside of the text, and there it ends.
RuneIn(s, i) ==
    LET n == i + Calls(s[i])
    IN  /\ n <= Len(s) /\ \A q \in (i + 1)..n : s[q] \in Continuation
        /\ n < Len(s) => s[n + 1] \notin Continuation

LEMMA CallsOK == ASSUME NEW b PROVE Calls(b) \in Nat
  BY FollowAssumption DEF Calls

LEMMA WholeRunes ==
    ASSUME NEW s, Whole(s), NEW i \in 1..Len(s), s[i] \notin Continuation
    PROVE  RuneIn(s, i)
  BY DEF Whole, RuneIn

LEMMA WholeIf ==
    ASSUME NEW s, s # <<>> => s[1] \notin Continuation,
           \A i \in 1..Len(s) : s[i] \notin Continuation => RuneIn(s, i)
    PROVE  Whole(s)
  BY DEF Whole, RuneIn

LEMMA WholeBegun == ASSUME NEW s \in Seq(Byte), Whole(s) PROVE Begun(s, 0) /\ Begun(s, Len(s))
  <1>1. Len(s) > 0 => s # <<>>
    OBVIOUS
  <1> QED
    BY <1>1 DEF Begun, Whole

LEMMA BytesAt ==
    ASSUME NEW s \in Seq(Byte), NEW j \in 0..Len(s), NEW i \in 0..j
    PROVE  \A q \in 1..(j - i) : Bytes(s, i, j)[q] = s[i + q]
  <1>1. Len(s) \in Nat /\ i \in Nat /\ j \in Nat /\ i <= j /\ j <= Len(s)
    OBVIOUS
  <1>2. \A q \in (i + 1)..j : s[q] \in Byte
    <2>1. \A q \in (i + 1)..j : q \in 1..Len(s)
      BY <1>1
    <2> QED
      BY <2>1
  <1>3. \A q \in 1..(j - (i + 1) + 1) : SubSeq(s, i + 1, j)[q] = s[(i + 1) + q - 1]
    BY <1>1, <1>2, SubSeqProperties
  <1>4. \A q \in 1..(j - i) : q \in 1..(j - (i + 1) + 1) /\ (i + 1) + q - 1 = i + q
    BY <1>1
  <1> QED
    BY <1>3, <1>4 DEF Bytes

\* A part that begins and ends where runes do.
LEMMA WholePart ==
    ASSUME NEW s \in Seq(Byte), Whole(s), NEW j \in 0..Len(s), NEW i \in 0..j,
           Begun(s, i), Begun(s, j)
    PROVE  Whole(Bytes(s, i, j))
  <1> DEFINE t == Bytes(s, i, j)
             n == Len(s)
  <1>1. n \in Nat /\ i \in Nat /\ j \in Nat /\ i <= j /\ j <= n
    OBVIOUS
  <1>2. t \in Seq(Byte) /\ Len(t) = j - i
    BY BytesOK
  <1>3. \A q \in 1..(j - i) : t[q] = s[i + q]
    BY BytesAt
  <1> HIDE DEF t
  <1>4. t # <<>> => t[1] \notin Continuation
    <2>1. t # <<>> => j - i >= 1
      BY <1>1, <1>2
    <2>2. j - i >= 1 => 1 \in 1..(j - i) /\ i < n
      BY <1>1
    <2> QED
      BY <1>3, <2>1, <2>2 DEF Begun
  <1>5. ASSUME NEW q \in 1..Len(t), t[q] \notin Continuation PROVE RuneIn(t, q)
    <2> DEFINE x == i + q
               c == Calls(s[x])
    <2>1. q \in Nat /\ 1 <= q /\ q <= j - i /\ t[q] = s[x] /\ x \in 1..n /\ x \in Nat /\ x <= j
      BY <1>1, <1>2, <1>3
    <2>2. c \in Nat
      BY CallsOK
    <2>3. RuneIn(s, x)
      BY <1>5, <2>1, WholeRunes
    <2>4. /\ x + c <= n /\ \A y \in (x + 1)..(x + c) : s[y] \in Continuation
          /\ x + c < n => s[x + c + 1] \notin Continuation
      BY <2>3 DEF RuneIn
    <2> HIDE DEF x, c, n
    <2>5. x + c <= j
      <3>1. SUFFICES ASSUME x + c > j PROVE FALSE
        BY <1>1, <2>1, <2>2
      <3>2. j + 1 \in (x + 1)..(x + c)
        BY <1>1, <2>1, <2>2, <3>1
      <3>3. j < n
        BY <1>1, <2>1, <2>2, <2>4, <3>1
      <3> QED
        BY <1>1, <2>4, <3>2, <3>3 DEF Begun, n
    <2>6. q + c <= Len(t)
      BY <1>1, <1>2, <2>1, <2>2, <2>5 DEF x
    <2>7. \A y \in (q + 1)..(q + c) : t[y] \in Continuation
      <3> SUFFICES ASSUME NEW y \in (q + 1)..(q + c) PROVE t[y] \in Continuation
        OBVIOUS
      <3>1. y \in 1..(j - i) /\ i + y \in (x + 1)..(x + c)
        BY <1>1, <1>2, <2>1, <2>2, <2>6 DEF x
      <3> QED
        BY <1>3, <2>4, <3>1
    <2>8. q + c < Len(t) => t[q + c + 1] \notin Continuation
      <3> SUFFICES ASSUME q + c < Len(t) PROVE t[q + c + 1] \notin Continuation
        OBVIOUS
      <3>1. q + c + 1 \in 1..(j - i) /\ i + (q + c + 1) = x + c + 1 /\ x + c < n
        BY <1>1, <1>2, <2>1, <2>2 DEF x
      <3> QED
        BY <1>3, <2>4, <3>1
    <2>9. c = Calls(t[q])
      BY <2>1 DEF c
    <2> QED
      BY <2>6, <2>7, <2>8, <2>9 DEF RuneIn
  <1>6. Whole(t)
    BY <1>4, <1>5, WholeIf
  <1> QED
    BY <1>6 DEF t

LEMMA JoinedAt ==
    ASSUME NEW s \in Seq(Byte), NEW t \in Seq(Byte)
    PROVE  /\ Len(s \o t) = Len(s) + Len(t)
           /\ \A q \in 1..Len(s) : (s \o t)[q] = s[q]
           /\ \A q \in 1..Len(t) : (s \o t)[Len(s) + q] = t[q]
  <1>1. /\ Len(s \o t) = Len(s) + Len(t) /\ Len(s) \in Nat /\ Len(t) \in Nat
        /\ \A q \in 1..(Len(s) + Len(t)) :
               (s \o t)[q] = IF q <= Len(s) THEN s[q] ELSE t[q - Len(s)]
    BY ConcatProperties
  <1> DEFINE u == s \o t
             m == Len(s)
             n == Len(t)
  <1> HIDE DEF u, m, n
  <1>2. m \in Nat /\ n \in Nat /\ \A q \in 1..(m + n) : u[q] = IF q <= m THEN s[q] ELSE t[q - m]
    BY <1>1 DEF u, m, n
  <1>3. \A q \in 1..m : u[q] = s[q]
    BY <1>2
  <1>4. ASSUME NEW q \in 1..n PROVE u[m + q] = t[q]
    <2>1. m + q \in 1..(m + n) /\ ~(m + q <= m) /\ (m + q) - m = q
      BY <1>2
    <2> QED
      BY <1>2, <2>1
  <1> QED
    BY <1>1, <1>3, <1>4 DEF u, m, n

\* Two of them after each other, and where their runes begin.
LEMMA WholeJoin ==
    ASSUME NEW s \in Seq(Byte), NEW t \in Seq(Byte), Whole(s), Whole(t)
    PROVE  Whole(s \o t)
  <1> DEFINE u == s \o t
             m == Len(s)
             n == Len(t)
  <1>1. /\ Len(u) = m + n /\ m \in Nat /\ n \in Nat
        /\ \A q \in 1..m : u[q] = s[q]
        /\ \A q \in 1..n : u[m + q] = t[q]
    BY JoinedAt
  <1>2. n > 0 => t[1] \notin Continuation
    <2>1. n > 0 => t # <<>>
      OBVIOUS
    <2> QED
      BY <2>1 DEF Whole
  <1>3. m > 0 => s[1] \notin Continuation
    <2>1. m > 0 => s # <<>>
      OBVIOUS
    <2> QED
      BY <2>1 DEF Whole
  <1>10. u \in Seq(Byte)
    BY Joined
  <1> HIDE DEF u
  <1>4. u # <<>> => u[1] \notin Continuation
    <2>1. u # <<>> => m > 0 \/ (m = 0 /\ n > 0)
      BY <1>1, <1>10
    <2>2. m > 0 => u[1] = s[1]
      BY <1>1
    <2>3. m = 0 /\ n > 0 => u[1] = t[1]
      <3>1. n > 0 => 1 \in 1..n
        BY <1>1
      <3>2. m = 0 => m + 1 = 1
        OBVIOUS
      <3> HIDE DEF m, n
      <3> QED
        BY <1>1, <3>1, <3>2
    <2> QED
      BY <1>2, <1>3, <2>1, <2>2, <2>3
  <1>5. ASSUME NEW q \in 1..m, u[q] \notin Continuation PROVE RuneIn(u, q)
    <2> DEFINE c == Calls(s[q])
    <2>1. u[q] = s[q] /\ c \in Nat /\ q \in Nat
      BY <1>1, CallsOK
    <2>2. RuneIn(s, q)
      BY <1>5, <2>1, WholeRunes
    <2>3. /\ q + c <= m /\ \A y \in (q + 1)..(q + c) : s[y] \in Continuation
          /\ q + c < m => s[q + c + 1] \notin Continuation
      BY <2>2 DEF RuneIn
    <2> HIDE DEF c, m, n
    <2>4. q + c <= Len(u)
      BY <1>1, <2>1, <2>3
    <2>5. \A y \in (q + 1)..(q + c) : u[y] \in Continuation
      <3>1. \A y \in (q + 1)..(q + c) : y \in 1..m
        BY <1>1, <2>1, <2>3
      <3> QED
        BY <1>1, <2>3, <3>1
    <2>6. q + c < Len(u) => u[q + c + 1] \notin Continuation
      <3>1. CASE q + c < m
        <4>1. q + c + 1 \in 1..m
          BY <1>1, <2>1, <3>1
        <4> QED
          BY <1>1, <2>3, <3>1, <4>1
      <3>2. CASE q + c = m
        <4>1. m < Len(u) => n > 0 /\ 1 \in 1..n
          BY <1>1
        <4> QED
          BY <1>1, <1>2, <3>2, <4>1
      <3> QED
        BY <1>1, <2>1, <2>3, <3>1, <3>2
    <2> QED
      BY <2>1, <2>4, <2>5, <2>6 DEF RuneIn, c
  <1>6. ASSUME NEW z \in 1..n, u[m + z] \notin Continuation PROVE RuneIn(u, m + z)
    <2> DEFINE c == Calls(t[z])
    <2>1. u[m + z] = t[z] /\ c \in Nat /\ z \in Nat
      BY <1>1, CallsOK
    <2>2. RuneIn(t, z)
      BY <1>6, <2>1, WholeRunes
    <2>3. /\ z + c <= n /\ \A y \in (z + 1)..(z + c) : t[y] \in Continuation
          /\ z + c < n => t[z + c + 1] \notin Continuation
      BY <2>2 DEF RuneIn
    <2> HIDE DEF c, m, n
    <2>4. m + z + c <= Len(u)
      BY <1>1, <2>1, <2>3
    <2>5. \A y \in (m + z + 1)..(m + z + c) : u[y] \in Continuation
      <3> SUFFICES ASSUME NEW y \in (m + z + 1)..(m + z + c) PROVE u[y] \in Continuation
        OBVIOUS
      <3>1. y - m \in (z + 1)..(z + c) /\ y - m \in 1..n /\ m + (y - m) = y
        BY <1>1, <2>1, <2>3
      <3> QED
        BY <1>1, <2>3, <3>1
    <2>6. m + z + c < Len(u) => u[m + z + c + 1] \notin Continuation
      <3> SUFFICES ASSUME m + z + c < Len(u) PROVE u[m + z + c + 1] \notin Continuation
        OBVIOUS
      <3>1. z + c < n /\ z + c + 1 \in 1..n /\ m + (z + c + 1) = m + z + c + 1
        BY <1>1, <2>1
      <3> QED
        BY <1>1, <2>3, <3>1
    <2> QED
      BY <2>1, <2>4, <2>5, <2>6 DEF RuneIn, c
  <1>7. ASSUME NEW q \in 1..Len(u), u[q] \notin Continuation PROVE RuneIn(u, q)
    <2> HIDE DEF m, n
    <2>1. CASE q <= m
      BY <1>1, <1>5, <1>7, <2>1
    <2>2. CASE q > m
      <3>1. q - m \in 1..n /\ m + (q - m) = q
        BY <1>1, <2>2
      <3> QED
        BY <1>6, <1>7, <3>1
    <2> QED
      BY <1>1, <2>1, <2>2
  <1>8. Whole(u)
    BY <1>4, <1>7, WholeIf
  <1> QED
    BY <1>8 DEF u

LEMMA BegunJoin ==
    ASSUME NEW s \in Seq(Byte), NEW t \in Seq(Byte), Whole(t)
    PROVE  /\ Begun(s \o t, Len(s))
           /\ \A p \in 0..Len(s) : Begun(s, p) => Begun(s \o t, p)
           /\ \A p \in 0..Len(t) : Begun(t, p) => Begun(s \o t, Len(s) + p)
  <1> DEFINE u == s \o t
             m == Len(s)
             n == Len(t)
  <1>1. /\ Len(u) = m + n /\ m \in Nat /\ n \in Nat
        /\ \A q \in 1..m : u[q] = s[q]
        /\ \A q \in 1..n : u[m + q] = t[q]
    BY JoinedAt
  <1>2. Begun(t, 0)
    BY WholeBegun
  <1> HIDE DEF u, m, n
  <1>3. ASSUME NEW p \in 0..n, Begun(t, p) PROVE Begun(u, m + p)
    <2>1. p >= n => m + p >= Len(u)
      BY <1>1
    <2>2. p < n => p + 1 \in 1..n /\ m + (p + 1) = m + p + 1
      BY <1>1
    <2> QED
      BY <1>1, <1>3, <2>1, <2>2 DEF Begun, n
  <1>4. Begun(u, m)
    <2>1. 0 \in 0..n /\ m + 0 = m
      BY <1>1
    <2> QED
      BY <1>2, <1>3, <2>1
  <1>5. ASSUME NEW p \in 0..m, Begun(s, p) PROVE Begun(u, p)
    <2>1. CASE p = m
      BY <1>4, <2>1
    <2>2. CASE p < m
      <3>1. p + 1 \in 1..m /\ ~(p >= Len(s))
        BY <1>1, <2>2 DEF m
      <3> QED
        BY <1>1, <1>5, <3>1 DEF Begun
    <2> QED
      BY <1>1, <2>1, <2>2
  <1> QED
    BY <1>3, <1>4, <1>5 DEF u, m, n

-----------------------------------------------------------------------------
(* Places in a line where a rune begins, and the keys that move the cursor. *)

\* The text of the line is whole, the cursor is where a rune begins, and a zero ends the
\* text unless nothing of it is the line's.
Neat(k) == Whole(k.buf) /\ Begun(k.buf, k.pos) /\ (Settled(k) \/ k.len = 0)
Sound(k) == Fine(k) /\ Neat(k)
Place(k, p) == p \in 0..k.len /\ Begun(k.buf, p)

LEMMA SoundFields ==
    ASSUME NEW k, Sound(k)
    PROVE  /\ Whole(k.buf) /\ Place(k, 0) /\ Place(k, k.pos) /\ Place(k, k.len)
           /\ k.len = 0 \/ Settled(k)
           /\ k.len = 0 => k.pos = 0
  <1>1. /\ k.buf \in Seq(Byte) /\ k.len \in Nat /\ k.pos \in 0..k.len /\ k.len <= Len(k.buf)
        /\ Whole(k.buf) /\ Begun(k.buf, k.pos) /\ (Settled(k) \/ k.len = 0)
    BY FineFields DEF Sound, Neat
  <1>2. Begun(k.buf, 0) /\ Begun(k.buf, Len(k.buf))
    BY <1>1, WholeBegun
  <1>3. Begun(k.buf, k.len)
    BY <1>1, <1>2 DEF Settled
  <1> QED
    BY <1>1, <1>2, <1>3 DEF Place

LEMMA PlaceSteps ==
    ASSUME NEW k, Sound(k), NEW p, Place(k, p)
    PROVE  Place(k, Forward(k, p)) /\ Place(k, Backward(k, p))
  <1>1. /\ k \in Line /\ k.buf \in Seq(Byte) /\ k.len \in Nat /\ k.len <= Len(k.buf)
        /\ Len(k.buf) \in Nat
    BY FineFields DEF Sound
  <1>2. p \in 0..k.len /\ p \in Nat /\ Begun(k.buf, p)
    BY <1>1 DEF Place
  <1>3. Place(k, 0) /\ Place(k, k.len) /\ Whole(k.buf)
    BY SoundFields
  <1>4. Place(k, Backward(k, p))
    <2>1. Backward(k, p) \in 0..p /\ (Backward(k, p) = 0 \/ Begun(k.buf, Backward(k, p)))
      BY <1>1, <1>2, BackwardOK
    <2>2. Backward(k, p) \in 0..k.len
      BY <1>1, <1>2, <2>1
    <2> QED
      BY <1>3, <2>1, <2>2 DEF Place
  <1>5. Forward(k, p) \in 0..k.len
    <2>1. Forward(k, p) \in p..k.len
      BY <1>1, <1>2, ForwardOK
    <2> QED
      BY <1>1, <1>2, <2>1
  <1>6. CASE p = k.len
    <2>1. RuneLength(k, p) = 0
      BY <1>1, <1>2, <1>6, RuneLengthOK
    <2>2. Forward(k, p) = p
      BY <1>2, <2>1 DEF Forward
    <2> QED
      BY <1>4, <2>2 DEF Place
  <1>7. CASE p < k.len /\ k.buf[p + 1] \in Leading
    <2>1. Forward(k, p) = k.len \/ Begun(k.buf, Forward(k, p))
      BY <1>1, <1>2, <1>7, RuneLengthOK DEF Forward
    <2> QED
      BY <1>3, <1>4, <1>5, <2>1 DEF Place
  <1>8. CASE p < k.len /\ k.buf[p + 1] \notin Leading
    <2>1. Forward(k, p) = p + 1
      BY <1>1, <1>2, <1>8, RuneLengthOK DEF Forward
    <2>2. p + 1 \in 1..Len(k.buf) /\ k.buf[p + 1] \notin Continuation
      BY <1>1, <1>2, <1>8 DEF Begun
    <2>3. RuneIn(k.buf, p + 1) /\ Calls(k.buf[p + 1]) = 0
      BY <1>3, <1>8, <2>2, WholeRunes DEF Calls
    <2>4. p + 1 < Len(k.buf) => k.buf[p + 1 + 1] \notin Continuation
      <3>1. (p + 1) + 0 = p + 1
        BY <1>2
      <3> QED
        BY <2>3, <3>1 DEF RuneIn
    <2>5. Begun(k.buf, p + 1)
      BY <1>1, <1>2, <2>4 DEF Begun
    <2> QED
      BY <1>4, <1>5, <2>1, <2>5 DEF Place
  <1> QED
    BY <1>1, <1>2, <1>6, <1>7, <1>8

\* And so is every place the scans reach from one.
LEMMA PlaceReached ==
    ASSUME NEW k, Sound(k), NEW p, Place(k, p), NEW v, Reached(k, p, v)
    PROVE  Place(k, v)
  <1> DEFINE G == {q \in 0..k.len : Place(k, q)}
  <1>1. \A q \in 0..k.len : q \in G => Forward(k, q) \in G /\ Backward(k, q) \in G
    <2> SUFFICES ASSUME NEW q \in 0..k.len, q \in G PROVE Forward(k, q) \in G /\ Backward(k, q) \in G
      OBVIOUS
    <2>1. Place(k, Forward(k, q)) /\ Place(k, Backward(k, q))
      BY PlaceSteps
    <2> QED
      BY <2>1 DEF Place
  <1>2. Closed(k, G) /\ p \in G
    BY <1>1 DEF Closed, Place
  <1>3. v \in G
    <2> HIDE DEF G
    <2> QED
      BY <1>2 DEF Reached
  <1> QED
    BY <1>3

LEMMA PlaceScans ==
    ASSUME NEW k, Sound(k), NEW p, Place(k, p), NEW kind
    PROVE  /\ Place(k, Forwards(k, p, kind)) /\ Place(k, Backwards(k, p, kind))
           /\ Place(k, ForwardWord(k, p)) /\ Place(k, BackwardWord(k, p))
           /\ Place(k, ScanRight(k, p, kind)) /\ Place(k, ScanLeft(k, p))
  <1>1. k \in Line /\ k.len \in Nat
    BY FineFields DEF Sound
  <1>2. p \in 0..k.len /\ p \in Nat /\ p <= k.len
    BY <1>1 DEF Place
  <1>3. /\ Reached(k, p, Forwards(k, p, kind)) /\ Reached(k, p, Backwards(k, p, kind))
        /\ Reached(k, p, ForwardWord(k, p)) /\ Reached(k, p, BackwardWord(k, p))
        /\ Reached(k, p, ScanRight(k, p, kind)) /\ Reached(k, p, ScanLeft(k, p))
    BY <1>1, <1>2, ForwardsOK, BackwardsOK, WordsOK, ScanRightOK, ScanLeftOK
  <1> QED
    BY <1>3, PlaceReached

\* A place further on is no place before.
LEMMA PlaceRange == ASSUME NEW k, NEW p, Place(k, p) PROVE p \in 0..k.len /\ Begun(k.buf, p)
  BY DEF Place

LEMMA AtSound ==
    ASSUME NEW k, Sound(k), NEW p, Place(k, p)
    PROVE  Sound(At(k, p)) /\ At(k, p).buf = k.buf /\ At(k, p).len = k.len /\ At(k, p).pos = p
  <1>1. k \in Line /\ Fine(k) /\ Neat(k) /\ p \in 0..k.len /\ Begun(k.buf, p)
    BY FineFields, PlaceRange DEF Sound
  <1>2. Fine(At(k, p))
    BY <1>1, MoveOK DEF Kept
  <1>3. At(k, p).buf = k.buf /\ At(k, p).len = k.len /\ At(k, p).pos = p
    BY <1>1 DEF At, Line
  <1> QED
    BY <1>1, <1>2, <1>3 DEF Sound, Neat, Settled

LEMMA MoveSound ==
    ASSUME NEW k, Sound(k)
    PROVE  /\ Sound(Home(k)) /\ Sound(End(k)) /\ Sound(LeftKey(k))
           /\ Sound(LeftWord(k)) /\ Sound(RightWord(k))
  <1>1. Place(k, 0) /\ Place(k, k.len) /\ Place(k, k.pos)
    BY SoundFields
  <1>2. Place(k, Backward(k, k.pos)) /\ Place(k, BackwardWord(k, k.pos)) /\ Place(k, ForwardWord(k, k.pos))
    BY <1>1, PlaceSteps, PlaceScans
  <1> QED
    BY <1>1, <1>2, AtSound DEF Home, End, LeftKey, LeftWord, RightWord

LEMMA RightSound == ASSUME NEW k, Sound(k) PROVE Sound(Right(k))
  <1>1. Fine(k) /\ Place(k, k.len)
    BY SoundFields DEF Sound
  <1>2. CASE k.pos = k.len
    BY <1>2 DEF Right
  <1>3. CASE k.pos # k.len
    <2>1. PICK p \in 0..k.len : Right(k) = At(k, p) /\ (p = k.len \/ Begun(k.buf, p))
      BY <1>1, <1>3, RightOK
    <2>2. Place(k, p)
      BY <1>1, <2>1 DEF Place
    <2> QED
      BY <2>1, <2>2, AtSound
  <1> QED
    BY <1>2, <1>3

LEMMA ExprSound == ASSUME NEW k, Sound(k) PROVE Sound(LeftExpr(k)) /\ Sound(RightExpr(k))
  <1>1. Place(k, k.pos)
    BY SoundFields
  <1>2. Sound(LeftExpr(k))
    <2> DEFINE j == At(k, Backwards(k, k.pos, "xeparator"))
    <2>1. Sound(j)
      BY <1>1, PlaceScans, AtSound
    <2>2. LeftExpr(k) = IF MirrorLeft(j) = {} THEN At(j, Backwards(j, j.pos, "letter"))
                        ELSE At(j, (CHOOSE m \in MirrorLeft(j) : TRUE)[1])
      BY DEF LeftExpr
    <2> HIDE DEF j
    <2>3. j \in Line /\ j.pos \in 0..j.len /\ Place(j, j.pos)
      BY <2>1, FineFields, SoundFields DEF Sound
    <2>4. CASE MirrorLeft(j) = {}
      BY <2>1, <2>2, <2>3, <2>4, PlaceScans, AtSound
    <2>5. CASE MirrorLeft(j) # {}
      <3> DEFINE m == CHOOSE m \in MirrorLeft(j) : TRUE
      <3>1. m \in MirrorLeft(j)
        BY <2>5
      <3> HIDE DEF m
      <3>2. Reached(j, j.pos, m[1])
        BY <2>3, <3>1, MirrorLeftOK
      <3>3. LeftExpr(k) = At(j, m[1])
        BY <2>2, <2>5 DEF m
      <3> QED
        BY <2>1, <2>3, <3>2, <3>3, PlaceReached, AtSound
    <2> QED
      BY <2>4, <2>5
  <1>3. Sound(RightExpr(k))
    <2> DEFINE j == At(k, Forwards(k, k.pos, "xeparator"))
    <2>1. Sound(j)
      BY <1>1, PlaceScans, AtSound
    <2>2. RightExpr(k) = IF MirrorRight(j) = {} THEN At(j, Forwards(j, j.pos, "letter"))
                         ELSE At(j, Forward(j, (CHOOSE m \in MirrorRight(j) : TRUE)[2]))
      BY DEF RightExpr
    <2> HIDE DEF j
    <2>3. j \in Line /\ j.pos \in 0..j.len /\ Place(j, j.pos)
      BY <2>1, FineFields, SoundFields DEF Sound
    <2>4. CASE MirrorRight(j) = {}
      BY <2>1, <2>2, <2>3, <2>4, PlaceScans, AtSound
    <2>5. CASE MirrorRight(j) # {}
      <3> DEFINE m == CHOOSE m \in MirrorRight(j) : TRUE
      <3>1. m \in MirrorRight(j)
        BY <2>5
      <3> HIDE DEF m
      <3>2. Reached(j, j.pos, m[2])
        BY <2>3, <3>1, MirrorRightOK
      <3>3. RightExpr(k) = At(j, Forward(j, m[2]))
        BY <2>2, <2>5 DEF m
      <3> QED
        BY <2>1, <2>3, <3>2, <3>3, PlaceReached, PlaceSteps, AtSound
    <2> QED
      BY <2>4, <2>5
  <1> QED
    BY <1>2, <1>3

LEMMA SetMarkSound == ASSUME NEW k, Sound(k) PROVE Sound(SetMark(k))
  <1>1. k \in Line /\ Fine(k) /\ Neat(k) /\ k.pos \in Nat
    BY FineFields DEF Sound
  <1>2. Fine(SetMark(k))
    BY <1>1, MarkOK DEF Kept
  <1>3. SetMark(k).buf = k.buf /\ SetMark(k).len = k.len /\ SetMark(k).pos = k.pos
    BY <1>1 DEF SetMark, Line
  <1> QED
    BY <1>1, <1>2, <1>3 DEF Sound, Neat, Settled

\* Where the mark is no continuation.
LEMMA GotoMarkSound ==
    ASSUME NEW k, Sound(k), k.mark \notin {p \in 0..(k.len - 1) : k.buf[p + 1] \in Continuation}
    PROVE  Sound(GotoMark(k))
  <1>1. /\ k.mark \in Nat /\ k.len \in Nat /\ k.len <= Len(k.buf) /\ Place(k, k.len) /\ k.len \in Int
        /\ Len(k.buf) \in Nat
    BY FineFields, SoundFields DEF Sound
  <1>2. CASE k.mark > k.len
    BY <1>2 DEF GotoMark
  <1>3. CASE k.mark = k.len
    BY <1>1, <1>3, AtSound DEF GotoMark
  <1>4. CASE k.mark < k.len
    <2>1. k.mark \in 0..(k.len - 1) /\ k.mark \in 0..k.len /\ ~(k.mark > k.len)
      BY <1>1, <1>4
    <2>2. Place(k, k.mark)
      BY <2>1 DEF Place, Begun
    <2> QED
      BY <2>1, <2>2, AtSound DEF GotoMark
  <1> QED
    BY <1>1, <1>2, <1>3, <1>4

-----------------------------------------------------------------------------
(* The keys that put text in and take it out.                              *)

LEMMA BegunPart ==
    ASSUME NEW s \in Seq(Byte), NEW j \in 0..Len(s), NEW i \in 0..j, NEW p \in i..j, Begun(s, p)
    PROVE  Begun(Bytes(s, i, j), p - i)
  <1>1. Len(s) \in Nat /\ i \in Nat /\ j \in Nat /\ p \in Nat /\ i <= p /\ p <= j /\ j <= Len(s)
    OBVIOUS
  <1>2. Len(Bytes(s, i, j)) = j - i
    BY BytesOK
  <1>3. CASE p = j
    BY <1>1, <1>2, <1>3 DEF Begun
  <1>4. CASE p < j
    <2>1. p - i + 1 \in 1..(j - i) /\ i + (p - i + 1) = p + 1 /\ ~(p >= Len(s))
      BY <1>1, <1>4
    <2>2. Bytes(s, i, j)[p - i + 1] = s[p + 1]
      BY <2>1, BytesAt
    <2> QED
      BY <2>1, <2>2 DEF Begun
  <1> QED
    BY <1>1, <1>3, <1>4

\* A text put into another where a rune begins.
LEMMA WholeBetween ==
    ASSUME NEW s \in Seq(Byte), NEW t \in Seq(Byte), NEW u \in Seq(Byte),
           Whole(s), Whole(t), Whole(u)
    PROVE  /\ Whole(s \o t \o u) /\ Begun(s \o t \o u, Len(s) + Len(t))
           /\ Begun(s \o t \o u, Len(s))
  <1> DEFINE v == s \o t
  <1>1. v \in Seq(Byte) /\ Len(v) = Len(s) + Len(t) /\ Whole(v) /\ Begun(v, Len(s))
    BY Joined, WholeJoin, BegunJoin
  <1>2. Len(s) \in 0..Len(v)
    <2>1. Len(s) \in Nat /\ Len(t) \in Nat
      OBVIOUS
    <2> HIDE DEF v
    <2> QED
      BY <1>1, <2>1
  <1> HIDE DEF v
  <1>3. Whole(v \o u) /\ Begun(v \o u, Len(v)) /\ Begun(v \o u, Len(s))
    BY <1>1, <1>2, WholeJoin, BegunJoin
  <1> QED
    BY <1>1, <1>3 DEF v

\* The parts before and after a place.
LEMMA PlaceParts ==
    ASSUME NEW k, Sound(k), NEW i, Place(k, i), NEW j, Place(k, j), i <= j
    PROVE  /\ Bytes(k.buf, i, j) \in Seq(Byte) /\ Whole(Bytes(k.buf, i, j))
           /\ Len(Bytes(k.buf, i, j)) = j - i
  <1>1. /\ k.buf \in Seq(Byte) /\ k.len \in Nat /\ k.len <= Len(k.buf) /\ Len(k.buf) \in Nat
        /\ Whole(k.buf)
    BY FineFields, SoundFields DEF Sound
  <1>2. i \in 0..j /\ j \in 0..Len(k.buf) /\ Begun(k.buf, i) /\ Begun(k.buf, j)
    BY <1>1, PlaceRange
  <1> QED
    BY <1>1, <1>2, WholePart, BytesOK

LEMMA InsertSound ==
    ASSUME NEW k, Sound(k), NEW s \in Seq(Byte), Whole(s)
    PROVE  Sound(Insert(k, s)) /\ Settled(Insert(k, s))
  <1> DEFINE head == Bytes(k.buf, 0, k.pos)
             tail == Bytes(k.buf, k.pos, k.len)
             text == head \o s \o tail
             j == Insert(k, s)
  <1>1. k \in Line /\ Fine(k) /\ k.pos \in Nat /\ k.len \in Nat /\ k.pos <= k.len /\ Len(s) \in Nat
    BY FineFields DEF Sound
  <1>2. Place(k, 0) /\ Place(k, k.pos) /\ Place(k, k.len) /\ 0 <= k.pos
    BY <1>1, SoundFields
  <1>3. /\ head \in Seq(Byte) /\ Whole(head) /\ Len(head) = k.pos - 0
        /\ tail \in Seq(Byte) /\ Whole(tail) /\ Len(tail) = k.len - k.pos
    BY <1>1, <1>2, PlaceParts
  <1>4. j.buf = text /\ j.pos = k.pos + Len(s) /\ j.len = k.len + Len(s)
    BY <1>1 DEF Insert, Line
  <1>5. Fine(j)
    BY <1>1, InsertOK DEF Kept
  <1> HIDE DEF head, tail, j
  <1>6. /\ Whole(text) /\ Begun(text, Len(head) + Len(s))
        /\ Len(text) = Len(head) + Len(s) + Len(tail)
    BY <1>3, WholeBetween, Joined3
  <1>7. Len(head) + Len(s) = j.pos /\ Len(text) = j.len
    <2> HIDE DEF text
    <2> QED
      BY <1>1, <1>3, <1>4, <1>6
  <1> QED
    BY <1>4, <1>5, <1>6, <1>7 DEF Sound, Neat, Settled, j

LEMMA YankSound ==
    ASSUME NEW k, Sound(k), Settled(k), NEW s \in Seq(Byte), Whole(s)
    PROVE  Sound(Yank(k, s)) /\ Settled(Yank(k, s))
  <1> DEFINE head == Bytes(k.buf, 0, k.pos)
             tail == Bytes(k.buf, k.pos, k.len)
             text == head \o s \o tail
             j == Yank(k, s)
  <1>1. k \in Line /\ Fine(k) /\ k.pos \in Nat /\ k.len \in Nat /\ k.pos <= k.len /\ Len(s) \in Nat
    BY FineFields DEF Sound
  <1>2. Place(k, 0) /\ Place(k, k.pos) /\ Place(k, k.len) /\ 0 <= k.pos
    BY <1>1, SoundFields
  <1>3. /\ head \in Seq(Byte) /\ Whole(head) /\ Len(head) = k.pos - 0
        /\ tail \in Seq(Byte) /\ Whole(tail) /\ Len(tail) = k.len - k.pos
    BY <1>1, <1>2, PlaceParts
  <1>4. j.buf = text /\ j.pos = k.pos + Len(s) /\ j.len = k.len + Len(s)
    BY <1>1 DEF Yank, Line
  <1>5. Fine(j)
    BY <1>1, YankOK DEF Kept
  <1> HIDE DEF head, tail, j
  <1>6. /\ Whole(text) /\ Begun(text, Len(head) + Len(s))
        /\ Len(text) = Len(head) + Len(s) + Len(tail)
    BY <1>3, WholeBetween, Joined3
  <1>7. Len(head) + Len(s) = j.pos /\ Len(text) = j.len
    <2> HIDE DEF text
    <2> QED
      BY <1>1, <1>3, <1>4, <1>6
  <1> QED
    BY <1>4, <1>5, <1>6, <1>7 DEF Sound, Neat, Settled, j

\* A part taken out of the line, where runes begin.
LEMMA CutWhole ==
    ASSUME NEW k, Sound(k), Settled(k), NEW i, Place(k, i), NEW j, Place(k, j), i <= j
    PROVE  /\ Whole(Cut(k, i, j).buf) /\ Begun(Cut(k, i, j).buf, i) /\ Settled(Cut(k, i, j))
           /\ Cut(k, i, j) \in Line /\ Cut(k, i, j).pos = k.pos
           /\ Sound(At(Cut(k, i, j), i)) /\ Settled(At(Cut(k, i, j), i))
  <1> DEFINE cut == Cut(k, i, j)
  <1>1. k \in Line /\ Fine(k) /\ k.len \in Nat /\ Sized(k)
    BY FineFields DEF Sound, Fine
  <1>2. j \in 0..k.len /\ i \in 0..j /\ i \in Nat /\ 0 <= i /\ j <= k.len
        /\ i \in 0..(k.len - (j - i))
    BY <1>1, PlaceRange
  <1>3. Place(k, 0) /\ Place(k, k.len)
    BY SoundFields
  <1>4. /\ Bytes(k.buf, 0, i) \in Seq(Byte) /\ Whole(Bytes(k.buf, 0, i)) /\ Len(Bytes(k.buf, 0, i)) = i - 0
        /\ Bytes(k.buf, j, k.len) \in Seq(Byte) /\ Whole(Bytes(k.buf, j, k.len))
    BY <1>2, <1>3, PlaceParts
  <1>5. /\ Settled(cut) /\ cut.buf = Bytes(k.buf, 0, i) \o Bytes(k.buf, j, k.len)
        /\ cut \in Line /\ cut.pos = k.pos /\ Fine(At(cut, i))
    BY <1>1, <1>2, CutSettled, CutOK, CutAtOK DEF Sized, Kept
  <1>6. Whole(cut.buf) /\ Begun(cut.buf, i)
    <2>1. i - 0 = i
      BY <1>2
    <2> QED
      BY <1>4, <1>5, <2>1, WholeJoin, BegunJoin
  <1> HIDE DEF cut
  <1>7. At(cut, i).buf = cut.buf /\ At(cut, i).pos = i /\ At(cut, i).len = cut.len
    BY <1>5 DEF At, Line
  <1>8. Sound(At(cut, i)) /\ Settled(At(cut, i))
    BY <1>5, <1>6, <1>7 DEF Sound, Neat, Settled
  <1> QED
    BY <1>5, <1>6, <1>8 DEF cut

\* The same where the cursor is there already.
LEMMA CutHere ==
    ASSUME NEW k, Sound(k), Settled(k), NEW j, Place(k, j), k.pos <= j
    PROVE  Sound(Cut(k, k.pos, j))
  <1>1. Place(k, k.pos) /\ Fine(k) /\ k.pos \in Nat /\ k.len \in Nat /\ Sized(k)
    BY SoundFields, FineFields DEF Sound, Fine
  <1>2. /\ Whole(Cut(k, k.pos, j).buf) /\ Begun(Cut(k, k.pos, j).buf, k.pos)
        /\ Settled(Cut(k, k.pos, j)) /\ Cut(k, k.pos, j).pos = k.pos
    BY <1>1, CutWhole
  <1>3. j \in 0..k.len /\ k.pos \in 0..j
    BY <1>1, PlaceRange
  <1>4. Sized(Cut(k, k.pos, j)) /\ Cut(k, k.pos, j).len = k.len - (j - k.pos)
    BY <1>1, <1>3, CutOK
  <1>5. k.pos \in 0..(k.len - (j - k.pos))
    BY <1>1, <1>3
  <1> QED
    BY <1>2, <1>4, <1>5 DEF Sound, Neat, Fine

LEMMA DeleteSound == ASSUME NEW k, Sound(k) PROVE Sound(Delete(k)) /\ Sound(DeleteWord(k))
  <1>1. /\ Place(k, k.pos) /\ (k.len = 0 \/ Settled(k)) /\ (k.len = 0 => k.pos = 0)
        /\ k \in Line /\ k.pos \in 0..k.len /\ k.pos \in Nat /\ k.len \in Nat
    BY SoundFields, FineFields DEF Sound
  <1>2. CASE k.pos = k.len
    BY <1>2 DEF Delete, DeleteWord
  <1>3. CASE k.pos # k.len
    <2>1. Settled(k)
      BY <1>1, <1>3
    <2>2. Place(k, Forward(k, k.pos)) /\ Place(k, ForwardWord(k, k.pos))
      BY <1>1, PlaceSteps, PlaceScans
    <2>3. Forward(k, k.pos) \in k.pos..k.len /\ ForwardWord(k, k.pos) \in k.pos..k.len
      BY <1>1, ForwardOK, WordsOK
    <2>4. k.pos <= Forward(k, k.pos) /\ k.pos <= ForwardWord(k, k.pos)
      BY <2>3
    <2> QED
      BY <1>3, <2>1, <2>2, <2>4, CutHere DEF Delete, DeleteWord
  <1> QED
    BY <1>2, <1>3

LEMMA RuboutSound == ASSUME NEW k, Sound(k) PROVE Sound(Rubout(k)) /\ Sound(RuboutWord(k))
  <1>1. /\ Place(k, k.pos) /\ (k.len = 0 \/ Settled(k)) /\ (k.len = 0 => k.pos = 0)
        /\ k \in Line /\ k.pos \in 0..k.len /\ k.pos \in Nat /\ k.len \in Nat
    BY SoundFields, FineFields DEF Sound
  <1>2. CASE k.pos = 0
    BY <1>2 DEF Rubout, RuboutWord
  <1>3. CASE k.pos # 0
    <2>1. Settled(k)
      BY <1>1, <1>3
    <2>2. Place(k, Backward(k, k.pos)) /\ Place(k, BackwardWord(k, k.pos))
      BY <1>1, PlaceSteps, PlaceScans
    <2>3. Backward(k, k.pos) \in 0..k.pos /\ BackwardWord(k, k.pos) \in 0..k.pos
      BY <1>1, BackwardOK, WordsOK
    <2>4. Backward(k, k.pos) <= k.pos /\ BackwardWord(k, k.pos) <= k.pos
      BY <2>3
    <2> QED
      BY <1>1, <1>3, <2>1, <2>2, <2>4, CutWhole DEF Rubout, RuboutWord
  <1> QED
    BY <1>2, <1>3

LEMMA KillRightSound == ASSUME NEW k, Sound(k) PROVE Sound(KillRight(k))
  <1>1. /\ Place(k, 0) /\ Place(k, k.pos) /\ Fine(k)
        /\ k \in Line /\ k.pos \in Nat /\ 0 <= k.pos
    BY SoundFields, FineFields DEF Sound
  <1>2. Bytes(k.buf, 0, k.pos) \in Seq(Byte) /\ Whole(Bytes(k.buf, 0, k.pos)) /\ Len(Bytes(k.buf, 0, k.pos)) = k.pos
    <2>1. k.pos - 0 = k.pos
      BY <1>1
    <2> QED
      BY <1>1, <2>1, PlaceParts
  <1>3. Fine(KillRight(k))
    BY <1>1, KillRightOK DEF Kept
  <1>4. KillRight(k).buf = Bytes(k.buf, 0, k.pos) /\ KillRight(k).len = k.pos /\ KillRight(k).pos = k.pos
    BY <1>1 DEF KillRight, Line
  <1> QED
    BY <1>2, <1>3, <1>4, WholeBegun DEF Sound, Neat, Settled

LEMMA KillLeftSound == ASSUME NEW k, Sound(k) PROVE Sound(KillLeft(k))
  <1>1. /\ Place(k, 0) /\ Place(k, k.pos) /\ Fine(k) /\ (k.len = 0 \/ Settled(k))
        /\ (k.len = 0 => k.pos = 0) /\ Whole(k.buf)
        /\ k \in Line /\ k.pos \in Nat /\ 0 <= k.pos /\ k.buf \in Seq(Byte) /\ Len(k.buf) \in Nat
        /\ k.len <= Len(k.buf)
    BY SoundFields, FineFields DEF Sound
  <1>2. CASE Settled(k)
    BY <1>1, <1>2, CutWhole DEF KillLeft
  <1>3. CASE ~Settled(k)
    <2>1. k.len = 0 /\ k.pos = 0 /\ 1 \in 0..Len(k.buf) /\ 0 \in 0..1
      BY <1>1, <1>3 DEF Settled
    <2>2. Bytes(k.buf, 0, 0) \o Bytes(k.buf, 0, 1) \o Bytes(k.buf, 1, Len(k.buf)) = k.buf
      BY <1>1, <2>1, ThreeParts
    <2>3. 0 + 0 - 0 + 1 = 1 /\ 0 + 1 = 1 /\ 0 - (0 - 0) = 0
      OBVIOUS
    <2>4. KillLeft(k) = At([k EXCEPT !.buf = k.buf, !.len = 0], 0)
      BY <1>3, <2>1, <2>2, <2>3 DEF KillLeft, Cut
    <2>5. KillLeft(k).buf = k.buf /\ KillLeft(k).len = 0 /\ KillLeft(k).pos = 0
      BY <1>1, <2>4 DEF At, Line
    <2>6. Fine(KillLeft(k))
      BY <1>1, KillLeftOK DEF Kept
    <2> QED
      BY <1>1, <2>5, <2>6 DEF Sound, Neat, Place
  <1> QED
    BY <1>2, <1>3

LEMMA SqueezeSound == ASSUME NEW k, Sound(k) PROVE Sound(Squeeze(k))
  <1> DEFINE i == Backwards(k, k.pos, "separator")
             j == Forwards(k, k.pos, "separator")
  <1>1. /\ Place(k, k.pos) /\ (k.len = 0 \/ Settled(k)) /\ k.len \in Nat
    BY SoundFields, FineFields DEF Sound
  <1>2. Place(k, i) /\ Place(k, j)
    BY <1>1, PlaceScans
  <1>3. i \in 0..k.len /\ j \in 0..k.len
    BY <1>2 DEF Place
  <1>4. Squeeze(k) = IF i < j THEN At(Cut(k, i, j), i) ELSE k
    BY DEF Squeeze
  <1> HIDE DEF i, j
  <1>5. i < j => Settled(k) /\ i <= j
    BY <1>1, <1>3
  <1> QED
    BY <1>2, <1>4, <1>5, CutWhole

\* What the killing keys push on the ring.
LEMMA KillsWhole ==
    ASSUME NEW k, Sound(k)
    PROVE  /\ Whole(KillLeftKills(k)) /\ Whole(KillRightKills(k))
           /\ Whole(DeleteWordKills(k)) /\ Whole(RuboutWordKills(k))
  <1>1. /\ Place(k, 0) /\ Place(k, k.pos) /\ Place(k, k.len) /\ k \in Line
        /\ k.pos \in 0..k.len /\ k.pos \in Nat /\ 0 <= k.pos /\ k.pos <= k.len /\ k.len \in Nat
    BY SoundFields, FineFields DEF Sound
  <1>2. Place(k, ForwardWord(k, k.pos)) /\ Place(k, BackwardWord(k, k.pos))
    BY <1>1, PlaceScans
  <1>3. ForwardWord(k, k.pos) \in k.pos..k.len /\ BackwardWord(k, k.pos) \in 0..k.pos
    BY <1>1, WordsOK
  <1>4. k.pos <= ForwardWord(k, k.pos) /\ BackwardWord(k, k.pos) <= k.pos
    BY <1>3
  <1> QED
    BY <1>1, <1>2, <1>4, PlaceParts DEF KillLeftKills, KillRightKills, DeleteWordKills, RuboutWordKills

\* The last yank begins where a rune does, if it still is what was yanked.
LEMMA UnyankSound ==
    ASSUME NEW k, Sound(k), Settled(k), k.pos = k.yj, Whole(Bytes(k.buf, k.yi, k.yj))
    PROVE  Sound(Unyank(k)) /\ Settled(Unyank(k))
  <1> DEFINE i == k.yi
             j == k.yj
             cut == Cut(k, i, j)
  <1>1. /\ Place(k, j) /\ k \in Line /\ k.buf \in Seq(Byte) /\ k.len \in Nat /\ k.pos \in 0..k.len
        /\ k.len <= Len(k.buf) /\ i \in Nat /\ j \in Nat /\ i <= j /\ Len(k.buf) \in Nat /\ k.pos = j
    BY SoundFields, FineFields DEF Sound
  <1>2. Place(k, i)
    <2>1. CASE i = j
      BY <1>1, <2>1
    <2>2. CASE i < j
      <3>1. j \in 0..Len(k.buf) /\ i \in 0..j /\ 1 \in 1..(j - i) /\ j - i > 0 /\ i \in 0..k.len
        BY <1>1, <2>2
      <3>2. Bytes(k.buf, i, j) \in Seq(Byte) /\ Len(Bytes(k.buf, i, j)) = j - i
        BY <1>1, <3>1, BytesOK
      <3>3. Bytes(k.buf, i, j)[1] = k.buf[i + 1]
        BY <1>1, <3>1, BytesAt
      <3>4. Bytes(k.buf, i, j) # <<>>
        BY <3>1, <3>2
      <3>5. Bytes(k.buf, i, j)[1] \notin Continuation
        BY <3>4 DEF Whole
      <3> QED
        BY <3>1, <3>3, <3>5 DEF Place, Begun
    <2> QED
      BY <1>1, <2>1, <2>2
  <1>3. Sound(At(cut, i)) /\ Settled(At(cut, i))
    BY <1>1, <1>2, CutWhole
  <1>4. k.pos - (k.yj - k.yi) = i
    BY <1>1
  <1>5. [cut EXCEPT !.pos = k.pos - (k.yj - k.yi)] = At(cut, i)
    BY <1>4 DEF At
  <1> QED
    BY <1>3, <1>5 DEF Unyank

-----------------------------------------------------------------------------
(* The keys that change the order of the text, or its letters.             *)

\* Two parts change places where runes begin: what is before them stays, and so does
\* their end; what is in the first moves by the length of the second.
LEMMA SwappedWhole ==
    ASSUME NEW s \in Seq(Byte), Whole(s), NEW c \in 0..Len(s), NEW b \in 0..c, NEW a \in 0..b,
           Begun(s, a), Begun(s, b), Begun(s, c)
    PROVE  LET t == Bytes(s, 0, a) \o Bytes(s, b, c) \o Bytes(s, a, b) \o Bytes(s, c, Len(s))
           IN  /\ Whole(t) /\ Begun(t, c)
               /\ \A p \in 0..a : Begun(s, p) => Begun(t, p)
               /\ \A p \in a..b : Begun(s, p) => Begun(t, p + (c - b))
  <1> DEFINE n == Len(s)
             p1 == Bytes(s, 0, a)
             p2 == Bytes(s, b, c)
             p3 == Bytes(s, a, b)
             p4 == Bytes(s, c, n)
             x == p1 \o p2
             y == x \o p3
             t == y \o p4
  <1>1. n \in Nat /\ a \in Nat /\ b \in Nat /\ c \in Nat /\ a <= b /\ b <= c /\ c <= n
    OBVIOUS
  <1>2. Begun(s, 0) /\ Begun(s, n)
    BY WholeBegun
  <1>3. p1 \in Seq(Byte) /\ Len(p1) = a /\ Whole(p1)
    <2>1. a \in 0..Len(s) /\ 0 \in 0..a /\ a - 0 = a
      BY <1>1
    <2> QED
      BY <1>2, <2>1, BytesOK, WholePart
  <1>4. p2 \in Seq(Byte) /\ Len(p2) = c - b /\ Whole(p2)
    BY BytesOK, WholePart
  <1>5. p3 \in Seq(Byte) /\ Len(p3) = b - a /\ Whole(p3)
    <2>1. b \in 0..Len(s)
      BY <1>1
    <2> QED
      BY <2>1, BytesOK, WholePart
  <1>6. p4 \in Seq(Byte) /\ Len(p4) = n - c /\ Whole(p4)
    <2>1. n \in 0..Len(s) /\ c \in 0..n
      BY <1>1
    <2> QED
      BY <1>2, <2>1, BytesOK, WholePart
  <1>7. \A p \in 0..a : Begun(s, p) => Begun(p1, p)
    <2> SUFFICES ASSUME NEW p \in 0..a, Begun(s, p) PROVE Begun(p1, p)
      OBVIOUS
    <2>1. a \in 0..Len(s) /\ 0 \in 0..a /\ p - 0 = p
      BY <1>1
    <2> HIDE DEF p1
    <2>2. Begun(Bytes(s, 0, a), p - 0)
      BY <2>1, BegunPart
    <2> QED
      BY <2>1, <2>2 DEF p1
  <1>8. \A p \in a..b : Begun(s, p) => Begun(p3, p - a)
    <2>1. b \in 0..Len(s)
      BY <1>1
    <2> QED
      BY <2>1, BegunPart
  <1> HIDE DEF p1, p2, p3, p4, n
  <1>9. x \in Seq(Byte) /\ Whole(x) /\ Len(x) = a + (c - b)
    BY <1>3, <1>4, Joined, WholeJoin
  <1>10. \A p \in 0..a : Begun(s, p) => Begun(x, p)
    BY <1>3, <1>4, <1>7, BegunJoin
  <1> HIDE DEF x
  <1>11. y \in Seq(Byte) /\ Whole(y) /\ Len(y) = c
    <2>1. y \in Seq(Byte) /\ Whole(y) /\ Len(y) = Len(x) + Len(p3)
      BY <1>5, <1>9, Joined, WholeJoin
    <2> HIDE DEF y
    <2> QED
      BY <1>1, <1>5, <1>9, <2>1
  <1>12. \A p \in 0..a : Begun(s, p) => Begun(y, p)
    <2>1. \A p \in 0..a : p \in 0..Len(x)
      BY <1>1, <1>9
    <2>2. \A p \in 0..Len(x) : Begun(x, p) => Begun(y, p)
      BY <1>5, <1>9, BegunJoin
    <2> HIDE DEF y
    <2> QED
      BY <1>10, <2>1, <2>2
  <1>13. \A p \in a..b : Begun(s, p) => Begun(y, p + (c - b))
    <2> SUFFICES ASSUME NEW p \in a..b, Begun(s, p) PROVE Begun(y, p + (c - b))
      OBVIOUS
    <2>1. p - a \in 0..Len(p3) /\ Begun(p3, p - a) /\ Len(x) + (p - a) = p + (c - b)
      BY <1>1, <1>5, <1>8, <1>9
    <2>2. Begun(y, Len(x) + (p - a))
      BY <1>5, <1>9, <2>1, BegunJoin
    <2> QED
      BY <2>1, <2>2
  <1> HIDE DEF y
  <1>14. Whole(t) /\ Begun(t, c) /\ \A p \in 0..c : Begun(y, p) => Begun(t, p)
    BY <1>6, <1>11, WholeJoin, BegunJoin
  <1>15. (\A p \in 0..a : p \in 0..c) /\ (\A p \in a..b : p + (c - b) \in 0..c)
    BY <1>1
  <1>16. t = Bytes(s, 0, a) \o Bytes(s, b, c) \o Bytes(s, a, b) \o Bytes(s, c, Len(s))
    BY DEF x, y, p1, p2, p3, p4, n
  <1> HIDE DEF t
  <1>17. /\ Whole(t) /\ Begun(t, c)
         /\ \A p \in 0..a : Begun(s, p) => Begun(t, p)
         /\ \A p \in a..b : Begun(s, p) => Begun(t, p + (c - b))
    BY <1>12, <1>13, <1>14, <1>15
  <1> QED
    BY <1>16, <1>17

LEMMA AroundWhole ==
    ASSUME NEW s \in Seq(Byte), Whole(s), NEW d \in 0..Len(s), NEW c \in 0..d, NEW b \in 0..c,
           NEW a \in 0..b, Begun(s, a), Begun(s, b), Begun(s, c), Begun(s, d)
    PROVE  Whole(Around(s, a, b, c, d)) /\ Begun(Around(s, a, b, c, d), d)
  <1> DEFINE n == Len(s)
             p1 == Bytes(s, 0, a)
             p2 == Bytes(s, c, d)
             p3 == Bytes(s, b, c)
             p4 == Bytes(s, a, b)
             p5 == Bytes(s, d, n)
             x == p1 \o p2 \o p3
             y == x \o p4
             t == y \o p5
  <1>1. /\ n \in Nat /\ a \in Nat /\ b \in Nat /\ c \in Nat /\ d \in Nat
        /\ a <= b /\ b <= c /\ c <= d /\ d <= n
    OBVIOUS
  <1>2. Begun(s, 0) /\ Begun(s, n)
    BY WholeBegun
  <1>3. p1 \in Seq(Byte) /\ Len(p1) = a /\ Whole(p1)
    <2>1. a \in 0..Len(s) /\ 0 \in 0..a /\ a - 0 = a
      BY <1>1
    <2> QED
      BY <1>2, <2>1, BytesOK, WholePart
  <1>4. p2 \in Seq(Byte) /\ Len(p2) = d - c /\ Whole(p2)
    BY BytesOK, WholePart
  <1>5. p3 \in Seq(Byte) /\ Len(p3) = c - b /\ Whole(p3)
    <2>1. c \in 0..Len(s)
      BY <1>1
    <2> QED
      BY <2>1, BytesOK, WholePart
  <1>6. p4 \in Seq(Byte) /\ Len(p4) = b - a /\ Whole(p4)
    <2>1. b \in 0..Len(s)
      BY <1>1
    <2> QED
      BY <2>1, BytesOK, WholePart
  <1>7. p5 \in Seq(Byte) /\ Len(p5) = n - d /\ Whole(p5)
    <2>1. n \in 0..Len(s) /\ d \in 0..n
      BY <1>1
    <2> QED
      BY <1>2, <2>1, BytesOK, WholePart
  <1> HIDE DEF p1, p2, p3, p4, p5, n
  <1>8. x \in Seq(Byte) /\ Whole(x) /\ Len(x) = Len(p1) + Len(p2) + Len(p3)
    BY <1>3, <1>4, <1>5, Joined3, WholeBetween
  <1> HIDE DEF x
  <1>9. y \in Seq(Byte) /\ Whole(y) /\ Len(y) = Len(x) + Len(p4)
    BY <1>6, <1>8, Joined, WholeJoin
  <1> HIDE DEF y
  <1>10. Len(y) = d
    BY <1>1, <1>3, <1>4, <1>5, <1>6, <1>8, <1>9
  <1>11. Whole(t) /\ Begun(t, d)
    BY <1>7, <1>9, <1>10, WholeJoin, BegunJoin
  <1>12. t = Around(s, a, b, c, d)
    BY DEF Around, x, y, p1, p2, p3, p4, p5, n
  <1> QED
    BY <1>11, <1>12

\* A line with its text in another order.
LEMMA ReorderedSound ==
    ASSUME NEW k, Sound(k), NEW j, Kept(k, j), NEW t \in Seq(Byte), NEW p,
           j = [k EXCEPT !.pos = p, !.buf = t], Settled(k), Len(t) = Len(k.buf),
           Whole(t), Begun(t, p)
    PROVE  Sound(j)
  <1>1. k \in Line /\ Fine(j)
    BY FineFields DEF Sound, Kept
  <1>2. j.buf = t /\ j.pos = p /\ j.len = k.len
    BY <1>1 DEF Line
  <1> QED
    BY <1>1, <1>2 DEF Sound, Neat, Settled

LEMMA TransposeSound ==
    ASSUME NEW k, Sound(k), k.pos < k.len \/ k.len = 0 PROVE Sound(Transpose(k))
  <1> DEFINE b == IF k.pos = k.len THEN k.pos - 1 ELSE k.pos
             a == Backward(k, b)
             c == Forward(k, b)
             s == k.buf
             text == Bytes(s, 0, a) \o Bytes(s, b, c) \o Bytes(s, a, b) \o Bytes(s, c, Len(s))
             new == [k EXCEPT !.pos = c, !.buf = text]
  <1>1. /\ k \in Line /\ k.pos \in Nat /\ k.pos \in 0..k.len /\ k.len \in Nat /\ Fine(k)
        /\ k.len <= Len(s) /\ Len(s) \in Nat /\ s \in Seq(Byte) /\ Whole(s)
        /\ Place(k, k.pos) /\ (k.len = 0 \/ Settled(k))
    BY FineFields, SoundFields DEF Sound
  <1>2. Transpose(k) = IF k.len = 0 \/ ~(a < b /\ b < c) THEN k ELSE new
    BY DEF Transpose
  <1>3. CASE k.len = 0
    BY <1>2, <1>3
  <1>4. CASE k.len # 0 /\ ~(a < b /\ b < c)
    BY <1>2, <1>4
  <1>5. CASE k.len # 0 /\ a < b /\ b < c
    <2>1. b = k.pos
      BY <1>1, <1>5
    <2>2. Place(k, a) /\ Place(k, b) /\ Place(k, c)
      <3> HIDE DEF b
      <3> QED
        BY <1>1, <2>1, PlaceSteps
    <2>3. b \in Nat /\ Settled(k)
      BY <1>1, <1>5, <2>1
    <2> HIDE DEF b
    <2>4. a \in 0..k.len /\ b \in 0..k.len /\ c \in 0..k.len /\ Begun(s, a) /\ Begun(s, b) /\ Begun(s, c)
      BY <2>2 DEF Place
    <2>5. Transpose(k) = new
      BY <1>2, <1>5
    <2>6. Kept(k, new)
      BY <1>1, <2>5, TransposeOK
    <2> HIDE DEF a, c
    <2>7. c \in 0..Len(s) /\ b \in 0..c /\ a \in 0..b
      BY <1>1, <1>5, <2>4
    <2>8. text \in Seq(Byte) /\ Len(text) = Len(s)
      <3> HIDE DEF s
      <3> QED
        BY <1>1, <2>7, Swapped
    <2>9. Whole(text) /\ Begun(text, c)
      <3> HIDE DEF s
      <3> QED
        BY <1>1, <2>4, <2>7, SwappedWhole
    <2>10. new = [k EXCEPT !.pos = c, !.buf = text]
      OBVIOUS
    <2> HIDE DEF new, text
    <2>11. Sound(new)
      BY <2>3, <2>6, <2>8, <2>9, <2>10, ReorderedSound
    <2> QED
      BY <2>5, <2>11
  <1> QED
    BY <1>3, <1>4, <1>5

\* Where no rune is longer than a byte, one begins everywhere.
LEMMA ShortRunes ==
    ASSUME NEW k, Sound(k), \A p \in 1..k.len : k.buf[p] \notin Leading, NEW v \in 0..k.len
    PROVE  Place(k, v)
  <1> DEFINE N == {n \in Nat : n <= k.len => Place(k, n)}
  <1>1. k.len \in Nat /\ Place(k, 0) /\ k \in Line
    BY FineFields, SoundFields DEF Sound
  <1>2. 0 \in N
    BY <1>1
  <1>3. ASSUME NEW n \in Nat, n \in N PROVE n + 1 \in N
    <2> SUFFICES ASSUME n + 1 <= k.len PROVE Place(k, n + 1)
      OBVIOUS
    <2>1. Place(k, n) /\ n \in 0..k.len /\ n < k.len /\ n + 1 \in 1..k.len
      BY <1>1, <1>3
    <2>2. RuneLength(k, n) = 1
      BY <1>1, <2>1, RuneLengthOK
    <2>3. Place(k, Forward(k, n))
      BY <2>1, PlaceSteps
    <2> QED
      BY <2>2, <2>3 DEF Forward
  <1>4. \A n \in Nat : n \in N
    <2> HIDE DEF N
    <2> QED
      BY <1>2, <1>3, Induction
  <1> QED
    BY <1>1, <1>4

LEMMA TransposeWordsSound ==
    ASSUME NEW k, Sound(k), \A p \in 1..k.len : k.buf[p] \notin Leading
    PROVE  Sound(TransposeWords(k))
  <1> DEFINE i == IF k.pos = k.len THEN BackwardWord(k, k.pos) ELSE k.pos
             pi == EscapeWord(k, i)
             xj == Backwards(k, pi, "separator")
             xi == Backwards(k, xj, "letter")
             yi == Forwards(k, pi, "separator")
             yj == Forwards(k, yi, "letter")
             s == k.buf
             text == Around(s, xi, xj, yi, yj)
             new == [k EXCEPT !.pos = yj, !.buf = text]
  <1>1. /\ k \in Line /\ k.pos \in Nat /\ k.pos \in 0..k.len /\ k.len \in Nat /\ Fine(k)
        /\ k.len <= Len(s) /\ Len(s) \in Nat /\ s \in Seq(Byte) /\ Whole(s)
        /\ Place(k, k.pos) /\ (k.len = 0 \/ Settled(k))
    BY FineFields, SoundFields DEF Sound
  <1>2. TransposeWords(k) = IF ~(xi < xj /\ xj < yi /\ yi < yj) THEN k ELSE new
    BY DEF TransposeWords, Around
  <1>3. i \in 0..k.len
    <2>1. BackwardWord(k, k.pos) \in 0..k.pos
      BY <1>1, WordsOK
    <2> QED
      BY <1>1, <2>1
  <1> HIDE DEF i
  <1>4. pi \in i..k.len
    BY <1>1, <1>3, EscapeWordOK
  <1>5. pi \in 0..k.len
    BY <1>1, <1>3, <1>4
  <1>6. Place(k, pi)
    BY <1>5, ShortRunes
  <1> HIDE DEF pi
  <1>7. Place(k, xj) /\ Place(k, yi)
    BY <1>6, PlaceScans
  <1> HIDE DEF xj, yi
  <1>8. Place(k, xi) /\ Place(k, yj)
    BY <1>7, PlaceScans
  <1> HIDE DEF xi, yj
  <1>9. CASE ~(xi < xj /\ xj < yi /\ yi < yj)
    BY <1>2, <1>9
  <1>10. CASE xi < xj /\ xj < yi /\ yi < yj
    <2>1. /\ xi \in 0..k.len /\ xj \in 0..k.len /\ yi \in 0..k.len /\ yj \in 0..k.len
          /\ Begun(s, xi) /\ Begun(s, xj) /\ Begun(s, yi) /\ Begun(s, yj)
      BY <1>7, <1>8 DEF Place
    <2>2. yj \in 0..Len(s) /\ yi \in 0..yj /\ xj \in 0..yi /\ xi \in 0..xj /\ k.len # 0
      BY <1>1, <1>10, <2>1
    <2>3. TransposeWords(k) = new
      BY <1>2, <1>10
    <2>4. Kept(k, new)
      BY <1>1, <2>3, TransposeWordsOK
    <2>5. text \in Seq(Byte) /\ Len(text) = Len(s)
      <3> HIDE DEF s
      <3> QED
        BY <1>1, <2>2, SwappedAround
    <2>6. Whole(text) /\ Begun(text, yj)
      <3> HIDE DEF s
      <3> QED
        BY <1>1, <2>1, <2>2, AroundWhole
    <2>7. new = [k EXCEPT !.pos = yj, !.buf = text]
      OBVIOUS
    <2> HIDE DEF new, text
    <2>8. Sound(new)
      BY <1>1, <2>2, <2>4, <2>5, <2>6, <2>7, ReorderedSound
    <2> QED
      BY <2>3, <2>8
  <1> QED
    BY <1>9, <1>10

LEMMA BarfSound == ASSUME NEW k, Sound(k) PROVE Sound(Barf(k))
  <1> DEFINE end == ScanRight(k, k.pos, "close")
             before == Backwards(k, end, "xeparator")
             item == ScanLeft(k, before)
             to == Backwards(k, item, "xeparator")
             n == RuneLength(k, end)
             c == end + n
             s == k.buf
             p == IF k.pos > to THEN k.pos + n ELSE k.pos
             text == Bytes(s, 0, to) \o Bytes(s, end, c) \o Bytes(s, to, end) \o Bytes(s, c, Len(s))
             new == [k EXCEPT !.buf = text, !.pos = p]
  <1>1. /\ k \in Line /\ k.pos \in Nat /\ k.pos \in 0..k.len /\ k.len \in Nat /\ Fine(k)
        /\ k.len <= Len(s) /\ Len(s) \in Nat /\ s \in Seq(Byte) /\ Whole(s)
        /\ Place(k, k.pos) /\ (k.len = 0 \/ Settled(k))
    BY FineFields, SoundFields DEF Sound
  <1>2. Barf(k) = IF end = k.len \/ item = 0 THEN k ELSE new
    BY DEF Barf
  <1>3. Place(k, end) /\ end \in k.pos..k.len
    BY <1>1, PlaceScans, ScanRightOK
  <1> HIDE DEF end
  <1>4. Place(k, before) /\ before \in 0..end
    <2>1. end \in Nat
      BY <1>1, <1>3
    <2> QED
      BY <1>1, <1>3, <2>1, PlaceScans, BackwardsOK
  <1> HIDE DEF before
  <1>5. Place(k, item) /\ item \in 0..before
    <2>1. before \in 0..k.len
      BY <1>1, <1>3, <1>4
    <2> QED
      BY <1>1, <1>4, <2>1, PlaceScans, ScanLeftOK
  <1> HIDE DEF item
  <1>6. Place(k, to) /\ to \in 0..item
    <2>1. item \in Nat
      BY <1>4, <1>5
    <2> QED
      BY <1>1, <1>5, <2>1, PlaceScans, BackwardsOK
  <1> HIDE DEF to
  <1>7. CASE end = k.len \/ item = 0
    BY <1>2, <1>7
  <1>8. CASE ~(end = k.len \/ item = 0)
    <2>1. end \in 0..k.len /\ end < k.len /\ to \in Nat /\ to <= end /\ k.pos <= end /\ end \in Nat
      BY <1>1, <1>3, <1>4, <1>5, <1>6, <1>8
    <2>2. Settled(k) /\ n \in 1..(k.len - end)
      BY <1>1, <2>1, RuneLengthOK
    <2>3. Place(k, c)
      BY <1>3, PlaceSteps DEF Forward
    <2>4. c = end + n
      OBVIOUS
    <2> HIDE DEF n, c
    <2>5. c \in 0..Len(s) /\ end \in 0..c /\ to \in 0..end /\ c - end = n
      BY <1>1, <2>1, <2>2, <2>4
    <2>6. Begun(s, to) /\ Begun(s, end) /\ Begun(s, c) /\ Begun(s, k.pos)
      BY <1>1, <1>3, <1>6, <2>3 DEF Place
    <2>7. text \in Seq(Byte) /\ Len(text) = Len(s)
      <3> HIDE DEF s
      <3> QED
        BY <1>1, <2>5, Swapped
    <2>8. /\ Whole(text)
          /\ \A q \in 0..to : Begun(s, q) => Begun(text, q)
          /\ \A q \in to..end : Begun(s, q) => Begun(text, q + (c - end))
      <3> HIDE DEF s
      <3> QED
        BY <1>1, <2>5, <2>6, SwappedWhole
    <2> HIDE DEF text
    <2>9. Begun(text, p)
      <3>1. CASE k.pos > to
        <4>1. k.pos \in to..end /\ p = k.pos + (c - end)
          BY <1>1, <2>1, <2>5, <3>1
        <4> QED
          BY <2>6, <2>8, <4>1
      <3>2. CASE ~(k.pos > to)
        <4>1. k.pos \in 0..to /\ p = k.pos
          BY <1>1, <2>1, <3>2
        <4> QED
          BY <2>6, <2>8, <4>1
      <3> QED
        BY <3>1, <3>2
    <2>10. Barf(k) = new
      BY <1>2, <1>8
    <2>11. Kept(k, new)
      BY <1>1, <2>10, BarfOK
    <2>12. new = [k EXCEPT !.pos = p, !.buf = text]
      BY <1>1 DEF Line
    <2> HIDE DEF new, p
    <2>13. Sound(new)
      BY <2>2, <2>7, <2>8, <2>9, <2>11, <2>12, ReorderedSound
    <2> QED
      BY <2>10, <2>13
  <1> QED
    BY <1>7, <1>8

LEMMA SlurpSound == ASSUME NEW k, Sound(k) PROVE Sound(Slurp(k))
  <1> DEFINE point == ScanRight(k, k.pos, "close")
             start == Forward(k, point)
             item == Forwards(k, start, "xeparator")
             to == ScanRight(k, item, "separator")
             s == k.buf
             text == Bytes(s, 0, point) \o Bytes(s, start, to) \o Bytes(s, point, start)
                     \o Bytes(s, to, Len(s))
             new == [k EXCEPT !.buf = text]
  <1>1. /\ k \in Line /\ k.pos \in Nat /\ k.pos \in 0..k.len /\ k.len \in Nat /\ Fine(k)
        /\ k.len <= Len(s) /\ Len(s) \in Nat /\ s \in Seq(Byte) /\ Whole(s)
        /\ Place(k, k.pos) /\ (k.len = 0 \/ Settled(k))
    BY FineFields, SoundFields DEF Sound
  <1>2. Slurp(k) = IF point = k.len THEN k ELSE new
    BY DEF Slurp
  <1>3. Place(k, point) /\ point \in k.pos..k.len
    BY <1>1, PlaceScans, ScanRightOK
  <1> HIDE DEF point
  <1>4. point \in 0..k.len /\ point \in Nat /\ k.pos <= point
    BY <1>1, <1>3
  <1>5. Place(k, start) /\ start \in point..k.len
    BY <1>1, <1>3, <1>4, PlaceSteps, ForwardOK
  <1> HIDE DEF start
  <1>6. start \in 0..k.len /\ start \in Nat
    BY <1>1, <1>4, <1>5
  <1>7. Place(k, item) /\ item \in start..k.len
    BY <1>1, <1>5, <1>6, PlaceScans, ForwardsOK
  <1> HIDE DEF item
  <1>8. item \in 0..k.len
    BY <1>1, <1>6, <1>7
  <1>9. Place(k, to) /\ to \in item..k.len
    BY <1>1, <1>7, <1>8, PlaceScans, ScanRightOK
  <1> HIDE DEF to
  <1>10. to \in 0..Len(s) /\ start \in 0..to /\ point \in 0..start
    BY <1>1, <1>4, <1>5, <1>6, <1>7, <1>8, <1>9
  <1>11. CASE point = k.len
    BY <1>2, <1>11
  <1>12. CASE point # k.len
    <2>1. Settled(k)
      BY <1>1, <1>4, <1>12
    <2>2. text \in Seq(Byte) /\ Len(text) = Len(s)
      <3> HIDE DEF s
      <3> QED
        BY <1>1, <1>10, Swapped
    <2>3. Begun(s, point) /\ Begun(s, start) /\ Begun(s, to) /\ Begun(s, k.pos)
      BY <1>1, <1>3, <1>5, <1>9 DEF Place
    <2>4. Whole(text) /\ \A q \in 0..point : Begun(s, q) => Begun(text, q)
      <3> HIDE DEF s
      <3> QED
        BY <1>1, <1>10, <2>3, SwappedWhole
    <2>5. Begun(text, k.pos)
      <3>1. k.pos \in 0..point
        BY <1>1, <1>4
      <3> QED
        BY <2>3, <2>4, <3>1
    <2>6. Slurp(k) = new
      BY <1>2, <1>12
    <2>7. Kept(k, new)
      BY <1>1, <2>6, SlurpOK
    <2> HIDE DEF text
    <2>8. new = [k EXCEPT !.pos = k.pos, !.buf = text]
      BY <1>1 DEF Line
    <2> HIDE DEF new
    <2>9. Sound(new)
      BY <2>1, <2>2, <2>4, <2>5, <2>7, <2>8, ReorderedSound
    <2> QED
      BY <2>6, <2>9
  <1> QED
    BY <1>11, <1>12

\* A word in other letters is of whole runes if these are.
LEMMA XlatWordSound ==
    ASSUME NEW k, Sound(k), NEW first, NEW rest,
           \A r \in DOMAIN first : first[r] \in Seq(Byte) /\ Whole(first[r]),
           \A r \in DOMAIN rest : rest[r] \in Seq(Byte) /\ Whole(rest[r])
    PROVE  Sound(XlatWord(k, first, rest))
  <1> DEFINE new == XlatWord(k, first, rest)
             G == {q \in 0..k.len : Place(k, q)}
             W == {w \in Seq(Byte) : Whole(w)}
  <1>1. /\ k \in Line /\ k.len \in Nat /\ Fine(k) /\ Place(k, k.pos) /\ Place(k, 0) /\ Place(k, k.len)
    BY FineFields, SoundFields DEF Sound
  <1>2. Closed(k, G) /\ k.pos \in G
    <2>1. \A q \in 0..k.len : q \in G => Place(k, Forward(k, q)) /\ Place(k, Backward(k, q))
      BY PlaceSteps
    <2> QED
      BY <1>1, <2>1 DEF Closed, Place
  <1>3. Spelling(k, G, W, first, rest)
    <2>1. <<>> \in W
      BY DEF Whole
    <2>2. \A u, v \in W : u \o v \in W
      <3> SUFFICES ASSUME NEW u \in W, NEW v \in W PROVE u \o v \in W
        OBVIOUS
      <3>1. u \o v \in Seq(Byte)
        BY Joined
      <3>2. Whole(u \o v)
        BY WholeJoin
      <3> QED
        BY <3>1, <3>2
    <2>3. ASSUME NEW q \in 0..k.len, q \in G, q < k.len PROVE Rune(k, q) \in W
      <3>1. Place(k, q) /\ Place(k, Forward(k, q)) /\ Forward(k, q) \in q..k.len
        BY <1>1, <2>3, PlaceSteps, ForwardOK
      <3>2. q <= Forward(k, q)
        BY <3>1
      <3> QED
        BY <3>1, <3>2, PlaceParts DEF Rune, Forward
    <2> QED
      BY <2>1, <2>2, <2>3 DEF Spelling
  <1>4. Kept(k, new)
    BY <1>1, XlatWordOK
  <1>5. CASE new = k
    BY <1>5
  <1>6. CASE new # k
    <2>1. PICK a \in 0..k.len, b \in 0..k.len : \E w \in Seq(Byte) :
                     /\ Reached(k, k.pos, a) /\ Reached(k, k.pos, b)
                     /\ Spelled(k, first, rest, w)
                     /\ new.buf = Bytes(k.buf, 0, a) \o w \o Bytes(k.buf, b, k.len)
                     /\ new.pos = a + Len(w) /\ new.len = Len(new.buf)
      BY <1>1, <1>6, XlatWordOK
    <2>2. PICK w \in Seq(Byte) :
                     /\ Reached(k, k.pos, a) /\ Reached(k, k.pos, b)
                     /\ Spelled(k, first, rest, w)
                     /\ new.buf = Bytes(k.buf, 0, a) \o w \o Bytes(k.buf, b, k.len)
                     /\ new.pos = a + Len(w) /\ new.len = Len(new.buf)
      BY <2>1
    <2>3. Whole(w)
      <3>1. w \in W
        <4> HIDE DEF W, G
        <4> QED
          BY <1>2, <1>3, <2>2 DEF Spelled
      <3> QED
        BY <3>1
    <2>4. Place(k, a) /\ Place(k, b)
      BY <1>1, <2>2, PlaceReached
    <2>5. 0 <= a /\ b <= k.len /\ a - 0 = a
      BY <1>1
    <2>6. /\ Bytes(k.buf, 0, a) \in Seq(Byte) /\ Whole(Bytes(k.buf, 0, a)) /\ Len(Bytes(k.buf, 0, a)) = a
          /\ Bytes(k.buf, b, k.len) \in Seq(Byte) /\ Whole(Bytes(k.buf, b, k.len))
      BY <1>1, <2>4, <2>5, PlaceParts
    <2>7. Whole(new.buf) /\ Begun(new.buf, new.pos)
      BY <2>2, <2>3, <2>6, WholeBetween
    <2> QED
      BY <1>4, <2>2, <2>7 DEF Sound, Neat, Settled, Kept
  <1> QED
    BY <1>5, <1>6

LEMMA OtherCaseSound ==
    ASSUME NEW k, Sound(k), TextIsWhole
    PROVE  Sound(UppercaseWord(k)) /\ Sound(LowercaseWord(k)) /\ Sound(CapitalizeWord(k))
  <1>1. /\ \A r \in DOMAIN Upper : Upper[r] \in Seq(Byte) /\ Whole(Upper[r])
        /\ \A r \in DOMAIN Lower : Lower[r] \in Seq(Byte) /\ Whole(Lower[r])
    BY CaseAssumption DEF TextIsWhole
  <1>2. \A r \in DOMAIN <<>> : (<<>>)[r] \in Seq(Byte) /\ Whole((<<>>)[r])
    OBVIOUS
  <1>3. Sound(UppercaseWord(k)) /\ Sound(LowercaseWord(k))
    BY <1>1, XlatWordSound DEF UppercaseWord, LowercaseWord
  <1>4. Sound(CapitalizeWord(k))
    BY <1>1, <1>2, XlatWordSound DEF CapitalizeWord
  <1> QED
    BY <1>3, <1>4

-----------------------------------------------------------------------------
(* Runes, one step after another.                                          *)

WholeAll(h) == \A q \in 1..Len(h) : Whole(h[q])
WholeRing(r) == \A j \in 0..(Ring - 1) : Whole(r.p[j])

\* What is looked for begins with a rune, and Ctrl-G puts the cursor where one begins.
Sought == search.ab # <<>> => search.ab[1] \notin Continuation
Origin == pc = "search" => Begun(Stored(history, l)[Slot(history, search.index)], search.pos)

\* Text goes from the line to the history, the ring and the command, and back from the
\* history and the ring: all of it is made of whole runes.
Runed == Neat(l) /\ Whole(full) /\ WholeAll(history) /\ WholeRing(ring) /\ Sought /\ Origin

LEMMA EmptyWhole == Whole(<<>>) /\ <<>> \in Seq(Byte)
  <1>1. Len(<<>>) = 0
    OBVIOUS
  <1> QED
    BY <1>1 DEF Whole

LEMMA NewLineNeat == Neat(NewLine(FirstBuflen))
  <1> DEFINE k == NewLine(FirstBuflen)
  <1>1. k.buf = <<>> /\ k.len = 0 /\ k.pos = 0 /\ Len(<<>>) = 0
    BY DEF NewLine
  <1> HIDE DEF k
  <1>2. Neat(k)
    BY <1>1, EmptyWhole DEF Neat, Begun
  <1> QED
    BY <1>2 DEF k

LEMMA AddedWhole ==
    ASSUME NEW h \in Histories, WholeAll(h), NEW line \in Seq(Byte), Whole(line)
    PROVE  WholeAll(Added(h, line))
  <1>1. h \in Seq(Seq(Byte)) /\ Len(h) \in Nat
    BY DEF Histories
  <1>2. CASE h # <<>> /\ h[Len(h)] = line
    BY <1>2 DEF Added
  <1>3. CASE ~(h # <<>> /\ h[Len(h)] = line) /\ Len(h) = MaxHistory
    <2>1. Added(h, line) = Append(Tail(h), line) /\ Len(h) >= 1
      BY <1>1, <1>3, SizeAssumption DEF Added
    <2> DEFINE t == Tail(h)
    <2>2. t \in Seq(Seq(Byte)) /\ Len(t) = Len(h) - 1 /\ \A q \in 1..Len(t) : t[q] = h[q + 1]
      BY <1>1, <2>1
    <2> HIDE DEF t
    <2>3. ASSUME NEW q \in 1..Len(t) PROVE Whole(t[q])
      <3>1. Len(t) = Len(h) - 1 /\ Len(h) \in Nat
        BY <1>1, <2>2
      <3>2. q + 1 \in 1..Len(h)
        BY <3>1
      <3> QED
        BY <2>2, <3>2 DEF WholeAll
    <2>4. /\ Len(Append(t, line)) = Len(t) + 1 /\ Append(t, line)[Len(t) + 1] = line
          /\ \A q \in 1..Len(t) : Append(t, line)[q] = t[q]
      BY <2>2
    <2>5. WholeAll(Append(t, line))
      BY <1>1, <2>2, <2>3, <2>4 DEF WholeAll
    <2> QED
      BY <2>1, <2>5 DEF t
  <1>4. CASE ~(h # <<>> /\ h[Len(h)] = line) /\ Len(h) # MaxHistory
    <2>1. Added(h, line) = Append(h, line)
      BY <1>4 DEF Added
    <2>2. /\ Len(Append(h, line)) = Len(h) + 1 /\ Append(h, line)[Len(h) + 1] = line
          /\ \A q \in 1..Len(h) : Append(h, line)[q] = h[q]
      BY <1>1
    <2>3. WholeAll(Append(h, line))
      BY <1>1, <2>2 DEF WholeAll
    <2> QED
      BY <2>1, <2>3
  <1> QED
    BY <1>2, <1>3, <1>4

LEMMA PoppedWhole ==
    ASSUME NEW h \in Histories, WholeAll(h) PROVE WholeAll(Popped(h))
  <1>1. h \in Seq(Seq(Byte)) /\ Len(h) \in Nat
    BY DEF Histories
  <1>2. CASE h = <<>>
    BY <1>2 DEF Popped
  <1>3. CASE h # <<>>
    <2>1. Len(h) >= 1 /\ Popped(h) = SubSeq(h, 1, Len(h) - 1)
      BY <1>1, <1>3 DEF Popped
    <2>2. Len(Popped(h)) = Len(h) - 1
      BY <1>3, PoppedOK
    <2>3. \A q \in 1..(Len(h) - 1) : SubSeq(h, 1, Len(h) - 1)[q] = h[q]
      BY <1>1, <2>1
    <2> QED
      BY <1>1, <2>1, <2>2, <2>3 DEF WholeAll
  <1> QED
    BY <1>2, <1>3

LEMMA StoredWhole ==
    ASSUME NEW h \in Histories, WholeAll(h), NEW k, Sound(k), k.hindex < Len(h)
    PROVE  WholeAll(Stored(h, k))
  <1>1. Fine(k) /\ Whole(k.buf)
    BY DEF Sound, Neat
  <1>2. /\ Len(Stored(h, k)) = Len(h) /\ Stored(h, k)[Slot(h, k.hindex)] = k.buf
        /\ \A q \in 1..Len(h) : q # Slot(h, k.hindex) => Stored(h, k)[q] = h[q]
    BY <1>1, StoredOK
  <1> QED
    BY <1>1, <1>2 DEF WholeAll

\* The line is the entry's, and the cursor where a rune of it begins.
LEMMA EnteredSound ==
    ASSUME NEW h \in Histories, WholeAll(h), NEW k, Sound(k), k.hindex < Len(h),
           NEW i \in 0..(Len(h) - 1), NEW p \in 0..Len(Stored(h, k)[Slot(h, i)]),
           Begun(Stored(h, k)[Slot(h, i)], p)
    PROVE  Neat([Entered(h, k, i) EXCEPT !.pos = p]) /\ Neat(Entered(h, k, i))
  <1> DEFINE e == Entered(h, k, i)
             text == Stored(h, k)[Slot(h, i)]
             d == [e EXCEPT !.pos = p]
  <1>1. Fine(k)
    BY DEF Sound
  <1>2. /\ e.buf = text /\ e.len = Len(text) /\ e \in Line /\ Fine(e)
        /\ text \in Seq(Byte)
    BY <1>1, EnteredAt, EnteredOK
  <1>3. e.pos = Len(text)
    BY <1>1, FineFields DEF Entered, Line
  <1>4. Whole(text)
    <2>1. Slot(h, i) \in 1..Len(h)
      BY DEF Slot, Histories
    <2>2. Len(Stored(h, k)) = Len(h)
      BY <1>1, StoredOK
    <2> QED
      BY <2>1, <2>2, StoredWhole DEF WholeAll
  <1>5. Begun(text, p) /\ Begun(text, Len(text))
    BY <1>2, <1>4, WholeBegun
  <1> HIDE DEF e, text
  <1>6. d.buf = text /\ d.len = Len(text) /\ d.pos = p
    BY <1>2 DEF Line
  <1> HIDE DEF d
  <1>7. Neat(d) /\ Neat(e)
    BY <1>2, <1>3, <1>4, <1>5, <1>6 DEF Neat, Settled
  <1> QED
    BY <1>7 DEF d, e

LEMMA PushedWhole ==
    ASSUME NEW r \in Rings, WholeRing(r), NEW text \in Seq(Byte), Whole(text)
    PROVE  WholeRing(Pushed(r, text))
  <1> DEFINE i == (r.i + 1) % Ring
  <1>1. r.p \in [0..(Ring - 1) -> Seq(Byte)]
    BY DEF Rings
  <1>2. Pushed(r, text) = IF text = <<>> THEN r ELSE [i |-> i, p |-> [r.p EXCEPT ![i] = text]]
    BY DEF Pushed
  <1> HIDE DEF i
  <1> QED
    BY <1>1, <1>2 DEF WholeRing

LEMMA RotatedWhole ==
    ASSUME NEW r \in Rings, WholeRing(r)
    PROVE  WholeRing(Rotated(r)) /\ Rotated(r).p[Rotated(r).i] \in Seq(Byte)
           /\ Whole(Rotated(r).p[Rotated(r).i])
  <1>1. Rotated(r) \in Rings
    BY RotatedOK
  <1>2. Rotated(r).p = r.p
    <2> DEFINE x == (r.i - (CHOOSE n \in {m \in 1..Ring : r.p[(r.i - m) % Ring] # <<>>} :
                         \A k \in {m \in 1..Ring : r.p[(r.i - m) % Ring] # <<>>} : n <= k)) % Ring
    <2>1. Rotated(r) = r \/ Rotated(r) = [r EXCEPT !.i = x]
      BY DEF Rotated
    <2> HIDE DEF x
    <2> QED
      BY <2>1 DEF Rings
  <1> QED
    BY <1>1, <1>2 DEF WholeRing, Rings

LEMMA FinishedWhole ==
    ASSUME Inv, Runed PROVE Whole(Finished)
  <1>1. Sound(l) /\ full \in Seq(Byte) /\ Whole(full)
    BY DEF Inv, Sorts, Sound, Runed
  <1>2. Place(l, 0) /\ Place(l, l.len) /\ 0 <= l.len
    BY <1>1, SoundFields, FineFields DEF Sound
  <1>3. Bytes(l.buf, 0, l.len) \in Seq(Byte) /\ Whole(Bytes(l.buf, 0, l.len))
    BY <1>1, <1>2, PlaceParts
  <1> QED
    BY <1>1, <1>3, WholeJoin DEF Finished

\* What a key of the editor finds.
LEMMA RunedLine ==
    ASSUME Inv, Runed
    PROVE  /\ Sound(l) /\ Fine(l) /\ full \in Seq(Byte) /\ Whole(full) /\ ring \in Rings
           /\ WholeRing(ring) /\ history \in Histories /\ WholeAll(history)
  BY DEF Inv, Sorts, Sound, Runed

LEMMA LineRuned ==
    ASSUME Inv, Runed, pc = "edit", Neat(l'), Whole(full'), WholeRing(ring'),
           UNCHANGED <<pc, history, search, ghosts>>
    PROVE  Runed'
  <1>1. pc' = "edit" /\ history' = history /\ search' = search
    OBVIOUS
  <1>2. WholeAll(history)' /\ Sought'
    BY <1>1 DEF Runed, Sought
  <1>3. Origin'
    BY <1>1 DEF Origin
  <1>4. WholeRing(ring)' /\ Neat(l)'
    BY DEF WholeRing, Neat
  <1> QED
    BY <1>2, <1>3, <1>4 DEF Runed

LEMMA BeginRuned ==
    ASSUME Inv, Runed, Begin PROVE Runed'
  <1>1. /\ pc' = "edit" /\ l' = NewLine(FirstBuflen) /\ full' = <<>>
        /\ history' = Added(history, <<>>) /\ ring' = ring /\ search' = search
    BY DEF Begin
  <1>2. Neat(l') /\ Whole(full')
    BY <1>1, NewLineNeat, EmptyWhole
  <1>3. WholeAll(history')
    BY <1>1, RunedLine, EmptyWhole, AddedWhole
  <1>4. WholeRing(ring') /\ Sought' /\ Origin'
    BY <1>1 DEF Runed, Sought, Origin
  <1> QED
    BY <1>2, <1>3, <1>4 DEF Runed

\* A command that ends.
LEMMA EndRuned ==
    ASSUME Inv, Runed, pc' \in {"prompt", "over"}, Freed, WholeAll(history'),
           search' \in {search, NoSearch}, ring' = ring
    PROVE  Runed'
  <1>1. Neat(l') /\ Whole(full')
    BY NewLineNeat, EmptyWhole DEF Freed
  <1>2. Sought'
    BY DEF Runed, Sought, NoSearch
  <1>3. Origin'
    BY DEF Origin
  <1> QED
    BY <1>1, <1>2, <1>3 DEF Runed

LEMMA EndsRuned ==
    ASSUME Inv, Runed, Careful, Submit \/ Interrupt \/ EndOfFile PROVE Runed'
  <1>1. Popped(history) \in Histories /\ WholeAll(Popped(history))
    BY RunedLine, PoppedOK, PoppedWhole
  <1>2. CASE Submit
    <2>1. ~pastemode
      BY <1>2 DEF Submit, Uses
    <2>2. /\ pc' = "prompt" /\ history' = Added(Popped(history), Finished) /\ Freed
          /\ ring' = ring /\ search' = search
      BY <1>2, <2>1 DEF Submit
    <2>3. WholeAll(history')
      BY <1>1, <2>2, FinishedOK, FinishedWhole, AddedWhole
    <2> QED
      BY <2>2, <2>3, EndRuned
  <1>3. CASE Interrupt
    BY <1>1, <1>3, EndRuned DEF Interrupt
  <1>4. CASE EndOfFile
    BY <1>1, <1>4, EndRuned DEF EndOfFile
  <1> QED
    BY <1>2, <1>3, <1>4

LEMMA NewLineKeyRuned ==
    ASSUME Inv, Runed, TextIsWhole, NewLineKey PROVE Runed'
  <1>1. /\ pc = "edit" /\ full' = Finished \o <<"\n">> /\ l' = [l EXCEPT !.len = 0, !.pos = 0]
        /\ ring' = ring /\ UNCHANGED <<pc, history, search, ghosts>>
    BY DEF NewLineKey, Press
  <1>2. Whole(full')
    <2>1. <<"\n">> \in Seq(Byte) /\ Whole(<<"\n">>)
      BY TextAssumption DEF TextIsWhole
    <2> QED
      BY <1>1, <2>1, FinishedOK, FinishedWhole, WholeJoin
  <1>3. Neat(l')
    <2>1. l \in Line /\ l.buf \in Seq(Byte) /\ Whole(l.buf)
      BY RunedLine, FineFields DEF Sound, Neat
    <2>2. l'.buf = l.buf /\ l'.len = 0 /\ l'.pos = 0
      BY <1>1, <2>1 DEF Line
    <2> QED
      BY <2>1, <2>2, WholeBegun DEF Neat
  <1>4. WholeRing(ring')
    BY <1>1, RunedLine
  <1> QED
    BY <1>1, <1>2, <1>3, <1>4, LineRuned

LEMMA PasteRuned ==
    ASSUME Inv, Runed, Paste PROVE Runed'
  BY DEF Paste, Runed, WholeRing, WholeAll, Sought, Origin, Neat

LEMMA EditRuned ==
    ASSUME Inv, Runed, NEW key, NEW k, Edit(key, k), Sound(k) PROVE Runed'
  <1>1. /\ pc = "edit" /\ full' = full /\ l' = k /\ ring' = ring
        /\ UNCHANGED <<pc, history, search, ghosts>>
    BY DEF Edit, Press
  <1>2. Neat(l') /\ Whole(full') /\ WholeRing(ring')
    BY <1>1, RunedLine DEF Sound
  <1> QED
    BY <1>1, <1>2, LineRuned

LEMMA MoveRuned ==
    ASSUME Inv, Runed, Careful, Move PROVE Runed'
  <1>1. Sound(l)
    BY RunedLine
  <1>2. CASE \/ Edit("home", Home(l)) \/ Edit("end", End(l)) \/ Edit("left", LeftKey(l))
             \/ Edit("leftword", LeftWord(l)) \/ Edit("rightword", RightWord(l))
    BY <1>1, <1>2, MoveSound, EditRuned
  <1>3. CASE Edit("right", Right(l))
    BY <1>1, <1>3, RightSound, EditRuned
  <1>4. CASE Edit("leftexpr", LeftExpr(l)) \/ Edit("rightexpr", RightExpr(l))
    BY <1>1, <1>4, ExprSound, EditRuned
  <1>5. CASE Edit("mark", SetMark(l))
    BY <1>1, <1>5, SetMarkSound, EditRuned
  <1>6. CASE Uses("goto") /\ Edit("ctrlx", GotoMark(l))
    <2>1. l.mark \notin {p \in 0..(l.len - 1) : l.buf[p + 1] \in Continuation}
      BY <1>6 DEF Uses
    <2> QED
      BY <1>1, <1>6, <2>1, GotoMarkSound, EditRuned
  <1>7. CASE Edit("ctrlx", l)
    BY <1>1, <1>7, EditRuned
  <1> QED
    BY <1>2, <1>3, <1>4, <1>5, <1>6, <1>7 DEF Move

LEMMA ChangeRuned ==
    ASSUME Inv, Runed, Careful, TextIsWhole, Change PROVE Runed'
  <1>1. Sound(l)
    BY RunedLine
  <1>2. ASSUME NEW r \in Runes, Edit("type", Insert(l, r)) PROVE Runed'
    <2>1. r \in Seq(Byte) /\ Whole(r)
      BY TextAssumption DEF TextIsWhole
    <2> QED
      BY <1>1, <1>2, <2>1, InsertSound, EditRuned
  <1>3. CASE Edit("delete", Delete(l))
    BY <1>1, <1>3, DeleteSound, EditRuned
  <1>4. CASE Edit("rubout", Rubout(l))
    BY <1>1, <1>4, RuboutSound, EditRuned
  <1>5. CASE Uses("transpose") /\ Edit("transpose", Transpose(l))
    <2>1. l.pos < l.len
      BY <1>5 DEF Uses
    <2> QED
      BY <1>1, <1>5, <2>1, TransposeSound, EditRuned
  <1>6. CASE Uses("transposewords") /\ Edit("transposewords", TransposeWords(l))
    <2>1. \A p \in 1..l.len : l.buf[p] \notin Leading
      BY <1>6 DEF Uses
    <2> QED
      BY <1>1, <1>6, <2>1, TransposeWordsSound, EditRuned
  <1>7. CASE \/ Edit("uppercase", UppercaseWord(l)) \/ Edit("lowercase", LowercaseWord(l))
             \/ Edit("capitalize", CapitalizeWord(l))
    BY <1>1, <1>7, OtherCaseSound, EditRuned
  <1>8. CASE Edit("squeeze", Squeeze(l))
    BY <1>1, <1>8, SqueezeSound, EditRuned
  <1>9. CASE Edit("barf", Barf(l))
    BY <1>1, <1>9, BarfSound, EditRuned
  <1>10. CASE Edit("slurp", Slurp(l))
    BY <1>1, <1>10, SlurpSound, EditRuned
  <1> QED
    BY <1>2, <1>3, <1>4, <1>5, <1>6, <1>7, <1>8, <1>9, <1>10 DEF Change

LEMMA QuoteRuned ==
    ASSUME Inv, Runed, TextIsWhole, Quote PROVE Runed'
  <1>1. PICK key \in {"yank", "left"} : Edit(key, Insert(l, Escaped))
    BY DEF Quote
  <1>2. Escaped \in Seq(Byte) /\ Whole(Escaped)
    BY TextAssumption DEF TextIsWhole
  <1> QED
    BY <1>1, <1>2, RunedLine, InsertSound, EditRuned

LEMMA KillRuned ==
    ASSUME Inv, Runed, NEW key, NEW k, NEW text \in Seq(Byte), Kill(key, k, text), Sound(k), Whole(text)
    PROVE  Runed'
  <1>1. /\ pc = "edit" /\ full' = full /\ l' = k /\ ring' = Pushed(ring, text)
        /\ UNCHANGED <<pc, history, search, ghosts>>
    BY DEF Kill, Press
  <1>2. Neat(l') /\ Whole(full') /\ WholeRing(ring')
    BY <1>1, RunedLine, PushedWhole DEF Sound
  <1> QED
    BY <1>1, <1>2, LineRuned

LEMMA KillsRuned ==
    ASSUME Inv, Runed, Kills PROVE Runed'
  <1>1. Sound(l) /\ Fine(l)
    BY RunedLine
  <1>2. CASE Kill("killleft", KillLeft(l), KillLeftKills(l))
    BY <1>1, <1>2, KillLeftOK, KillLeftSound, KillsWhole, KillRuned
  <1>3. CASE Kill("killright", KillRight(l), KillRightKills(l))
    BY <1>1, <1>3, KillRightOK, KillRightSound, KillsWhole, KillRuned
  <1>4. CASE Kill("ruboutword", RuboutWord(l), RuboutWordKills(l))
    BY <1>1, <1>4, RuboutWordOK, RuboutSound, KillsWhole, KillRuned
  <1>5. CASE Kill("deleteword", DeleteWord(l), DeleteWordKills(l))
    BY <1>1, <1>5, DeleteWordOK, DeleteSound, KillsWhole, KillRuned
  <1> QED
    BY <1>2, <1>3, <1>4, <1>5 DEF Kills

LEMMA YankedSound ==
    ASSUME NEW k, Sound(k), NEW r, r.p[r.i] \in Seq(Byte), Whole(r.p[r.i]),
           Settled(k) \/ r.p[r.i] = <<>>
    PROVE  Sound(Yanked(k, r))
  BY YankSound DEF Yanked

LEMMA YankRuned ==
    ASSUME Inv, Runed, Careful, YankKey PROVE Runed'
  <1>1. (Settled(l) \/ ring.p[ring.i] = <<>>) /\ Edit("yank", Yanked(l, ring))
    BY DEF YankKey, Uses
  <1>2. ring.p[ring.i] \in Seq(Byte) /\ Whole(ring.p[ring.i])
    BY RunedLine DEF WholeRing, Rings
  <1> QED
    BY <1>1, <1>2, RunedLine, YankedSound, EditRuned

LEMMA RotateRuned ==
    ASSUME Inv, Runed, Careful, RotateKey PROVE Runed'
  <1> DEFINE r == Rotated(ring)
             k == Unyank(l)
  <1>1. /\ pc = "edit" /\ full' = full /\ UNCHANGED <<pc, history, search, ghosts>>
    BY DEF RotateKey, Press
  <1>2. Settled(l) /\ l.pos = l.yj /\ Bytes(l.buf, l.yi, l.yj) = ring.p[ring.i]
    BY DEF RotateKey, Uses
  <1>3. \/ ring' = r /\ l' = Yanked(k, r)
        \/ ring' = ring /\ l' = l
    BY DEF RotateKey
  <1>4. Whole(ring.p[ring.i])
    BY RunedLine DEF WholeRing, Rings
  <1>5. Sound(k) /\ Settled(k)
    BY <1>2, <1>4, RunedLine, UnyankSound
  <1>6. WholeRing(r) /\ r.p[r.i] \in Seq(Byte) /\ Whole(r.p[r.i])
    BY RunedLine, RotatedWhole
  <1> HIDE DEF r, k
  <1>7. Sound(Yanked(k, r))
    BY <1>5, <1>6, YankedSound
  <1>8. Neat(l') /\ WholeRing(ring')
    BY <1>3, <1>6, <1>7, RunedLine DEF Sound
  <1> QED
    BY <1>1, <1>8, RunedLine, LineRuned

\* What is proposed goes behind what is before the cursor.
LEMMA CompleteRuned ==
    ASSUME Inv, Runed, TextIsWhole, Careful, Complete PROVE Runed'
  <1>1. pc = "edit" /\ full' = full /\ ring' = ring /\ UNCHANGED <<pc, history, search, ghosts>>
    BY DEF Complete, Press
  <1>2. l.pos = l.len
    BY DEF Complete, Uses
  <1>3. PICK s \in Suffixes :
            LET text == Bytes(l.buf, 0, l.pos) \o s
            IN  l' = [l EXCEPT !.buf = text, !.len = Len(text), !.pos = @ + Len(text) - l.len,
                               !.buflen = Grown(@, Len(text) + 1)]
    BY DEF Complete
  <1> DEFINE b == Bytes(l.buf, 0, l.pos)
             text == b \o s
             n == Len(text)
  <1>4. Sound(l) /\ l \in Line /\ l.len \in Nat
    BY RunedLine, FineFields
  <1>5. l'.buf = text /\ l'.len = n /\ l'.pos = l.pos + n - l.len
    BY <1>3, <1>4 DEF Line
  <1>6. b \in Seq(Byte) /\ Whole(b)
    <2>1. Place(l, 0) /\ Place(l, l.pos) /\ 0 <= l.pos
      BY <1>2, <1>4, SoundFields
    <2> QED
      BY <1>4, <2>1, PlaceParts
  <1>7. s \in Seq(Byte) /\ Whole(s)
    BY TextAssumption DEF TextIsWhole
  <1> HIDE DEF b
  <1>8. text \in Seq(Byte) /\ Whole(text)
    BY <1>6, <1>7, WholeJoin, Joined
  <1> HIDE DEF text
  <1>9. n \in Nat /\ l.pos + n - l.len = n
    BY <1>2, <1>4, <1>8
  <1>10. Neat(l')
    BY <1>5, <1>8, <1>9, WholeBegun DEF Neat, Settled
  <1> QED
    BY <1>1, <1>10, RunedLine, LineRuned

LEMMA TravelRuned ==
    ASSUME Inv, Runed, Travel PROVE Runed'
  <1>1. pc = "edit" /\ full' = full /\ ring' = ring /\ search' = search
    BY DEF Travel, Press
  <1>2. PICK i : Moves(i) /\ Goto(i)
    BY DEF Travel
  <1>3. i \in 0..(Len(history) - 1) /\ l.hindex < Len(history)
    BY <1>1, <1>2 DEF Moves, Inv, Placed
  <1>4. history' = Stored(history, l) /\ l' = Entered(history, l, i) /\ pc' = pc
    BY <1>2, <1>3 DEF Goto
  <1>5. Neat(l')
    <2> DEFINE text == Stored(history, l)[Slot(history, i)]
    <2>1. text \in Seq(Byte)
      BY <1>3, RunedLine, EnteredOK
    <2>2. WholeAll(Stored(history, l)) /\ Len(Stored(history, l)) = Len(history)
      BY <1>3, RunedLine, StoredWhole, StoredOK
    <2>3. Slot(history, i) \in 1..Len(history)
      BY <1>3, RunedLine DEF Slot, Histories
    <2>4. Whole(text)
      BY <2>2, <2>3 DEF WholeAll
    <2> HIDE DEF text
    <2>5. Begun(text, 0) /\ 0 \in 0..Len(text)
      BY <2>1, <2>4, WholeBegun
    <2> QED
      BY <1>3, <1>4, <2>5, RunedLine, EnteredSound DEF text
  <1>6. WholeAll(history')
    BY <1>3, <1>4, RunedLine, StoredWhole
  <1>7. Sought' /\ Origin' /\ Whole(full') /\ WholeRing(ring')
    BY <1>1, <1>4 DEF Runed, Sought, Origin
  <1> QED
    BY <1>5, <1>6, <1>7 DEF Runed

-----------------------------------------------------------------------------
(* Runes, and the search.                                                  *)

LEMMA SearchRuned ==
    ASSUME Inv, Runed, Search PROVE Runed'
  <1>1. /\ pc = "edit" /\ search' = [ab |-> <<>>, pos |-> l.pos, index |-> l.hindex]
        /\ l' = l /\ full' = full /\ history' = history /\ ring' = ring
    BY DEF Search, Press, editing
  <1>2. Sought'
    BY <1>1 DEF Sought
  <1>3. Origin'
    <2>1. l.hindex < Len(history)
      BY <1>1 DEF Inv, Placed
    <2>2. Stored(history, l)[Slot(history, l.hindex)] = l.buf
      BY <2>1, RunedLine, StoredOK
    <2>3. Begun(l.buf, l.pos)
      BY RunedLine DEF Sound, Neat
    <2>4. search'.pos = l.pos /\ search'.index = l.hindex
      BY <1>1
    <2>5. Begun(Stored(history', l')[Slot(history', search'.index)], search'.pos)
      BY <1>1, <2>2, <2>3, <2>4
    <2> QED
      BY <2>5 DEF Origin
  <1>4. WholeAll(history') /\ WholeRing(ring') /\ Neat(l') /\ Whole(full')
    BY <1>1 DEF Runed
  <1> QED
    BY <1>2, <1>3, <1>4 DEF Runed

\* What is found is where ab begins; nothing begins everywhere, and so as far as the
\* search looks.
LEMMA FoundThere ==
    ASSUME Inv, NEW ab \in Seq(Byte), NEW i \in Nat, NEW j \in Nat, NEW f \in Found(ab, i, j)
    PROVE  LET text == history[Slot(history, f[1])]
           IN  /\ f[2] \in 0..(Len(text) - Len(ab)) /\ Bytes(text, f[2], f[2] + Len(ab)) = ab
               /\ ab = <<>> /\ i < Len(history) =>
                      f[1] = i /\ f[2] = IF j < Len(text) THEN j ELSE Len(text)
  <1> DEFINE text(k) == history[Slot(history, k)]
             Limit(k) == IF k = i /\ j + Len(ab) < Len(text(k)) THEN j + Len(ab) ELSE Len(text(k))
             in(k) == Begins(text(k), Limit(k), ab)
             where == {k \in i..(Len(history) - 1) : in(k) # {}}
             first == CHOOSE k \in where : \A o \in where : k <= o
             place == CHOOSE x \in in(first) : \A o \in in(first) : o <= x
  <1>1. Found(ab, i, j) = IF where = {} THEN {} ELSE {<<first, place>>}
    BY DEF Found
  <1>2. where # {} /\ f[1] = first /\ f[2] = place
    <2> HIDE DEF where, first, place
    <2>1. where # {}
      BY <1>1
    <2>2. f = <<first, place>>
      BY <1>1, <2>1
    <2> QED
      BY <2>1, <2>2
  <1>3. history \in Seq(Seq(Byte)) /\ Len(history) \in Nat /\ Len(ab) \in Nat
    BY DEF Inv, Sorts, Histories
  <1>4. first \in where /\ \A o \in where : first <= o
    <2>1. where \in SUBSET Nat
      OBVIOUS
    <2> HIDE DEF where
    <2> QED
      BY <1>2, <2>1, Least
  <1>5. first \in i..(Len(history) - 1) /\ in(first) # {}
    BY <1>4
  <1>6. i < Len(history) /\ in(i) # {} => first = i
    <2>1. i < Len(history) /\ in(i) # {} => i \in where
      BY <1>3
    <2> HIDE DEF where, first, in
    <2> QED
      BY <1>3, <1>4, <1>5, <2>1
  <1> HIDE DEF where, first
  <1>7. \A k \in 0..(Len(history) - 1) : text(k) \in Seq(Byte) /\ Len(text(k)) \in Nat
    <2> SUFFICES ASSUME NEW k \in 0..(Len(history) - 1)
                 PROVE  text(k) \in Seq(Byte) /\ Len(text(k)) \in Nat
      OBVIOUS
    <2>1. Slot(history, k) \in 1..Len(history)
      BY <1>3 DEF Slot
    <2>2. text(k) \in Seq(Byte)
      BY <1>3, <2>1
    <2> HIDE DEF text
    <2> QED
      BY <2>2
  <1>8. first \in 0..(Len(history) - 1)
    BY <1>3, <1>5
  <1> HIDE DEF text
  <1>9. /\ Limit(first) \in Nat /\ Limit(first) <= Len(text(first))
        /\ text(first) \in Seq(Byte) /\ Len(text(first)) \in Nat
    BY <1>3, <1>7, <1>8
  <1>10. \A x \in in(first) : /\ x \in 0..(Limit(first) - Len(ab))
                              /\ Bytes(text(first), x, x + Len(ab)) = ab
    BY DEF Begins
  <1>11. in(first) \in SUBSET Nat /\ \A x \in in(first) : x <= Len(text(first))
    <2> HIDE DEF in, Limit
    <2> QED
      BY <1>3, <1>9, <1>10
  <1>12. place \in in(first) /\ \A o \in in(first) : o <= place
    <2> HIDE DEF in, Limit
    <2> QED
      BY <1>5, <1>9, <1>11, Greatest
  <1> HIDE DEF place
  <1>13. place \in 0..(Len(text(first)) - Len(ab)) /\ Bytes(text(first), place, place + Len(ab)) = ab
    <2> HIDE DEF in, Limit
    <2> QED
      BY <1>3, <1>9, <1>10, <1>12
  <1>14. ASSUME ab = <<>>, i < Len(history)
         PROVE  first = i /\ place = IF j < Len(text(first)) THEN j ELSE Len(text(first))
    <2>1. Len(ab) = 0
      BY <1>14
    <2>2. \A k \in 0..(Len(history) - 1) : Limit(k) \in Nat /\ Limit(k) \in in(k)
      <3> SUFFICES ASSUME NEW k \in 0..(Len(history) - 1)
                   PROVE  Limit(k) \in Nat /\ Limit(k) \in in(k)
        OBVIOUS
      <3>1. Limit(k) \in Nat
        BY <1>7, <2>1
      <3> HIDE DEF Limit
      <3>2. Bytes(text(k), Limit(k), Limit(k) + 0) = <<>> /\ Limit(k) \in 0..(Limit(k) - 0)
        BY <3>1, BytesEmpty
      <3> QED
        BY <1>14, <2>1, <3>1, <3>2 DEF Begins
    <2>3. i \in 0..(Len(history) - 1)
      BY <1>3, <1>14
    <2>4. in(i) # {}
      BY <2>2, <2>3
    <2>5. first = i
      BY <1>6, <1>14, <2>4
    <2>6. Limit(first) <= place /\ place <= Limit(first)
      <3>1. Limit(first) \in in(first)
        BY <1>8, <2>2
      <3>2. place \in 0..(Limit(first) - Len(ab))
        BY <1>10, <1>12
      <3> HIDE DEF in, Limit
      <3> QED
        BY <1>9, <1>12, <2>1, <3>1, <3>2
    <2>7. place = Limit(first)
      <3>1. place \in Nat
        BY <1>11, <1>12
      <3> HIDE DEF Limit
      <3> QED
        BY <1>9, <2>6, <3>1
    <2> QED
      BY <2>1, <2>5, <2>7
  <1>15. text(first) = history[Slot(history, f[1])]
    BY <1>2 DEF text
  <1> QED
    BY <1>2, <1>13, <1>14, <1>15

\* The line moves to where a rune begins in another entry; where Ctrl-G goes stays.
LEMMA MovesRuned ==
    ASSUME Inv, Runed, pc = "search", NEW i \in 0..(Len(history) - 1),
           NEW p \in 0..Len(Stored(history, l)[Slot(history, i)]),
           Begun(Stored(history, l)[Slot(history, i)], p),
           history' = Stored(history, l), l' = [Entered(history, l, i) EXCEPT !.pos = p],
           Sought', pc' \in {"edit", "search"},
           pc' = "search" => search'.pos = search.pos /\ search'.index = search.index,
           UNCHANGED <<full, ring>>
    PROVE  Runed'
  <1> DEFINE h == Stored(history, l)
             k == Entered(history, l, i)
  <1>1. /\ history \in Histories /\ WholeAll(history) /\ Sound(l) /\ Fine(l)
        /\ l.hindex < Len(history) /\ Searching
    BY RunedLine DEF Inv, Placed
  <1>2. h \in Histories /\ Len(h) = Len(history) /\ Len(history) \in Nat /\ WholeAll(h)
    BY <1>1, StoredOK, StoredWhole DEF Histories
  <1>3. Neat(l')
    BY <1>1, EnteredSound
  <1>4. /\ Fine(k) /\ k.hindex = i /\ k.buf = h[Slot(history, i)]
        /\ Fine([k EXCEPT !.pos = p])
    BY <1>1, EnteredOK
  <1>5. l' = [k EXCEPT !.pos = p] /\ history' = h
    OBVIOUS
  <1> HIDE DEF k, h
  <1>6. Fine(l') /\ l'.hindex = i /\ l'.buf = h[Slot(history, i)]
    <2>1. k \in Line
      BY <1>4, FineFields
    <2>2. l'.hindex = k.hindex /\ l'.buf = k.buf
      BY <1>5, <2>1 DEF Line
    <2> QED
      BY <1>4, <1>5, <2>2
  <1>7. Origin'
    <2> SUFFICES ASSUME pc' = "search"
                 PROVE  Begun(Stored(history', l')[Slot(history', search'.index)], search'.pos)
      BY DEF Origin
    <2>1. search.index < Len(history) /\ search.index \in Nat
      BY <1>1 DEF Searching, Inv, Sorts
    <2>2. Begun(h[Slot(history, search.index)], search.pos)
      BY DEF Runed, Origin, h
    <2>3. Slot(h, i) = Slot(history, i) /\ Slot(h, search.index) = Slot(history, search.index)
      BY <1>2 DEF Slot
    <2>4. l'.hindex < Len(h) /\ l'.buf = h[Slot(h, l'.hindex)] /\ search.index \in 0..(Len(h) - 1)
      BY <1>2, <1>6, <2>1, <2>3
    <2>5. Stored(h, l')[Slot(h, search.index)] = h[Slot(h, search.index)]
      BY <1>2, <1>6, <2>4, StoredAlready
    <2> QED
      BY <1>5, <2>2, <2>3, <2>5
  <1>8. WholeAll(history') /\ WholeRing(ring') /\ Whole(full')
    BY <1>2, <1>5 DEF Runed
  <1> QED
    BY <1>3, <1>7, <1>8 DEF Runed

\* A key in the search; for nothing it is looked where the line and the cursor are.
LEMMA SearchForRuned ==
    ASSUME Inv, Runed, pc = "search", NEW ab \in Seq(Byte), NEW i \in Nat, NEW j \in Nat,
           SearchFor(ab, i, j), ab # <<>> => ab[1] \notin Continuation,
           ab = <<>> => i = l.hindex /\ j = l.pos
    PROVE  Runed'
  <1>1. search' = [search EXCEPT !.ab = ab] /\ pc' = pc /\ full' = full /\ ring' = ring
    BY DEF SearchFor
  <1>2. /\ history \in Histories /\ WholeAll(history) /\ Sound(l) /\ Fine(l)
        /\ l.hindex < Len(history) /\ Searching
        /\ search \in [ab : Seq(Byte), pos : Nat, index : Nat]
    BY RunedLine DEF Inv, Placed, Sorts
  <1>3. search'.ab = ab /\ search'.pos = search.pos /\ search'.index = search.index
    BY <1>1, <1>2
  <1>4. Sought'
    BY <1>3 DEF Sought
  <1>5. CASE Found(ab, i, j) = {}
    <2>1. l' = l /\ history' = history
      BY <1>5 DEF SearchFor
    <2>2. Origin'
      BY <1>1, <1>3, <2>1 DEF Runed, Origin
    <2>3. WholeAll(history') /\ WholeRing(ring') /\ Whole(full') /\ Neat(l')
      BY <1>1, <2>1 DEF Runed
    <2> QED
      BY <1>4, <2>2, <2>3 DEF Runed
  <1>6. CASE Found(ab, i, j) # {}
    <2> DEFINE f == CHOOSE x \in Found(ab, i, j) : TRUE
    <2>1. f \in Found(ab, i, j)
      BY <1>6
    <2>2. history' = Stored(history, l) /\ l' = [Entered(history, l, f[1]) EXCEPT !.pos = f[2]]
      BY <1>6 DEF SearchFor
    <2> HIDE DEF f
    <2> DEFINE a == f[1]
               p == f[2]
               z == Slot(history, a)
               text == history[z]
               there == Stored(history, l)[z]
    <2>3. a \in 0..(Len(history) - 1) /\ p \in 0..Len(text)
      BY <2>1, FoundOK
    <2>4. /\ p \in 0..(Len(text) - Len(ab)) /\ Bytes(text, p, p + Len(ab)) = ab
          /\ ab = <<>> /\ i < Len(history) => a = i /\ p = IF j < Len(text) THEN j ELSE Len(text)
      BY <2>1, FoundThere
    <2> HIDE DEF a, p
    <2>5. Len(history) \in Nat /\ history \in Seq(Seq(Byte)) /\ z \in 1..Len(history)
          /\ l.buf \in Seq(Byte)
      <3>1. Len(history) \in Nat /\ history \in Seq(Seq(Byte))
        BY <1>2 DEF Histories
      <3>2. z \in 1..Len(history)
        BY <2>3, <3>1 DEF Slot
      <3> QED
        BY <1>2, <3>1, <3>2, FineFields
    <2>6. text \in Seq(Byte) /\ Whole(text)
      <3> HIDE DEF z
      <3> QED
        BY <1>2, <2>5 DEF WholeAll
    <2>7. z = Slot(history, l.hindex) => there = l.buf /\ text \in {l.buf, <<>>}
      BY <1>2, StoredOK DEF Searching
    <2>8. z # Slot(history, l.hindex) => there = text
      <3> HIDE DEF z
      <3> QED
        BY <1>2, <2>5, StoredOK
    <2>9. Whole(l.buf) /\ Begun(l.buf, l.pos) /\ Begun(l.buf, 0)
      BY <1>2, <2>5, WholeBegun DEF Sound, Neat
    <2> HIDE DEF z, text, there
    <2>10. Begun(text, p)
      <3>1. CASE ab # <<>>
        <4>1. Len(ab) \in Nat /\ Len(ab) >= 1 /\ Len(text) \in Nat
          BY <2>6, <3>1
        <4>2. p \in 0..Len(text) /\ p + Len(ab) \in 0..Len(text) /\ p \in 0..(p + Len(ab))
          BY <2>3, <2>4, <4>1
        <4>3. \A q \in 1..(p + Len(ab) - p) : Bytes(text, p, p + Len(ab))[q] = text[p + q]
          BY <2>6, <4>2, BytesAt
        <4>4. 1 \in 1..(p + Len(ab) - p)
          BY <4>1, <4>2
        <4>5. ab[1] = text[p + 1]
          BY <2>4, <4>3, <4>4
        <4> QED
          BY <3>1, <4>5 DEF Begun
      <3>2. CASE ab = <<>>
        <4>1. a = l.hindex /\ p = IF l.pos < Len(text) THEN l.pos ELSE Len(text)
          BY <1>2, <2>4, <3>2
        <4>2. text \in {l.buf, <<>>}
          BY <2>7, <4>1 DEF z
        <4>3. CASE text = l.buf
          BY <2>6, <2>9, <4>1, <4>3, WholeBegun
        <4>4. CASE text # l.buf
          <5>1. Len(text) = 0 /\ p \in Nat
            BY <2>3, <4>2, <4>4
          <5> QED
            BY <5>1 DEF Begun
        <4> QED
          BY <4>3, <4>4
      <3> QED
        BY <3>1, <3>2
    <2>11. Begun(there, p) /\ p \in 0..Len(there)
      <3>1. CASE there = text
        BY <2>3, <2>10, <3>1
      <3>2. CASE there # text
        <4>1. there = l.buf /\ text = <<>>
          BY <2>7, <2>8, <3>2
        <4>2. p = 0 /\ Len(there) \in Nat
          BY <2>3, <2>5, <4>1
        <4> QED
          BY <2>9, <4>1, <4>2
      <3> QED
        BY <3>1, <3>2
    <2>12. pc' \in {"edit", "search"} /\ UNCHANGED <<full, ring>>
      BY <1>1
    <2>13. history' = Stored(history, l) /\ l' = [Entered(history, l, a) EXCEPT !.pos = p]
      BY <2>2 DEF a, p
    <2> QED
      BY <1>3, <1>4, <2>3, <2>11, <2>12, <2>13, MovesRuned DEF there, z
  <1> QED
    BY <1>5, <1>6

LEMMA SearchTypeRuned ==
    ASSUME Inv, Runed, TextIsWhole, SearchType PROVE Runed'
  <1>1. PICK r \in Runes : SearchKey("type") /\ SearchFor(search.ab \o r, l.hindex, l.pos)
    BY DEF SearchType
  <1>2. pc = "search" /\ l.hindex \in Nat /\ l.pos \in Nat /\ search.ab \in Seq(Byte)
    BY <1>1, RunedLine, FineFields DEF SearchKey, Line, Inv, Sorts
  <1> DEFINE s == search.ab
             ab == s \o r
  <1>3. r \in Seq(Byte) /\ r # <<>> /\ r[1] \notin Continuation
    BY TextAssumption DEF TextIsWhole, Whole
  <1>4. s # <<>> => s[1] \notin Continuation
    BY DEF Runed, Sought
  <1>5. s \in Seq(Byte)
    BY <1>2
  <1> HIDE DEF s
  <1>6. ab \in Seq(Byte) /\ Len(ab) = Len(s) + Len(r) /\ Len(s) \in Nat /\ Len(r) \in Nat /\ Len(r) >= 1
    BY <1>3, <1>5
  <1>7. ab # <<>>
    BY <1>6
  <1>8. ab[1] \notin Continuation
    <2>1. CASE s = <<>>
      BY <1>3, <2>1
    <2>2. CASE s # <<>>
      <3>1. 1 \in 1..Len(s)
        BY <1>5, <2>2
      <3>2. ab[1] = s[1]
        BY <1>3, <1>5, <3>1, JoinedAt
      <3> QED
        BY <1>4, <2>2, <3>2
    <2> QED
      BY <2>1, <2>2
  <1>9. SearchFor(ab, l.hindex, l.pos)
    BY <1>1 DEF s
  <1> HIDE DEF ab
  <1> QED
    BY <1>2, <1>6, <1>7, <1>8, <1>9, SearchForRuned

LEMMA SearchRuboutRuned ==
    ASSUME Inv, Runed, SearchRubout PROVE Runed'
  <1> DEFINE s == search.ab
             ab == SubSeq(s, 1, Len(s) - 1)
  <1>1. SearchKey("rubout") /\ SearchFor(ab, l.hindex, l.pos)
    BY DEF SearchRubout
  <1>2. pc = "search" /\ l.hindex \in Nat /\ l.pos \in Nat /\ s \in Seq(Byte)
    BY <1>1, RunedLine, FineFields DEF SearchKey, Line, Inv, Sorts
  <1>3. s # <<>> => s[1] \notin Continuation
    BY DEF Runed, Sought
  <1> HIDE DEF s
  <1>4. ab \in Seq(Byte) /\ (ab # <<>> => ab[1] = s[1] /\ s # <<>>)
    <2>1. Len(s) \in Nat /\ Len(s) - 1 \in Int /\ 1 \in Int
      BY <1>2
    <2>2. \A q \in 1..(Len(s) - 1) : s[q] \in Byte
      BY <1>2, <2>1
    <2>3. /\ ab \in Seq(Byte)
          /\ Len(ab) = IF 1 <= Len(s) - 1 THEN Len(s) - 1 - 1 + 1 ELSE 0
          /\ \A q \in 1..(Len(s) - 1 - 1 + 1) : ab[q] = s[1 + q - 1]
      BY <2>1, <2>2, SubSeqProperties
    <2>4. CASE Len(s) - 1 >= 1
      <3>1. 1 \in 1..(Len(s) - 1 - 1 + 1) /\ 1 + 1 - 1 = 1
        BY <2>1, <2>4
      <3>2. ab[1] = s[1]
        BY <2>3, <3>1
      <3>3. s # <<>>
        BY <2>4
      <3> QED
        BY <2>3, <3>2, <3>3
    <2>5. CASE ~(Len(s) - 1 >= 1)
      <3>1. Len(ab) = 0
        BY <2>1, <2>3, <2>5
      <3>2. ab = <<>>
        <4> HIDE DEF ab
        <4> QED
          BY <2>3, <3>1
      <3> QED
        BY <2>3, <3>2
    <2> QED
      BY <2>4, <2>5
  <1> HIDE DEF ab
  <1> QED
    BY <1>1, <1>2, <1>3, <1>4, SearchForRuned

LEMMA SearchAgainRuned ==
    ASSUME Inv, Runed, Careful, SearchAgain PROVE Runed'
  <1>1. SearchKey("search") /\ search.ab # <<>>
    BY DEF SearchAgain, Uses
  <1>2. pc = "search" /\ l.hindex \in Nat /\ l.hindex + 1 \in Nat /\ l.pos \in Nat
        /\ search.ab \in Seq(Byte)
    <2>1. pc = "search" /\ search.ab \in Seq(Byte)
      BY <1>1 DEF SearchKey, Inv, Sorts
    <2>2. l \in Line /\ l.pos \in Nat
      BY RunedLine, FineFields
    <2>3. l.hindex \in Nat
      BY <2>2 DEF Line
    <2> QED
      BY <2>1, <2>2, <2>3
  <1>3. search.ab[1] \notin Continuation
    BY <1>1 DEF Runed, Sought
  <1>4. CASE l.pos > 0
    <2>1. SearchFor(search.ab, l.hindex, l.pos - 1) /\ l.pos - 1 \in Nat
      BY <1>2, <1>4 DEF SearchAgain
    <2> QED
      BY <1>1, <1>2, <1>3, <2>1, SearchForRuned
  <1>5. CASE l.pos = 0 /\ l.hindex + 1 < Len(history)
    <2> DEFINE n == Len(history[Slot(history, l.hindex + 1)])
    <2>1. SearchFor(search.ab, l.hindex + 1, n)
      BY <1>5 DEF SearchAgain
    <2>2. n \in Nat
      <3>1. history \in Seq(Seq(Byte)) /\ Len(history) \in Nat
        BY DEF Inv, Sorts, Histories
      <3>2. Slot(history, l.hindex + 1) \in 1..Len(history)
        BY <1>2, <1>5, <3>1 DEF Slot
      <3>3. history[Slot(history, l.hindex + 1)] \in Seq(Byte)
        BY <3>1, <3>2
      <3> QED
        BY <3>3
    <2> HIDE DEF n
    <2> QED
      BY <1>1, <1>2, <1>3, <2>1, <2>2, SearchForRuned
  <1>6. CASE ~(l.pos > 0) /\ ~(l.pos = 0 /\ l.hindex + 1 < Len(history))
    <2>1. SearchFor(search.ab, l.hindex, l.pos)
      BY <1>6 DEF SearchAgain
    <2> QED
      BY <1>1, <1>2, <1>3, <2>1, SearchForRuned
  <1> QED
    BY <1>4, <1>5, <1>6

LEMMA SearchEndsRuned ==
    ASSUME Inv, Runed, SearchCancel \/ SearchEnd PROVE Runed'
  <1>1. CASE SearchCancel
    <2>1. /\ pc = "search" /\ pc' = "edit" /\ history' = Stored(history, l)
          /\ l' = [Entered(history, l, search.index) EXCEPT !.pos = search.pos]
          /\ search' = NoSearch /\ UNCHANGED <<full, ring>>
      BY <1>1 DEF SearchCancel, SearchKey
    <2>2. /\ search.index < Len(history) /\ search.index \in Nat /\ Len(history) \in Nat
          /\ search.pos <= Len(Stored(history, l)[Slot(history, search.index)]) /\ search.pos \in Nat
      BY <2>1 DEF Inv, Searching, Sorts, Histories
    <2>3. search.index \in 0..(Len(history) - 1)
      BY <2>2
    <2>4. Stored(history, l)[Slot(history, search.index)] \in Seq(Byte)
      <3>1. l.hindex < Len(history) /\ Fine(l) /\ history \in Histories
        BY <2>1, RunedLine DEF Inv, Placed
      <3> QED
        BY <2>3, <3>1, EnteredOK
    <2>5. search.pos \in 0..Len(Stored(history, l)[Slot(history, search.index)])
      BY <2>2, <2>4
    <2>6. Begun(Stored(history, l)[Slot(history, search.index)], search.pos)
      BY <2>1 DEF Runed, Origin
    <2>7. Sought'
      BY <2>1 DEF Sought, NoSearch
    <2> QED
      BY <2>1, <2>3, <2>5, <2>6, <2>7, MovesRuned
  <1>2. CASE SearchEnd
    <2>1. /\ pc' = "edit" /\ search' = NoSearch
          /\ l' = l /\ full' = full /\ history' = history /\ ring' = ring
      BY <1>2 DEF SearchEnd, editing
    <2>2. Sought' /\ Origin'
      BY <2>1 DEF Sought, Origin, NoSearch
    <2>3. WholeAll(history') /\ WholeRing(ring') /\ Whole(full') /\ Neat(l')
      BY <2>1 DEF Runed
    <2> QED
      BY <2>2, <2>3 DEF Runed
  <1> QED
    BY <1>1, <1>2

LEMMA InitRuned ==
    ASSUME TextIsWhole, Init PROVE Runed
  <1>1. /\ pc = "prompt" /\ l = NewLine(FirstBuflen) /\ full = <<>> /\ history = FirstHistory
        /\ ring = [i |-> 0, p |-> [j \in 0..(Ring - 1) |-> <<>>]] /\ search = NoSearch
    BY DEF Init
  <1>2. WholeAll(history)
    BY <1>1, TextAssumption DEF TextIsWhole, WholeAll
  <1>3. WholeRing(ring)
    BY <1>1, EmptyWhole DEF WholeRing
  <1>4. Neat(l) /\ Whole(full)
    BY <1>1, NewLineNeat, EmptyWhole
  <1>5. Sought /\ Origin
    BY <1>1 DEF Sought, Origin, NoSearch
  <1> QED
    BY <1>2, <1>3, <1>4, <1>5 DEF Runed

\* Whatever a careful user types, moves over, kills, yanks, changes, finds and takes from
\* the history, the line is made of whole runes and the cursor is where one begins: the
\* keys of bestline.c step by GetUtf8, and copy by the byte.  It is for text of runes of
\* any length, through the history, the kill ring and the search.
THEOREM RunesStayWhole ==
    ASSUME Careful, TextIsWhole PROVE Spec => []RunesWhole
  <1>1. Init => Inv /\ Runed
    BY InitInv, InitRuned
  <1>2. Inv /\ Runed /\ [Next]_vars => Runed'
    <2> SUFFICES ASSUME Inv, Runed, [Next]_vars PROVE Runed'
      OBVIOUS
    <2>1. CASE UNCHANGED vars
      <3>1. /\ pc' = pc /\ l' = l /\ full' = full /\ history' = history /\ ring' = ring
            /\ search' = search
        BY <2>1 DEF vars, editing
      <3>2. Sought' /\ Origin'
        BY <3>1 DEF Runed, Sought, Origin
      <3> QED
        BY <3>1, <3>2 DEF Runed
    <2>2. CASE Next
      BY <2>2, BeginRuned, EndsRuned, NewLineKeyRuned, PasteRuned, MoveRuned, ChangeRuned,
         QuoteRuned, KillsRuned, YankRuned, RotateRuned, CompleteRuned, TravelRuned, SearchRuned,
         SearchTypeRuned, SearchRuboutRuned, SearchAgainRuned, SearchEndsRuned DEF Next
    <2> QED
      BY <2>1, <2>2
  <1>3. Inv /\ Runed => RunesWhole
    <2> SUFFICES ASSUME Inv, Runed PROVE RunesWhole
      OBVIOUS
    <2>1. Sound(l) /\ l.len <= Len(l.buf) /\ l.pos \in Nat /\ l.len \in Nat /\ Len(l.buf) \in Nat
      BY RunedLine, FineFields
    <2>2. Place(l, 0) /\ Place(l, l.len) /\ 0 <= l.len
      BY <2>1, SoundFields
    <2>3. Whole(Bytes(l.buf, 0, l.len))
      BY <2>1, <2>2, PlaceParts
    <2>4. l.pos < l.len => l.buf[l.pos + 1] \notin Continuation
      BY <2>1 DEF Sound, Neat, Begun
    <2> QED
      BY <2>3, <2>4 DEF RunesWhole
  <1>4. Spec => []Inv
    BY Invariance
  <1> QED
    BY <1>1, <1>2, <1>3, <1>4, PTL DEF Spec
=============================================================================
