----------------------------- MODULE Recursion -----------------------------
(***************************************************************************)
(* Induction and recursion on the naturals, for the proofs about functions *)
(* that are defined recursively.  What is proved by induction is a set, and*)
(* what is iterated a function, so that no lemma has an operator as a      *)
(* parameter.                                                              *)
(***************************************************************************)
EXTENDS Integers, WellFoundedInduction, TLAPS

\* The order of the naturals, as a set of pairs.
Below == {p \in Nat \X Nat : p[1] < p[2]}

\* Each set has a member that none is below.
LEMMA BelowIsWellFounded == IsWellFoundedOn(Below, Nat)
  BY NatLessThanWellFounded DEF Below, OpToRel

\* A set of naturals that is not empty has a least member.
LEMMA Least ==
    ASSUME NEW T \in SUBSET Nat, T # {}
    PROVE  \E m \in T : \A k \in T : m <= k
  <1>1. PICK m \in T : \A k \in T : <<k, m>> \notin Below
    BY BelowIsWellFounded, WFMin
  <1>2. ASSUME NEW k \in T PROVE m <= k
    <2>1. k \in Nat /\ m \in Nat /\ <<k, m>> \in Nat \X Nat
      OBVIOUS
    <2>2. ~(k < m)
      BY <1>1, <2>1 DEF Below
    <2> QED
      BY <2>1, <2>2
  <1> QED
    BY <1>2

\* A set that holds 0 and with each number the next holds them all.
LEMMA Induction ==
    ASSUME NEW P, 0 \in P, \A n \in Nat : n \in P => n + 1 \in P
    PROVE  \A n \in Nat : n \in P
  <1>1. SUFFICES ASSUME Nat \ P # {} PROVE FALSE
    OBVIOUS
  <1>2. PICK m \in Nat \ P : \A k \in Nat \ P : m <= k
    BY <1>1, Least
  <1>3. m - 1 \in Nat /\ m - 1 \in P
    BY <1>2
  <1> QED
    BY <1>2, <1>3

\* f[n] is what n steps, each told its number, make of base.
Iterates(f, S, base, step) ==
    /\ f \in [Nat -> S] /\ f[0] = base
    /\ \A n \in Nat : f[n + 1] = step[n][f[n]]

\* A value can be iterated.
LEMMA Iteration ==
    ASSUME NEW S, NEW base, NEW step, base \in S, step \in [Nat -> [S -> S]]
    PROVE  \E f : Iterates(f, S, base, step)
  <1> DEFINE Good(n, g) == /\ g \in [0..n -> S] /\ g[0] = base
                           /\ \A k \in 0..(n - 1) : g[k + 1] = step[k][g[k]]
             P == {n \in Nat : \E g : Good(n, g)}
  <1>1. 0 \in P
    <2>1. Good(0, [k \in 0..0 |-> base])
      OBVIOUS
    <2> QED
      BY <2>1
  <1>2. ASSUME NEW n \in Nat, n \in P PROVE n + 1 \in P
    <2>1. PICK g : Good(n, g)
      BY <1>2
    <2> DEFINE h == [k \in 0..(n + 1) |-> IF k <= n THEN g[k] ELSE step[n][g[n]]]
    <2>2. step[n][g[n]] \in S
      BY <2>1
    <2>3. h \in [0..(n + 1) -> S] /\ h[0] = base
      BY <2>1, <2>2
    <2>4. ASSUME NEW k \in 0..n PROVE h[k + 1] = step[k][h[k]]
      <3>1. CASE k = n
        BY <3>1
      <3>2. CASE k < n
        BY <3>2, <2>1
      <3> QED
        BY <3>1, <3>2
    <2>5. Good(n + 1, h)
      <3> HIDE DEF h
      <3> QED
        BY <2>3, <2>4
    <2> HIDE DEF h, Good
    <2> QED
      BY <2>5
  <1>3. \A n \in Nat : n \in P
    <2> HIDE DEF P
    <2> QED
      BY <1>1, <1>2, Induction
  <1>4. \A n \in Nat : \E g : Good(n, g)
    BY <1>3
  <1>5. ASSUME NEW g, NEW h, NEW m \in Nat, NEW n \in Nat, Good(m, g), Good(n, h)
        PROVE  \A k \in Nat : k <= m /\ k <= n => g[k] = h[k]
    <2> DEFINE Q == {k \in Nat : k <= m /\ k <= n => g[k] = h[k]}
    <2>1. 0 \in Q
      BY <1>5
    <2>2. ASSUME NEW k \in Nat, k \in Q PROVE k + 1 \in Q
      <3>1. CASE k + 1 <= m /\ k + 1 <= n
        <4>1. g[k] = h[k] /\ k \in 0..(m - 1) /\ k \in 0..(n - 1)
          BY <2>2, <3>1
        <4>2. g[k + 1] = step[k][g[k]] /\ h[k + 1] = step[k][h[k]]
          BY <1>5, <4>1
        <4> QED
          BY <4>1, <4>2
      <3>2. CASE ~(k + 1 <= m /\ k + 1 <= n)
        BY <3>2
      <3> QED
        BY <3>1, <3>2
    <2>3. \A k \in Nat : k \in Q
      <3> HIDE DEF Q
      <3> QED
        BY <2>1, <2>2, Induction
    <2> QED
      BY <2>3
  <1> DEFINE at(n) == CHOOSE g : Good(n, g)
             f == [n \in Nat |-> at(n)[n]]
  <1>6. \A n \in Nat : Good(n, at(n))
    BY <1>4
  <1> HIDE DEF at
  <1>7. f \in [Nat -> S] /\ f[0] = base
    BY <1>6
  <1>8. ASSUME NEW n \in Nat PROVE f[n + 1] = step[n][f[n]]
    <2>1. at(n + 1)[n] = at(n)[n]
      <3> HIDE DEF Good
      <3> QED
        BY <1>5, <1>6
    <2>2. at(n + 1)[n + 1] = step[n][at(n + 1)[n]]
      BY <1>6
    <2> QED
      BY <2>1, <2>2
  <1> QED
    BY <1>7, <1>8 DEF Iterates

\* The same over 0..N, as the definitions of recursive functions have it.
Unrolls(f, N, S, base, step) ==
    f \in [0..N -> S] /\ f[0] = base /\ \A n \in 1..N : f[n] = step[n][f[n - 1]]

\* There is such a function.
LEMMA Defined ==
    ASSUME NEW N \in Nat, NEW S, NEW base, NEW step, base \in S, step \in [1..N -> [S -> S]]
    PROVE  \E f : Unrolls(f, N, S, base, step)
  <1> DEFINE next == [n \in Nat |-> IF n < N THEN step[n + 1] ELSE [x \in S |-> x]]
  <1>1. next \in [Nat -> [S -> S]]
    OBVIOUS
  <1>2. \A n \in 1..N : n - 1 \in Nat /\ (n - 1) + 1 = n /\ next[n - 1] = step[n]
    OBVIOUS
  <1> HIDE DEF next
  <1>3. PICK g : Iterates(g, S, base, next)
    BY <1>1, Iteration
  <1> DEFINE f == [n \in 0..N |-> g[n]]
  <1>4. f \in [0..N -> S] /\ f[0] = base
    BY <1>3 DEF Iterates
  <1>5. ASSUME NEW n \in 1..N PROVE f[n] = step[n][f[n - 1]]
    <2>1. n - 1 \in Nat /\ (n - 1) + 1 = n /\ next[n - 1] = step[n] /\ n - 1 \in 0..N /\ n \in 0..N
      BY <1>2
    <2>2. g[(n - 1) + 1] = next[n - 1][g[n - 1]]
      BY <1>3, <2>1 DEF Iterates
    <2> QED
      BY <2>1, <2>2
  <1> HIDE DEF f
  <1>6. Unrolls(f, N, S, base, step)
    BY <1>4, <1>5 DEF Unrolls
  <1> QED
    BY <1>6

\* What is in S at first, and with every step stays there, is always in S.
LEMMA Preserved ==
    ASSUME NEW N \in Nat, NEW S, NEW f, f[0] \in S,
           \A n \in 1..N : f[n - 1] \in S => f[n] \in S
    PROVE  \A n \in 0..N : f[n] \in S
  <1> DEFINE P == {n \in Nat : n <= N => f[n] \in S}
  <1>1. 0 \in P
    OBVIOUS
  <1>2. ASSUME NEW n \in Nat, n \in P PROVE n + 1 \in P
    <2>1. n + 1 <= N => n + 1 \in 1..N /\ (n + 1) - 1 = n
      OBVIOUS
    <2> QED
      BY <1>2, <2>1
  <1>3. \A n \in Nat : n \in P
    <2> HIDE DEF P
    <2> QED
      BY <1>1, <1>2, Induction
  <1> QED
    BY <1>3

\* A set of numbers that has one, and none above a bound, has a greatest.
LEMMA Greatest ==
    ASSUME NEW T \in SUBSET Nat, T # {}, NEW b \in Nat, \A k \in T : k <= b
    PROVE  \E m \in T : \A k \in T : k <= m
  <1> DEFINE R == {b - k : k \in T}
  <1>1. R \in SUBSET Nat /\ R # {}
    <2>1. \A k \in T : b - k \in Nat
      OBVIOUS
    <2> QED
      BY <2>1
  <1>2. PICK r \in R : \A o \in R : r <= o
    <2> HIDE DEF R
    <2> QED
      BY <1>1, Least
  <1>3. PICK m \in T : r = b - m
    BY <1>2
  <1>4. ASSUME NEW k \in T PROVE k <= m
    <2>1. b - m <= b - k
      BY <1>2, <1>3
    <2> QED
      BY <2>1
  <1> QED
    BY <1>4

\* What holds for each member once it holds for those below it holds for all.
LEMMA RankInduction ==
    ASSUME NEW X, NEW rank, NEW P, \A x \in X : rank[x] \in Nat,
           \A x \in X : (\A z \in X : rank[z] < rank[x] => z \in P) => x \in P
    PROVE  \A x \in X : x \in P
  <1> DEFINE Q == {n \in Nat : \A x \in X : rank[x] < n => x \in P}
  <1>1. 0 \in Q
    OBVIOUS
  <1>2. ASSUME NEW n \in Nat, n \in Q PROVE n + 1 \in Q
    <2>1. ASSUME NEW x \in X, rank[x] < n + 1 PROVE x \in P
      <3>1. ASSUME NEW z \in X, rank[z] < rank[x] PROVE z \in P
        <4>1. rank[z] \in Nat /\ rank[x] \in Nat
          OBVIOUS
        <4>2. rank[z] < n
          BY <2>1, <3>1, <4>1
        <4> QED
          BY <1>2, <4>2
      <3> QED
        BY <3>1
    <2> QED
      BY <2>1
  <1>3. \A n \in Nat : n \in Q
    <2> HIDE DEF Q
    <2> QED
      BY <1>1, <1>2, Induction
  <1>4. ASSUME NEW x \in X PROVE x \in P
    <2>1. rank[x] \in Nat /\ rank[x] + 1 \in Nat /\ rank[x] < rank[x] + 1
      OBVIOUS
    <2>2. rank[x] + 1 \in Q
      BY <1>3, <2>1
    <2> QED
      BY <2>1, <2>2
  <1> QED
    BY <1>4

\* f[x] is out[x], or what comb makes of f at the place next.
Solves(f, X, V, stops, out, next, comb) ==
    /\ f \in [X -> V]
    /\ \A x \in X : f[x] = IF x \in stops THEN out[x] ELSE comb[x][f[next[x]]]

\* There is such a function if next leads down.
LEMMA Recursive ==
    ASSUME NEW X, NEW V, NEW rank, NEW stops, NEW out, NEW next, NEW comb,
           rank \in [X -> Nat], stops \in SUBSET X, out \in [stops -> V],
           next \in [X \ stops -> X], comb \in [X \ stops -> [V -> V]],
           \A x \in X \ stops : rank[next[x]] < rank[x]
    PROVE  \E f : Solves(f, X, V, stops, out, next, comb)
  <1> DEFINE D(n) == {x \in X : rank[x] < n}
             Good(n, f) == Solves(f, D(n), V, stops, out, next, comb)
             P == {n \in Nat : \E f : Good(n, f)}
  <1>1. 0 \in P
    <2>1. D(0) = {}
      OBVIOUS
    <2>2. Good(0, [x \in {} |-> x])
      BY <2>1 DEF Solves
    <2> QED
      BY <2>2
  <1>2. ASSUME NEW n \in Nat, n \in P PROVE n + 1 \in P
    <2>1. PICK f : Good(n, f)
      BY <1>2
    <2> DEFINE h == [x \in D(n + 1) |-> IF x \in stops THEN out[x] ELSE comb[x][f[next[x]]]]
    <2>2. \A x \in D(n + 1) : x \notin stops => next[x] \in D(n) /\ next[x] \in X
      <3> SUFFICES ASSUME NEW x \in D(n + 1), x \notin stops PROVE next[x] \in D(n) /\ next[x] \in X
        OBVIOUS
      <3>1. x \in X /\ next[x] \in X /\ rank[x] \in Nat /\ rank[next[x]] \in Nat
        OBVIOUS
      <3>2. rank[x] < n + 1 /\ rank[next[x]] < rank[x]
        OBVIOUS
      <3> QED
        BY <3>1, <3>2
    <2>3. D(n) \subseteq D(n + 1)
      <3>1. \A x \in X : rank[x] \in Nat
        OBVIOUS
      <3> QED
        BY <3>1
    <2> DEFINE Dn == D(n)
               Dm == D(n + 1)
    <2>4. f \in [Dn -> V] /\ \A x \in Dn : f[x] = IF x \in stops THEN out[x] ELSE comb[x][f[next[x]]]
      BY <2>1 DEF Solves
    <2>5. Dm \subseteq X
      OBVIOUS
    <2>6. h = [x \in Dm |-> IF x \in stops THEN out[x] ELSE comb[x][f[next[x]]]]
      OBVIOUS
    <2>7. \A x \in Dm : x \notin stops => next[x] \in Dn
      BY <2>2
    <2>8. Dn \subseteq Dm
      BY <2>3
    <2>9. Good(n + 1, h) = Solves(h, Dm, V, stops, out, next, comb)
      OBVIOUS
    <2> HIDE DEF Dn, Dm, h, Good
    <2>10. h \in [Dm -> V]
      <3>1. ASSUME NEW x \in Dm PROVE h[x] \in V
        <4>1. CASE x \in stops
          BY <2>6, <4>1
        <4>2. CASE x \notin stops
          <5>1. f[next[x]] \in V /\ comb[x] \in [V -> V]
            BY <2>4, <2>5, <2>7, <4>2
          <5> QED
            BY <2>6, <4>2, <5>1
        <4> QED
          BY <4>1, <4>2
      <3> QED
        BY <2>6, <3>1
    <2>11. \A x \in Dn : h[x] = f[x]
      BY <2>4, <2>6, <2>8
    <2>12. \A x \in Dm : h[x] = IF x \in stops THEN out[x] ELSE comb[x][h[next[x]]]
      BY <2>6, <2>7, <2>11
    <2>13. Good(n + 1, h)
      BY <2>9, <2>10, <2>12 DEF Solves
    <2> QED
      BY <2>13
  <1>3. \A n \in Nat : \E f : Good(n, f)
    <2>1. \A n \in Nat : n \in P
      <3> HIDE DEF P
      <3> QED
        BY <1>1, <1>2, Induction
    <2> QED
      BY <2>1
  <1>4. ASSUME NEW m \in Nat, NEW n \in Nat, NEW g, NEW h, Good(m, g), Good(n, h)
        PROVE  \A x \in X : rank[x] < m /\ rank[x] < n => g[x] = h[x]
    <2> DEFINE Q == {x \in X : rank[x] < m /\ rank[x] < n => g[x] = h[x]}
    <2>1. ASSUME NEW x \in X, \A z \in X : rank[z] < rank[x] => z \in Q
          PROVE  x \in Q
      <3> SUFFICES ASSUME rank[x] < m, rank[x] < n PROVE g[x] = h[x]
        OBVIOUS
      <3>1. /\ g[x] = IF x \in stops THEN out[x] ELSE comb[x][g[next[x]]]
            /\ h[x] = IF x \in stops THEN out[x] ELSE comb[x][h[next[x]]]
        BY <1>4 DEF Solves
      <3>2. CASE x \notin stops
        <4>1. next[x] \in X /\ rank[next[x]] < rank[x] /\ rank[x] \in Nat /\ rank[next[x]] \in Nat
          BY <3>2
        <4>2. rank[next[x]] < m /\ rank[next[x]] < n
          BY <4>1
        <4>3. g[next[x]] = h[next[x]]
          BY <2>1, <4>1, <4>2
        <4> QED
          BY <3>1, <3>2, <4>3
      <3> QED
        BY <3>1, <3>2
    <2>2. \A x \in X : rank[x] \in Nat
      OBVIOUS
    <2>3. \A x \in X : x \in Q
      <3> HIDE DEF Q
      <3> QED
        BY <2>1, <2>2, RankInduction
    <2> QED
      BY <2>3
  <1> DEFINE at(n) == CHOOSE g : Good(n, g)
             f == [x \in X |-> at(rank[x] + 1)[x]]
  <1>5. \A n \in Nat : Good(n, at(n))
    BY <1>3
  <1> HIDE DEF at
  <1>6. ASSUME NEW x \in X
        PROVE  f[x] \in V /\ f[x] = IF x \in stops THEN out[x] ELSE comb[x][f[next[x]]]
    <2> DEFINE n == rank[x] + 1
    <2>1. n \in Nat /\ x \in D(n)
      OBVIOUS
    <2>2. Solves(at(n), D(n), V, stops, out, next, comb)
      BY <1>5, <2>1
    <2>3. at(n)[x] \in V
          /\ at(n)[x] = IF x \in stops THEN out[x] ELSE comb[x][at(n)[next[x]]]
      <3> HIDE DEF D, n
      <3> QED
        BY <2>1, <2>2 DEF Solves
    <2>4. CASE x \notin stops
      <3>1. next[x] \in X /\ rank[next[x]] < rank[x] /\ rank[next[x]] \in Nat /\ rank[x] \in Nat
        BY <2>4
      <3>2. rank[next[x]] + 1 \in Nat /\ rank[next[x]] < rank[next[x]] + 1 /\ rank[next[x]] < n
        BY <3>1
      <3> HIDE DEF n, Good
      <3>3. at(n)[next[x]] = at(rank[next[x]] + 1)[next[x]]
        BY <1>4, <1>5, <2>1, <3>1, <3>2
      <3> QED
        BY <2>3, <2>4, <3>1, <3>3 DEF n
    <2> QED
      BY <2>3, <2>4
  <1>7. Solves(f, X, V, stops, out, next, comb)
    <2> HIDE DEF f
    <2>1. f = [x \in X |-> f[x]]
      BY DEF f
    <2> QED
      BY <1>6, <2>1 DEF Solves
  <1> QED
    BY <1>7
=============================================================================
