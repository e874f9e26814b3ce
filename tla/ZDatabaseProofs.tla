-------------------------- MODULE ZDatabaseProofs --------------------------
(***************************************************************************)
(* ZDatabase keeps its invariants for any number of shells, directories,   *)
(* slots, visits and faults, and any scores; what a whole exit saved is    *)
(* what the next start loads; and a jump finds the best match.             *)
(***************************************************************************)
EXTENDS ZDatabase, Recursion, SequenceTheorems, FiniteSetTheorems

\* What can be in the file.
Item == (0..Limit) \union Entry

\* The file is a sequence, of which an entry that has a path has a rank, ...
FileOK ==
    /\ Len(file) \in Nat /\ file = [i \in 1..Len(file) |-> file[i]]
    /\ \A i \in 2..Len(file) : file[i].path # NoPath => file[i].rank > 0

\* ... and so has a slot in memory, beyond count too: the slot that a shift leaves
\* behind is the one the next entry takes, and its rank counts on.
SlotsOK ==
    \A s \in Shells : \A i \in Slot : dirs[s][i].path # NoPath => dirs[s][i].rank > 0

\* As long as the last exit's file is undisturbed nobody is saving, and it is the header
\* and the entries that exit had.
SavedOK ==
    /\ lastSaved # {} => \A s \in Shells : pc[s] # "saving"
    /\ \A E \in lastSaved :
        /\ E \in Seq(Entry) /\ Len(E) < Limit
        /\ file = <<Len(E)>> \o E
        /\ \A i \in 1..Len(E) : E[i].path # NoPath

\* The inductive invariant.
Inv == TypeOK /\ FileOK /\ SlotsOK /\ SavedOK /\ EntriesHavePaths

-----------------------------------------------------------------------------
LEMMA ConstantsOK ==
    /\ Limit \in Nat \ {0} /\ Chunk \in Nat \ {0} /\ MaxVisits \in Nat /\ MaxClock \in Nat
    /\ MaxFaults \in Nat
    /\ NoPath \notin Paths /\ Home \in Directories /\ Directories \subseteq Paths
    /\ Joined \in [Paths \X Targets -> Paths]
    /\ Fzf \in [Targets \X Paths -> Nat]
    /\ Zero \in Entry /\ Zero.path = NoPath
  BY PathsAssumption, TextAssumption, LimitAssumption DEF Zero, Entry

\* First takes the least.
LEMMA FirstIsLeast ==
    ASSUME NEW S \in SUBSET Nat, S # {}
    PROVE  First(S) \in S /\ \A j \in S : First(S) <= j
  BY Least DEF First

\* A function on 1..n is a sequence of length n.
LEMMA SequenceOf ==
    ASSUME NEW S, NEW n \in Nat, NEW f, f = [i \in 1..n |-> f[i]], \A i \in 1..n : f[i] \in S
    PROVE  f \in Seq(S) /\ Len(f) = n /\ DOMAIN f = 1..n
  <1>1. f \in [1..n -> S]
    OBVIOUS
  <1>2. f \in Seq(S)
    BY <1>1, SeqDef
  <1> QED
    BY <1>1, <1>2, LenProperties

\* The file of a state that is well typed.
LEMMA FileIsSequence ==
    ASSUME TypeOK, FileOK
    PROVE  /\ file \in Seq(Item)
           /\ \A i \in 2..Len(file) : file[i] \in Entry
           /\ Header(file) \in 0..Limit /\ (file # <<>> => Header(file) = file[1])
  <1> USE ConstantsOK
  <1>1. \A i \in 1..Len(file) : file[i] \in Item
    BY DEF TypeOK, FileOK, Item
  <1>2. file \in Seq(Item) /\ DOMAIN file = 1..Len(file)
    BY <1>1, SequenceOf DEF FileOK
  <1>3. \A i \in 2..Len(file) : file[i] \in Entry
    BY <1>2 DEF TypeOK, FileOK
  <1>4. CASE file = <<>>
    BY <1>2, <1>3, <1>4 DEF Header
  <1>5. CASE file # <<>>
    <2>1. Len(file) > 0 /\ Head(file) = file[1]
      BY <1>2, <1>5, EmptySeq
    <2> QED
      BY <1>2, <1>3, <1>5, <2>1 DEF Header, TypeOK
  <1> QED
    BY <1>4, <1>5

\* What z_read takes from it: entries, as many as the header says or as there are.
LEMMA ReadableEntries ==
    ASSUME TypeOK, FileOK
    PROVE  /\ Readable(file) \in Seq(Entry)
           /\ Len(Readable(file)) <= Header(file)
           /\ Header(file) = Limit => Readable(file) = <<>>
           /\ \A i \in 1..Len(Readable(file)) : i + 1 \in 2..Len(file) /\ Readable(file)[i] = file[i + 1]
           /\ Header(file) \in 1..(Limit - 1) =>
                Len(Readable(file)) = Smaller(Header(file) + 1, Len(file)) - 1
  <1> USE ConstantsOK, FileIsSequence
  <1>1. CASE Header(file) \in 1..(Limit - 1)
    <2> DEFINE n == Smaller(Header(file) + 1, Len(file))
    <2>1. file # <<>> /\ n \in 1..Len(file) /\ n <= Header(file) + 1
      BY <1>1 DEF Smaller, Header, FileOK
    <2>2. \A i \in 2..n : file[i] \in Entry
      BY <2>1
    <2>3. Readable(file) = SubSeq(file, 2, n)
      BY <1>1 DEF Readable
    <2> HIDE DEF n
    <2>4. /\ SubSeq(file, 2, n) \in Seq(Entry)
          /\ Len(SubSeq(file, 2, n)) = IF 2 <= n THEN n - 2 + 1 ELSE 0
          /\ \A i \in 1..(n - 2 + 1) : SubSeq(file, 2, n)[i] = file[2 + i - 1]
      BY <2>1, <2>2, SubSeqProperties
    <2> QED
      BY <1>1, <2>1, <2>3, <2>4 DEF n
  <1>2. CASE Header(file) \notin 1..(Limit - 1)
    <2>1. Readable(file) = <<>>
      BY <1>2 DEF Readable
    <2> QED
      BY <1>2, <2>1, EmptySeq
  <1> QED
    BY <1>1, <1>2

\* What z_write writes: count and as many entries, up to one without a path.
LEMMA OutputItems ==
    ASSUME TypeOK, SlotsOK, NEW s \in Shells
    PROVE  /\ Known(s) \in Seq(Entry) /\ Len(Known(s)) = count[s]
           /\ \A i \in 1..count[s] : Known(s)[i] = dirs[s][i - 1] /\ i - 1 \in Slot
           /\ Output(s) \in Seq(Item) /\ Len(Output(s)) \in 1..(count[s] + 1)
           /\ Output(s)[1] = count[s]
           /\ \A i \in 2..Len(Output(s)) :
            Output(s)[i] \in Entry /\ (Output(s)[i].path # NoPath => Output(s)[i].rank > 0)
           /\ (\A i \in Used(s) : dirs[s][i].path # NoPath) => Output(s) = <<count[s]>> \o Known(s)
  <1> USE ConstantsOK
  <1> DEFINE K == Known(s)
             n == count[s]
             missing == {i \in 1..n : K[i].path = NoPath}
             W == Writes(s)
  <1>1. n \in 0..Limit /\ dirs[s] \in [Slot -> Entry]
    BY DEF TypeOK
  <1>2. \A i \in 1..n : i - 1 \in Slot /\ K[i] = dirs[s][i - 1] /\ K[i] \in Entry
    BY <1>1 DEF Known, Slot
  <1>11. K = [i \in 1..n |-> K[i]]
    BY DEF Known
  <1>5. W = IF missing = {} THEN K ELSE SubSeq(K, 1, First(missing))
    BY DEF Writes
  <1>13. missing = {i \in 1..n : K[i].path = NoPath}
    OBVIOUS
  <1>14. Output(s) = <<n>> \o W /\ K = Known(s) /\ n = count[s]
    BY DEF Output
  <1> HIDE DEF K, n, W, missing
  <1>3. K \in Seq(Entry) /\ Len(K) = n
    BY <1>1, <1>2, <1>11, SequenceOf
  <1>4. \A i \in 1..n : K[i].path # NoPath => K[i].rank > 0
    BY <1>2 DEF SlotsOK, n
  <1>6. /\ W \in Seq(Entry) /\ Len(W) <= n
        /\ \A i \in 1..Len(W) : i \in 1..n /\ W[i] = K[i]
    <2>1. CASE missing = {}
      BY <1>1, <1>3, <1>5, <2>1
    <2>2. CASE missing # {}
      <3>1. First(missing) \in 1..n
        <4>1. missing \in SUBSET Nat /\ \A i \in missing : i \in 1..n
          BY <1>1, <1>13
        <4> QED
          BY <2>2, <4>1, FirstIsLeast
      <3> DEFINE m == First(missing)
      <3> HIDE DEF m
      <3>2. /\ SubSeq(K, 1, m) \in Seq(Entry)
            /\ Len(SubSeq(K, 1, m)) = IF 1 <= m THEN m - 1 + 1 ELSE 0
            /\ \A i \in 1..(m - 1 + 1) : SubSeq(K, 1, m)[i] = K[1 + i - 1]
        <4>1. m \in Int /\ \A i \in 1..m : K[i] \in Entry
          BY <1>1, <1>2, <3>1 DEF m
        <4> QED
          BY <4>1, SubSeqProperties
      <3> QED
        BY <1>1, <1>5, <2>2, <3>1, <3>2 DEF m
    <2> QED
      BY <2>1, <2>2
  <1>7. /\ Output(s) \in Seq(Item) /\ Len(Output(s)) = Len(W) + 1
        /\ Output(s)[1] = n
        /\ \A i \in 2..Len(Output(s)) : Output(s)[i] = W[i - 1]
    <2>1. W \in Seq(Item) /\ <<n>> \in Seq(Item) /\ Len(<<n>>) = 1 /\ <<n>>[1] = n
      BY <1>1, <1>6, SeqMonotonic DEF Item
    <2>2. Output(s) = <<n>> \o W
      BY <1>14
    <2>3. /\ <<n>> \o W \in Seq(Item)
          /\ Len(<<n>> \o W) = 1 + Len(W)
          /\ \A i \in 1..(1 + Len(W)) : (<<n>> \o W)[i] = IF i <= 1 THEN <<n>>[i] ELSE W[i - 1]
      BY <2>1, ConcatProperties
    <2>4. Len(W) \in Nat
      BY <1>6, LenProperties
    <2> QED
      BY <2>1, <2>2, <2>3, <2>4
  <1>8. Len(W) \in Nat
    BY <1>6, LenProperties
  <1>9. \A i \in 2..Len(Output(s)) : i - 1 \in 1..Len(W) /\ Output(s)[i] = K[i - 1] /\ i - 1 \in 1..n
    BY <1>6, <1>7, <1>8
  <1>10. ASSUME \A i \in Used(s) : dirs[s][i].path # NoPath
         PROVE  Output(s) = <<n>> \o K
    <2>1. \A i \in 1..n : i - 1 \in Used(s)
      BY <1>1, <1>2, <1>14 DEF Used
    <2>2. missing = {}
      BY <1>2, <1>10, <1>13, <2>1
    <2> QED
      BY <1>5, <1>14, <2>2
  <1>12. \A i \in 2..Len(Output(s)) :
            Output(s)[i] \in Entry /\ (Output(s)[i].path # NoPath => Output(s)[i].rank > 0)
    BY <1>2, <1>4, <1>9
  <1>15. Len(Output(s)) \in 1..(n + 1)
    BY <1>1, <1>6, <1>7, <1>8
  <1> QED
    BY <1>2, <1>3, <1>7, <1>10, <1>12, <1>14, <1>15

\* A write of stdio's leaves the file well typed, the hole before it included.
LEMMA FlushFile ==
    ASSUME TypeOK, FileOK, SlotsOK, NEW s \in Shells, Flush(s)
    PROVE  /\ FileOK'
           /\ \A i \in 1..Len(file') : IF i = 1 THEN file'[i] \in 0..Limit ELSE file'[i] \in Entry
           /\ DOMAIN file' = 1..Len(file')
           /\ written'[s] \in 0..(Limit + 1)
  <1> USE ConstantsOK
  <1> DEFINE out == Output(s)
             from == written[s]
             to == Smaller(from + Chunk, Len(out))
             n == Larger(Len(file), to)
  <1>1. /\ from \in Nat /\ from < Len(out) /\ Len(out) \in 1..(count[s] + 1) /\ count[s] \in 0..Limit
        /\ file' = Overlay(file, out, from, to) /\ written' = [written EXCEPT ![s] = to]
    <2>1. Len(out) \in 1..(count[s] + 1)
      BY OutputItems
    <2>2. count[s] \in 0..Limit /\ from \in Nat
      BY DEF TypeOK
    <2>3. from < Len(out) /\ file' = Overlay(file, out, from, to) /\ written' = [written EXCEPT ![s] = to]
      BY DEF Flush
    <2> QED
      BY <2>1, <2>2, <2>3
  <1>2. out[1] \in 0..Limit
    <2>1. out[1] = count[s]
      BY OutputItems
    <2>2. count[s] \in 0..Limit
      BY <1>1
    <2> QED
      BY <2>1, <2>2
  <1>10. \A i \in 2..Len(out) :
            out[i] \in Entry /\ (out[i].path # NoPath => out[i].rank > 0)
    BY OutputItems
  <1> HIDE DEF out
  <1>3. to \in Nat /\ to <= Len(out) /\ n \in Nat /\ to <= n /\ Len(file) \in Nat
    BY <1>1 DEF Smaller, Larger, FileOK
  <1>4. file' = [i \in 1..n |-> CASE i > from /\ i <= to -> out[i]
                                [] i <= Len(file) /\ ~(i > from /\ i <= to) -> file[i]
                                [] OTHER -> IF i = 1 THEN 0 ELSE Zero]
    BY <1>1 DEF Overlay
  <1>5. /\ \A i \in 2..Len(file) : file[i] \in Entry /\ (file[i].path # NoPath => file[i].rank > 0)
        /\ Len(file) > 0 => file[1] \in 0..Limit
    <2>1. file \in Seq(Item) /\ \A i \in 2..Len(file) : file[i] \in Entry
      BY FileIsSequence
    <2>2. DOMAIN file = 1..Len(file)
      BY <2>1, LenProperties
    <2>3. \A i \in 2..Len(file) : file[i].path # NoPath => file[i].rank > 0
      BY DEF FileOK
    <2>4. Len(file) > 0 => file[1] \in 0..Limit
      BY <1>3, <2>2 DEF TypeOK
    <2> QED
      BY <2>1, <2>3, <2>4
  <1> HIDE DEF from, to, n
  <1>6. ASSUME NEW i \in 1..n
        PROVE  IF i = 1 THEN file'[i] \in 0..Limit
               ELSE file'[i] \in Entry /\ (file'[i].path # NoPath => file'[i].rank > 0)
    <2>1. CASE i > from /\ i <= to
      <3>1. i \in 1..Len(out) /\ file'[i] = out[i]
        BY <1>1, <1>3, <1>4, <2>1
      <3> QED
        BY <1>2, <1>10, <3>1
    <2>2. CASE i <= Len(file) /\ ~(i > from /\ i <= to)
      <3>1. i \in 1..Len(file) /\ file'[i] = file[i]
        BY <1>3, <1>4, <2>2
      <3> QED
        BY <1>5, <3>1
    <2>3. CASE ~(i > from /\ i <= to) /\ ~(i <= Len(file))
      <3>1. file'[i] = IF i = 1 THEN 0 ELSE Zero
        BY <1>4, <2>3
      <3> QED
        BY <3>1
    <2> QED
      BY <2>1, <2>2, <2>3
  <1>7. Len(file') = n /\ DOMAIN file' = 1..n
    <2>1. file' = [i \in 1..n |-> file'[i]]
      BY <1>4
    <2>2. \A i \in 1..n : file'[i] \in Item
      BY <1>6 DEF Item
    <2> QED
      BY <1>3, <2>1, <2>2, SequenceOf
  <1>8. FileOK'
    <2>1. file' = [i \in 1..n |-> file'[i]]
      BY <1>4
    <2> QED
      BY <1>3, <1>6, <1>7, <2>1 DEF FileOK
  <1>9. written'[s] \in 0..(Limit + 1)
    BY <1>1, <1>3 DEF TypeOK
  <1> QED
    BY <1>6, <1>7, <1>8, <1>9

\* Scores are numbers where every entry has a path.
LEMMA ScoreIsNumber ==
    ASSUME TypeOK, NEW s \in Shells, NEW t \in Targets, ~Pathless(s), NEW i \in Used(s)
    PROVE  Score(s, i, t) \in Int
  <1>1. dirs[s][i].path \in Paths /\ dirs[s][i].rank \in Nat /\ dirs[s][i].last_accessed \in Nat
    <2>1. dirs[s][i] \in Entry
      BY DEF TypeOK, Used
    <2>2. dirs[s][i].path # NoPath
      BY DEF Pathless
    <2> QED
      BY <2>1, <2>2 DEF Entry
  <1>5. clock \in Nat
    BY ConstantsOK DEF TypeOK
  <1>2. Fzf[<<t, dirs[s][i].path>>] \in Nat
    BY <1>1, ConstantsOK
  <1>3. \A age \in Int : Weight(age) \in Nat
    BY DEF Weight
  <1>4. Weight(clock - dirs[s][i].last_accessed) \in Nat
    BY <1>1, <1>3, <1>5
  <1> DEFINE w == Weight(clock - dirs[s][i].last_accessed)
             r == dirs[s][i].rank
             z == Fzf[<<t, dirs[s][i].path>>]
  <1>6. Score(s, i, t) = r * w + 4 * z
    BY DEF Score
  <1>7. r \in Nat /\ w \in Nat /\ z \in Nat
    BY <1>1, <1>2, <1>4
  <1> HIDE DEF r, w, z
  <1> QED
    BY <1>6, <1>7

\* The loop of z_match_find ends with the best candidate, or with none where there is
\* none: by induction over the entries it has passed.
LEMMA MatchFindOK ==
    ASSUME TypeOK, NEW s \in Shells, NEW t \in Targets, ~Pathless(s)
    PROVE  /\ MatchFind(s, t) = -1 => \A i \in Used(s) : ~Candidate(s, i, t)
           /\ MatchFind(s, t) # -1 =>
                /\ MatchFind(s, t) \in Used(s) /\ Candidate(s, MatchFind(s, t), t)
                /\ \A i \in Used(s) :
                     Candidate(s, i, t) => Score(s, i, t) <= Score(s, MatchFind(s, t), t)
  <1> DEFINE n == count[s]
             next(i, b) == IF Candidate(s, i, t) /\ (b = -1 \/ Score(s, b, t) < Score(s, i, t))
                           THEN i ELSE b
             Loop(g) == [k \in 0..n |-> IF k = 0 THEN -1 ELSE next(k - 1, g[k - 1])]
             best == CHOOSE g : g = Loop(g)
             step == [i \in Nat |-> [b \in Int |-> next(i, b)]]
  <1>1. n \in 0..Limit /\ Limit \in Nat
    BY ConstantsOK DEF TypeOK
  <1>2. MatchFind(s, t) = best[n]
    BY DEF MatchFind
  <1>3. \E g : g = Loop(g)
    <2> DEFINE none == -1
               I == Int
    <2>1. step \in [Nat -> [I -> I]] /\ none \in I
      OBVIOUS
    <2>2. \A i \in Nat, b \in Int : step[i][b] = next(i, b)
      OBVIOUS
    <2> HIDE DEF step, none, I
    <2>7. PICK f : Iterates(f, I, none, step)
      BY <2>1, Iteration
    <2>3. f \in [Nat -> I] /\ f[0] = none /\ \A i \in Nat : f[i + 1] = step[i][f[i]]
      BY <2>7 DEF Iterates
    <2> HIDE DEF next
    <2>4. \A k \in 0..n : f[k] = IF k = 0 THEN -1 ELSE next(k - 1, f[k - 1])
      <3>1. ASSUME NEW k \in 0..n, k # 0 PROVE f[k] = next(k - 1, f[k - 1])
        <4>1. k - 1 \in Nat /\ (k - 1) + 1 = k
          BY <1>1, <3>1
        <4>2. f[k] = step[k - 1][f[k - 1]] /\ f[k - 1] \in Int
          BY <2>3, <4>1 DEF I
        <4> QED
          BY <2>2, <4>1, <4>2
      <3> QED
        BY <2>3, <3>1 DEF none
    <2> DEFINE g == [k \in 0..n |-> f[k]]
    <2>5. \A k \in 0..n : g[k] = f[k] /\ (k # 0 => g[k - 1] = f[k - 1])
      BY <1>1
    <2>6. g = Loop(g)
      BY <2>4, <2>5
    <2> QED
      BY <2>6
  <1>4. best = Loop(best)
    BY <1>3
  <1>5. best[0] = -1 /\ \A k \in 1..n : best[k] = next(k - 1, best[k - 1])
    <2> HIDE DEF best, next
    <2> QED
      BY <1>1, <1>4
  <1> DEFINE Best(k, b) ==
                /\ b = -1 => \A i \in 0..(k - 1) : ~Candidate(s, i, t)
                /\ b # -1 => /\ b \in 0..(k - 1) /\ Candidate(s, b, t)
                             /\ \A i \in 0..(k - 1) :
                                  Candidate(s, i, t) => Score(s, i, t) <= Score(s, b, t)
             Passed == {k \in Nat : k <= n => Best(k, best[k])}
  <1> HIDE DEF best
  <1>6. \A i \in 0..(n - 1) : i \in Slot /\ (Candidate(s, i, t) => Score(s, i, t) \in Int)
    <2>1. \A i \in 0..(n - 1) : i \in Slot /\ i \in Used(s)
      BY <1>1 DEF Slot, Used
    <2> QED
      BY <2>1, ScoreIsNumber
  <1>7. 0 \in Passed
    BY <1>5
  <1>8. ASSUME NEW k \in Nat, k \in Passed PROVE k + 1 \in Passed
    <2>1. SUFFICES ASSUME k + 1 <= n PROVE Best(k + 1, best[k + 1])
      OBVIOUS
    <2>2. best[k + 1] = next(k, best[k]) /\ Best(k, best[k])
      BY <1>1, <1>5, <1>8, <2>1
    <2> DEFINE b == best[k]
    <2>3. \A i \in 0..k : i \in 0..(k - 1) \/ i = k
      OBVIOUS
    <2>4. \A i \in 0..k : Candidate(s, i, t) => Score(s, i, t) \in Int
      BY <1>1, <1>6, <2>1
    <2> HIDE DEF b
    <2>5. CASE Candidate(s, k, t) /\ (b = -1 \/ Score(s, b, t) < Score(s, k, t))
      <3>1. best[k + 1] = k /\ k \in 0..k
        BY <2>2, <2>5 DEF b
      <3>2. ASSUME NEW i \in 0..k, Candidate(s, i, t)
            PROVE  Score(s, i, t) <= Score(s, k, t)
        <4>1. CASE i = k
          BY <2>4, <2>5, <4>1
        <4>2. CASE i # k
          <5>1. i \in 0..(k - 1)
            BY <4>2
          <5>2. b # -1 /\ b \in 0..k /\ Score(s, b, t) < Score(s, k, t) /\ Candidate(s, b, t)
                /\ Score(s, i, t) <= Score(s, b, t)
            BY <2>2, <2>5, <3>2, <5>1 DEF b
          <5> QED
            BY <2>4, <2>5, <3>1, <3>2, <5>2
        <4> QED
          BY <4>1, <4>2
      <3> QED
        BY <2>5, <3>1, <3>2
    <2>6. CASE ~(Candidate(s, k, t) /\ (b = -1 \/ Score(s, b, t) < Score(s, k, t)))
      <3>1. best[k + 1] = b /\ Best(k, b)
        BY <2>2, <2>6 DEF b
      <3>2. CASE b = -1
        BY <2>3, <2>6, <3>1, <3>2
      <3>3. CASE b # -1
        <4>1. b \in 0..k /\ Candidate(s, b, t) /\ Score(s, b, t) \in Int
          BY <2>4, <3>1, <3>3
        <4>2. Candidate(s, k, t) => Score(s, k, t) <= Score(s, b, t)
          BY <2>4, <2>6, <3>3, <4>1
        <4> QED
          BY <2>3, <3>1, <3>3, <4>1, <4>2
      <3> QED
        BY <3>2, <3>3
    <2> QED
      BY <2>5, <2>6
  <1>9. Best(n, best[n])
    <2>1. \A k \in Nat : k \in Passed
      <3> HIDE DEF Passed
      <3> QED
        BY <1>7, <1>8, Induction
    <2> QED
      BY <1>1, <2>1
  <1>10. Used(s) = 0..(n - 1)
    BY <1>1 DEF Used, Slot
  <1> QED
    BY <1>2, <1>9, <1>10

-----------------------------------------------------------------------------
(* Every step keeps the invariant.                                         *)

\* A step that gives one shell other entries keeps what is said of the entries, if the
\* new ones are as they should be.
LEMMA MemoryStep ==
    ASSUME Inv, NEW s \in Shells, NEW D, NEW c, D \in [Slot -> Entry], c \in 0..Limit,
           dirs' = [dirs EXCEPT ![s] = D], count' = [count EXCEPT ![s] = c],
           \A o \in Shells \ {s} : loadedWhole'[o] = loadedWhole[o],
           \A i \in Slot : D[i].path # NoPath => D[i].rank > 0,
           loadedWhole'[s] => \A i \in Slot : i < c => D[i].path # NoPath
    PROVE  /\ dirs' \in [Shells -> [Slot -> Entry]] /\ count' \in [Shells -> 0..Limit]
           /\ SlotsOK' /\ EntriesHavePaths'
  <1>1. dirs \in [Shells -> [Slot -> Entry]] /\ count \in [Shells -> 0..Limit]
    BY DEF Inv, TypeOK
  <1>2. dirs' \in [Shells -> [Slot -> Entry]] /\ count' \in [Shells -> 0..Limit]
    BY <1>1
  <1>3. dirs'[s] = D /\ count'[s] = c
    BY <1>1
  <1>4. \A o \in Shells \ {s} : dirs'[o] = dirs[o] /\ count'[o] = count[o]
    BY <1>1
  <1>5. SlotsOK'
    BY <1>3, <1>4 DEF Inv, SlotsOK
  <1>6. ASSUME NEW o \in Shells, loadedWhole'[o], NEW i \in Slot, i < count'[o]
        PROVE  dirs'[o][i].path # NoPath /\ dirs'[o][i].rank > 0
    <2>1. CASE o = s
      BY <1>3, <1>6, <2>1
    <2>2. CASE o # s
      BY <1>4, <1>6, <2>2 DEF Inv, EntriesHavePaths, Used
    <2> QED
      BY <2>1, <2>2
  <1>7. EntriesHavePaths'
    BY <1>6 DEF EntriesHavePaths, Used
  <1> QED
    BY <1>2, <1>5, <1>7

\* A shell's memory is zeroed when it is gone.
LEMMA GoneStep ==
    ASSUME Inv, NEW s \in Shells, Gone(s)
    PROVE  /\ dirs' \in [Shells -> [Slot -> Entry]] /\ count' \in [Shells -> 0..Limit]
           /\ pc' \in [Shells -> {"off", "running", "saving", "refused"}]
           /\ cwd' \in [Shells -> Paths] /\ written' \in [Shells -> 0..(Limit + 1)]
           /\ loadedWhole' \in [Shells -> BOOLEAN]
           /\ SlotsOK' /\ EntriesHavePaths'
           /\ \A o \in Shells : pc'[o] = IF o = s THEN "off" ELSE pc[o]
  <1> DEFINE D == [i \in Slot |-> Zero]
  <1>1. /\ D \in [Slot -> Entry] /\ 0 \in 0..Limit
        /\ \A i \in Slot : D[i].path = NoPath
    BY ConstantsOK
  <1>2. /\ dirs' = [dirs EXCEPT ![s] = D] /\ count' = [count EXCEPT ![s] = 0]
        /\ loadedWhole' = [loadedWhole EXCEPT ![s] = TRUE]
        /\ pc' = [pc EXCEPT ![s] = "off"] /\ cwd' = [cwd EXCEPT ![s] = Home]
        /\ written' = [written EXCEPT ![s] = 0]
    BY DEF Gone
  <1>3. /\ loadedWhole \in [Shells -> BOOLEAN] /\ cwd \in [Shells -> Paths]
        /\ pc \in [Shells -> {"off", "running", "saving", "refused"}]
        /\ written \in [Shells -> 0..(Limit + 1)]
    BY DEF Inv, TypeOK
  <1>4. \A i \in Slot : ~(i < 0)
    BY ConstantsOK DEF Slot
  <1> HIDE DEF D
  <1>5. /\ dirs' \in [Shells -> [Slot -> Entry]] /\ count' \in [Shells -> 0..Limit]
        /\ SlotsOK' /\ EntriesHavePaths'
    <2>1. \A o \in Shells \ {s} : loadedWhole'[o] = loadedWhole[o]
      BY <1>2, <1>3
    <2>2. \A i \in Slot : D[i].path # NoPath => D[i].rank > 0
      BY <1>1
    <2>3. loadedWhole'[s] => \A i \in Slot : i < 0 => D[i].path # NoPath
      BY <1>4
    <2> QED
      BY <1>1, <1>2, <2>1, <2>2, <2>3, MemoryStep
  <1>6. /\ loadedWhole' \in [Shells -> BOOLEAN] /\ cwd' \in [Shells -> Paths]
        /\ pc' \in [Shells -> {"off", "running", "saving", "refused"}]
        /\ written' \in [Shells -> 0..(Limit + 1)]
    BY <1>2, <1>3, ConstantsOK
  <1>7. \A o \in Shells : pc'[o] = IF o = s THEN "off" ELSE pc[o]
    BY <1>2, <1>3
  <1> QED
    BY <1>5, <1>6, <1>7

\* A shell that starts has in memory what the file says.
LEMMA StartStep ==
    ASSUME Inv, NEW s \in Shells, Start(s)
    PROVE  Inv'
  <1> DEFINE R == Readable(file)
             D == [i \in Slot |-> IF i < Len(R) THEN R[i + 1] ELSE Zero]
             c == Header(file)
  <1>1. TypeOK /\ FileOK
    BY DEF Inv
  <1>2. /\ UNCHANGED <<written, file, world, lastSaved>>
        /\ cwd' = [cwd EXCEPT ![s] = Home]
        /\ pc[s] = "off"
    BY DEF Start
  <1>3. /\ R \in Seq(Entry) /\ Len(R) <= c /\ c \in 0..Limit
        /\ \A i \in 1..Len(R) : i + 1 \in 2..Len(file) /\ R[i] = file[i + 1]
    <2>1. /\ R \in Seq(Entry) /\ Len(R) <= c
          /\ \A i \in 1..Len(R) : i + 1 \in 2..Len(file) /\ R[i] = file[i + 1]
      BY <1>1, ReadableEntries
    <2>2. c \in 0..Limit
      BY <1>1, FileIsSequence
    <2> QED
      BY <2>1, <2>2
  <1>4. CASE Unreadable(file)
    <2>1. pc' = [pc EXCEPT ![s] = "refused"] /\ UNCHANGED <<database, loadedWhole>>
      BY <1>4 DEF Start
    <2>2. TypeOK'
      BY <1>1, <1>2, <2>1, ConstantsOK DEF TypeOK, database, world
    <2>3. FileOK' /\ SlotsOK' /\ EntriesHavePaths'
      BY <1>2, <2>1 DEF Inv, FileOK, SlotsOK, EntriesHavePaths, Used, database, world
    <2>4. SavedOK'
      <3>1. \A o \in Shells : pc[o] # "saving" => pc'[o] # "saving"
        BY <1>1, <2>1 DEF TypeOK
      <3> QED
        BY <1>2, <3>1 DEF Inv, SavedOK
    <2> QED
      BY <2>2, <2>3, <2>4 DEF Inv
  <1>5. CASE ~Unreadable(file)
    <2>1. /\ pc' = [pc EXCEPT ![s] = "running"]
          /\ dirs' = [dirs EXCEPT ![s] = D] /\ count' = [count EXCEPT ![s] = c]
          /\ loadedWhole' = [loadedWhole EXCEPT ![s] = Whole(file)]
      BY <1>5 DEF Start
    <2>2. \A i \in 1..Len(R) : R[i].path # NoPath /\ R[i].rank > 0
      <3>1. \A i \in 1..Len(R) : R[i].path # NoPath
        BY <1>3, <1>5 DEF Unreadable
      <3> QED
        BY <1>1, <1>3, <3>1 DEF FileOK
    <2>3. /\ D \in [Slot -> Entry]
          /\ \A i \in Slot : D[i].path # NoPath => D[i].rank > 0
          /\ \A i \in Slot : i < Len(R) => D[i].path # NoPath
      <3>1. \A i \in Slot : i < Len(R) => i + 1 \in 1..Len(R) /\ R[i + 1] \in Entry
        BY <1>3, ConstantsOK DEF Slot
      <3> HIDE DEF R
      <3> QED
        BY <2>2, <3>1, ConstantsOK
    <2>4. Whole(file) => Len(R) = c
      BY DEF Whole
    <2> HIDE DEF R, D, c
    <2>5. loadedWhole' \in [Shells -> BOOLEAN] /\ loadedWhole'[s] = Whole(file)
          /\ \A o \in Shells \ {s} : loadedWhole'[o] = loadedWhole[o]
      BY <1>1, <2>1 DEF TypeOK, Whole
    <2>6. /\ dirs' \in [Shells -> [Slot -> Entry]] /\ count' \in [Shells -> 0..Limit]
          /\ SlotsOK' /\ EntriesHavePaths'
      BY <1>3, <2>1, <2>3, <2>4, <2>5, MemoryStep
    <2>7. TypeOK'
      BY <1>1, <1>2, <2>1, <2>5, <2>6, ConstantsOK DEF TypeOK, world
    <2>8. FileOK'
      BY <1>1, <1>2 DEF FileOK
    <2>9. SavedOK'
      <3>1. \A o \in Shells : pc[o] # "saving" => pc'[o] # "saving"
        BY <1>1, <2>1 DEF TypeOK
      <3> QED
        BY <1>2, <3>1 DEF Inv, SavedOK
    <2> QED
      BY <2>6, <2>7, <2>8, <2>9 DEF Inv
  <1> QED
    BY <1>4, <1>5

\* What the commands leave alone: pc, the file and what was last saved.
LEMMA CommandStep ==
    ASSUME Inv, NEW s \in Shells, NEW D, NEW c, D \in [Slot -> Entry], c \in 0..Limit,
           Running(s), UNCHANGED <<pc, written, file, existing, clock, faults, loadedWhole, lastSaved>>,
           cwd' \in [Shells -> Paths],
           dirs' = [dirs EXCEPT ![s] = D], count' = [count EXCEPT ![s] = c],
           \A i \in Slot : D[i].path # NoPath => D[i].rank > 0,
           loadedWhole[s] => \A i \in Slot : i < c => D[i].path # NoPath
    PROVE  Inv'
  <1>1. /\ dirs' \in [Shells -> [Slot -> Entry]] /\ count' \in [Shells -> 0..Limit]
        /\ SlotsOK' /\ EntriesHavePaths'
    BY MemoryStep
  <1>2. visits' \in 0..MaxVisits
    BY ConstantsOK DEF Inv, TypeOK, Running
  <1>3. TypeOK'
    BY <1>1, <1>2 DEF Inv, TypeOK
  <1>4. FileOK' /\ SavedOK'
    BY DEF Inv, FileOK, SavedOK
  <1> QED
    BY <1>1, <1>3, <1>4 DEF Inv

\* An entry that is used again.
LEMMA TouchStep ==
    ASSUME Inv, NEW s \in Shells, NEW i \in Used(s), Touch(s, i), UNCHANGED count,
           Running(s), UNCHANGED <<pc, written, file, existing, clock, faults, loadedWhole, lastSaved>>,
           cwd' \in [Shells -> Paths]
    PROVE  Inv'
  <1> DEFINE d == dirs[s]
             D == [d EXCEPT ![i].rank = @ + 1, ![i].last_accessed = clock]
  <1>1. /\ d \in [Slot -> Entry] /\ dirs \in [Shells -> [Slot -> Entry]]
        /\ count \in [Shells -> 0..Limit] /\ clock \in Nat /\ i \in Slot /\ i < count[s]
    BY ConstantsOK DEF Inv, TypeOK, Used
  <1>2. dirs' = [dirs EXCEPT ![s] = D]
    BY <1>1 DEF Touch
  <1>3. D[i] = [path |-> d[i].path, rank |-> d[i].rank + 1, last_accessed |-> clock]
        /\ \A j \in Slot \ {i} : D[j] = d[j]
    BY <1>1 DEF Entry
  <1>4. d[i].rank \in Nat /\ d[i].path \in Paths \union {NoPath}
    BY <1>1 DEF Entry
  <1>5. \A j \in Slot : D[j] \in Entry /\ D[j].path = d[j].path
    BY <1>1, <1>3, <1>4 DEF Entry
  <1>6. D \in [Slot -> Entry]
    BY <1>1, <1>5
  <1>7. \A j \in Slot : D[j].path # NoPath => D[j].rank > 0
    BY <1>3, <1>4, <1>5 DEF Inv, SlotsOK
  <1>8. loadedWhole[s] => \A j \in Slot : j < count[s] => D[j].path # NoPath
    BY <1>5 DEF Inv, EntriesHavePaths, Used
  <1>9. count' = [count EXCEPT ![s] = count[s]] /\ count[s] \in 0..Limit
    BY <1>1
  <1> HIDE DEF D
  <1> QED
    BY <1>2, <1>6, <1>7, <1>8, <1>9, CommandStep

\* A new entry.
LEMMA AddEntryStep ==
    ASSUME Inv, NEW s \in Shells, NEW p \in Paths, count[s] < Limit, AddEntry(s, p),
           Running(s), UNCHANGED <<pc, written, file, existing, clock, faults, loadedWhole, lastSaved>>,
           cwd' \in [Shells -> Paths]
    PROVE  Inv'
  <1> DEFINE d == dirs[s]
             n == count[s]
             D == [d EXCEPT ![n] = [path |-> p, rank |-> d[n].rank + 1, last_accessed |-> clock]]
  <1>1. /\ d \in [Slot -> Entry] /\ dirs \in [Shells -> [Slot -> Entry]]
        /\ count \in [Shells -> 0..Limit] /\ clock \in Nat /\ n \in Slot /\ n \in 0..Limit
    BY ConstantsOK DEF Inv, TypeOK, Slot
  <1>2. dirs' = [dirs EXCEPT ![s] = D] /\ count' = [count EXCEPT ![s] = n + 1]
    BY <1>1 DEF AddEntry
  <1>3. D[n] = [path |-> p, rank |-> d[n].rank + 1, last_accessed |-> clock]
        /\ \A j \in Slot \ {n} : D[j] = d[j]
    BY <1>1
  <1>4. d[n].rank \in Nat /\ p # NoPath
    BY <1>1, ConstantsOK DEF Entry
  <1>5. D[n] \in Entry /\ D[n].path # NoPath /\ D[n].rank > 0
    BY <1>1, <1>3, <1>4 DEF Entry
  <1>6. D \in [Slot -> Entry]
    BY <1>1, <1>5
  <1>7. \A j \in Slot : D[j].path # NoPath => D[j].rank > 0
    BY <1>3, <1>5 DEF Inv, SlotsOK
  <1>8. loadedWhole[s] => \A j \in Slot : j < n + 1 => D[j].path # NoPath
    <2>1. \A j \in Slot : j < n + 1 => j = n \/ (j \in Slot \ {n} /\ j < n)
      BY <1>1, ConstantsOK DEF Slot
    <2> QED
      BY <1>3, <1>5, <2>1 DEF Inv, EntriesHavePaths, Used
  <1>9. n + 1 \in 0..Limit
    BY <1>1, ConstantsOK
  <1> HIDE DEF D, n
  <1> QED
    BY <1>2, <1>6, <1>7, <1>8, <1>9, CommandStep

\* The first entry of a directory is one of those that count.
LEMMA HoldingFirst ==
    ASSUME NEW s \in Shells, NEW p, Holding(s, p) # {}
    PROVE  First(Holding(s, p)) \in Holding(s, p)
  <1>1. Holding(s, p) \in SUBSET Nat
    BY ConstantsOK DEF Holding, Used, Slot
  <1> QED
    BY <1>1, FirstIsLeast

\* z add
LEMMA AddStep ==
    ASSUME Inv, NEW s \in Shells, NEW p \in Paths, Add(s, p)
    PROVE  Inv'
  <1>1. /\ Running(s)
        /\ UNCHANGED <<pc, cwd, written, file, existing, clock, faults, loadedWhole, lastSaved>>
    BY DEF Add
  <1>2. cwd' \in [Shells -> Paths]
    BY <1>1 DEF Inv, TypeOK
  <1>3. CASE Holding(s, p) # {} /\ Touch(s, First(Holding(s, p))) /\ UNCHANGED count
    <2>1. First(Holding(s, p)) \in Used(s)
      BY <1>3, HoldingFirst DEF Holding
    <2> QED
      BY <1>1, <1>2, <1>3, <2>1, TouchStep
  <1>4. CASE Holding(s, p) = {} /\ count[s] < Limit /\ AddEntry(s, p)
    BY <1>1, <1>2, <1>4, AddEntryStep
  <1> QED
    BY <1>3, <1>4 DEF Add

\* z rm: the zeroed slot is shifted out of those that count.
LEMMA RemoveStep ==
    ASSUME Inv, NEW s \in Shells, NEW p \in Paths, Remove(s, p)
    PROVE  Inv'
  <1> DEFINE d == dirs[s]
             n == count[s]
             h == First(Holding(s, p))
             z == [d EXCEPT ![h] = Zero]
             D == Shift(z, h, n)
  <1>1. /\ Running(s)
        /\ UNCHANGED <<pc, cwd, written, file, existing, clock, faults, loadedWhole, lastSaved>>
    BY DEF Remove
  <1>2. cwd' \in [Shells -> Paths]
    BY <1>1 DEF Inv, TypeOK
  <1>3. /\ d \in [Slot -> Entry] /\ dirs \in [Shells -> [Slot -> Entry]]
        /\ count \in [Shells -> 0..Limit] /\ n \in 0..Limit
    BY ConstantsOK DEF Inv, TypeOK, Slot
  <1>4. h \in Slot /\ h < n
    BY HoldingFirst DEF Remove, Holding, Used
  <1>5. dirs' = [dirs EXCEPT ![s] = D] /\ count' = [count EXCEPT ![s] = n - 1]
    BY <1>3 DEF Remove
  <1>6. /\ z \in [Slot -> Entry] /\ z[h] = Zero /\ \A i \in Slot \ {h} : z[i] = d[i]
    BY <1>3, <1>4, ConstantsOK
  <1>7. \A i \in Slot : IF i >= h /\ i < n - 1 THEN i + 1 \in Slot /\ i + 1 < n /\ D[i] = z[i + 1]
                                               ELSE D[i] = z[i]
    BY <1>3, <1>4, ConstantsOK DEF Slot, Shift
  <1>8. DOMAIN D = Slot /\ D = [i \in Slot |-> D[i]]
    BY DEF Shift
  <1>9. n - 1 \in 0..Limit
    BY <1>3, <1>4, ConstantsOK DEF Slot
  <1>10. \A i \in Slot : z[i].path # NoPath => z[i].rank > 0
    BY <1>6, ConstantsOK DEF Inv, SlotsOK
  <1>11. ASSUME loadedWhole[s], NEW i \in Slot, i < n, i # h
         PROVE  z[i].path # NoPath
    BY <1>6, <1>11 DEF Inv, EntriesHavePaths, Used
  <1> HIDE DEF D, z, d, n, h
  <1>12. D \in [Slot -> Entry] /\ \A i \in Slot : D[i].path # NoPath => D[i].rank > 0
    <2>1. \A i \in Slot : D[i] \in Entry /\ (D[i].path # NoPath => D[i].rank > 0)
      BY <1>6, <1>7, <1>10
    <2> QED
      BY <1>8, <2>1
  <1>13. ASSUME loadedWhole[s], NEW i \in Slot, i < n - 1
         PROVE  D[i].path # NoPath
    <2>1. CASE i >= h
      <3>1. i + 1 \in Slot /\ i + 1 < n /\ D[i] = z[i + 1]
        BY <1>7, <1>13, <2>1
      <3>2. i + 1 # h
        BY <1>4, <1>13, <2>1, ConstantsOK DEF Slot
      <3> QED
        BY <1>11, <1>13, <3>1, <3>2
    <2>2. CASE ~(i >= h)
      <3>1. D[i] = z[i] /\ i < n /\ i # h
        BY <1>3, <1>4, <1>7, <1>13, <2>2, ConstantsOK DEF Slot
      <3> QED
        BY <1>11, <1>13, <3>1
    <2> QED
      BY <2>1, <2>2
  <1> QED
    BY <1>1, <1>2, <1>5, <1>9, <1>12, <1>13, CommandStep

\* z with a target.
LEMMA JumpStep ==
    ASSUME Inv, NEW s \in Shells, NEW t \in Targets, JumpToMatch(s, t) \/ JumpToTarget(s, t)
    PROVE  Inv'
  <1>1. /\ cwd \in [Shells -> Paths] /\ existing \subseteq Paths /\ TypeOK
    BY ConstantsOK DEF Inv, TypeOK
  <1>2. CASE JumpToMatch(s, t)
    <2> DEFINE m == MatchFind(s, t)
    <2>1. /\ Running(s) /\ ~Pathless(s) /\ Touch(s, m) /\ UNCHANGED count
          /\ cwd' = [cwd EXCEPT ![s] = dirs[s][m].path]
          /\ UNCHANGED <<pc, written, file, existing, clock, faults, loadedWhole, lastSaved>>
      BY <1>2 DEF JumpToMatch
    <2>2. m # -1 /\ dirs[s][m].path \in existing
      BY <1>2 DEF JumpToMatch, ReachesMatch
    <2>3. m \in Used(s)
      BY <1>1, <2>1, <2>2, MatchFindOK
    <2> HIDE DEF m
    <2>4. cwd' \in [Shells -> Paths]
      BY <1>1, <2>1, <2>2
    <2> QED
      BY <2>1, <2>3, <2>4, TouchStep
  <1>3. CASE JumpToTarget(s, t)
    <2> DEFINE p == Joined[<<cwd[s], t>>]
               r == Resolve[<<cwd[s], t>>]
    <2>1. /\ Running(s) /\ r \in existing
          /\ cwd' = [cwd EXCEPT ![s] = r]
          /\ UNCHANGED <<pc, written, file, existing, clock, faults, loadedWhole, lastSaved>>
          /\ IF count[s] + 1 >= Limit THEN UNCHANGED database ELSE AddEntry(s, p)
      BY <1>3 DEF JumpToTarget
    <2>2. p \in Paths
      BY <1>1, ConstantsOK
    <2> HIDE DEF p, r
    <2>3. cwd' \in [Shells -> Paths]
      BY <1>1, <2>1
    <2>4. CASE count[s] + 1 >= Limit
      <3>1. UNCHANGED database
        BY <2>1, <2>4
      <3>2. visits' \in 0..MaxVisits
        BY <2>1, ConstantsOK DEF Inv, TypeOK, Running
      <3>3. TypeOK'
        BY <1>1, <2>1, <2>3, <3>1, <3>2 DEF TypeOK, database
      <3> QED
        BY <2>1, <3>1, <3>3
           DEF Inv, FileOK, SlotsOK, SavedOK, EntriesHavePaths, Used, database
    <2>5. CASE ~(count[s] + 1 >= Limit)
      <3>1. AddEntry(s, p) /\ count[s] < Limit
        BY <1>1, <2>1, <2>5, ConstantsOK DEF TypeOK
      <3> QED
        BY <2>1, <2>2, <2>3, <3>1, AddEntryStep
    <2> QED
      BY <2>4, <2>5
  <1> QED
    BY <1>2, <1>3

\* z without a target, and cd.
LEMMA ChangeDirectoryStep ==
    ASSUME Inv, NEW s \in Shells, NEW p \in Paths, ChangeDirectory(s, p)
    PROVE  Inv'
  <1>1. /\ cwd \in [Shells -> Paths] /\ Running(s)
        /\ cwd' = [cwd EXCEPT ![s] = p]
        /\ UNCHANGED <<pc, database, written, file, existing, clock, faults, loadedWhole, lastSaved>>
    BY DEF ChangeDirectory, Inv, TypeOK
  <1>2. visits' \in 0..MaxVisits /\ cwd' \in [Shells -> Paths]
    BY <1>1, ConstantsOK DEF Inv, TypeOK, Running
  <1>3. TypeOK'
    BY <1>1, <1>2 DEF Inv, TypeOK, database
  <1> QED
    BY <1>1, <1>3 DEF Inv, FileOK, SlotsOK, SavedOK, EntriesHavePaths, Used, database

\* fopen
LEMMA TruncateStep ==
    ASSUME Inv, NEW s \in Shells, Truncate(s)
    PROVE  Inv'
  <1>1. /\ pc' = [pc EXCEPT ![s] = "saving"] /\ written' = [written EXCEPT ![s] = 0]
        /\ file' = <<>> /\ lastSaved' = {} /\ UNCHANGED <<database, cwd, world, loadedWhole>>
    BY DEF Truncate
  <1>2. DOMAIN file' = {} /\ Len(file') = 0
    BY <1>1, EmptySeq
  <1>3. TypeOK'
    BY <1>1, <1>2, ConstantsOK DEF Inv, TypeOK, database, world
  <1>4. FileOK'
    <2>1. \A f : f = <<>> => f = [i \in 1..0 |-> f[i]]
      OBVIOUS
    <2>2. file' = [i \in 1..Len(file') |-> file'[i]]
      BY <1>1, <1>2, <2>1
    <2> QED
      BY <1>2, <2>2 DEF FileOK
  <1>5. SlotsOK' /\ EntriesHavePaths' /\ SavedOK'
    BY <1>1 DEF Inv, SlotsOK, EntriesHavePaths, SavedOK, Used, database
  <1> QED
    BY <1>3, <1>4, <1>5 DEF Inv

\* fwrite
LEMMA FlushStep ==
    ASSUME Inv, NEW s \in Shells, Flush(s)
    PROVE  Inv'
  <1>1. TypeOK /\ FileOK /\ SlotsOK
    BY DEF Inv
  <1>2. /\ FileOK' /\ DOMAIN file' = 1..Len(file')
        /\ \A i \in 1..Len(file') : IF i = 1 THEN file'[i] \in 0..Limit ELSE file'[i] \in Entry
        /\ written'[s] \in 0..(Limit + 1)
    BY <1>1, FlushFile
  <1>3. /\ pc[s] = "saving" /\ UNCHANGED <<pc, database, cwd, world, loadedWhole, lastSaved>>
        /\ \E n : written' = [written EXCEPT ![s] = n]
    BY DEF Flush
  <1>4. written' \in [Shells -> 0..(Limit + 1)]
    BY <1>1, <1>2, <1>3 DEF TypeOK
  <1>5. TypeOK'
    BY <1>1, <1>2, <1>3, <1>4 DEF TypeOK, database, world
  <1>6. SlotsOK' /\ EntriesHavePaths'
    BY <1>3 DEF Inv, SlotsOK, EntriesHavePaths, Used, database
  <1>7. lastSaved' = {}
    BY <1>3 DEF Inv, SavedOK
  <1>8. SavedOK'
    BY <1>7 DEF SavedOK
  <1> QED
    BY <1>2, <1>5, <1>6, <1>8 DEF Inv

\* fclose
LEMMA CloseStep ==
    ASSUME Inv, NEW s \in Shells, Close(s)
    PROVE  Inv'
  <1> DEFINE undisturbed == /\ file = Output(s) /\ loadedWhole[s] /\ count[s] < Limit
                            /\ \A o \in Shells \ {s} : pc[o] # "saving"
  <1>1. /\ Gone(s) /\ UNCHANGED <<file, world>>
        /\ lastSaved' = IF undisturbed THEN {Known(s)} ELSE {}
    BY DEF Close
  <1>2. /\ TypeOK /\ SlotsOK /\ SlotsOK' /\ EntriesHavePaths'
        /\ \A o \in Shells : pc'[o] = IF o = s THEN "off" ELSE pc[o]
    BY <1>1, GoneStep DEF Inv
  <1>3. TypeOK'
    BY <1>1, <1>2, GoneStep DEF TypeOK, world
  <1>4. FileOK'
    BY <1>1 DEF Inv, FileOK
  <1>5. CASE undisturbed
    <2>1. lastSaved' = {Known(s)} /\ \A o \in Shells : pc'[o] # "saving"
      BY <1>1, <1>2, <1>5
    <2>2. \A i \in Used(s) : dirs[s][i].path # NoPath
      BY <1>5 DEF Inv, EntriesHavePaths
    <2>3. /\ Known(s) \in Seq(Entry) /\ Len(Known(s)) = count[s]
          /\ Output(s) = <<count[s]>> \o Known(s)
          /\ \A i \in 1..count[s] : Known(s)[i] = dirs[s][i - 1] /\ i - 1 \in Slot
      BY <1>2, <2>2, OutputItems
    <2> DEFINE E == Known(s)
    <2>4. file' = <<Len(E)>> \o E /\ Len(E) < Limit /\ E \in Seq(Entry)
      BY <1>1, <1>5, <2>3
    <2>5. \A i \in 1..Len(E) : E[i].path # NoPath
      <3>1. ASSUME NEW i \in 1..Len(E) PROVE E[i].path # NoPath
        <4>1. i - 1 \in Used(s) /\ E[i] = dirs[s][i - 1]
          BY <1>2, <2>3, <3>1 DEF Used, TypeOK
        <4> QED
          BY <2>2, <4>1
      <3> QED
        BY <3>1
    <2> HIDE DEF E
    <2>6. lastSaved' = {E}
      BY <2>1 DEF E
    <2>7. SavedOK'
      BY <2>1, <2>4, <2>5, <2>6 DEF SavedOK
    <2> QED
      BY <1>2, <1>3, <1>4, <2>7 DEF Inv
  <1>6. CASE ~undisturbed
    <2>1. lastSaved' = {}
      BY <1>1, <1>6
    <2>2. SavedOK'
      BY <2>1 DEF SavedOK
    <2> QED
      BY <1>2, <1>3, <1>4, <2>2 DEF Inv
  <1> QED
    BY <1>5, <1>6

\* An exit with nothing to save, or the shell is killed, or dies of a jump.
LEMMA EndStep ==
    ASSUME Inv, NEW s \in Shells, ExitEmpty(s) \/ Kill(s) \/ JumpDies(s)
    PROVE  Inv'
  <1>1. /\ Gone(s) /\ UNCHANGED <<file, existing, clock, lastSaved>>
        /\ faults' \in 0..MaxFaults /\ visits' \in 0..MaxVisits
    <2>1. faults \in 0..MaxFaults /\ visits \in 0..MaxVisits
      BY DEF Inv, TypeOK
    <2>2. CASE ExitEmpty(s) \/ Kill(s)
      BY <2>1, <2>2, ConstantsOK DEF ExitEmpty, Kill, world
    <2>3. CASE JumpDies(s)
      BY <2>1, <2>3, ConstantsOK DEF JumpDies, Running
    <2> QED
      BY <2>2, <2>3
  <1>2. /\ SlotsOK' /\ EntriesHavePaths'
        /\ \A o \in Shells : pc'[o] = IF o = s THEN "off" ELSE pc[o]
    BY <1>1, GoneStep
  <1>3. TypeOK'
    <2>1. /\ dirs' \in [Shells -> [Slot -> Entry]] /\ count' \in [Shells -> 0..Limit]
          /\ pc' \in [Shells -> {"off", "running", "saving", "refused"}]
          /\ cwd' \in [Shells -> Paths] /\ written' \in [Shells -> 0..(Limit + 1)]
          /\ loadedWhole' \in [Shells -> BOOLEAN]
      BY <1>1, GoneStep
    <2> QED
      BY <1>1, <2>1 DEF Inv, TypeOK
  <1>4. FileOK' /\ SavedOK'
    BY <1>1, <1>2 DEF Inv, FileOK, SavedOK
  <1> QED
    BY <1>2, <1>3, <1>4 DEF Inv

\* What happens around the shells.
LEMMA WorldStep ==
    ASSUME Inv, (\E p \in Paths : RemoveDirectory(p)) \/ TimePasses \/ UNCHANGED vars
    PROVE  Inv'
  <1>1. UNCHANGED <<pc, database, cwd, written, file, visits, loadedWhole, lastSaved>>
    BY DEF RemoveDirectory, TimePasses, vars, world
  <1>2. existing' \subseteq Directories /\ clock' \in 0..MaxClock /\ faults' \in 0..MaxFaults
    BY ConstantsOK DEF Inv, TypeOK, RemoveDirectory, TimePasses, vars, world
  <1>3. TypeOK'
    BY <1>1, <1>2 DEF Inv, TypeOK, database
  <1>4. FileOK' /\ SavedOK' /\ SlotsOK' /\ EntriesHavePaths'
    BY <1>1 DEF Inv, FileOK, SavedOK, SlotsOK, EntriesHavePaths, Used, database
  <1> QED
    BY <1>3, <1>4 DEF Inv

\* There is no file at first, or it is what an exit left.
LEMMA InitOK == Init => Inv
  <1> SUFFICES ASSUME Init PROVE Inv
    OBVIOUS
  <1>1. /\ pc = [s \in Shells |-> "off"] /\ dirs = [s \in Shells |-> [i \in Slot |-> Zero]]
        /\ count = [s \in Shells |-> 0] /\ cwd = [s \in Shells |-> Home]
        /\ written = [s \in Shells |-> 0] /\ file = FirstFile /\ existing = Directories
        /\ clock = 0 /\ visits = 0 /\ faults = 0 /\ loadedWhole = [s \in Shells |-> TRUE]
        /\ lastSaved = IF FirstFile = <<>> THEN {} ELSE {Tail(FirstFile)}
    BY DEF Init
  <1>2. SlotsOK /\ EntriesHavePaths
    <2>1. \A s \in Shells : \A i \in Slot : dirs[s][i].path = NoPath
      BY <1>1, ConstantsOK
    <2>2. \A s \in Shells : Used(s) = {}
      BY <1>1, ConstantsOK DEF Used, Slot
    <2> QED
      BY <2>1, <2>2 DEF SlotsOK, EntriesHavePaths
  <1>3. FileOK /\ SavedOK /\ \A i \in DOMAIN file : IF i = 1 THEN file[i] \in 0..Limit ELSE file[i] \in Entry
    <2>1. CASE FirstFile = <<>>
      <3>1. file = <<>> /\ DOMAIN file = {} /\ Len(file) = 0 /\ lastSaved = {}
        BY <1>1, <2>1, EmptySeq
      <3>2. file = [i \in 1..Len(file) |-> file[i]]
        BY <3>1
      <3> QED
        BY <3>1, <3>2 DEF FileOK, SavedOK
    <2>2. CASE FirstFile # <<>>
      <3> DEFINE E == Tail(FirstFile)
                 n == Head(FirstFile)
      <3>1. /\ FirstFile = <<n>> \o E /\ n = Len(FirstFile) - 1 /\ n < Limit
            /\ E \in Seq([path : Paths, rank : Nat \ {0}, last_accessed : Nat])
        BY <2>2, FirstFileAssumption
      <3>2. [path : Paths, rank : Nat \ {0}, last_accessed : Nat] \subseteq Entry
        BY DEF Entry
      <3>3. file = <<n>> \o E /\ lastSaved = {E}
        BY <1>1, <2>2, <3>1
      <3> HIDE DEF E, n
      <3>4. E \in Seq(Entry) /\ Len(E) \in Nat
            /\ \A i \in 1..Len(E) : E[i] \in Entry /\ E[i].path # NoPath /\ E[i].rank > 0
        <4>1. \A i \in 1..Len(E) : E[i] \in [path : Paths, rank : Nat \ {0}, last_accessed : Nat]
          BY <3>1, ElementOfSeq
        <4>2. E \in Seq(Entry) /\ Len(E) \in Nat
          BY <3>1, <3>2, SeqMonotonic, LenProperties
        <4> QED
          BY <4>1, <4>2, ConstantsOK DEF Entry
      <3>5. /\ file \in Seq({n} \union Entry) /\ Len(file) = 1 + Len(E)
            /\ \A i \in 1..(1 + Len(E)) : file[i] = IF i <= 1 THEN <<n>>[i] ELSE E[i - 1]
        <4>1. <<n>> \in Seq({n} \union Entry) /\ Len(<<n>>) = 1 /\ E \in Seq({n} \union Entry)
          BY <3>4, SeqMonotonic
        <4> QED
          BY <3>3, <4>1, ConcatProperties
      <3>6. n = Len(E) /\ n \in 0..Limit /\ <<n>>[1] = n
        BY <1>1, <3>1, <3>4, <3>5, ConstantsOK
      <3>7. DOMAIN file = 1..Len(file) /\ file = [i \in 1..Len(file) |-> file[i]]
        BY <3>5, LenProperties
      <3>8. \A i \in 2..Len(file) : i - 1 \in 1..Len(E) /\ file[i] = E[i - 1]
        BY <3>4, <3>5
      <3>9. FileOK
        BY <3>4, <3>5, <3>7, <3>8 DEF FileOK
      <3>10. SavedOK
        BY <1>1, <3>1, <3>3, <3>4, <3>6 DEF SavedOK
      <3>11. \A i \in DOMAIN file : IF i = 1 THEN file[i] \in 0..Limit ELSE file[i] \in Entry
        BY <3>4, <3>5, <3>6, <3>7, <3>8
      <3> QED
        BY <3>9, <3>10, <3>11
    <2> QED
      BY <2>1, <2>2
  <1>4. TypeOK
    BY <1>1, <1>3, ConstantsOK DEF TypeOK
  <1> QED
    BY <1>2, <1>3, <1>4 DEF Inv

LEMMA NextOK == Inv /\ [Next]_vars => Inv'
  <1> SUFFICES ASSUME Inv, [Next]_vars PROVE Inv'
    OBVIOUS
  <1>1. CASE \E s \in Shells : Start(s)
    BY <1>1, StartStep
  <1>2. CASE \E s \in Shells : ExitEmpty(s) \/ Kill(s) \/ JumpDies(s)
    BY <1>2, EndStep
  <1>3. CASE \E s \in Shells : Truncate(s)
    BY <1>3, TruncateStep
  <1>4. CASE \E s \in Shells : Flush(s)
    BY <1>4, FlushStep
  <1>5. CASE \E s \in Shells : Close(s)
    BY <1>5, CloseStep
  <1>6. CASE \E s \in Shells, p \in Paths : Add(s, p)
    BY <1>6, AddStep
  <1>7. CASE \E s \in Shells, p \in Paths : Remove(s, p)
    BY <1>7, RemoveStep
  <1>8. CASE \E s \in Shells, t \in Targets : JumpToMatch(s, t) \/ JumpToTarget(s, t)
    BY <1>8, JumpStep
  <1>9. CASE (\E p \in Paths : RemoveDirectory(p)) \/ TimePasses \/ UNCHANGED vars
    BY <1>9, WorldStep
  <1>10. CASE \E s \in Shells, p \in Paths : ChangeDirectory(s, p)
    BY <1>10, ChangeDirectoryStep
  <1> QED
    BY <1>1, <1>2, <1>3, <1>4, <1>5, <1>6, <1>7, <1>8, <1>9, <1>10 DEF Next

-----------------------------------------------------------------------------
(* The theorems.                                                           *)

\* The invariant is inductive: whatever the shells do, and however their saves mix in the
\* file.
THEOREM Invariance == Spec => []Inv
  BY InitOK, NextOK, PTL DEF Spec

\* Every variable keeps its type: no command writes past the end of z_Database's array,
\* and what shells that save at once make of the file is still a header and entries.
THEOREM TypesHold == Spec => []TypeOK
  <1>1. Inv => TypeOK
    BY DEF Inv
  <1> QED
    BY <1>1, Invariance, PTL

\* z_match_find, z_write and z_print never meet an entry without a path or a rank in a
\* shell that loaded a whole file, however entries are added, removed and shifted.
THEOREM PathsHold == Spec => []EntriesHavePaths
  <1>1. Inv => EntriesHavePaths
    BY DEF Inv
  <1> QED
    BY <1>1, Invariance, PTL

\* What a shell's exit saved undisturbed is what the next shell that starts has: every
\* entry with its rank and time, in its place.
THEOREM SavedIsLoaded == Spec => RoundTrip
  <1> DEFINE Loaded == \A s \in Shells : pc[s] = "off" /\ pc'[s] # "off" /\ lastSaved # {} =>
                           pc'[s] = "running" /\ Known(s)' \in lastSaved
  <1>1. ASSUME Inv, [Next]_vars PROVE Loaded
    <2>1. SUFFICES ASSUME NEW s \in Shells, pc[s] = "off", pc'[s] # "off", lastSaved # {}
                   PROVE  pc'[s] = "running" /\ Known(s)' \in lastSaved
      OBVIOUS
    <2>2. pc \in [Shells -> {"off", "running", "saving", "refused"}]
      BY <1>1 DEF Inv, TypeOK
    <2>3. Start(s)
      <3>1. CASE UNCHANGED vars
        BY <2>1, <3>1 DEF vars
      <3>2. CASE (\E p \in Paths : RemoveDirectory(p)) \/ TimePasses
        BY <2>1, <3>2 DEF RemoveDirectory, TimePasses
      <3>3. ASSUME NEW o \in Shells, Start(o), o # s PROVE FALSE
        <4>1. pc'[s] = pc[s]
          BY <2>2, <3>3 DEF Start
        <4> QED
          BY <2>1, <4>1
      <3>4. ASSUME NEW o \in Shells,
                   ExitEmpty(o) \/ Truncate(o) \/ Close(o) \/ Kill(o) \/ JumpDies(o)
            PROVE  FALSE
        <4>1. o # s \/ pc'[s] = pc[s]
          BY <2>1, <3>4 DEF ExitEmpty, Truncate, Close, Kill, JumpDies, Running
        <4>2. o # s => pc'[s] = pc[s]
          BY <2>2, <3>4 DEF ExitEmpty, Truncate, Close, Kill, JumpDies, Gone
        <4> QED
          BY <2>1, <4>1, <4>2
      <3>5. ASSUME NEW o \in Shells,
                   \/ Flush(o)
                   \/ \E p \in Paths : Add(o, p) \/ Remove(o, p) \/ ChangeDirectory(o, p)
                   \/ \E t \in Targets : JumpToMatch(o, t) \/ JumpToTarget(o, t)
            PROVE  FALSE
        BY <2>1, <3>5 DEF Flush, Add, Remove, ChangeDirectory, JumpToMatch, JumpToTarget
      <3> QED
        BY <1>1, <3>1, <3>2, <3>3, <3>4, <3>5 DEF Next
    <2>4. PICK E : E \in lastSaved
      BY <2>1
    <2>5. /\ E \in Seq(Entry) /\ Len(E) < Limit /\ file = <<Len(E)>> \o E
          /\ \A i \in 1..Len(E) : E[i].path # NoPath
      BY <1>1, <2>4 DEF Inv, SavedOK
    <2> DEFINE n == Len(E)
               R == Readable(file)
    <2>6. /\ n \in Nat /\ n < Limit /\ Len(file) = n + 1 /\ file[1] = n /\ file # <<>>
          /\ \A i \in 1..n : file[i + 1] = E[i]
      <3>1. n \in Nat /\ E \in Seq({n} \union Entry) /\ <<n>> \in Seq({n} \union Entry)
            /\ Len(<<n>>) = 1 /\ <<n>>[1] = n
        BY <2>5, LenProperties, SeqMonotonic
      <3>2. /\ Len(file) = 1 + n
            /\ \A i \in 1..(1 + n) : file[i] = IF i <= 1 THEN <<n>>[i] ELSE E[i - 1]
        BY <2>5, <3>1, ConcatProperties
      <3>3. file # <<>>
        BY <3>1, <3>2, EmptySeq
      <3>4. \A i \in 1..n : file[i + 1] = E[i]
        <4>1. ASSUME NEW i \in 1..n PROVE file[i + 1] = E[i]
          <5>1. i + 1 \in 1..(1 + n) /\ ~(i + 1 <= 1) /\ (i + 1) - 1 = i
            BY <3>1
          <5> QED
            BY <3>2, <5>1
        <4> QED
          BY <4>1
      <3> QED
        BY <2>5, <3>1, <3>2, <3>3, <3>4
    <2>7. Header(file) = n
      BY <1>1, <2>6, FileIsSequence DEF Inv
    <2>8. R \in Seq(Entry) /\ Len(R) = n /\ \A i \in 1..n : R[i] = E[i]
      <3>1. /\ R \in Seq(Entry) /\ Len(R) <= n
            /\ \A i \in 1..Len(R) : R[i] = file[i + 1]
            /\ n \in 1..(Limit - 1) => Len(R) = Smaller(n + 1, n + 1) - 1
        BY <1>1, <2>6, <2>7, ReadableEntries DEF Inv
      <3>2. Len(R) \in Nat
        BY <3>1, LenProperties
      <3>3. Len(R) = n
        BY <2>6, <3>1, <3>2, ConstantsOK DEF Smaller
      <3> QED
        BY <2>6, <3>1, <3>3
    <2>9. ~Unreadable(file)
      <3>1. \A i \in DOMAIN R : i \in 1..n
        BY <2>8
      <3> HIDE DEF n
      <3>2. \A i \in DOMAIN R : R[i].path # NoPath
        BY <2>5, <2>8, <3>1 DEF n
      <3> QED
        BY <3>2 DEF Unreadable
    <2> HIDE DEF n, R
    <2>10. /\ pc' = [pc EXCEPT ![s] = "running"]
           /\ dirs' = [dirs EXCEPT ![s] = [i \in Slot |-> IF i < n THEN R[i + 1] ELSE Zero]]
           /\ count' = [count EXCEPT ![s] = n]
      BY <2>3, <2>7, <2>8, <2>9 DEF Start, R
    <2>11. /\ pc'[s] = "running" /\ count'[s] = n
           /\ \A i \in Slot : dirs'[s][i] = IF i < n THEN R[i + 1] ELSE Zero
      BY <1>1, <2>2, <2>10 DEF Inv, TypeOK
    <2>12. \A i \in 1..n : dirs'[s][i - 1] = E[i]
      <3>1. ASSUME NEW i \in 1..n PROVE dirs'[s][i - 1] = E[i]
        <4>1. i - 1 \in Slot /\ i - 1 < n /\ (i - 1) + 1 = i
          BY <2>6, ConstantsOK DEF Slot
        <4> QED
          BY <2>8, <2>11, <4>1
      <3> QED
        BY <3>1
    <2>13. Known(s)' = E
      <3>1. Known(s)' = [i \in 1..n |-> dirs'[s][i - 1]]
        BY <2>11 DEF Known
      <3>2. E = [i \in 1..n |-> E[i]]
        BY <2>5 DEF n
      <3> QED
        BY <2>12, <3>1, <3>2
    <2> QED
      BY <2>4, <2>11, <2>13
  <1>2. Inv /\ [Next]_vars => [Loaded]_vars
    BY <1>1
  <1> QED
    BY <1>2, Invariance, PTL DEF Spec, RoundTrip

\* A jump that goes to an entry goes to one with the best score, and never to where the
\* shell is: z_match_find compares every entry with the best before it.
THEOREM BestIsFound == Spec => JumpGoesToBest
  <1> DEFINE Goes == \A s \in Shells, t \in Targets : JumpToMatch(s, t) =>
                        \E m \in Used(s) :
                           /\ dirs[s][m].path = cwd'[s] /\ cwd'[s] # cwd[s]
                           /\ \A i \in Used(s) :
                                Candidate(s, i, t) => Score(s, i, t) <= Score(s, m, t)
  <1>1. ASSUME Inv PROVE Goes
    <2>1. SUFFICES ASSUME NEW s \in Shells, NEW t \in Targets, JumpToMatch(s, t)
                   PROVE  \E m \in Used(s) :
                             /\ dirs[s][m].path = cwd'[s] /\ cwd'[s] # cwd[s]
                             /\ \A i \in Used(s) :
                                  Candidate(s, i, t) => Score(s, i, t) <= Score(s, m, t)
      OBVIOUS
    <2> DEFINE m == MatchFind(s, t)
    <2>2. ~Pathless(s) /\ m # -1 /\ cwd' = [cwd EXCEPT ![s] = dirs[s][m].path]
      BY <2>1 DEF JumpToMatch, ReachesMatch
    <2>3. /\ m \in Used(s) /\ Candidate(s, m, t)
          /\ \A i \in Used(s) : Candidate(s, i, t) => Score(s, i, t) <= Score(s, m, t)
      BY <1>1, <2>2, MatchFindOK DEF Inv
    <2> HIDE DEF m
    <2>4. cwd'[s] = dirs[s][m].path
      BY <1>1, <2>2 DEF Inv, TypeOK
    <2>5. dirs[s][m].path # cwd[s]
      BY <2>3 DEF Candidate
    <2> QED
      BY <2>3, <2>4, <2>5
  <1>2. Inv /\ [Next]_vars => [Goes]_vars
    BY <1>1
  <1> QED
    BY <1>2, Invariance, PTL DEF Spec, JumpGoesToBest

-----------------------------------------------------------------------------
(* No directory twice.                                                     *)

\* One member at most is no two members.
LEMMA AtMostOne ==
    ASSUME NEW n \in Nat, NEW S \in SUBSET (0..n)
    PROVE  Cardinality(S) <= 1 <=> \A i, j \in S : i = j
  <1>1. IsFiniteSet(S)
    <2>1. 0 \in Int /\ n \in Int
      OBVIOUS
    <2>2. IsFiniteSet(0..n)
      BY <2>1, FS_Interval
    <2> QED
      BY <2>2, FS_Subset
  <1>2. Cardinality(S) \in Nat
    BY <1>1, FS_CardinalityType
  <1>3. ASSUME Cardinality(S) <= 1, NEW i \in S, NEW j \in S, i # j PROVE FALSE
    <2>1. IsFiniteSet(S \ {i}) /\ Cardinality(S \ {i}) = Cardinality(S) - 1
      BY <1>1, FS_RemoveElement
    <2>2. Cardinality(S \ {i}) \in Nat
      BY <2>1, FS_CardinalityType
    <2>3. Cardinality(S \ {i}) = 0
      BY <1>2, <1>3, <2>1, <2>2
    <2>4. S \ {i} = {}
      BY <2>1, <2>3, FS_EmptySet
    <2> QED
      BY <1>3, <2>4
  <1>4. ASSUME \A i, j \in S : i = j PROVE Cardinality(S) <= 1
    <2>1. CASE S = {}
      BY <2>1, FS_EmptySet
    <2>2. CASE S # {}
      <3>1. PICK i \in S : TRUE
        BY <2>2
      <3>2. S = {i}
        BY <1>4, <3>1
      <3> QED
        BY <3>2, FS_Singleton
    <2> QED
      BY <2>1, <2>2
  <1> QED
    BY <1>3, <1>4

\* Once(s) in terms of two slots.
LEMMA OnceIs ==
    ASSUME NEW s \in Shells, count[s] \in 0..Limit
    PROVE  Once(s) <=> \A p \in existing, i, j \in Slot :
                          i < count[s] /\ j < count[s] /\ dirs[s][i].path = p /\ dirs[s][j].path = p
                              => i = j
  <1>1. Limit \in Nat /\ \A p : Holding(s, p) \in SUBSET (0..Limit)
    BY ConstantsOK DEF Holding, Used, Slot
  <1>2. \A p : Cardinality(Holding(s, p)) <= 1 <=> \A i, j \in Holding(s, p) : i = j
    BY <1>1, AtMostOne
  <1> QED
    BY <1>2 DEF Once, Holding, Used

\* What a command leaves: as Once, of an array and a count.
Twice(D, c, p, i, j) == i < c /\ j < c /\ D[i].path = p /\ D[j].path = p /\ i # j

LEMMA OnceStep ==
    ASSUME Inv, Inv', TargetsMatch, [Next]_vars, NEW s \in Shells, existing = Directories,
           pc[s] = "running", pc'[s] = "running", Once(s),
           ~ \E t \in Targets : PassesOver(s, t)
    PROVE  Once(s)'
  <1>1. /\ dirs \in [Shells -> [Slot -> Entry]] /\ count \in [Shells -> 0..Limit]
        /\ count[s] \in 0..Limit /\ count'[s] \in 0..Limit /\ cwd \in [Shells -> Paths]
        /\ existing' \subseteq existing /\ Limit \in Nat /\ TypeOK
        /\ pc \in [Shells -> {"off", "running", "saving", "refused"}]
    BY ConstantsOK DEF Inv, TypeOK
  <1>2. \A p \in existing, i, j \in Slot : ~Twice(dirs[s], count[s], p, i, j)
    BY <1>1, OnceIs DEF Twice
  <1>3. SUFFICES ASSUME NEW p \in existing, NEW i \in Slot, NEW j \in Slot,
                        Twice(dirs'[s], count'[s], p, i, j)
                 PROVE  FALSE
    <2>1. (Once(s))' <=> \A p \in existing', i, j \in Slot :
                          i < count'[s] /\ j < count'[s] /\ dirs'[s][i].path = p /\ dirs'[s][j].path = p
                              => i = j
      <3>1. Limit \in Nat /\ \A p : Holding(s, p)' \in SUBSET (0..Limit)
        BY <1>1, ConstantsOK DEF Holding, Used, Slot
      <3>2. \A p : Cardinality(Holding(s, p)') <= 1 <=> \A i, j \in Holding(s, p)' : i = j
        BY <3>1, AtMostOne
      <3> QED
        BY <3>2 DEF Once, Holding, Used
    <2>2. \A p \in existing', i, j \in Slot : ~Twice(dirs'[s], count'[s], p, i, j)
      BY <1>1, <1>3
    <2> QED
      BY <2>1, <2>2 DEF Twice
  <1>4. CASE dirs'[s] = dirs[s] /\ count'[s] = count[s]
    BY <1>2, <1>3, <1>4
  \* An entry that was there is used again.
  <1>5. ASSUME NEW m \in Slot, Touch(s, m), UNCHANGED count PROVE FALSE
    <2>1. \A k \in Slot : dirs'[s][k].path = dirs[s][k].path
      <3>1. ASSUME NEW k \in Slot PROVE dirs'[s][k].path = dirs[s][k].path
        <4>1. dirs[s][k] \in Entry /\ dirs[s] \in [Slot -> Entry]
          BY <1>1
        <4>2. dirs'[s] = [dirs[s] EXCEPT ![m].rank = @ + 1, ![m].last_accessed = clock]
          BY <1>1, <1>5 DEF Touch
        <4> QED
          BY <4>1, <4>2 DEF Entry
      <3> QED
        BY <3>1
    <2> QED
      BY <1>2, <1>3, <1>5, <2>1 DEF Twice
  \* A new one of what was not there.
  <1>6. ASSUME NEW q \in Paths, AddEntry(s, q), count[s] < Limit,
               \A k \in Slot : k < count[s] /\ q \in existing => dirs[s][k].path # q
        PROVE  FALSE
    <2> DEFINE n == count[s]
    <2>1. n \in Slot
      BY <1>1, <1>6 DEF Slot
    <2>2. /\ count'[s] = n + 1 /\ dirs'[s][n].path = q
          /\ \A k \in Slot \ {n} : dirs'[s][k] = dirs[s][k]
      BY <1>1, <1>6, <2>1 DEF AddEntry
    <2>3. \A k \in Slot : k < n + 1 => k = n \/ (k \in Slot \ {n} /\ k < n)
      BY <1>1 DEF Slot
    <2>4. (i = n \/ (i \in Slot \ {n} /\ i < n)) /\ (j = n \/ (j \in Slot \ {n} /\ j < n)) /\ i # j
          /\ dirs'[s][i].path = p /\ dirs'[s][j].path = p
      BY <1>3, <2>2, <2>3 DEF Twice
    <2>5. CASE i = n
      BY <1>6, <2>2, <2>4, <2>5
    <2>6. CASE j = n
      BY <1>6, <2>2, <2>4, <2>6
    <2>7. CASE i # n /\ j # n
      BY <1>2, <2>2, <2>4, <2>7 DEF Twice
    <2> QED
      BY <2>5, <2>6, <2>7
  <1>7. ASSUME NEW q \in Paths, Add(s, q) PROVE FALSE
    <2>1. CASE Holding(s, q) # {} /\ Touch(s, First(Holding(s, q))) /\ UNCHANGED count
      <3>1. First(Holding(s, q)) \in Slot
        BY <2>1, HoldingFirst DEF Holding, Used
      <3> QED
        BY <1>5, <2>1, <3>1
    <2>2. CASE Holding(s, q) = {} /\ count[s] < Limit /\ AddEntry(s, q)
      BY <1>6, <2>2 DEF Holding, Used
    <2> QED
      BY <1>7, <2>1, <2>2 DEF Add
  \* The entries move together.
  <1>8. ASSUME NEW q \in Paths, Remove(s, q) PROVE FALSE
    <2> DEFINE d == dirs[s]
               n == count[s]
               h == First(Holding(s, q))
               z == [d EXCEPT ![h] = Zero]
               from(k) == IF k >= h /\ k < n - 1 THEN k + 1 ELSE k
    <2>1. h \in Slot /\ h < n /\ n \in 0..Limit
      <3>1. Holding(s, q) # {}
        BY <1>8 DEF Remove
      <3>2. h \in Holding(s, q)
        BY <3>1, HoldingFirst
      <3> QED
        BY <1>1, <3>2 DEF Holding, Used
    <2>2. dirs'[s] = Shift(z, h, n) /\ count'[s] = n - 1
      BY <1>1, <1>8 DEF Remove
    <2>3. z[h] = Zero /\ \A k \in Slot \ {h} : z[k] = d[k]
      BY <1>1, <2>1
    <2> HIDE DEF d, n, h, z
    <2>4. ASSUME NEW k \in Slot, k < n - 1
          PROVE  /\ from(k) \in Slot /\ from(k) < n /\ from(k) # h
                 /\ dirs'[s][k] = d[from(k)]
      <3>1. from(k) \in Slot /\ from(k) < n /\ from(k) # h
        BY <1>1, <2>1, <2>4 DEF Slot
      <3>2. dirs'[s][k] = z[from(k)]
        BY <2>2 DEF Shift
      <3> QED
        BY <2>3, <3>1, <3>2
    <2>5. /\ i < n - 1 /\ j < n - 1 /\ i # j
          /\ dirs'[s][i].path = p /\ dirs'[s][j].path = p
      BY <1>3, <2>2 DEF Twice
    <2>6. from(i) # from(j)
      BY <2>1, <2>5 DEF Slot
    <2>7. /\ from(i) \in Slot /\ from(i) < n /\ d[from(i)].path = p
          /\ from(j) \in Slot /\ from(j) < n /\ d[from(j)].path = p
      BY <2>4, <2>5
    <2> HIDE DEF from
    <2> QED
      BY <1>2, <2>6, <2>7 DEF Twice, d, n
  \* The match is used again, or there is none: then the directory was not there.
  <1>9. ASSUME NEW t \in Targets, JumpToMatch(s, t) PROVE FALSE
    <2>1. MatchFind(s, t) \in Slot
      BY <1>1, <1>9, MatchFindOK DEF JumpToMatch, ReachesMatch, Used
    <2> QED
      BY <1>5, <1>9, <2>1 DEF JumpToMatch
  <1>10. ASSUME NEW t \in Targets, JumpToTarget(s, t) PROVE FALSE
    <2> DEFINE q == Joined[<<cwd[s], t>>]
    <2>1. /\ ~Pathless(s) /\ MatchFind(s, t) = -1 /\ cwd[s] \in Paths /\ Resolve[<<cwd[s], t>>] \in Directories
          /\ q \in Paths
      BY <1>1, <1>10, ConstantsOK DEF PassesOver, JumpToTarget
    <2>2. \A k \in Used(s) : ~Candidate(s, k, t)
      BY <1>1, <2>1, MatchFindOK
    <2>3. q \in existing => q # cwd[s] /\ Fzf[<<t, q>>] > 0
      BY <2>1, ConstantsOK DEF TargetsMatch
    <2>4. \A k \in Slot : k < count[s] /\ q \in existing => dirs[s][k].path # q
      BY <2>2, <2>3 DEF Candidate, Used
    <2>5. IF count[s] + 1 >= Limit THEN UNCHANGED database ELSE AddEntry(s, q)
      BY <1>10 DEF JumpToTarget
    <2> HIDE DEF q
    <2>6. CASE count[s] + 1 >= Limit
      BY <1>4, <2>5, <2>6 DEF database
    <2>7. CASE ~(count[s] + 1 >= Limit)
      <3>1. AddEntry(s, q) /\ count[s] < Limit
        BY <1>1, <2>5, <2>7
      <3> QED
        BY <1>6, <2>1, <2>4, <3>1
    <2> QED
      BY <2>6, <2>7
  \* What another shell does, or the world.
  <1>11. CASE UNCHANGED vars \/ (\E q \in Paths : RemoveDirectory(q)) \/ TimePasses
    BY <1>4, <1>11 DEF vars, database, RemoveDirectory, TimePasses
  <1>12. ASSUME NEW o \in Shells, \/ Start(o) \/ ExitEmpty(o) \/ Truncate(o) \/ Flush(o)
                                   \/ Close(o) \/ Kill(o) \/ JumpDies(o)
         PROVE  FALSE
    <2>1. CASE o = s
      <3>1. ~Start(o) /\ ~Flush(o) /\ ~Close(o) /\ ~Truncate(o)
        BY <1>1, <1>3, <2>1 DEF Start, Flush, Close, Truncate
      <3>2. ~ExitEmpty(o) /\ ~Kill(o) /\ ~JumpDies(o)
        <4>1. ~Gone(o)
          BY <1>1, <2>1 DEF Gone
        <4> QED
          BY <4>1 DEF ExitEmpty, Kill, JumpDies
      <3> QED
        BY <1>12, <3>1, <3>2
    <2>2. CASE o # s
      <3>1. dirs'[s] = dirs[s] /\ count'[s] = count[s]
        BY <1>1, <1>12, <2>2 DEF Start, ExitEmpty, Truncate, Flush, Close, Kill, JumpDies, Gone, database
      <3> QED
        BY <1>4, <3>1
    <2> QED
      BY <2>1, <2>2
  <1>13. ASSUME NEW o \in Shells, o # s,
                \/ \E q \in Paths : Add(o, q) \/ Remove(o, q)
                \/ \E t \in Targets : JumpToMatch(o, t) \/ JumpToTarget(o, t)
         PROVE  FALSE
    <2>1. dirs'[s] = dirs[s] /\ count'[s] = count[s]
      BY <1>1, <1>13 DEF Add, Remove, JumpToMatch, JumpToTarget, Touch, AddEntry, database
    <2> QED
      BY <1>4, <2>1
  <1>14. ASSUME NEW o \in Shells, NEW q \in Paths, ChangeDirectory(o, q) PROVE FALSE
    BY <1>4, <1>14 DEF ChangeDirectory, database
  <1> QED
    BY <1>7, <1>8, <1>9, <1>10, <1>11, <1>12, <1>13, <1>14 DEF Next

\* However the users of the shells add, remove and jump (z_add, z_remove and z in z/z.c),
\* a database with one entry for each directory keeps one for each while the directories
\* stay: z_add looks for the path first, and z adds a target only where nothing matched.
THEOREM NothingIsListedTwice ==
    ASSUME TargetsMatch PROVE Spec => ListedOnce
  <1> DEFINE Lists == \A s \in Shells :
                  /\ existing = Directories /\ pc[s] = "running" /\ pc'[s] = "running"
                  /\ Once(s) /\ ~ \E t \in Targets : PassesOver(s, t)
                  => Once(s)'
  <1>1. Inv /\ Inv' /\ [Next]_vars => [Lists]_vars
    BY OnceStep
  <1> QED
    BY <1>1, Invariance, PTL DEF Spec, ListedOnce
=============================================================================
