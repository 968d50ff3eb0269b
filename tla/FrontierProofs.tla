--------------------------- MODULE FrontierProofs ---------------------------
(***************************************************************************)
(* Theorems about modules Merkle and Frontier, for logs of every size: the *)
(* frontier kept by appends is that of the whole tree, the anchors an      *)
(* append checks pin every node it goes on to use, and the root commits to *)
(* the leaves.                                                             *)
(***************************************************************************)
EXTENDS Frontier, WellFoundedInduction, TLAPS

(* Of some numbers one is the least.                                       *)
LEMMA Least ==
  ASSUME NEW T \in SUBSET Nat, T # {}
  PROVE  \E x \in T : \A y \in T : x <= y
  <1> DEFINE R == OpToRel(<, Nat)
  <1>1. IsWellFoundedOn(R, Nat) BY NatLessThanWellFounded
  <1>2. \A x, y \in Nat : x < y => <<x, y>> \in R BY DEF OpToRel
  <1> HIDE DEF R
  <1>3. PICK x \in T : \A y \in T : ~(<<y, x>> \in R) BY <1>1, WFMin
  <1>4. ASSUME NEW y \in T PROVE x <= y
    <2>1. x \in Nat /\ y \in Nat /\ ~(y < x) BY <1>2, <1>3
    <2> QED BY <2>1
  <1> QED BY <1>4

(* Induction, with the property as a set of numbers.                       *)
LEMMA Induction ==
  ASSUME NEW T, 0 \in T, \A n \in Nat : n \in T => n + 1 \in T
  PROVE  \A n \in Nat : n \in T
  <1> SUFFICES ASSUME Nat \ T # {} PROVE FALSE
    OBVIOUS
  <1>1. PICK x \in Nat \ T : \A y \in Nat \ T : x <= y BY Least
  <1>2. x \in Nat /\ x \notin T /\ x # 0 OBVIOUS
  <1>3. x - 1 \in Nat /\ ~(x <= x - 1) /\ (x - 1) + 1 = x BY <1>2
  <1>4. x - 1 \in T BY <1>1, <1>3
  <1> QED BY <1>2, <1>3, <1>4

(* A sequence of anything.                                                 *)
IsSeq(s) == Len(s) \in Nat /\ s = [i \in 1..Len(s) |-> s[i]]

LEMMA SeqOf ==
  ASSUME NEW s, NEW n \in Nat, s = [i \in 1..n |-> s[i]]
  PROVE  IsSeq(s) /\ Len(s) = n
  <1>1. s \in Seq({s[i] : i \in 1..n}) /\ Len(s) = n OBVIOUS
  <1> QED BY <1>1 DEF IsSeq

LEMMA InSeq ==
  ASSUME NEW s, IsSeq(s)
  PROVE  s \in Seq({s[i] : i \in 1..Len(s)}) /\ DOMAIN s = 1..Len(s)
  <1> DEFINE n == Len(s)
  <1>1. n \in Nat /\ s = [i \in 1..n |-> s[i]] BY DEF IsSeq
  <1>2. DOMAIN s = 1..n BY <1>1
  <1> HIDE DEF n
  <1>3. s \in Seq({s[i] : i \in 1..n}) BY <1>1
  <1> QED BY <1>2, <1>3 DEF n

LEMMA SeqEqual ==
  ASSUME NEW s, NEW t, IsSeq(s), IsSeq(t), Len(s) = Len(t), \A i \in 1..Len(s) : s[i] = t[i]
  PROVE  s = t
  <1>1. s = [i \in 1..Len(s) |-> s[i]] /\ t = [i \in 1..Len(s) |-> t[i]] BY DEF IsSeq
  <1> QED BY <1>1

LEMMA Appended ==
  ASSUME NEW s, IsSeq(s), NEW x
  PROVE  /\ IsSeq(Append(s, x)) /\ Len(Append(s, x)) = Len(s) + 1
         /\ Append(s, x)[Len(s) + 1] = x /\ \A i \in 1..Len(s) : Append(s, x)[i] = s[i]
  <1> DEFINE X == {s[i] : i \in 1..Len(s)} \cup {x}
  <1>1. s \in Seq({s[i] : i \in 1..Len(s)}) BY InSeq
  <1>2. s \in Seq(X) /\ x \in X
    <2>1. {s[i] : i \in 1..Len(s)} \subseteq X OBVIOUS
    <2> HIDE DEF X
    <2>2. s \in Seq(X) BY <1>1, <2>1
    <2> QED BY <2>2 DEF X
  <1> HIDE DEF X
  <1>3. /\ Append(s, x) \in Seq(X) /\ Len(Append(s, x)) = Len(s) + 1
        /\ Append(s, x)[Len(s) + 1] = x /\ \A i \in 1..Len(s) : Append(s, x)[i] = s[i]
    BY <1>2
  <1>4. Len(s) \in Nat BY DEF IsSeq
  <1> DEFINE a == Append(s, x)
  <1>5. a \in Seq(X) BY <1>3
  <1> HIDE DEF a
  <1>6. a = [i \in 1..Len(a) |-> a[i]] /\ Len(a) \in Nat BY <1>5
  <1>7. IsSeq(a) BY <1>6 DEF IsSeq
  <1> QED BY <1>3, <1>7 DEF a
----------------------------------------------------------------------------
(***************************************************************************)
(* The tree.                                                               *)
(***************************************************************************)
LEMMA PairHashPins ==
  ASSUME NEW a, NEW b, NEW c, NEW d, PairHash(a, b) = PairHash(c, d)
  PROVE  a = c /\ b = d
  BY DEF PairHash

(* Half of a level, rounded up.                                            *)
Half(n) == (n + 1) \div 2
LEMMA HalfFacts ==
  ASSUME NEW n \in Nat
  PROVE  /\ Half(n) \in Nat /\ (n >= 1 => Half(n) >= 1) /\ (n >= 2 => Half(n) < n)
         /\ (n \in 1..2 => Half(n) = 1) /\ 2 * Half(n) \in {n, n + 1}
         /\ \A i \in 1..Half(n) : /\ 2 * i - 1 \in 1..n /\ (2 * i \in 1..n <=> 2 * i <= n)
                                  /\ i < Half(n) => 2 * i < n
  BY DEF Half

LEMMA NextLevelFacts ==
  ASSUME NEW s, IsSeq(s)
  PROVE  /\ IsSeq(NextLevel(s)) /\ Len(NextLevel(s)) = Half(Len(s))
         /\ \A i \in 1..Half(Len(s)) :
              NextLevel(s)[i] = PairHash(s[2 * i - 1], IF 2 * i <= Len(s) THEN s[2 * i] ELSE s[2 * i - 1])
  <1> DEFINE n == Half(Len(s))
             G(i) == PairHash(s[2 * i - 1], IF 2 * i <= Len(s) THEN s[2 * i] ELSE s[2 * i - 1])
             t == [i \in 1..n |-> G(i)]
  <1>1. n \in Nat BY HalfFacts DEF IsSeq
  <1>2. NextLevel(s) = t BY DEF NextLevel, Half
  <1> HIDE DEF n, G
  <1>3. t = [i \in 1..n |-> t[i]] /\ \A i \in 1..n : t[i] = G(i) OBVIOUS
  <1> HIDE DEF t
  <1>4. IsSeq(t) /\ Len(t) = n BY <1>1, <1>3, SeqOf
  <1> QED BY <1>2, <1>3, <1>4 DEF n, G

(***************************************************************************)
(* The three loops of the module are recursive functions.  What round k    *)
(* makes of y, for each of them:                                           *)
(***************************************************************************)
Step(loop, a, k, y) ==
  IF loop = "levels" THEN NextLevel(y)
  ELSE IF loop = "rounds" THEN Raise(a, y)
  ELSE FrontierAppend(y, a[k])

(* The first n rounds of a loop, recorded.                                 *)
Trace(c, n, loop, a, start) ==
  c = [k \in 0..n |-> IF k = 0 THEN start ELSE Step(loop, a, k, c[k - 1])]

LEMMA TracesExist ==
  ASSUME NEW loop, NEW a, NEW start
  PROVE  \A n \in Nat : \E c : Trace(c, n, loop, a, start)
  <1> DEFINE T == {n \in Nat : \E c : Trace(c, n, loop, a, start)}
  <1>1. 0 \in T
    <2> DEFINE c == [k \in 0..0 |-> start]
    <2>1. Trace(c, 0, loop, a, start) BY DEF Trace
    <2> HIDE DEF c
    <2> QED BY <2>1
  <1>2. ASSUME NEW n \in Nat, n \in T PROVE n + 1 \in T
    <2>1. PICK c : Trace(c, n, loop, a, start) BY <1>2
    <2> DEFINE d == [k \in 0..(n + 1) |-> IF k = n + 1 THEN Step(loop, a, n + 1, c[n]) ELSE c[k]]
    <2>2. ASSUME NEW k \in 0..(n + 1)
          PROVE  d[k] = IF k = 0 THEN start ELSE Step(loop, a, k, d[k - 1])
      <3>1. CASE k = n + 1
        <4>1. d[k] = Step(loop, a, k, c[n]) /\ k # 0 /\ k - 1 = n /\ n \in 0..(n + 1) /\ n # n + 1 BY <3>1
        <4>2. d[n] = c[n] BY <4>1
        <4> QED BY <4>1, <4>2
      <3>2. CASE k = 0
        <4>1. 0 \in 0..n /\ 0 # n + 1 /\ 0 \in 0..(n + 1) OBVIOUS
        <4>2. d[0] = c[0] BY <4>1
        <4>3. c[0] = start BY <2>1, <4>1 DEF Trace
        <4> QED BY <3>2, <4>2, <4>3
      <3>3. CASE k \in 1..n
        <4>1. /\ k \in 0..n /\ k # 0 /\ k # n + 1
              /\ k - 1 \in 0..(n + 1) /\ k - 1 # n + 1
          BY <3>3
        <4>2. d[k] = c[k] /\ d[k - 1] = c[k - 1] BY <4>1
        <4>3. c[k] = Step(loop, a, k, c[k - 1]) BY <2>1, <4>1 DEF Trace
        <4> QED BY <4>1, <4>2, <4>3
      <3>4. k = n + 1 \/ k = 0 \/ k \in 1..n BY <2>2
      <3> QED BY <3>1, <3>2, <3>3, <3>4
    <2>3. d = [k \in 0..(n + 1) |-> d[k]] OBVIOUS
    <2> HIDE DEF d
    <2>4. Trace(d, n + 1, loop, a, start) BY <2>2, <2>3 DEF Trace
    <2> QED BY <2>4
  <1> HIDE DEF T
  <1>3. \A n \in Nat : n \in T BY <1>1, <1>2, Induction
  <1> QED BY <1>3 DEF T

LEMMA TracesAgree ==
  ASSUME NEW loop, NEW a, NEW start, NEW m \in Nat, NEW n \in Nat, NEW c, NEW d, Trace(c, m, loop, a, start), Trace(d, n, loop, a, start)
  PROVE  \A k \in Nat : k <= m /\ k <= n => c[k] = d[k]
  <1> DEFINE T == {k \in Nat : k <= m /\ k <= n => c[k] = d[k]}
  <1>1. 0 \in T
    <2>1. 0 \in 0..m /\ 0 \in 0..n OBVIOUS
    <2>2. c[0] = start /\ d[0] = start BY <2>1 DEF Trace
    <2> QED BY <2>2
  <1>2. ASSUME NEW k \in Nat, k \in T PROVE k + 1 \in T
    <2> SUFFICES ASSUME k + 1 <= m, k + 1 <= n PROVE c[k + 1] = d[k + 1]
      OBVIOUS
    <2>1. k + 1 \in 0..m /\ k + 1 \in 0..n /\ k + 1 # 0 /\ (k + 1) - 1 = k /\ k <= m /\ k <= n
      OBVIOUS
    <2>2. c[k + 1] = Step(loop, a, k + 1, c[k]) /\ d[k + 1] = Step(loop, a, k + 1, d[k]) BY <2>1 DEF Trace
    <2> QED BY <1>2, <2>1, <2>2
  <1> HIDE DEF T
  <1>3. \A k \in Nat : k \in T BY <1>1, <1>2, Induction
  <1> QED BY <1>3 DEF T

(* All its rounds.                                                         *)
Runs(f, loop, a, start) ==
  f = [k \in Nat |-> IF k = 0 THEN start ELSE Step(loop, a, k, f[k - 1])]

LEMMA LoopsRun ==
  ASSUME NEW loop, NEW a, NEW start
  PROVE  \E f : Runs(f, loop, a, start)
  <1> DEFINE C(n) == CHOOSE c : Trace(c, n, loop, a, start)
             f == [k \in Nat |-> C(k)[k]]
  <1>1. \A n \in Nat : Trace(C(n), n, loop, a, start) BY TracesExist
  <1> HIDE DEF C
  <1>2. ASSUME NEW k \in Nat PROVE f[k] = IF k = 0 THEN start ELSE Step(loop, a, k, f[k - 1])
    <2>1. CASE k = 0
      <3>1. 0 \in 0..0 OBVIOUS
      <3>2. C(0)[0] = start BY <1>1, <3>1 DEF Trace
      <3> QED BY <2>1, <3>2
    <2>2. CASE k # 0
      <3>1. k \in 0..k /\ k - 1 \in Nat /\ k - 1 <= k /\ k - 1 <= k - 1 BY <2>2
      <3>2. C(k)[k] = Step(loop, a, k, C(k)[k - 1]) BY <1>1, <2>2, <3>1 DEF Trace
      <3>3. Trace(C(k), k, loop, a, start) /\ Trace(C(k - 1), k - 1, loop, a, start) BY <1>1, <3>1
      <3>4. C(k)[k - 1] = C(k - 1)[k - 1] BY <3>1, <3>3, TracesAgree
      <3> QED BY <2>2, <3>1, <3>2, <3>4
    <2> QED BY <2>1, <2>2
  <1>3. f = [k \in Nat |-> f[k]] OBVIOUS
  <1> HIDE DEF f
  <1>4. Runs(f, loop, a, start) BY <1>2, <1>3 DEF Runs
  <1> QED BY <1>4

(* The levels of the tree, by the loop that makes them.                    *)
LEMMA TreeLevelFacts ==
  ASSUME NEW L
  PROVE  /\ TreeLevel(L, 0) = L
         /\ \A k \in Nat : TreeLevel(L, k + 1) = NextLevel(TreeLevel(L, k))
  <1> DEFINE g == CHOOSE h : h = [k \in Nat |-> IF k = 0 THEN L ELSE NextLevel(h[k - 1])]
  <1>1. PICK f : Runs(f, "levels", L, L) BY LoopsRun
  <1>2. f = [k \in Nat |-> IF k = 0 THEN L ELSE NextLevel(f[k - 1])] BY <1>1 DEF Runs, Step
  <1>3. g = [k \in Nat |-> IF k = 0 THEN L ELSE NextLevel(g[k - 1])] BY <1>2
  <1>4. \A k : TreeLevel(L, k) = g[k] BY DEF TreeLevel
  <1> HIDE DEF g
  <1>5. g[0] = L BY <1>3
  <1>6. ASSUME NEW k \in Nat PROVE g[k + 1] = NextLevel(g[k])
    <2>1. k + 1 \in Nat /\ k + 1 # 0 /\ (k + 1) - 1 = k OBVIOUS
    <2>2. g[k + 1] = IF k + 1 = 0 THEN L ELSE NextLevel(g[(k + 1) - 1]) BY <1>3, <2>1
    <2> QED BY <2>1, <2>2
  <1> QED BY <1>4, <1>5, <1>6

(* Every level is a sequence, and shorter than the one below it until one  *)
(* node is left.                                                           *)
Shrunk(s, k, n) == IsSeq(s) /\ Len(s) >= 1 /\ (Len(s) = 1 \/ Len(s) + k <= n)

LEMMA LevelsShrink ==
  ASSUME NEW L, IsSeq(L), Len(L) >= 1
  PROVE  \A k \in Nat : Shrunk(TreeLevel(L, k), k, Len(L))
  <1> DEFINE T == {k \in Nat : Shrunk(TreeLevel(L, k), k, Len(L))}
  <1>1. 0 \in T
    <2>1. TreeLevel(L, 0) = L BY TreeLevelFacts
    <2>2. Shrunk(L, 0, Len(L)) BY DEF Shrunk, IsSeq
    <2> QED BY <2>1, <2>2
  <1>2. ASSUME NEW k \in Nat, k \in T PROVE k + 1 \in T
    <2> DEFINE s == TreeLevel(L, k)
               t == TreeLevel(L, k + 1)
    <2>1. t = NextLevel(s) BY TreeLevelFacts
    <2>2. Shrunk(s, k, Len(L)) BY <1>2
    <2> HIDE DEF s, t
    <2>3. IsSeq(t) /\ Len(t) = Half(Len(s)) BY <2>1, <2>2, NextLevelFacts DEF Shrunk
    <2>4. Len(s) \in Nat /\ Len(L) \in Nat BY <2>2 DEF Shrunk, IsSeq
    <2>5. /\ Half(Len(s)) \in Nat /\ (Len(s) >= 1 => Half(Len(s)) >= 1)
          /\ (Len(s) >= 2 => Half(Len(s)) < Len(s)) /\ (Len(s) \in 1..2 => Half(Len(s)) = 1)
      BY <2>4, HalfFacts
    <2>6. Len(s) >= 1 /\ (Len(s) = 1 \/ Len(s) + k <= Len(L)) BY <2>2 DEF Shrunk
    <2> DEFINE a == Len(s)
               b == Half(Len(s))
    <2> HIDE DEF a, b
    <2>7. /\ a \in Nat /\ b \in Nat /\ a >= 1 /\ (a = 1 \/ a + k <= Len(L))
          /\ (a >= 1 => b >= 1) /\ (a >= 2 => b < a) /\ (a \in 1..2 => b = 1)
      BY <2>4, <2>5, <2>6 DEF a, b
    <2>8. b >= 1 /\ (b = 1 \/ b + (k + 1) <= Len(L)) BY <2>4, <2>7
    <2>9. Shrunk(t, k + 1, Len(L)) BY <2>3, <2>8 DEF Shrunk, b
    <2> QED BY <2>9 DEF t
  <1> HIDE DEF T
  <1>3. \A k \in Nat : k \in T BY <1>1, <1>2, Induction
  <1> QED BY <1>3 DEF T

LEMMA LevelType ==
  ASSUME NEW L, IsSeq(L), Len(L) >= 1, NEW k \in Nat
  PROVE  /\ IsSeq(TreeLevel(L, k)) /\ Len(TreeLevel(L, k)) \in Nat \ {0}
         /\ TreeLevel(L, k + 1) = NextLevel(TreeLevel(L, k))
         /\ Len(TreeLevel(L, k + 1)) = Half(Len(TreeLevel(L, k)))
  <1>1. Shrunk(TreeLevel(L, k), k, Len(L)) BY LevelsShrink
  <1>2. IsSeq(TreeLevel(L, k)) /\ Len(TreeLevel(L, k)) \in Nat \ {0} BY <1>1 DEF Shrunk, IsSeq
  <1>3. TreeLevel(L, k + 1) = NextLevel(TreeLevel(L, k)) BY TreeLevelFacts
  <1> QED BY <1>2, <1>3, NextLevelFacts

(* The height is where one node is left.                                   *)
LEMMA HeightFacts ==
  ASSUME NEW L, IsSeq(L), Len(L) >= 1
  PROVE  /\ Height(L) \in Nat /\ Len(TreeLevel(L, Height(L))) = 1
         /\ \A j \in Nat : j < Height(L) => Len(TreeLevel(L, j)) >= 2
         /\ \A j \in Nat : j >= Height(L) => Len(TreeLevel(L, j)) = 1
  <1> DEFINE n == Len(L)
             W(k) == Len(TreeLevel(L, k))
             T == {k \in 0..n : W(k) = 1}
             Is(k) == W(k) = 1 /\ \A j \in 0..(k - 1) : W(j) # 1
  <1>1. n \in Nat BY DEF IsSeq
  <1>2. \A k \in Nat : W(k) \in Nat \ {0} /\ W(k + 1) = Half(W(k)) BY LevelType
  <1>3. n \in T
    <2>1. Shrunk(TreeLevel(L, n), n, n) BY <1>1, LevelsShrink
    <2>2. W(n) = 1 \/ W(n) + n <= n BY <2>1 DEF Shrunk
    <2>3. W(n) \in Nat \ {0} BY <1>1, <1>2
    <2> HIDE DEF W, n
    <2> QED BY <1>1, <2>2, <2>3
  <1>4. Height(L) = CHOOSE k \in 0..n : Is(k) BY DEF Height
  <1> HIDE DEF W, n
  <1>5. PICK x \in T : \A y \in T : x <= y
    <2>1. T \in SUBSET Nat /\ T # {} BY <1>1, <1>3
    <2> QED BY <2>1, Least
  <1>6. x \in 0..n /\ Is(x)
    <2>1. x \in 0..n /\ W(x) = 1 BY <1>5
    <2>2. \A j \in 0..(x - 1) : j \in 0..n /\ ~(x <= j) BY <1>1, <2>1
    <2> QED BY <1>5, <2>1, <2>2
  <1> DEFINE h == Height(L)
  <1>7. h \in 0..n /\ Is(h)
    <2> HIDE DEF Is
    <2> QED BY <1>4, <1>6
  <1> HIDE DEF h
  <1>8. h \in Nat /\ W(h) = 1 BY <1>1, <1>7
  <1>9. ASSUME NEW j \in Nat, j < h PROVE W(j) >= 2
    <2>0. j \in 0..(h - 1)
      <3>1. h \in Nat BY <1>8
      <3> QED BY <1>9, <3>1
    <2>1. j \in 0..(h - 1) /\ W(j) \in Nat \ {0} BY <1>2, <2>0
    <2>2. W(j) # 1 BY <1>7, <2>1
    <2> QED BY <2>1, <2>2
  <1> DEFINE S == {i \in Nat : W(h + i) = 1}
  <1>10. \A i \in Nat : i \in S
    <2>1. 0 \in S
      <3>1. h + 0 = h BY <1>8
      <3> QED BY <1>8, <3>1
    <2>2. ASSUME NEW i \in Nat, i \in S PROVE i + 1 \in S
      <3>1. h + i \in Nat /\ h + (i + 1) = (h + i) + 1 /\ W(h + i) = 1 BY <1>8, <2>2
      <3>2. W((h + i) + 1) = Half(1) BY <1>2, <3>1
      <3>3. Half(1) = 1 BY DEF Half
      <3> QED BY <3>1, <3>2, <3>3
    <2> HIDE DEF S
    <2> QED BY <2>1, <2>2, Induction
  <1>11. ASSUME NEW j \in Nat, j >= h PROVE W(j) = 1
    <2>1. j - h \in Nat /\ h + (j - h) = j BY <1>8, <1>11
    <2>2. j - h \in S BY <1>10, <2>1
    <2> QED BY <2>1, <2>2
  <1> QED BY <1>8, <1>9, <1>11 DEF W, h

LEMMA RootIs ==
  ASSUME NEW L, IsSeq(L), Len(L) >= 1
  PROVE  MerkleRoot(L) = TreeLevel(L, Height(L))[1]
  <1>1. L # <<>>
    <2>1. Len(L) # 0 BY DEF IsSeq
    <2>2. Len(<<>>) = 0 OBVIOUS
    <2> QED BY <2>1, <2>2
  <1> QED BY <1>1 DEF MerkleRoot

(* A level whose last node was replaced, or that got one more.             *)
Almost(s, t) ==
  /\ IsSeq(s) /\ IsSeq(t) /\ Len(s) >= 1
  /\ Len(t) \in {Len(s), Len(s) + 1}
  /\ \A i \in 1..(Len(t) - 1) : t[i] = s[i]

LEMMA AlmostUp ==
  ASSUME NEW s, NEW t, Almost(s, t)
  PROVE  Almost(NextLevel(s), NextLevel(t))
  <1> DEFINE m == Len(s)
             n == Len(t)
  <1>1. /\ m \in Nat /\ n \in Nat /\ m >= 1 /\ n \in {m, m + 1}
        /\ \A i \in 1..(n - 1) : t[i] = s[i]
    BY DEF Almost, IsSeq
  <1>2. /\ IsSeq(NextLevel(s)) /\ Len(NextLevel(s)) = Half(m)
        /\ \A i \in 1..Half(m) :
             NextLevel(s)[i] = PairHash(s[2 * i - 1], IF 2 * i <= m THEN s[2 * i] ELSE s[2 * i - 1])
    BY NextLevelFacts DEF Almost
  <1>3. /\ IsSeq(NextLevel(t)) /\ Len(NextLevel(t)) = Half(n)
        /\ \A i \in 1..Half(n) :
             NextLevel(t)[i] = PairHash(t[2 * i - 1], IF 2 * i <= n THEN t[2 * i] ELSE t[2 * i - 1])
    BY NextLevelFacts DEF Almost
  <1> HIDE DEF m, n
  <1>4. Half(m) >= 1 /\ Half(n) \in {Half(m), Half(m) + 1} /\ Half(m) \in Nat /\ Half(n) \in Nat
    BY <1>1 DEF Half
  <1>5. ASSUME NEW i \in 1..(Half(n) - 1) PROVE NextLevel(t)[i] = NextLevel(s)[i]
    <2>1. i \in 1..Half(n) /\ i \in 1..Half(m) /\ i < Half(n) BY <1>4
    <2>2. 2 * i < n BY <1>1, <2>1, HalfFacts
    <2>3. /\ 2 * i <= n /\ 2 * i <= m /\ 2 * i \in 1..(n - 1) /\ 2 * i - 1 \in 1..(n - 1)
      BY <1>1, <2>1, <2>2
    <2>4. t[2 * i] = s[2 * i] /\ t[2 * i - 1] = s[2 * i - 1] BY <1>1, <2>3
    <2>5. NextLevel(s)[i] = PairHash(s[2 * i - 1], s[2 * i]) BY <1>2, <2>1, <2>3
    <2>6. NextLevel(t)[i] = PairHash(t[2 * i - 1], t[2 * i]) BY <1>3, <2>1, <2>3
    <2> QED BY <2>4, <2>5, <2>6
  <1> QED BY <1>2, <1>3, <1>4, <1>5 DEF Almost

(* L with one more leaf.                                                   *)
Longer(L, M) ==
  /\ IsSeq(L) /\ IsSeq(M) /\ Len(L) >= 1 /\ Len(M) = Len(L) + 1
  /\ \A i \in 1..Len(L) : M[i] = L[i]

LEMMA LevelsAlmost ==
  ASSUME NEW L, NEW M, Longer(L, M)
  PROVE  \A k \in Nat : Almost(TreeLevel(L, k), TreeLevel(M, k))
  <1> DEFINE T == {k \in Nat : Almost(TreeLevel(L, k), TreeLevel(M, k))}
  <1>1. 0 \in T
    <2>1. TreeLevel(L, 0) = L /\ TreeLevel(M, 0) = M BY TreeLevelFacts
    <2>2. Almost(L, M)
      <3>1. Len(M) - 1 = Len(L) BY DEF Longer, IsSeq
      <3> QED BY <3>1 DEF Almost, Longer
    <2> QED BY <2>1, <2>2
  <1>2. ASSUME NEW k \in Nat, k \in T PROVE k + 1 \in T
    <2>1. /\ TreeLevel(L, k + 1) = NextLevel(TreeLevel(L, k))
          /\ TreeLevel(M, k + 1) = NextLevel(TreeLevel(M, k))
      BY TreeLevelFacts
    <2> QED BY <1>2, <2>1, AlmostUp
  <1> HIDE DEF T
  <1>3. \A k \in Nat : k \in T BY <1>1, <1>2, Induction
  <1> QED BY <1>3 DEF T
----------------------------------------------------------------------------
(***************************************************************************)
(* A level of the frontier, and the level of the tree it stands for.  With *)
(* exact, its older node is right; without, only where a parent is made of *)
(* it, which is when the level has an even length.                         *)
(***************************************************************************)
Sits(l, s, exact) ==
  /\ l = Level(Len(s), l.tail)
  /\ IsSeq(l.tail) /\ Len(l.tail) = IF Len(s) = 1 THEN 1 ELSE 2
  /\ End(l.tail) = End(s)
  /\ Len(s) >= 2 /\ (exact \/ Len(s) % 2 = 0) => l.tail[1] = s[Len(s) - 1]

LEMMA LevelFields ==
  ASSUME NEW n, NEW tail
  PROVE  Level(n, tail).len = n /\ Level(n, tail).tail = tail
  BY DEF Level

LEMMA SitsFields ==
  ASSUME NEW l, NEW s, NEW x, Sits(l, s, x), IsSeq(s), Len(s) \in Nat \ {0}
  PROVE  /\ l.len = Len(s) /\ End(l.tail) = s[Len(s)]
         /\ Len(s) = 1 => Len(l.tail) = 1 /\ l.tail[1] = s[1]
         /\ Len(s) >= 2 => Len(l.tail) = 2 /\ l.tail[2] = s[Len(s)]
         /\ Len(s) >= 2 /\ (x \/ Len(s) % 2 = 0) => l.tail[1] = s[Len(s) - 1]
  <1>1. l.len = Len(s)
    <2>1. l = Level(Len(s), l.tail) BY DEF Sits
    <2> QED BY <2>1, LevelFields
  <1>2. End(l.tail) = s[Len(s)] /\ End(l.tail) = l.tail[Len(l.tail)] BY DEF Sits, End
  <1>3. Len(l.tail) = IF Len(s) = 1 THEN 1 ELSE 2 BY DEF Sits
  <1>4. Len(s) >= 2 => Len(s) # 1
    <2> DEFINE n == Len(s)
    <2>1. n \in Nat OBVIOUS
    <2> HIDE DEF n
    <2>2. n >= 2 => n # 1 BY <2>1
    <2> QED BY <2>2 DEF n
  <1>5. Len(s) >= 2 /\ (x \/ Len(s) % 2 = 0) => l.tail[1] = s[Len(s) - 1] BY DEF Sits
  <1> QED BY <1>1, <1>2, <1>3, <1>4, <1>5

(* Two nodes, and a level made of them.                                    *)
LEMMA PairFacts ==
  ASSUME NEW a, NEW b
  PROVE  IsSeq(<<a, b>>) /\ Len(<<a, b>>) = 2 /\ <<a, b>>[1] = a /\ <<a, b>>[2] = b
  <1>1. <<a, b>> = [i \in 1..2 |-> <<a, b>>[i]] OBVIOUS
  <1> QED BY <1>1, SeqOf

LEMMA SingleFacts ==
  ASSUME NEW a
  PROVE  IsSeq(<<a>>) /\ Len(<<a>>) = 1 /\ <<a>>[1] = a
  <1>1. <<a>> = [i \in 1..1 |-> <<a>>[i]] OBVIOUS
  <1> QED BY <1>1, SeqOf

LEMMA PairSits ==
  ASSUME NEW s, IsSeq(s), Len(s) >= 2, NEW a, NEW x, x \/ Len(s) % 2 = 0 => a = s[Len(s) - 1]
  PROVE  Sits(Level(Len(s), <<a, s[Len(s)]>>), s, x)
  <1> DEFINE tail == <<a, s[Len(s)]>>
  <1>1. IsSeq(tail) /\ Len(tail) = 2 /\ tail[1] = a /\ tail[2] = s[Len(s)] BY PairFacts
  <1> HIDE DEF tail
  <1>2. Level(Len(s), tail).tail = tail BY LevelFields
  <1>3. Len(s) # 1 BY DEF IsSeq
  <1>4. Sits(Level(Len(s), tail), s, x) BY <1>1, <1>2, <1>3 DEF Sits, End
  <1> QED BY <1>4 DEF tail

LEMMA SingleSits ==
  ASSUME NEW s, IsSeq(s), Len(s) = 1, NEW x
  PROVE  Sits(Level(1, <<s[1]>>), s, x)
  <1> DEFINE tail == <<s[1]>>
  <1>1. IsSeq(tail) /\ Len(tail) = 1 /\ tail[1] = s[1] BY SingleFacts
  <1> HIDE DEF tail
  <1>2. Level(1, tail).tail = tail BY LevelFields
  <1>3. ~(1 >= 2) OBVIOUS
  <1>4. Sits(Level(1, tail), s, x) BY <1>1, <1>2, <1>3 DEF Sits, End
  <1> QED BY <1>4 DEF tail

(* The last node of a level, from the level below it.                      *)
LEMMA LastOfNext ==
  ASSUME NEW s, IsSeq(s), Len(s) \in Nat \ {0}
  PROVE  End(NextLevel(s)) = PairHash(IF Len(s) % 2 = 1 THEN s[Len(s)] ELSE s[Len(s) - 1], s[Len(s)])
  <1> DEFINE n == Len(s)
             m == Half(Len(s))
  <1>1. n \in Nat \ {0} OBVIOUS
  <1>2. /\ Len(NextLevel(s)) = m
        /\ \A i \in 1..m :
             NextLevel(s)[i] = PairHash(s[2 * i - 1], IF 2 * i <= n THEN s[2 * i] ELSE s[2 * i - 1])
    BY NextLevelFacts
  <1>3. /\ m \in 1..m
        /\ n % 2 = 1 => 2 * m - 1 = n /\ ~(2 * m <= n)
        /\ n % 2 # 1 => 2 * m - 1 = n - 1 /\ 2 * m <= n /\ 2 * m = n
    <2> HIDE DEF n
    <2>1. m = Half(n) BY DEF n
    <2> QED BY <1>1, <2>1 DEF Half
  <1> HIDE DEF n, m
  <1>4. End(NextLevel(s)) = NextLevel(s)[m] BY <1>2 DEF End
  <1>5. NextLevel(s)[m] = PairHash(s[2 * m - 1], IF 2 * m <= n THEN s[2 * m] ELSE s[2 * m - 1])
    BY <1>2, <1>3
  <1>6. CASE n % 2 = 1 BY <1>3, <1>4, <1>5, <1>6 DEF n
  <1>7. CASE n % 2 # 1 BY <1>3, <1>4, <1>5, <1>7 DEF n
  <1> QED BY <1>6, <1>7

(* What the loop computes for the level above is that level's last node.   *)
LEMMA ParentSits ==
  ASSUME NEW l, NEW s, NEW x, Sits(l, s, x), IsSeq(s), Len(s) >= 2
  PROVE  ParentOfLast(l) = End(NextLevel(s))
  <1> DEFINE n == Len(s)
  <1>1. n \in Nat \ {0} BY DEF IsSeq
  <1>2. /\ l.len = n /\ End(l.tail) = s[n] /\ Len(l.tail) = 2
        /\ n % 2 = 0 => l.tail[1] = s[n - 1]
    BY <1>1, SitsFields
  <1>3. End(NextLevel(s)) = PairHash(IF n % 2 = 1 THEN s[n] ELSE s[n - 1], s[n])
    BY <1>1, LastOfNext
  <1> HIDE DEF n
  <1>4. n % 2 = 1 \/ (n % 2 = 0 /\ n % 2 # 1) BY <1>1
  <1>5. Len(l.tail) - 1 = 1 BY <1>2
  <1> QED BY <1>2, <1>3, <1>4, <1>5 DEF ParentOfLast

(* The new state of a level stands for the new level of the tree.          *)
LEMMA RegrownSits ==
  ASSUME NEW l, NEW s, NEW t, NEW x, Almost(s, t), Sits(l, s, x)
  PROVE  Sits(Regrown(l, Len(t), End(t)), t, x)
  <1> DEFINE m == Len(s)
             n == Len(t)
  <1>1. /\ m \in Nat \ {0} /\ n \in Nat \ {0} /\ n \in {m, m + 1} /\ IsSeq(s) /\ IsSeq(t)
        /\ \A i \in 1..(n - 1) : t[i] = s[i]
    <2>1. m \in Nat /\ n \in Nat /\ m >= 1 /\ n \in {m, m + 1} BY DEF Almost, IsSeq
    <2> HIDE DEF m, n
    <2>2. m \in Nat \ {0} /\ n \in Nat \ {0} BY <2>1
    <2> QED BY <2>1, <2>2 DEF Almost, m, n
  <1>2. /\ l.len = m /\ End(l.tail) = s[m]
        /\ m >= 2 => Len(l.tail) = 2
        /\ m >= 2 /\ (x \/ m % 2 = 0) => l.tail[1] = s[m - 1]
    BY <1>1, SitsFields
  <1>3. Regrown(l, n, End(t)) =
          Level(n, IF n = 1 THEN <<t[n]>>
                   ELSE IF n = m THEN <<l.tail[Len(l.tail) - 1], t[n]>>
                   ELSE <<End(l.tail), t[n]>>)
    BY <1>2 DEF Regrown, End
  <1>4. CASE n = 1
    <2>1. Regrown(l, n, End(t)) = Level(1, <<t[1]>>) BY <1>3, <1>4
    <2> QED BY <1>1, <1>4, <2>1, SingleSits
  <1>5. CASE n # 1 /\ n = m
    <2>1. n >= 2 /\ n - 1 \in 1..(n - 1) BY <1>1, <1>5
    <2>2. Len(l.tail) - 1 = 1 BY <1>2, <1>5, <2>1
    <2>3. Regrown(l, n, End(t)) = Level(n, <<l.tail[1], t[n]>>) BY <1>3, <1>5, <2>2
    <2>4. x \/ n % 2 = 0 => l.tail[1] = t[n - 1] BY <1>1, <1>2, <1>5, <2>1
    <2> QED BY <1>1, <2>1, <2>3, <2>4, PairSits
  <1>6. CASE n # 1 /\ n # m
    <2>1. n = m + 1 /\ n >= 2 /\ n - 1 = m /\ m \in 1..(n - 1) BY <1>1, <1>6
    <2>2. Regrown(l, n, End(t)) = Level(n, <<s[m], t[n]>>) BY <1>2, <1>3, <1>6
    <2>3. s[m] = t[n - 1] BY <1>1, <2>1
    <2> QED BY <1>1, <2>1, <2>2, <2>3, PairSits
  <1> QED BY <1>4, <1>5, <1>6
----------------------------------------------------------------------------
(***************************************************************************)
(* The frontier, and the tree it stands for.                               *)
(***************************************************************************)
Holds(f, L, exact) ==
  /\ IsSeq(f) /\ Len(f) = Height(L) + 1
  /\ \A k \in 0..Height(L) : Sits(f[k + 1], TreeLevel(L, k), exact)

(* The levels done after m rounds, over the tree of M.                     *)
Done(m, M) == IF m < Height(M) THEN m ELSE Height(M)
Good(new, m, M, exact) ==
  /\ IsSeq(new) /\ Len(new) = Done(m, M) + 1
  /\ \A k \in 0..Done(m, M) : Sits(new[k + 1], TreeLevel(M, k), exact)

(* A round that finds the top reached changes nothing ...                  *)
LEMMA RaiseAtTop ==
  ASSUME NEW M, IsSeq(M), Len(M) >= 1, NEW f, NEW m \in Nat, m >= Height(M),
         NEW x, NEW new, Good(new, m, M, x)
  PROVE  Good(Raise(f, new), m + 1, M, x)
  <1> DEFINE h == Height(M)
  <1>1. h \in Nat /\ Len(TreeLevel(M, h)) = 1 BY HeightFacts
  <1>2. Done(m, M) = h /\ Done(m + 1, M) = h
    <2>1. ~(m < h) /\ ~(m + 1 < h) BY <1>1
    <2> QED BY <2>1 DEF Done
  <1>3. Len(new) = h + 1 /\ Sits(new[h + 1], TreeLevel(M, h), x)
    <2>1. h \in 0..h BY <1>1
    <2> QED BY <1>2, <2>1 DEF Good
  <1>4. End(new).len = 1
    <2>1. IsSeq(TreeLevel(M, h)) BY <1>1, LevelType
    <2> DEFINE l == new[h + 1]
               s == TreeLevel(M, h)
    <2> HIDE DEF l, s
    <2>2. Sits(l, s, x) /\ IsSeq(s) /\ Len(s) = 1 BY <1>1, <1>3, <2>1 DEF l, s
    <2>3. Len(s) \in Nat \ {0} BY <2>2
    <2>4. l.len = 1 BY <2>2, <2>3, SitsFields
    <2> QED BY <1>3, <2>4 DEF End, l
  <1>5. Raise(f, new) = new
    <2>1. End(new).len <= 1 BY <1>4
    <2> QED BY <2>1 DEF Raise
  <1> QED BY <1>2, <1>5 DEF Good

(* ... and one below it adds the next level.                               *)
LEMMA RaiseBelowTop ==
  ASSUME NEW L, NEW M, Longer(L, M), NEW f, NEW x, Holds(f, L, x),
         NEW m \in Nat, m < Height(M), NEW new, Good(new, m, M, x)
  PROVE  Good(Raise(f, new), m + 1, M, x)
  <1> DEFINE h == Height(L)
             s == TreeLevel(M, m)
             t == TreeLevel(M, m + 1)
             low == End(new)
             n == Len(t)
  <1>1. /\ IsSeq(L) /\ Len(L) >= 1 /\ IsSeq(M) /\ Len(M) >= 1 /\ h \in Nat /\ Height(M) \in Nat
    <2>1. IsSeq(L) /\ IsSeq(M) /\ Len(L) >= 1 /\ Len(M) = Len(L) + 1 BY DEF Longer
    <2>2. Len(M) >= 1 BY <2>1 DEF IsSeq
    <2> QED BY <2>1, <2>2, HeightFacts
  <1>2. Done(m, M) = m /\ Done(m + 1, M) = m + 1
    <2>1. m + 1 < Height(M) \/ (~(m + 1 < Height(M)) /\ m + 1 = Height(M)) BY <1>1
    <2> QED BY <2>1 DEF Done
  <1>3. /\ IsSeq(new) /\ Len(new) = m + 1 /\ \A k \in 0..m : Sits(new[k + 1], TreeLevel(M, k), x)
    BY <1>2 DEF Good
  <1>4. /\ IsSeq(s) /\ IsSeq(t) /\ Len(s) \in Nat /\ Len(s) >= 2 /\ n \in Nat \ {0}
        /\ t = NextLevel(s) /\ n = Half(Len(s))
    <2>1. /\ IsSeq(s) /\ Len(s) \in Nat \ {0} /\ t = NextLevel(s) /\ n = Half(Len(s))
      BY <1>1, LevelType
    <2>2. m + 1 \in Nat OBVIOUS
    <2>3. IsSeq(t) /\ n \in Nat \ {0} BY <1>1, <2>2, LevelType
    <2>4. Len(s) >= 2 BY <1>1, HeightFacts
    <2> QED BY <2>1, <2>3, <2>4
  <1>5. Sits(low, s, x)
    <2>1. m \in 0..m OBVIOUS
    <2> QED BY <1>3, <2>1 DEF End
  <1>6. low.len = Len(s) /\ ParentOfLast(low) = End(t)
    <2>1. Len(s) \in Nat \ {0} BY <1>4
    <2>2. low.len = Len(s) BY <1>4, <1>5, <2>1, SitsFields
    <2> QED BY <1>4, <1>5, <2>2, ParentSits
  <1>7. Almost(TreeLevel(L, m + 1), t) BY LevelsAlmost
  <1>8. ~(low.len <= 1) /\ (low.len + 1) \div 2 = n /\ Len(new) + 1 = m + 2
    <2>1. (low.len + 1) \div 2 = n BY <1>4, <1>6 DEF Half
    <2> HIDE DEF s, low, n
    <2>2. ~(low.len <= 1) BY <1>4, <1>6
    <2> QED BY <1>3, <2>1, <2>2
  <1>9. Raise(f, new) =
          IF m + 2 > Len(f)
          THEN IF n = 1 THEN Append(new, Level(1, <<End(t)>>)) ELSE Inconsistent
          ELSE IF \/ f[m + 2].len >= 2 /\ Len(f[m + 2].tail) # 2
                  \/ n \notin {f[m + 2].len, f[m + 2].len + 1}
          THEN Inconsistent
          ELSE Append(new, Regrown(f[m + 2], n, End(t)))
    BY <1>6, <1>8 DEF Raise
  <1>10. Len(f) = h + 1 BY DEF Holds
  <1> HIDE DEF s, low
  <1>11. ASSUME NEW l, Sits(l, t, x), Raise(f, new) = Append(new, l)
         PROVE  Good(Raise(f, new), m + 1, M, x)
    <2> DEFINE e == Append(new, l)
    <2>1. /\ IsSeq(e) /\ Len(e) = Len(new) + 1 /\ e[Len(new) + 1] = l
          /\ \A i \in 1..Len(new) : e[i] = new[i]
      BY <1>3, Appended
    <2> HIDE DEF e, t
    <2>2. Len(e) = (m + 1) + 1 /\ e[(m + 1) + 1] = l /\ \A i \in 1..(m + 1) : e[i] = new[i]
      BY <1>3, <2>1
    <2>3. ASSUME NEW k \in 0..(m + 1) PROVE Sits(e[k + 1], TreeLevel(M, k), x)
      <3>1. CASE k = m + 1 BY <1>11, <2>2, <3>1 DEF t
      <3>2. CASE k # m + 1
        <4>1. k \in 0..m /\ k + 1 \in 1..(m + 1) BY <3>2
        <4> QED BY <1>3, <2>2, <4>1
      <3> QED BY <3>1, <3>2
    <2> QED BY <1>2, <1>11, <2>1, <2>2, <2>3 DEF Good, e
  <1>12. CASE m + 2 > Len(f)
    <2>1. m + 1 >= h /\ m >= h BY <1>1, <1>10, <1>12
    <2>2. Len(TreeLevel(L, m)) = 1 BY <1>1, <2>1, HeightFacts
    <2>3. Almost(TreeLevel(L, m), s) BY LevelsAlmost DEF s
    <2>4. Len(s) \in 1..2 BY <1>4, <2>2, <2>3 DEF Almost
    <2>5. n = 1 BY <1>4, <2>4, HalfFacts
    <2>6. Raise(f, new) = Append(new, Level(1, <<t[1]>>)) BY <1>9, <1>12, <2>5 DEF End
    <2>7. Sits(Level(1, <<t[1]>>), t, x) BY <1>4, <2>5, SingleSits
    <2> QED BY <1>11, <2>6, <2>7
  <1>13. CASE ~(m + 2 > Len(f))
    <2> DEFINE o == TreeLevel(L, m + 1)
               l == f[m + 2]
    <2>1. m + 1 \in 0..h /\ (m + 1) + 1 = m + 2 BY <1>1, <1>10, <1>13
    <2>2. Sits(l, o, x) BY <2>1 DEF Holds
    <2>3. IsSeq(o) /\ Len(o) \in Nat \ {0} BY <1>1, LevelType
    <2>4. n \in {Len(o), Len(o) + 1} BY <1>7 DEF Almost
    <2>5. l.len = Len(o) /\ (Len(o) >= 2 => Len(l.tail) = 2) BY <2>2, <2>3, SitsFields
    <2>6. Sits(Regrown(l, n, End(t)), t, x) BY <1>7, <2>2, RegrownSits
    <2> HIDE DEF o, l
    <2>7. Raise(f, new) = Append(new, Regrown(l, n, End(t)))
      BY <1>9, <1>13, <2>4, <2>5 DEF l
    <2> QED BY <1>11, <2>6, <2>7
  <1> QED BY <1>12, <1>13

(* The loop of _frontier_append.                                           *)
LEMMA AppendLoop ==
  ASSUME NEW f, f # <<>>, NEW leaf
  PROVE  \E g : /\ g[0] = <<Level(f[1].len + 1, <<End(f[1].tail), leaf>>)>>
                /\ \A k \in Nat : g[k + 1] = Raise(f, g[k])
                /\ FrontierAppend(f, leaf) = g[Len(f)]
  <1> DEFINE first == Level(f[1].len + 1, <<End(f[1].tail), leaf>>)
             g == CHOOSE h : h = [k \in Nat |-> IF k = 0 THEN <<first>> ELSE Raise(f, h[k - 1])]
  <1>1. FrontierAppend(f, leaf) = g[Len(f)] BY DEF FrontierAppend
  <1> HIDE DEF first
  <1>2. PICK h : Runs(h, "rounds", f, <<first>>) BY LoopsRun
  <1>3. h = [k \in Nat |-> IF k = 0 THEN <<first>> ELSE Raise(f, h[k - 1])]
    <2>1. "rounds" # "levels" OBVIOUS
    <2> QED BY <1>2, <2>1 DEF Runs, Step
  <1>4. g = [k \in Nat |-> IF k = 0 THEN <<first>> ELSE Raise(f, g[k - 1])] BY <1>3
  <1> HIDE DEF g
  <1>5. g[0] = <<first>> BY <1>4
  <1>6. ASSUME NEW k \in Nat PROVE g[k + 1] = Raise(f, g[k])
    <2>1. k + 1 \in Nat /\ k + 1 # 0 /\ (k + 1) - 1 = k OBVIOUS
    <2>2. g[k + 1] = IF k + 1 = 0 THEN <<first>> ELSE Raise(f, g[(k + 1) - 1]) BY <1>4, <2>1
    <2> QED BY <2>1, <2>2
  <1> QED BY <1>1, <1>5, <1>6 DEF first

(* An append turns the frontier of a tree into that of the tree with one   *)
(* more leaf.                                                              *)
LEMMA AppendHolds ==
  ASSUME NEW L, NEW M, Longer(L, M), NEW f, NEW x, Holds(f, L, x)
  PROVE  Holds(FrontierAppend(f, End(M)), M, x)
  <1> DEFINE h == Height(L)
             leaf == End(M)
  <1>1. /\ IsSeq(L) /\ Len(L) \in Nat /\ Len(L) >= 1 /\ IsSeq(M) /\ Len(M) = Len(L) + 1
        /\ Len(M) >= 1 /\ Len(M) >= 2
    <2>1. IsSeq(L) /\ IsSeq(M) /\ Len(L) >= 1 /\ Len(M) = Len(L) + 1 BY DEF Longer
    <2>2. Len(L) \in Nat BY <2>1 DEF IsSeq
    <2>3. Len(M) >= 1 /\ Len(M) >= 2 BY <2>1, <2>2
    <2> QED BY <2>1, <2>2, <2>3
  <1>2. h \in Nat /\ Height(M) \in Nat BY <1>1, HeightFacts
  <1>3. Len(f) = h + 1 /\ \A k \in 0..h : Sits(f[k + 1], TreeLevel(L, k), x) BY DEF Holds
  <1>4. f # <<>>
    <2>1. Len(f) # 0 BY <1>2, <1>3
    <2> QED BY <2>1
  <1>5. PICK g : /\ g[0] = <<Level(f[1].len + 1, <<End(f[1].tail), leaf>>)>>
                 /\ \A k \in Nat : g[k + 1] = Raise(f, g[k])
                 /\ FrontierAppend(f, leaf) = g[Len(f)]
    BY <1>4, AppendLoop
  <1> DEFINE T == {m \in Nat : Good(g[m], m, M, x)}
  <1>6. 0 \in T
    <2>1. Sits(f[1], L, x)
      <3>1. TreeLevel(L, 0) = L BY TreeLevelFacts
      <3>2. 0 \in 0..h /\ 0 + 1 = 1 BY <1>2
      <3> QED BY <1>3, <3>1, <3>2
    <2>2. f[1].len = Len(L) /\ End(f[1].tail) = L[Len(L)]
      <3>1. Len(L) \in Nat \ {0} BY <1>1
      <3> QED BY <1>1, <2>1, <3>1, SitsFields
    <2>3. L[Len(L)] = M[Len(M) - 1]
      <3>1. Len(L) \in 1..Len(L) /\ Len(M) - 1 = Len(L) BY <1>1
      <3> QED BY <3>1 DEF Longer
    <2>4. g[0] = <<Level(Len(M), <<M[Len(M) - 1], M[Len(M)]>>)>>
      BY <1>1, <1>5, <2>2, <2>3 DEF End
    <2>5. Sits(Level(Len(M), <<M[Len(M) - 1], M[Len(M)]>>), M, x) BY <1>1, PairSits
    <2> DEFINE l == Level(Len(M), <<M[Len(M) - 1], M[Len(M)]>>)
    <2> HIDE DEF l
    <2>6. IsSeq(<<l>>) /\ Len(<<l>>) = 1 /\ <<l>>[1] = l BY SingleFacts
    <2>7. Done(0, M) = 0
      <3>1. 0 < Height(M) \/ Height(M) = 0 BY <1>2
      <3> QED BY <3>1 DEF Done
    <2>8. TreeLevel(M, 0) = M BY TreeLevelFacts
    <2>9. Good(<<l>>, 0, M, x)
      <3>1. \A k \in 0..0 : k = 0 /\ k + 1 = 1 OBVIOUS
      <3>2. Sits(l, M, x) BY <2>5 DEF l
      <3> QED BY <2>6, <2>7, <2>8, <3>1, <3>2 DEF Good
    <2> QED BY <2>4, <2>9 DEF l
  <1>7. ASSUME NEW m \in Nat, m \in T PROVE m + 1 \in T
    <2>1. Good(g[m], m, M, x) /\ g[m + 1] = Raise(f, g[m]) BY <1>5, <1>7
    <2>2. CASE m < Height(M) BY <2>1, <2>2, RaiseBelowTop
    <2>3. CASE m >= Height(M) BY <1>1, <2>1, <2>3, RaiseAtTop
    <2>4. m < Height(M) \/ m >= Height(M) BY <1>2
    <2> QED BY <2>2, <2>3, <2>4
  <1>8. h + 1 \in T
    <2>1. \A m \in Nat : m \in T
      <3> HIDE DEF T
      <3> QED BY <1>6, <1>7, Induction
    <2> HIDE DEF T
    <2> QED BY <1>2, <2>1
  <1>9. Good(FrontierAppend(f, leaf), h + 1, M, x) BY <1>3, <1>5, <1>8
  <1>10. Done(h + 1, M) = Height(M)
    <2>1. Almost(TreeLevel(L, h), TreeLevel(M, h)) BY <1>2, LevelsAlmost
    <2>2. Len(TreeLevel(L, h)) = 1 BY <1>1, HeightFacts
    <2>3. Len(TreeLevel(M, h)) \in 1..2 BY <2>1, <2>2 DEF Almost
    <2>4. Len(TreeLevel(M, h + 1)) = Half(Len(TreeLevel(M, h))) /\ Len(TreeLevel(M, h)) \in Nat
      BY <1>1, <1>2, LevelType
    <2>5. Len(TreeLevel(M, h + 1)) = 1 BY <2>3, <2>4, HalfFacts
    <2>6. ~(h + 1 < Height(M))
      <3>1. ASSUME h + 1 < Height(M) PROVE Len(TreeLevel(M, h + 1)) >= 2
        BY <1>1, <1>2, <3>1, HeightFacts
      <3> QED BY <2>5, <3>1
    <2> QED BY <2>6 DEF Done
  <1> QED BY <1>9, <1>10 DEF Good, Holds

(* The frontier of one leaf.                                               *)
LEMMA FirstHolds ==
  ASSUME NEW L, IsSeq(L), Len(L) = 1, NEW x
  PROVE  Holds(FrontierAppend(<<>>, End(L)), L, x)
  <1> DEFINE l == Level(1, <<L[1]>>)
  <1>1. FrontierAppend(<<>>, End(L)) = <<l>> BY DEF FrontierAppend, End
  <1>2. Sits(l, L, x) BY SingleSits
  <1> HIDE DEF l
  <1>3. IsSeq(<<l>>) /\ Len(<<l>>) = 1 /\ <<l>>[1] = l BY SingleFacts
  <1>4. TreeLevel(L, 0) = L BY TreeLevelFacts
  <1>5. Height(L) = 0
    <2>1. Len(L) >= 1 OBVIOUS
    <2>2. Height(L) \in Nat /\ (0 < Height(L) => Len(TreeLevel(L, 0)) >= 2) BY <2>1, HeightFacts
    <2>3. Len(TreeLevel(L, 0)) = 1 BY <1>4
    <2> DEFINE n == Len(TreeLevel(L, 0))
               h == Height(L)
    <2>4. n = 1 /\ h \in Nat /\ (0 < h => n >= 2) BY <2>2, <2>3
    <2> HIDE DEF n, h
    <2>5. h = 0 BY <2>4
    <2> QED BY <2>5 DEF h
  <1>6. \A k \in 0..0 : k = 0 /\ k + 1 = 1 OBVIOUS
  <1>7. Holds(<<l>>, L, x) BY <1>2, <1>3, <1>4, <1>5, <1>6 DEF Holds
  <1> QED BY <1>1, <1>7

(* Its root is the tree's.                                                 *)
LEMMA HoldsRoot ==
  ASSUME NEW L, IsSeq(L), Len(L) >= 1, NEW f, NEW x, Holds(f, L, x)
  PROVE  FrontierRoot(f) = MerkleRoot(L) /\ f # <<>>
  <1> DEFINE h == Height(L)
             s == TreeLevel(L, h)
  <1>1. h \in Nat /\ Len(s) = 1 BY HeightFacts
  <1>2. IsSeq(s) BY <1>1, LevelType
  <1>3. Len(f) = h + 1 /\ Sits(f[h + 1], s, x)
    <2>1. h \in 0..h BY <1>1
    <2> QED BY <2>1 DEF Holds
  <1>4. f # <<>>
    <2>1. Len(f) # 0 BY <1>1, <1>3
    <2> QED BY <2>1
  <1>5. MerkleRoot(L) = s[1] BY RootIs
  <1>6. End(f) = f[h + 1] BY <1>3 DEF End
  <1> DEFINE l == f[h + 1]
  <1> HIDE DEF s, l
  <1>7. End(l.tail) = End(s) BY <1>3 DEF Sits, l
  <1>8. End(s) = s[1] BY <1>1 DEF End
  <1> QED BY <1>4, <1>5, <1>6, <1>7, <1>8 DEF FrontierRoot, l

(* _recompute_prefix, leaf by leaf.                                        *)
LEMMA FrontierOfRuns ==
  ASSUME NEW L
  PROVE  \E g : Runs(g, "leaves", L, <<>>) /\ FrontierOf(L) = g[Len(L)]
  <1> DEFINE g == CHOOSE h : h = [k \in Nat |-> IF k = 0 THEN <<>> ELSE FrontierAppend(h[k - 1], L[k])]
  <1>1. FrontierOf(L) = g[Len(L)] BY DEF FrontierOf
  <1>2. PICK h : Runs(h, "leaves", L, <<>>) BY LoopsRun
  <1>3. "leaves" # "levels" /\ "leaves" # "rounds" OBVIOUS
  <1>4. h = [k \in Nat |-> IF k = 0 THEN <<>> ELSE FrontierAppend(h[k - 1], L[k])]
    BY <1>2, <1>3 DEF Runs, Step
  <1>5. g = [k \in Nat |-> IF k = 0 THEN <<>> ELSE FrontierAppend(g[k - 1], L[k])] BY <1>4
  <1> HIDE DEF g
  <1>6. Runs(g, "leaves", L, <<>>) BY <1>3, <1>5 DEF Runs, Step
  <1> QED BY <1>1, <1>6

LEMMA FrontierOfStep ==
  ASSUME NEW L, NEW M, IsSeq(L), IsSeq(M), Len(M) = Len(L) + 1, \A i \in 1..Len(L) : M[i] = L[i]
  PROVE  FrontierOf(M) = FrontierAppend(FrontierOf(L), End(M))
  <1>1. PICK f : Runs(f, "leaves", L, <<>>) /\ FrontierOf(L) = f[Len(L)] BY FrontierOfRuns
  <1>2. PICK g : Runs(g, "leaves", M, <<>>) /\ FrontierOf(M) = g[Len(M)] BY FrontierOfRuns
  <1>3. "leaves" # "levels" /\ "leaves" # "rounds" OBVIOUS
  <1>4. ASSUME NEW k \in Nat
        PROVE  f[k + 1] = FrontierAppend(f[k], L[k + 1]) /\ g[k + 1] = FrontierAppend(g[k], M[k + 1])
    <2>1. k + 1 \in Nat /\ k + 1 # 0 /\ (k + 1) - 1 = k OBVIOUS
    <2>2. /\ f[k + 1] = Step("leaves", L, k + 1, f[k]) /\ g[k + 1] = Step("leaves", M, k + 1, g[k])
      BY <1>1, <1>2, <2>1 DEF Runs
    <2> QED BY <1>3, <2>2 DEF Step
  <1>5. f[0] = <<>> /\ g[0] = <<>> BY <1>1, <1>2 DEF Runs
  <1>6. Len(L) \in Nat BY DEF IsSeq
  <1> DEFINE T == {k \in Nat : k <= Len(L) => f[k] = g[k]}
  <1>7. 0 \in T BY <1>5
  <1>8. ASSUME NEW k \in Nat, k \in T PROVE k + 1 \in T
    <2> SUFFICES ASSUME k + 1 <= Len(L) PROVE f[k + 1] = g[k + 1]
      OBVIOUS
    <2>1. k <= Len(L) /\ k + 1 \in 1..Len(L) BY <1>6
    <2>2. f[k] = g[k] /\ M[k + 1] = L[k + 1] BY <1>8, <2>1
    <2> QED BY <1>4, <2>2
  <1>9. \A k \in Nat : k \in T
    <2> HIDE DEF T
    <2> QED BY <1>7, <1>8, Induction
  <1>10. f[Len(L)] = g[Len(L)] BY <1>6, <1>9
  <1>11. g[Len(L) + 1] = FrontierAppend(g[Len(L)], M[Len(L) + 1]) BY <1>4, <1>6
  <1> QED BY <1>1, <1>2, <1>10, <1>11 DEF End

LEMMA FrontierOfNothing == FrontierOf(<<>>) = <<>>
  <1>1. PICK g : Runs(g, "leaves", <<>>, <<>>) /\ FrontierOf(<<>>) = g[Len(<<>>)] BY FrontierOfRuns
  <1>2. Len(<<>>) = 0 OBVIOUS
  <1>3. g[0] = <<>> BY <1>1 DEF Runs
  <1> QED BY <1>1, <1>2, <1>3
----------------------------------------------------------------------------
(***************************************************************************)
(* What the checks before an append say about the frontier.                *)
(***************************************************************************)

(* They accept the frontier of the tree.                                   *)
LEMMA ExactIsLoadable ==
  ASSUME NEW L, IsSeq(L), Len(L) >= 1, NEW f, NEW x, Holds(f, L, x)
  PROVE  Loadable(f) /\ LevelsLinked(f) /\ f[1].len = Len(L)
  <1> DEFINE h == Height(L)
  <1>1. h \in Nat /\ Len(f) = h + 1 /\ IsSeq(f) BY HeightFacts DEF Holds
  <1>2. ASSUME NEW k \in 0..h
        PROVE  /\ Sits(f[k + 1], TreeLevel(L, k), x) /\ IsSeq(TreeLevel(L, k)) /\ k \in Nat
               /\ Len(TreeLevel(L, k)) \in Nat \ {0}
               /\ f[k + 1].len = Len(TreeLevel(L, k))
               /\ Len(TreeLevel(L, k)) = 1 => Len(f[k + 1].tail) = 1
               /\ Len(TreeLevel(L, k)) >= 2 => Len(f[k + 1].tail) = 2
    <2>1. k \in Nat BY <1>1
    <2>2. Sits(f[k + 1], TreeLevel(L, k), x) BY DEF Holds
    <2>3. IsSeq(TreeLevel(L, k)) /\ Len(TreeLevel(L, k)) \in Nat \ {0} BY <2>1, LevelType
    <2> QED BY <2>1, <2>2, <2>3, SitsFields
  <1>3. Loadable(f)
    <2>1. DOMAIN f = 1..(h + 1) BY <1>1, InSeq
    <2> SUFFICES ASSUME NEW i \in 1..(h + 1)
                 PROVE  Len(f[i].tail) \in 1..2 /\ f[i].len >= Len(f[i].tail)
      BY <2>1 DEF Loadable
    <2>2. i - 1 \in 0..h /\ (i - 1) + 1 = i BY <1>1
    <2> DEFINE n == Len(TreeLevel(L, i - 1))
    <2>3. n \in Nat \ {0} /\ f[i].len = n /\ (n = 1 => Len(f[i].tail) = 1) /\ (n >= 2 => Len(f[i].tail) = 2)
      BY <1>2, <2>2
    <2> DEFINE t == Len(f[i].tail)
               len == f[i].len
    <2>4. n \in Nat \ {0} /\ len = n /\ (n = 1 => t = 1) /\ (n >= 2 => t = 2) BY <2>3
    <2> HIDE DEF n, t, len
    <2>5. t \in 1..2 /\ len >= t BY <2>4
    <2> QED BY <2>5 DEF t, len
  <1>4. LevelsLinked(f)
    <2> SUFFICES ASSUME NEW i \in 1..(Len(f) - 1)
                 PROVE  /\ f[i].len >= 2 => Len(f[i].tail) = 2
                        /\ End(f[i + 1].tail) = ParentOfLast(f[i])
      BY DEF LevelsLinked
    <2>1. i - 1 \in 0..h /\ (i - 1) + 1 = i /\ i \in 0..h /\ i - 1 \in Nat /\ i - 1 < h BY <1>1
    <2> DEFINE s == TreeLevel(L, i - 1)
               t == TreeLevel(L, i)
    <2>2. Sits(f[i], s, x) /\ IsSeq(s) /\ f[i].len = Len(s) /\ (Len(s) >= 2 => Len(f[i].tail) = 2)
      BY <1>2, <2>1
    <2>3. Len(s) >= 2 BY <2>1, HeightFacts
    <2>4. t = NextLevel(s)
      <3>1. TreeLevel(L, (i - 1) + 1) = NextLevel(TreeLevel(L, i - 1)) BY <2>1, TreeLevelFacts
      <3> QED BY <2>1, <3>1
    <2>5. Sits(f[i + 1], t, x) BY <1>2, <2>1
    <2>6. End(f[i + 1].tail) = End(t) BY <2>5 DEF Sits
    <2>7. ParentOfLast(f[i]) = End(t) BY <2>2, <2>3, <2>4, ParentSits
    <2> QED BY <2>2, <2>6, <2>7
  <1>5. f[1].len = Len(L)
    <2>1. 0 \in 0..h /\ 0 + 1 = 1 BY <1>1
    <2>2. TreeLevel(L, 0) = L BY TreeLevelFacts
    <2>3. f[0 + 1].len = Len(TreeLevel(L, 0)) BY <1>2, <2>1
    <2> QED BY <2>1, <2>2, <2>3
  <1> QED BY <1>3, <1>4, <1>5

LEMMA ExactIsAnchored ==
  ASSUME NEW L, IsSeq(L), Len(L) >= 1, NEW f, Holds(f, L, TRUE), NEW r, r = MerkleRoot(L)
  PROVE  Loadable(f) /\ FrontierAnchored(f, L, r)
  <1>1. Loadable(f) /\ LevelsLinked(f) /\ f[1].len = Len(L) BY ExactIsLoadable
  <1>2. FrontierRoot(f) = r /\ f # <<>> BY HoldsRoot
  <1>3. LevelZeroAnchored(f, L)
    <2> DEFINE l == f[1]
               n == Len(L)
               a == IF n = 1 THEN 1 ELSE n - 1
               e == SubSeq(L, a, n)
    <2>1. n \in Nat \ {0} BY DEF IsSeq
    <2>2. Sits(l, L, TRUE)
      <3>1. 0 \in 0..Height(L) /\ 0 + 1 = 1 BY HeightFacts
      <3>2. TreeLevel(L, 0) = L BY TreeLevelFacts
      <3>3. Sits(f[0 + 1], TreeLevel(L, 0), TRUE) BY <3>1 DEF Holds
      <3> QED BY <3>1, <3>2, <3>3
    <2>3. IsSeq(l.tail) BY <2>2 DEF Sits
    <2>4. /\ n = 1 => Len(l.tail) = 1 /\ l.tail[1] = L[1]
          /\ n >= 2 => Len(l.tail) = 2 /\ l.tail[2] = L[n] /\ l.tail[1] = L[n - 1]
      BY <2>1, <2>2, SitsFields
    <2>5. L \in Seq({L[i] : i \in 1..n}) BY InSeq
    <2> HIDE DEF l
    <2> DEFINE X == {L[i] : i \in 1..n}
    <2>6. L \in Seq(X) /\ Len(L) = n BY <2>5
    <2> HIDE DEF X, n
    <2>7. e \in Seq(X) /\ Len(e) = n - a + 1 /\ \A i \in 1..(n - a + 1) : e[i] = L[a + i - 1]
      <3>1. a \in 1..n /\ a \in Nat BY <2>1
      <3> HIDE DEF a
      <3> QED BY <2>1, <2>6, <3>1
    <2>8. CASE n = 1
      <3>1. Len(e) = 1 /\ e[1] = L[1] BY <2>7, <2>8
      <3> HIDE DEF e
      <3>2. IsSeq(e) BY <2>7, <3>1 DEF IsSeq
      <3>3. \A i \in 1..1 : i = 1 OBVIOUS
      <3>4. l.tail = e BY <2>3, <2>4, <2>8, <3>1, <3>2, <3>3, SeqEqual
      <3> QED BY <3>4 DEF LevelZeroAnchored, l, e, n
    <2>9. CASE n # 1
      <3>1. n >= 2 /\ a = n - 1 /\ n - a + 1 = 2 /\ a + 1 - 1 = n - 1 /\ a + 2 - 1 = n BY <2>1, <2>9
      <3>2. 1 \in 1..2 /\ 2 \in 1..2 OBVIOUS
      <3>3. Len(e) = 2 /\ e[1] = L[a + 1 - 1] /\ e[2] = L[a + 2 - 1] BY <2>7, <3>1, <3>2
      <3>4. Len(e) = 2 /\ e[1] = L[n - 1] /\ e[2] = L[n] BY <3>1, <3>3
      <3> HIDE DEF e
      <3>5. IsSeq(e) BY <2>7, <3>4 DEF IsSeq
      <3>6. \A i \in 1..2 : i = 1 \/ i = 2 OBVIOUS
      <3>7. l.tail = e BY <2>3, <2>4, <3>1, <3>4, <3>5, <3>6, SeqEqual
      <3> QED BY <3>7 DEF LevelZeroAnchored, l, e, n
    <2> QED BY <2>8, <2>9
  <1> QED BY <1>1, <1>2, <1>3 DEF FrontierAnchored

(* A frontier with the right lengths, whatever the nodes in it.            *)
Sized(f, L) ==
  /\ IsSeq(f) /\ Len(f) = Height(L) + 1
  /\ \A k \in 0..Height(L) : /\ f[k + 1] = Level(Len(TreeLevel(L, k)), f[k + 1].tail)
                             /\ IsSeq(f[k + 1].tail)

LEMMA HoldsSized ==
  ASSUME NEW L, NEW f, NEW x, Holds(f, L, x)
  PROVE  Sized(f, L)
  BY DEF Holds, Sized, Sits

(* What passes the checks is right wherever the next append looks: from    *)
(* the root downwards, each parent pins the nodes it was made of.          *)
LEMMA AnchorsPin ==
  ASSUME NEW L, IsSeq(L), Len(L) >= 1, NEW f, Sized(f, L), Loadable(f),
         FrontierAnchored(f, L, MerkleRoot(L))
  PROVE  Holds(f, L, FALSE)
  <1> DEFINE h == Height(L)
             S(k) == TreeLevel(L, k)
             l(k) == f[k + 1]
             Last(k) == End(l(k).tail) = End(S(k))
  <1>1. h \in Nat /\ Len(S(h)) = 1 /\ \A k \in Nat : k < h => Len(S(k)) >= 2 BY HeightFacts
  <1>2. \A k \in Nat : IsSeq(S(k)) /\ Len(S(k)) \in Nat \ {0} /\ S(k + 1) = NextLevel(S(k))
    BY LevelType
  <1>3. IsSeq(f) /\ Len(f) = h + 1 /\ DOMAIN f = 1..(h + 1) BY InSeq DEF Sized
  <1>4. L # <<>> /\ f # <<>>
    <2>1. Len(L) # 0 /\ Len(f) # 0 BY <1>1, <1>3 DEF IsSeq
    <2> QED BY <2>1
  <1>5. LevelsLinked(f) /\ FrontierRoot(f) = MerkleRoot(L) BY <1>4 DEF FrontierAnchored
  <1>6. ASSUME NEW k \in 0..h
        PROVE  /\ l(k) = Level(Len(S(k)), l(k).tail) /\ IsSeq(l(k).tail) /\ l(k).len = Len(S(k))
               /\ Len(l(k).tail) \in 1..2 /\ Len(S(k)) >= Len(l(k).tail) /\ k \in Nat
               /\ Len(S(k)) \in Nat \ {0} /\ IsSeq(S(k))
    <2>1. k \in Nat /\ k + 1 \in 1..(h + 1) BY <1>1
    <2>2. l(k) = Level(Len(S(k)), l(k).tail) /\ IsSeq(l(k).tail) BY DEF Sized
    <2>3. l(k).len = Len(S(k)) BY <2>2, LevelFields
    <2>4. Len(l(k).tail) \in 1..2 /\ l(k).len >= Len(l(k).tail) BY <1>3, <2>1 DEF Loadable
    <2> QED BY <1>2, <2>1, <2>2, <2>3, <2>4
  <1>7. ASSUME NEW k \in 0..h, k < h
        PROVE  /\ Len(l(k).tail) = 2 /\ Len(S(k)) >= 2 /\ k + 1 \in 0..h
               /\ End(l(k + 1).tail) = ParentOfLast(l(k)) /\ S(k + 1) = NextLevel(S(k))
    <2>1. k \in Nat /\ k + 1 \in 0..h /\ k + 1 \in 1..((h + 1) - 1) BY <1>1, <1>7
    <2>2. /\ l(k).len >= 2 => Len(l(k).tail) = 2
          /\ End(f[(k + 1) + 1].tail) = ParentOfLast(l(k))
      BY <1>3, <1>5, <2>1 DEF LevelsLinked
    <2>3. Len(S(k)) >= 2 /\ l(k).len = Len(S(k)) BY <1>1, <1>6, <1>7, <2>1
    <2> QED BY <1>2, <2>1, <2>2, <2>3
  <1> HIDE DEF l, S, h
  <1>8. h \in 0..h /\ Last(h)
    <2>1. End(f) = l(h) BY <1>3 DEF End, l
    <2>2. FrontierRoot(f) = End(l(h).tail) BY <1>4, <2>1 DEF FrontierRoot
    <2>3. MerkleRoot(L) = S(h)[1] BY RootIs DEF S, h
    <2>4. End(S(h)) = S(h)[1] BY <1>1 DEF End
    <2>5. End(l(h).tail) = End(S(h)) BY <1>5, <2>2, <2>3, <2>4
    <2>6. h \in 0..h BY <1>1
    <2> QED BY <2>5, <2>6
  <1>9. ASSUME NEW k \in 0..h, k < h, Last(k + 1)
        PROVE  Last(k) /\ (Len(S(k)) % 2 = 0 => l(k).tail[1] = S(k)[Len(S(k)) - 1])
    <2> DEFINE n == Len(S(k))
               tail == l(k).tail
    <2>1. /\ Len(tail) = 2 /\ n >= 2 /\ n \in Nat \ {0} /\ IsSeq(S(k)) /\ l(k).len = n
          /\ ParentOfLast(l(k)) = End(NextLevel(S(k)))
      BY <1>6, <1>7, <1>9
    <2>2. End(NextLevel(S(k))) = PairHash(IF n % 2 = 1 THEN S(k)[n] ELSE S(k)[n - 1], S(k)[n])
      BY <2>1, LastOfNext
    <2>3. ParentOfLast(l(k)) = IF n % 2 = 1 THEN PairHash(End(tail), End(tail))
                               ELSE PairHash(tail[1], End(tail))
      <3>1. Len(tail) - 1 = 1 BY <2>1
      <3> QED BY <2>1, <3>1 DEF ParentOfLast
    <2> HIDE DEF n, tail
    <2>4. n % 2 = 1 \/ (n % 2 = 0 /\ n % 2 # 1) BY <2>1
    <2>5. CASE n % 2 = 1
      <3>1. PairHash(End(tail), End(tail)) = PairHash(S(k)[n], S(k)[n]) BY <2>1, <2>2, <2>3, <2>5
      <3>2. End(tail) = S(k)[n] BY <3>1, PairHashPins
      <3>3. n % 2 # 0 BY <2>1, <2>5
      <3> QED BY <3>2, <3>3 DEF End, n, tail
    <2>6. CASE n % 2 = 0 /\ n % 2 # 1
      <3>1. PairHash(tail[1], End(tail)) = PairHash(S(k)[n - 1], S(k)[n]) BY <2>1, <2>2, <2>3, <2>6
      <3>2. tail[1] = S(k)[n - 1] /\ End(tail) = S(k)[n] BY <3>1, PairHashPins
      <3> QED BY <3>2 DEF End, n, tail
    <2> QED BY <2>4, <2>5, <2>6
  <1> DEFINE T == {j \in Nat : j <= h => Last(h - j)}
  <1>10. 0 \in T
    <2>1. h - 0 = h BY <1>1
    <2> HIDE DEF Last
    <2> QED BY <1>8, <2>1
  <1>11. ASSUME NEW j \in Nat, j \in T PROVE j + 1 \in T
    <2> HIDE DEF Last
    <2> SUFFICES ASSUME j + 1 <= h PROVE Last(h - (j + 1))
      OBVIOUS
    <2> DEFINE k == h - (j + 1)
    <2>1. k \in 0..h /\ k < h /\ k + 1 = h - j /\ j <= h BY <1>1
    <2>2. Last(k + 1) BY <1>11, <2>1
    <2> HIDE DEF k
    <2>3. Last(k) BY <1>9, <2>1, <2>2 DEF Last
    <2> QED BY <2>3 DEF k
  <1>12. ASSUME NEW k \in 0..h PROVE Last(k)
    <2> HIDE DEF Last
    <2>1. h - k \in Nat /\ h - k <= h /\ h - (h - k) = k BY <1>1
    <2>2. \A j \in Nat : j \in T
      <3> HIDE DEF T
      <3> QED BY <1>10, <1>11, Induction
    <2>3. Last(h - (h - k)) BY <2>1, <2>2
    <2> QED BY <2>1, <2>3
  <1>13. ASSUME NEW k \in 0..h PROVE Sits(l(k), S(k), FALSE)
    <2> DEFINE n == Len(S(k))
               tail == l(k).tail
    <2>1. /\ l(k) = Level(n, tail) /\ IsSeq(tail) /\ Len(tail) \in 1..2 /\ n >= Len(tail)
          /\ n \in Nat \ {0} /\ End(tail) = End(S(k))
      BY <1>6, <1>12
    <2>2. CASE k = h
      <3>1. n = 1 BY <1>1, <2>2
      <3> HIDE DEF n, tail
      <3>2. ~(n >= 2) BY <3>1
      <3>3. Len(tail) = 1
        <4> DEFINE t == Len(tail)
        <4>1. t \in 1..2 /\ n >= t BY <2>1
        <4> HIDE DEF t
        <4>2. t = 1 BY <3>1, <4>1
        <4> QED BY <4>2 DEF t
      <3> QED BY <2>1, <3>1, <3>2, <3>3 DEF Sits, n, tail
    <2>3. CASE k # h
      <3>1. k < h BY <1>1, <2>3
      <3>2. k + 1 \in 0..h /\ Len(tail) = 2 /\ n >= 2 BY <1>7, <3>1
      <3>3. Last(k + 1) BY <1>12, <3>2
      <3>4. n % 2 = 0 => tail[1] = S(k)[n - 1] BY <1>9, <3>1, <3>3
      <3>5. n # 1
        <4> HIDE DEF n
        <4> QED BY <2>1, <3>2
      <3> QED BY <2>1, <3>2, <3>4, <3>5 DEF Sits, n, tail
    <2> QED BY <2>2, <2>3
  <1> QED BY <1>3, <1>13 DEF Holds, h, l, S
----------------------------------------------------------------------------
(***************************************************************************)
(* The state machine of module Frontier.                                   *)
(***************************************************************************)

LEMMA EmptyOrNot ==
  ASSUME NEW L, IsSeq(L)
  PROVE  /\ L = <<>> <=> Len(L) = 0
         /\ L # <<>> <=> Len(L) >= 1
  <1> DEFINE n == Len(L)
  <1>1. n \in Nat BY DEF IsSeq
  <1>2. L = <<>> => n = 0 OBVIOUS
  <1>3. n = 0 => L = <<>>
    <2> SUFFICES ASSUME n = 0 PROVE L = <<>>
      OBVIOUS
    <2>1. L = [i \in 1..0 |-> L[i]] BY DEF IsSeq
    <2> QED BY <2>1
  <1> HIDE DEF n
  <1>4. n >= 1 <=> n # 0 BY <1>1
  <1> QED BY <1>2, <1>3, <1>4 DEF n

(* One append to a frontier that is right wherever the append looks.       *)
AppendIsRight(L, M, f, g, x) ==
  /\ IsSeq(M) /\ M # <<>>
  /\ Holds(g, M, x) /\ FrontierRoot(g) = MerkleRoot(M)
  /\ g # Inconsistent
  /\ f = FrontierOf(L) => g = FrontierOf(M)

LEMMA OneAppend ==
  ASSUME NEW L, IsSeq(L), NEW leaf, NEW f, NEW x,
         L = <<>> => f = <<>>, L # <<>> => Holds(f, L, x)
  PROVE  AppendIsRight(L, Append(L, leaf), f, FrontierAppend(f, leaf), x)
  <1> DEFINE M == Append(L, leaf)
             g == FrontierAppend(f, leaf)
  <1>1. IsSeq(M) /\ Len(M) = Len(L) + 1 /\ M[Len(L) + 1] = leaf /\ \A i \in 1..Len(L) : M[i] = L[i]
    BY Appended
  <1>2. Len(L) \in Nat BY DEF IsSeq
  <1>3. End(M) = leaf BY <1>1 DEF End
  <1> HIDE DEF M
  <1>4. Len(M) >= 1 BY <1>1, <1>2
  <1>5. M # <<>> BY <1>1, <1>4, EmptyOrNot
  <1>6. Holds(g, M, x)
    <2>1. CASE L = <<>>
      <3>1. Len(M) = 1 BY <1>1, <2>1
      <3> QED BY <1>1, <1>3, <2>1, <3>1, FirstHolds
    <2>2. CASE L # <<>>
      <3>1. Longer(L, M) BY <1>1, <2>2, EmptyOrNot DEF Longer
      <3> QED BY <1>3, <2>2, <3>1, AppendHolds
    <2> QED BY <2>1, <2>2
  <1>7. FrontierOf(M) = FrontierAppend(FrontierOf(L), leaf) BY <1>1, <1>3, FrontierOfStep
  <1> HIDE DEF g
  <1>8. FrontierRoot(g) = MerkleRoot(M) BY <1>1, <1>4, <1>6, HoldsRoot
  <1>9. g # Inconsistent
    <2>1. g[1].len = Len(M) BY <1>1, <1>4, <1>6, ExactIsLoadable
    <2>2. Inconsistent[1].len = 0 BY DEF Inconsistent, Level
    <2>3. Len(M) # 0 BY <1>4
    <2> QED BY <2>1, <2>2, <2>3
  <1>10. f = FrontierOf(L) => g = FrontierOf(M) BY <1>7 DEF g
  <1> QED BY <1>1, <1>5, <1>6, <1>8, <1>9, <1>10 DEF AppendIsRight, M, g

(* The inductive invariant behind FrontierIsExact.                         *)
ExactInv ==
  /\ IsSeq(leaves) /\ damages \in Nat
  /\ leaves = <<>> => frontier = <<>> /\ root = EmptyRoot
  /\ damages = 0 /\ leaves # <<>> => Holds(frontier, leaves, TRUE) /\ root = MerkleRoot(leaves)
  /\ damages = 0 => frontier = FrontierOf(leaves)

LEMMA ExactInvHolds == Spec => []ExactInv
  <1>1. ASSUME Init PROVE ExactInv
    <2>1. leaves = <<>> /\ frontier = <<>> /\ root = EmptyRoot /\ damages = 0 BY <1>1 DEF Init
    <2>2. IsSeq(<<>>)
      <3>1. Len(<<>>) = 0 /\ <<>> = [i \in 1..0 |-> <<>>[i]] OBVIOUS
      <3> QED BY <3>1 DEF IsSeq
    <2> QED BY <2>1, <2>2, FrontierOfNothing DEF ExactInv
  <1>2. ASSUME ExactInv, [Next]_vars PROVE ExactInv'
    <2>1. CASE AppendLeaf
      <3> DEFINE g == FrontierAppend(frontier, NewLeaf)
      <3>1. /\ leaves' = Append(leaves, NewLeaf) /\ frontier' = g
            /\ root' = FrontierRoot(frontier') /\ damages' = damages
        BY <2>1 DEF AppendLeaf
      <3>2. CASE damages = 0
        <4>1. /\ IsSeq(leaves)
              /\ leaves = <<>> => frontier = <<>>
              /\ leaves # <<>> => Holds(frontier, leaves, TRUE)
              /\ frontier = FrontierOf(leaves)
          BY <1>2, <3>2 DEF ExactInv
        <4>2. AppendIsRight(leaves, Append(leaves, NewLeaf), frontier, g, TRUE)
          BY <4>1, OneAppend
        <4> HIDE DEF g
        <4>3. /\ IsSeq(leaves') /\ leaves' # <<>> /\ Holds(frontier', leaves', TRUE)
              /\ root' = MerkleRoot(leaves') /\ frontier' = FrontierOf(leaves')
          BY <3>1, <4>1, <4>2 DEF AppendIsRight
        <4> QED BY <3>1, <3>2, <4>3 DEF ExactInv
      <3>3. CASE damages # 0
        <4>1. IsSeq(Append(leaves, NewLeaf)) /\ Len(Append(leaves, NewLeaf)) = Len(leaves) + 1
          BY <1>2, Appended DEF ExactInv
        <4>2. Len(leaves) \in Nat /\ damages \in Nat BY <1>2 DEF ExactInv, IsSeq
        <4>3. leaves' # <<>> BY <3>1, <4>1, <4>2, EmptyOrNot
        <4> QED BY <3>1, <3>3, <4>1, <4>2, <4>3 DEF ExactInv
      <3> QED BY <3>2, <3>3
    <2>2. CASE RefuseAppend
      BY <1>2, <2>2 DEF ExactInv, RefuseAppend
    <2>3. CASE Damage
      <3>1. /\ damages' = damages + 1 /\ leaves' = leaves /\ root' = root /\ frontier # <<>>
        BY <2>3 DEF Damage
      <3>2. IsSeq(leaves) /\ damages \in Nat /\ leaves # <<>> BY <1>2, <3>1 DEF ExactInv
      <3>3. damages' \in Nat /\ damages' # 0 BY <3>1, <3>2
      <3> QED BY <3>1, <3>2, <3>3 DEF ExactInv
    <2>4. CASE UNCHANGED vars
      BY <1>2, <2>4 DEF ExactInv, vars
    <2> QED BY <1>2, <2>1, <2>2, <2>3, <2>4 DEF Next
  <1> QED BY <1>1, <1>2, PTL DEF Spec

LEMMA ExactIsTrusted == ExactInv => FrontierIsExact
  <1> SUFFICES ASSUME ExactInv, damages = 0 PROVE FrontierIsExact
    BY DEF FrontierIsExact
  <1>1. IsSeq(leaves) /\ frontier = FrontierOf(leaves) BY DEF ExactInv
  <1>2. FrontierAppend(frontier, NewLeaf) # Inconsistent
    <2>1. /\ leaves = <<>> => frontier = <<>>
          /\ leaves # <<>> => Holds(frontier, leaves, TRUE)
      BY DEF ExactInv
    <2>2. AppendIsRight(leaves, Append(leaves, NewLeaf), frontier,
                        FrontierAppend(frontier, NewLeaf), TRUE)
      BY <1>1, <2>1, OneAppend
    <2> QED BY <2>2 DEF AppendIsRight
  <1>3. CASE leaves = <<>>
    <2>1. frontier = <<>> BY <1>3 DEF ExactInv
    <2>2. Loadable(<<>>) BY DEF Loadable
    <2>3. FrontierAnchored(<<>>, <<>>, root) BY DEF FrontierAnchored
    <2>4. FrontierRoot(<<>>) = EmptyRoot /\ MerkleRoot(<<>>) = EmptyRoot
      BY DEF FrontierRoot, MerkleRoot
    <2> QED BY <1>1, <1>2, <1>3, <2>1, <2>2, <2>3, <2>4 DEF FrontierIsExact, Trusted
  <1>4. CASE leaves # <<>>
    <2>1. Holds(frontier, leaves, TRUE) /\ root = MerkleRoot(leaves) BY <1>4 DEF ExactInv
    <2>2. Len(leaves) >= 1 BY <1>1, <1>4, EmptyOrNot
    <2>3. FrontierRoot(frontier) = MerkleRoot(leaves) BY <1>1, <2>1, <2>2, HoldsRoot
    <2>4. Loadable(frontier) /\ FrontierAnchored(frontier, leaves, root)
      BY <1>1, <2>1, <2>2, ExactIsAnchored
    <2> QED BY <1>1, <1>2, <2>3, <2>4 DEF FrontierIsExact, Trusted
  <1> QED BY <1>3, <1>4

(* While the stored rows are intact, the frontier that _append_locked      *)
(* maintains level by level is the one _recompute_prefix builds from all   *)
(* entry hashes, its root is _merkle_root's, and the checks of the next    *)
(* append accept it: for logs of every size.                               *)
THEOREM FrontierAlwaysExact == Spec => []FrontierIsExact
  BY ExactInvHolds, ExactIsTrusted, PTL

(* The inductive invariant behind AttestedRootIsExact: damage that leaves  *)
(* the lengths of the levels alone changes nothing it speaks of.           *)
RootInv ==
  /\ IsSeq(leaves)
  /\ leaves = <<>> => frontier = <<>>
  /\ leaves # <<>> => Sized(frontier, leaves)
  /\ root = MerkleRoot(leaves)

LEMMA DamageKeepsSizes ==
  ASSUME DamageLengths = FALSE, NEW L, IsSeq(L), Len(L) >= 1, Sized(frontier, L), Damage
  PROVE  Sized(frontier', L)
  <1> DEFINE h == Height(L)
  <1>1. PICK i \in DOMAIN frontier :
          \E n \in {frontier[i].len}, tail \in UNION {[1..k -> Nodes] : k \in 1..2} :
             frontier' = [frontier EXCEPT ![i] = Level(n, tail)]
    BY DEF Damage
  <1>2. PICK tail \in UNION {[1..k -> Nodes] : k \in 1..2} :
          frontier' = [frontier EXCEPT ![i] = Level(frontier[i].len, tail)]
    BY <1>1
  <1>3. PICK m \in 1..2 : tail \in [1..m -> Nodes] BY <1>2
  <1>4. IsSeq(tail)
    <2>1. tail = [j \in 1..m |-> tail[j]] /\ m \in Nat BY <1>3
    <2> QED BY <2>1, SeqOf
  <1>5. IsSeq(frontier) /\ Len(frontier) = h + 1 /\ DOMAIN frontier = 1..Len(frontier)
    BY InSeq DEF Sized
  <1> DEFINE l == Level(frontier[i].len, tail)
             n == Len(frontier)
  <1>6. IsSeq(frontier') /\ Len(frontier') = n
    <2>1. n \in Nat /\ frontier = [j \in 1..n |-> frontier[j]] BY <1>5 DEF IsSeq
    <2>2. DOMAIN frontier' = 1..n /\ frontier' = [j \in 1..n |-> frontier'[j]]
      <3> HIDE DEF n, l
      <3> QED BY <1>2, <2>1
    <2> QED BY <2>1, <2>2, SeqOf
  <1>7. \A j \in 1..n : frontier'[j] = IF j = i THEN l ELSE frontier[j]
    BY <1>2, <1>5
  <1>8. l.len = frontier[i].len /\ l.tail = tail BY LevelFields
  <1>9. ASSUME NEW k \in 0..h
        PROVE  /\ frontier'[k + 1] = Level(Len(TreeLevel(L, k)), frontier'[k + 1].tail)
               /\ IsSeq(frontier'[k + 1].tail)
    <2>1. k + 1 \in 1..n
      <3>1. n = h + 1 /\ h \in Nat BY <1>5, HeightFacts
      <3> HIDE DEF h, n
      <3> QED BY <3>1
    <2>2. /\ frontier[k + 1] = Level(Len(TreeLevel(L, k)), frontier[k + 1].tail)
          /\ IsSeq(frontier[k + 1].tail)
      BY DEF Sized
    <2>3. frontier[k + 1].len = Len(TreeLevel(L, k)) BY <2>2, LevelFields
    <2>4. CASE k + 1 = i
      <3>1. frontier'[k + 1] = l /\ l.len = Len(TreeLevel(L, k)) BY <1>7, <1>8, <2>1, <2>3, <2>4
      <3>2. l = Level(l.len, l.tail) BY <1>8
      <3> HIDE DEF l
      <3> QED BY <1>4, <1>8, <3>1, <3>2
    <2>5. CASE k + 1 # i
      BY <1>7, <2>1, <2>2, <2>5
    <2> QED BY <2>4, <2>5
  <1> QED BY <1>5, <1>6, <1>9 DEF Sized

LEMMA RootInvHolds ==
  ASSUME DamageLengths = FALSE
  PROVE  Spec => []RootInv
  <1>1. ASSUME Init PROVE RootInv
    <2>1. leaves = <<>> /\ frontier = <<>> /\ root = EmptyRoot BY <1>1 DEF Init
    <2>2. IsSeq(<<>>)
      <3>1. Len(<<>>) = 0 /\ <<>> = [i \in 1..0 |-> <<>>[i]] OBVIOUS
      <3> QED BY <3>1 DEF IsSeq
    <2>3. MerkleRoot(<<>>) = EmptyRoot BY DEF MerkleRoot
    <2> QED BY <2>1, <2>2, <2>3 DEF RootInv
  <1>2. ASSUME RootInv, [Next]_vars PROVE RootInv'
    <2>1. CASE AppendLeaf
      <3> DEFINE g == FrontierAppend(frontier, NewLeaf)
      <3>1. /\ leaves' = Append(leaves, NewLeaf) /\ frontier' = g
            /\ root' = FrontierRoot(frontier') /\ Trusted
        BY <2>1 DEF AppendLeaf
      <3>2. IsSeq(leaves) /\ root = MerkleRoot(leaves) BY <1>2 DEF RootInv
      <3>3. leaves = <<>> => frontier = <<>> BY <1>2 DEF RootInv
      <3>4. leaves # <<>> => Holds(frontier, leaves, FALSE)
        <4> SUFFICES ASSUME leaves # <<>> PROVE Holds(frontier, leaves, FALSE)
          OBVIOUS
        <4>1. Sized(frontier, leaves) BY <1>2 DEF RootInv
        <4>2. Len(leaves) >= 1 BY <3>2, EmptyOrNot
        <4>3. Loadable(frontier) /\ FrontierAnchored(frontier, leaves, MerkleRoot(leaves))
          BY <3>1, <3>2 DEF Trusted
        <4> QED BY <3>2, <4>1, <4>2, <4>3, AnchorsPin
      <3>5. AppendIsRight(leaves, Append(leaves, NewLeaf), frontier, g, FALSE)
        BY <3>2, <3>3, <3>4, OneAppend
      <3> HIDE DEF g
      <3>6. /\ IsSeq(leaves') /\ leaves' # <<>> /\ Holds(frontier', leaves', FALSE)
            /\ root' = MerkleRoot(leaves')
        BY <3>1, <3>5 DEF AppendIsRight
      <3>7. Sized(frontier', leaves') BY <3>6, HoldsSized
      <3> QED BY <3>6, <3>7 DEF RootInv
    <2>2. CASE RefuseAppend
      BY <1>2, <2>2 DEF RootInv, RefuseAppend
    <2>3. CASE Damage
      <3>1. leaves' = leaves /\ root' = root /\ frontier # <<>> BY <2>3 DEF Damage
      <3>2. IsSeq(leaves) /\ root = MerkleRoot(leaves) /\ leaves # <<>> /\ Sized(frontier, leaves)
        BY <1>2, <3>1 DEF RootInv
      <3>3. Len(leaves) >= 1 BY <3>2, EmptyOrNot
      <3>4. Sized(frontier', leaves) BY <2>3, <3>2, <3>3, DamageKeepsSizes
      <3> QED BY <3>1, <3>2, <3>4 DEF RootInv
    <2>4. CASE UNCHANGED vars
      BY <1>2, <2>4 DEF RootInv, vars
    <2> QED BY <1>2, <2>1, <2>2, <2>3, <2>4 DEF Next
  <1> QED BY <1>1, <1>2, PTL DEF Spec

(* However often the nodes of stored frontier rows are damaged between     *)
(* appends, every root an append goes on to attest is the Merkle root of   *)
(* the log: _validate_append_anchors_locked pins, from the root down, each *)
(* node that _frontier_append reads.  Damage to the stored level lengths   *)
(* is excluded: a wrong length is not always noticed.                      *)
THEOREM AttestedRootsAreExact ==
  ASSUME DamageLengths = FALSE
  PROVE  Spec => []AttestedRootIsExact
  <1>1. RootInv => AttestedRootIsExact BY DEF RootInv, AttestedRootIsExact
  <1> QED BY <1>1, RootInvHolds, PTL
----------------------------------------------------------------------------
(***************************************************************************)
(* What a root says about its leaves.                                      *)
(***************************************************************************)

(* Trees of equally many leaves have the same shape.                       *)
LEMMA LevelsMatch ==
  ASSUME NEW F, NEW G, IsSeq(F), IsSeq(G), Len(F) >= 1, Len(F) = Len(G), NEW k \in Nat
  PROVE  Len(TreeLevel(F, k)) = Len(TreeLevel(G, k))
  <1> DEFINE T == {j \in Nat : Len(TreeLevel(F, j)) = Len(TreeLevel(G, j))}
  <1>1. 0 \in T BY TreeLevelFacts
  <1>2. ASSUME NEW j \in Nat, j \in T PROVE j + 1 \in T
    <2>1. /\ Len(TreeLevel(F, j + 1)) = Half(Len(TreeLevel(F, j)))
          /\ Len(TreeLevel(G, j + 1)) = Half(Len(TreeLevel(G, j)))
      BY LevelType
    <2> QED BY <1>2, <2>1
  <1> HIDE DEF T
  <1>3. k \in T BY <1>1, <1>2, Induction
  <1> QED BY <1>3 DEF T

LEMMA HeightsMatch ==
  ASSUME NEW F, NEW G, IsSeq(F), IsSeq(G), Len(F) >= 1, Len(F) = Len(G)
  PROVE  Height(F) = Height(G)
  <1> DEFINE a == Height(F)
             b == Height(G)
  <1>1. /\ a \in Nat /\ Len(TreeLevel(F, a)) = 1
        /\ \A j \in Nat : j < a => Len(TreeLevel(F, j)) >= 2
    BY HeightFacts
  <1>2. /\ b \in Nat /\ Len(TreeLevel(G, b)) = 1
        /\ \A j \in Nat : j < b => Len(TreeLevel(G, j)) >= 2
    BY HeightFacts
  <1>3. /\ Len(TreeLevel(F, a)) = Len(TreeLevel(G, a))
        /\ Len(TreeLevel(F, b)) = Len(TreeLevel(G, b))
    BY <1>1, <1>2, LevelsMatch
  <1> HIDE DEF a, b
  <1>4. ~(1 >= 2) OBVIOUS
  <1>5. ~(a < b) BY <1>1, <1>2, <1>3, <1>4
  <1>6. ~(b < a) BY <1>1, <1>2, <1>3, <1>4
  <1>7. a = b BY <1>1, <1>2, <1>5, <1>6
  <1> QED BY <1>7 DEF a, b

(* A level pins the one below it.                                          *)
LEMMA NextLevelPins ==
  ASSUME NEW s, NEW t, IsSeq(s), IsSeq(t), Len(s) = Len(t), NextLevel(s) = NextLevel(t)
  PROVE  s = t
  <1> DEFINE n == Len(s)
  <1>1. n \in Nat BY DEF IsSeq
  <1>2. ASSUME NEW i \in 1..n PROVE s[i] = t[i]
    <2> DEFINE j == (i + 1) \div 2
               S == PairHash(s[2 * j - 1], IF 2 * j <= n THEN s[2 * j] ELSE s[2 * j - 1])
               R == PairHash(t[2 * j - 1], IF 2 * j <= n THEN t[2 * j] ELSE t[2 * j - 1])
    <2>1. j \in 1..((n + 1) \div 2) /\ (i = 2 * j - 1 \/ i = 2 * j)
      <3> HIDE DEF n
      <3> QED BY <1>1
    <2> HIDE DEF j
    <2>2. NextLevel(s)[j] = S /\ NextLevel(t)[j] = R BY <2>1 DEF NextLevel
    <2>3. S = R BY <2>2
    <2>4. /\ s[2 * j - 1] = t[2 * j - 1]
          /\ (IF 2 * j <= n THEN s[2 * j] ELSE s[2 * j - 1])
                = (IF 2 * j <= n THEN t[2 * j] ELSE t[2 * j - 1])
      BY <2>3, PairHashPins
    <2>5. i <= n
      <3> HIDE DEF n
      <3> QED BY <1>1
    <2>6. CASE i = 2 * j - 1 BY <2>4, <2>6
    <2>7. CASE i = 2 * j
      <3>1. 2 * j <= n BY <2>5, <2>7
      <3>2. s[2 * j] = t[2 * j] BY <2>4, <3>1
      <3> QED BY <2>7, <3>2
    <2> QED BY <2>1, <2>6, <2>7
  <1> QED BY <1>2, SeqEqual

LEMMA RootPins ==
  ASSUME NEW F, NEW G, IsSeq(F), IsSeq(G), Len(F) >= 1, Len(F) = Len(G),
         MerkleRoot(F) = MerkleRoot(G)
  PROVE  F = G
  <1> DEFINE h == Height(F)
             P(k) == TreeLevel(F, k)
             Q(k) == TreeLevel(G, k)
  <1>1. h \in Nat /\ Len(P(h)) = 1 BY HeightFacts
  <1>2. Height(G) = h BY HeightsMatch
  <1>3. P(h)[1] = Q(h)[1] BY <1>2, RootIs
  <1>4. ASSUME NEW k \in Nat
        PROVE  /\ IsSeq(P(k)) /\ IsSeq(Q(k)) /\ Len(P(k)) = Len(Q(k))
               /\ P(k + 1) = NextLevel(P(k)) /\ Q(k + 1) = NextLevel(Q(k))
    BY LevelType, LevelsMatch
  <1>5. P(0) = F /\ Q(0) = G BY TreeLevelFacts
  <1> HIDE DEF h, P, Q
  <1> DEFINE T == {j \in Nat : j <= h => P(h - j) = Q(h - j)}
  <1>6. 0 \in T
    <2>1. h - 0 = h BY <1>1
    <2>2. \A i \in 1..Len(P(h)) : P(h)[i] = Q(h)[i] BY <1>1, <1>3
    <2>3. P(h) = Q(h) BY <1>1, <1>4, <2>2, SeqEqual
    <2> QED BY <2>1, <2>3
  <1>7. ASSUME NEW j \in Nat, j \in T PROVE j + 1 \in T
    <2> SUFFICES ASSUME j + 1 <= h PROVE P(h - (j + 1)) = Q(h - (j + 1))
      OBVIOUS
    <2> DEFINE k == h - (j + 1)
    <2>1. k \in Nat /\ k + 1 = h - j /\ j <= h BY <1>1
    <2>2. P(k + 1) = Q(k + 1) BY <1>7, <2>1
    <2> HIDE DEF k
    <2>3. NextLevel(P(k)) = NextLevel(Q(k)) BY <1>4, <2>1, <2>2
    <2>4. P(k) = Q(k) BY <1>4, <2>1, <2>3, NextLevelPins
    <2> QED BY <2>4 DEF k
  <1>8. P(0) = Q(0)
    <2>1. h <= h /\ h - h = 0 BY <1>1
    <2>2. h \in T
      <3> HIDE DEF T
      <3> QED BY <1>1, <1>6, <1>7, Induction
    <2>3. P(h - h) = Q(h - h) BY <2>1, <2>2
    <2> QED BY <2>1, <2>3
  <1> QED BY <1>5, <1>8

(* The root of some leaves is a leaf or a node, not the empty root.        *)
LEMMA RootIsNotEmpty ==
  ASSUME NEW F, IsSeq(F), Len(F) >= 1, F[1] # EmptyRoot
  PROVE  MerkleRoot(F) # EmptyRoot
  <1> DEFINE h == Height(F)
  <1>1. h \in Nat /\ Len(TreeLevel(F, h)) = 1 BY HeightFacts
  <1>2. MerkleRoot(F) = TreeLevel(F, h)[1] BY RootIs
  <1>3. CASE h = 0
    <2>1. TreeLevel(F, 0) = F BY TreeLevelFacts
    <2> QED BY <1>2, <1>3, <2>1
  <1>4. CASE h # 0
    <2> DEFINE k == h - 1
               s == TreeLevel(F, k)
    <2>1. k \in Nat /\ k + 1 = h
      <3> HIDE DEF h
      <3> QED BY <1>1, <1>4
    <2>2. TreeLevel(F, k + 1) = NextLevel(s) BY <2>1, TreeLevelFacts
    <2>3. IsSeq(s) /\ Len(s) \in Nat \ {0} BY <2>1, LevelType
    <2>4. MerkleRoot(F) = NextLevel(s)[1] BY <1>2, <2>1, <2>2
    <2> HIDE DEF s
    <2>5. 1 \in 1..((Len(s) + 1) \div 2)
      <3> DEFINE n == Len(s)
      <3>1. n \in Nat \ {0} BY <2>3
      <3> HIDE DEF n
      <3>2. 1 \in 1..((n + 1) \div 2) BY <3>1
      <3> QED BY <3>2 DEF n
    <2>6. PICK a, b : NextLevel(s)[1] = PairHash(a, b) BY <2>5 DEF NextLevel
    <2> QED BY <2>4, <2>6 DEF PairHash, EmptyRoot
  <1> QED BY <1>3, <1>4

(* Two logs of the same size with the same Merkle root hold the same entry *)
(* hashes, and no root of a log with entries is the empty log's: what the  *)
(* anchors of _append_locked and the signed heads rely on.  Leaves are any *)
(* hashes but the empty root; that a leaf may equal an inner node of the   *)
(* other tree does no harm, because the sizes are equal.                   *)
THEOREM MerkleRootCommits ==
  ASSUME NEW Leaf, EmptyRoot \notin Leaf
  PROVE  \A f, g \in Seq(Leaf) :
            Len(f) = Len(g) /\ f # <<>> =>
               /\ MerkleRoot(f) # EmptyRoot
               /\ MerkleRoot(f) = MerkleRoot(g) => f = g
  <1> SUFFICES ASSUME NEW f \in Seq(Leaf), NEW g \in Seq(Leaf), Len(f) = Len(g), f # <<>>
               PROVE  /\ MerkleRoot(f) # EmptyRoot
                      /\ MerkleRoot(f) = MerkleRoot(g) => f = g
    OBVIOUS
  <1>1. IsSeq(f) /\ IsSeq(g)
    <2>1. Len(f) \in Nat /\ f = [i \in 1..Len(f) |-> f[i]] OBVIOUS
    <2>2. Len(g) \in Nat /\ g = [i \in 1..Len(g) |-> g[i]] OBVIOUS
    <2> QED BY <2>1, <2>2 DEF IsSeq
  <1>2. Len(f) >= 1 BY <1>1, EmptyOrNot
  <1>3. f[1] # EmptyRoot
    <2>1. f[1] \in Leaf BY <1>2
    <2> QED BY <2>1
  <1> QED BY <1>1, <1>2, <1>3, RootIsNotEmpty, RootPins
=============================================================================
