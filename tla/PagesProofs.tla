---------------------------- MODULE PagesProofs ----------------------------
(***************************************************************************)
(* What a walk amounts to, for any names, subjects, page sizes and logs:   *)
(* the rows of one signed boundary, each once and in order, and refused    *)
(* only for a reason.                                                      *)
(***************************************************************************)
EXTENDS Pages, FiniteSetTheorems, FunctionTheorems, WellFoundedInduction, TLAPS

(***************************************************************************)
(* Prefixes and rows.                                                      *)
(***************************************************************************)

LEMMA PrefixIs ==
  ASSUME NEW s \in Seq(Entry), NEW t \in Seq(Entry)
  PROVE  IsPrefix(s, t) <=> Len(s) <= Len(t) /\ \A i \in 1..Len(s) : s[i] = t[i]
  BY DEF IsPrefix

LEMMA PrefixPart ==
  ASSUME NEW s \in Seq(Entry), NEW t \in Seq(Entry), Len(s) <= Len(t),
         \A i \in 1..Len(s) : s[i] = t[i]
  PROVE  SubSeq(t, 1, Len(s)) = s
  OBVIOUS

(* Finitely many things with different numbers can be put in order, and    *)
(* then each of them has a place.                                          *)
LEMMA Ranked ==
  ASSUME NEW S, IsFiniteSet(S), NEW key \in [S -> Nat], NEW n, n = Cardinality(S),
         \A x, y \in S : key[x] = key[y] => x = y
  PROVE  \E s \in [1..n -> S] : \A i, j \in DOMAIN s : i < j => key[s[i]] < key[s[j]]
  <1> DEFINE Below(x) == {y \in S : key[y] <= key[x]}
             rank == [x \in S |-> Cardinality(Below(x))]
  <1>0. \A x \in S : key[x] \in Nat OBVIOUS
  <1>1. n \in Nat /\ IsFiniteSet(1..n) /\ Cardinality(1..n) = n
    <2>1. n \in Nat BY FS_CardinalityType
    <2> QED BY <2>1, FS_Interval
  <1>2. ASSUME NEW x \in S
        PROVE  IsFiniteSet(Below(x)) /\ Cardinality(Below(x)) \in 1..n
    <2>1. Below(x) \in SUBSET S /\ x \in Below(x) BY <1>0
    <2> HIDE DEF Below
    <2>2. IsFiniteSet(Below(x)) /\ Cardinality(Below(x)) <= Cardinality(S) BY <2>1, FS_Subset
    <2>3. Cardinality(Below(x)) \in Nat BY <2>2, FS_CardinalityType
    <2>4. Cardinality(Below(x)) # 0 BY <2>1, <2>2, FS_EmptySet
    <2> QED BY <1>1, <2>2, <2>3, <2>4
  <1>3. ASSUME NEW x \in S, NEW y \in S, key[x] < key[y] PROVE rank[x] < rank[y]
    <2>1. Below(x) \in SUBSET Below(y) /\ y \in Below(y) /\ y \notin Below(x)
      <3>1. y \in Below(y) /\ y \notin Below(x) BY <1>3, <1>0
      <3>2. ASSUME NEW z \in Below(x) PROVE z \in Below(y) BY <1>3, <1>0, <3>2
      <3> QED BY <3>1, <3>2
    <2>2. /\ Cardinality(Below(x)) <= Cardinality(Below(y))
          /\ Cardinality(Below(y)) # Cardinality(Below(x))
      BY <1>2, <2>1, FS_Subset
    <2>3. Cardinality(Below(x)) \in Nat /\ Cardinality(Below(y)) \in Nat BY <1>2
    <2> HIDE DEF Below
    <2> QED BY <2>2, <2>3
  <1>4. rank \in [S -> 1..n] BY <1>2
  <1> HIDE DEF rank
  <1>5. rank \in Injection(S, 1..n)
    <2>1. ASSUME NEW x \in S, NEW y \in S, x # y PROVE rank[x] # rank[y]
      <3>1. key[x] < key[y] \/ key[y] < key[x] BY <1>0, <2>1
      <3>2. rank[x] \in Nat /\ rank[y] \in Nat BY <1>1, <1>4
      <3> QED BY <1>3, <3>1, <3>2
    <2> QED BY <1>4, <2>1 DEF Injection, IsInjective
  <1>6. rank \in Surjection(S, 1..n)
    <2>1. Cardinality(S) = Cardinality(1..n) BY <1>1
    <2>2. Cardinality(S) = Cardinality(1..n) <=> rank \in Surjection(S, 1..n)
      BY <1>1, <1>5, FS_Injection
    <2> QED BY <2>1, <2>2
  <1>7. \A k \in 1..n : \E x \in S : rank[x] = k BY <1>6 DEF Surjection
  <1> DEFINE s == [k \in 1..n |-> CHOOSE x \in S : rank[x] = k]
  <1>8. \A k \in 1..n : s[k] \in S /\ rank[s[k]] = k BY <1>7
  <1>9. s \in [1..n -> S] BY <1>8
  <1> HIDE DEF s
  <1>10. ASSUME NEW i \in 1..n, NEW j \in 1..n, i < j PROVE key[s[i]] < key[s[j]]
    <2>1. key[s[i]] \in Nat /\ key[s[j]] \in Nat BY <1>0, <1>8
    <2>2. key[s[i]] # key[s[j]]
      <3>1. i # j BY <1>1, <1>10
      <3> QED BY <1>8, <3>1
    <2>3. ~(key[s[j]] < key[s[i]])
      <3> SUFFICES ASSUME key[s[j]] < key[s[i]] PROVE FALSE OBVIOUS
      <3>1. rank[s[j]] < rank[s[i]] BY <1>3, <1>8
      <3>2. j < i BY <1>8, <3>1
      <3> QED BY <1>1, <1>10, <3>2
    <2> QED BY <2>1, <2>2, <2>3
  <1>11. DOMAIN s = 1..n BY <1>9
  <1> QED BY <1>9, <1>10, <1>11

Rising(s, key, n) == \A i, j \in 1..n : i < j => key[s[i]] < key[s[j]]

LEMMA EachHasAPlace ==
  ASSUME NEW S, IsFiniteSet(S), NEW key \in [S -> Nat], NEW n, n = Cardinality(S),
         NEW s \in [1..n -> S], Rising(s, key, n)
  PROVE  n \in Nat /\ \A x \in S : \E i \in 1..n : s[i] = x
  <1>1. n \in Nat /\ IsFiniteSet(1..n) /\ Cardinality(1..n) = n
    <2>1. n \in Nat BY FS_CardinalityType
    <2> QED BY <2>1, FS_Interval
  <1>2. s \in Injection(1..n, S)
    <2>1. ASSUME NEW i \in 1..n, NEW j \in 1..n, i # j PROVE s[i] # s[j]
      <3>1. i < j \/ j < i BY <1>1, <2>1
      <3>2. key[s[i]] \in Nat /\ key[s[j]] \in Nat OBVIOUS
      <3> QED BY <3>1, <3>2 DEF Rising
    <2> QED BY <2>1 DEF Injection, IsInjective
  <1>3. s \in Surjection(1..n, S) BY <1>1, <1>2, FS_Injection
  <1> QED BY <1>1, <1>3 DEF Surjection

(* Of some numbers up to n one is the greatest.                            *)
LEMMA Greatest ==
  ASSUME NEW n \in Nat, NEW T \in SUBSET (0..n), T # {}
  PROVE  \E x \in T : \A y \in T : y <= x
  <1> DEFINE R == OpToRel(<, Nat)
             U == {m \in 0..n : n - m \in T}
  <1>1. IsWellFoundedOn(R, Nat) BY NatLessThanWellFounded
  <1>2. \A x, y \in Nat : x < y => <<x, y>> \in R BY DEF OpToRel
  <1>3. U \in SUBSET Nat /\ U # {}
    <2>1. PICK t \in T : TRUE OBVIOUS
    <2>2. t \in 0..n /\ n - t \in 0..n /\ n - (n - t) = t BY <2>1
    <2>3. n - t \in U BY <2>1, <2>2
    <2> QED BY <2>3
  <1> HIDE DEF R
  <1>4. PICK m \in U : \A k \in U : ~(<<k, m>> \in R) BY <1>1, <1>3, WFMin
  <1>5. n - m \in T /\ m \in Nat /\ m <= n BY <1>4
  <1>6. ASSUME NEW y \in T PROVE y <= n - m
    <2>1. y \in 0..n /\ n - y \in 0..n /\ n - (n - y) = y BY <1>6
    <2>2. n - y \in U BY <2>1
    <2>3. n - y \in Nat /\ m \in Nat BY <1>5, <2>1
    <2>4. <<n - y, m>> \notin R BY <1>4, <2>2
    <2>5. ~(n - y < m) BY <1>2, <2>3, <2>4
    <2> QED BY <1>5, <2>1, <2>5
  <1> QED BY <1>5, <1>6

(* The rows of records_page: sorted, about the subject, and with the       *)
(* newest of each name that has any.                                       *)
Sorted(rows, l) == \A i, j \in 1..Len(rows) : i < j => l[rows[i]].name < l[rows[j]].name
Covers(rows, l, about) ==
  /\ \A i \in 1..Len(rows) : l[rows[i]].about = about
  /\ \A s \in 1..Len(l) : l[s].about = about =>
       \E i \in 1..Len(rows) : l[rows[i]].name = l[s].name /\ rows[i] >= s

LEMMA RecordRowsFacts ==
  ASSUME NEW l \in Seq(Entry), NEW about, NEW rows, rows = RecordRows(l, about)
  PROVE  rows \in Seq(1..Len(l)) /\ Sorted(rows, l) /\ Covers(rows, l, about)
  <1> DEFINE Hits == {i \in DOMAIN l : l[i].about = about}
             Newest == {i \in Hits : \A j \in Hits : l[j].name = l[i].name => j <= i}
             n == Cardinality(Newest)
             key == [i \in Newest |-> l[i].name]
  <1>1. DOMAIN l = 1..Len(l) /\ Len(l) \in Nat OBVIOUS
  <1>2. \A i \in 1..Len(l) : l[i].name \in Nat
    <2>1. \A i \in 1..Len(l) : l[i] \in Entry BY <1>1
    <2> QED BY <2>1, PagesAssumption DEF Entry
  <1>3. Hits \in SUBSET (1..Len(l)) /\ Newest \in SUBSET (1..Len(l)) BY <1>1
  <1>4. IsFiniteSet(Newest)
    <2> HIDE DEF Newest
    <2>1. IsFiniteSet(1..Len(l)) BY <1>1, FS_Interval
    <2> QED BY <1>3, <2>1, FS_Subset
  <1>5. \A i, j \in Newest : key[i] = key[j] => i = j
    <2> SUFFICES ASSUME NEW i \in Newest, NEW j \in Newest, l[i].name = l[j].name PROVE i = j
      OBVIOUS
    <2>1. i <= j /\ j <= i OBVIOUS
    <2>2. i \in 1..Len(l) /\ j \in 1..Len(l) BY <1>3
    <2> HIDE DEF Newest, Hits
    <2> QED BY <1>1, <2>1, <2>2
  <1>6. key \in [Newest -> Nat] /\ \A i \in Newest : key[i] = l[i].name BY <1>2, <1>3
  <1>7. rows = CHOOSE s \in [1..n -> Newest] :
                 \A i, j \in DOMAIN s : i < j => l[s[i]].name < l[s[j]].name
    BY DEF RecordRows
  <1>8. ASSUME NEW s \in Hits PROVE \E i \in Newest : l[i].name = l[s].name /\ i >= s
    <2> DEFINE T == {j \in Hits : l[j].name = l[s].name}
    <2>1. T \in SUBSET (0..Len(l)) /\ s \in T BY <1>1, <1>3, <1>8
    <2>2. PICK i \in T : \A j \in T : j <= i BY <1>1, <2>1, Greatest
    <2>3. i \in Hits /\ l[i].name = l[s].name BY <2>2
    <2>4. i \in Newest BY <2>2, <2>3
    <2>5. s <= i BY <2>1, <2>2
    <2>6. s \in Nat /\ i \in Nat BY <1>1, <2>1, <2>2
    <2>7. i >= s BY <2>5, <2>6
    <2> QED BY <2>3, <2>4, <2>7
  <1>h. \A i \in Newest : l[i].about = about OBVIOUS
  <1>i. \A s \in 1..Len(l) : l[s].about = about => s \in Hits BY <1>1
  <1> HIDE DEF Newest, Hits, n, key
  <1>9. \E s \in [1..n -> Newest] :
          \A i, j \in DOMAIN s : i < j => l[s[i]].name < l[s[j]].name
    <2>1. PICK s \in [1..n -> Newest] : \A i, j \in DOMAIN s : i < j => key[s[i]] < key[s[j]]
      BY <1>4, <1>5, <1>6, Ranked DEF n
    <2> QED BY <1>6, <2>1
  <1>10. /\ rows \in [1..n -> Newest]
         /\ \A i, j \in DOMAIN rows : i < j => l[rows[i]].name < l[rows[j]].name
    BY <1>7, <1>9
  <1>11. Rising(rows, key, n) BY <1>6, <1>10 DEF Rising
  <1>12. n \in Nat /\ \A x \in Newest : \E i \in 1..n : rows[i] = x
    <2>1. n = Cardinality(Newest) /\ key \in [Newest -> Nat] BY <1>6 DEF n
    <2>2. rows \in [1..n -> Newest] BY <1>10
    <2> QED BY <1>4, <1>11, <2>1, <2>2, EachHasAPlace
  <1>13. rows \in Seq(1..Len(l)) /\ Len(rows) = n
    <2>1. rows \in [1..n -> 1..Len(l)] BY <1>3, <1>10
    <2> QED BY <1>12, <2>1
  <1>14. Sorted(rows, l) BY <1>10, <1>13 DEF Sorted
  <1>15. Covers(rows, l, about)
    <2>1. \A i \in 1..n : l[rows[i]].about = about BY <1>10, <1>h
    <2>2. ASSUME NEW s \in 1..Len(l), l[s].about = about
          PROVE  \E i \in 1..n : l[rows[i]].name = l[s].name /\ rows[i] >= s
      <3>1. PICK x \in Newest : l[x].name = l[s].name /\ x >= s BY <1>8, <1>i, <2>2
      <3>2. PICK i \in 1..n : rows[i] = x BY <1>12
      <3> QED BY <3>1, <3>2
    <2> QED BY <1>13, <2>1, <2>2 DEF Covers
  <1> QED BY <1>13, <1>14, <1>15

LEMMA LogRowsFacts ==
  ASSUME NEW l \in Seq(Entry), NEW since \in Nat, NEW rows, rows = LogRows(l, since)
  PROVE  /\ rows \in Seq(1..Len(l)) /\ \A i \in 1..Len(rows) : rows[i] = since + i
         /\ Len(rows) = IF since < Len(l) THEN Len(l) - since ELSE 0
  <1> DEFINE k == IF Len(l) > since THEN Len(l) - since ELSE 0
  <1>1. Len(l) \in Nat OBVIOUS
  <1>2. k \in Nat /\ \A i \in 1..k : since + i \in 1..Len(l) BY <1>1
  <1>3. k = IF since < Len(l) THEN Len(l) - since ELSE 0 BY <1>1
  <1>4. rows = [i \in 1..k |-> since + i] BY DEF LogRows
  <1> HIDE DEF k
  <1>5. rows \in Seq(1..Len(l)) /\ Len(rows) = k /\ \A i \in 1..k : rows[i] = since + i
    BY <1>2, <1>4
  <1> QED BY <1>3, <1>5

(***************************************************************************)
(* Pages.                                                                  *)
(***************************************************************************)

(* What was returned so far is the beginning of the rows.                  *)
Shown(got, rows, l) ==
  /\ got \in Seq(Nat \X Entry) /\ Len(got) <= Len(rows)
  /\ \A i \in 1..Len(got) : got[i] = <<rows[i], l[rows[i]]>>

(* The rows after the first so many, at most limit of them.                *)
PageOf(page, rows, l, offset, limit) ==
  /\ page.found = [i \in DOMAIN SubSeq(rows, offset + 1, Min({Len(rows), offset + limit})) |->
       <<SubSeq(rows, offset + 1, Min({Len(rows), offset + limit}))[i],
         l[SubSeq(rows, offset + 1, Min({Len(rows), offset + limit}))[i]]>>]
  /\ page.more = (Len(rows) > offset + limit)

LEMMA MinOf ==
  ASSUME NEW a \in Nat, NEW b \in Nat
  PROVE  Min({a, b}) = IF a <= b THEN a ELSE b
  <1> DEFINE m == IF a <= b THEN a ELSE b
  <1>1. m \in {a, b} /\ \A y \in {a, b} : m <= y OBVIOUS
  <1>2. \A x \in {a, b} : (\A y \in {a, b} : x <= y) => x = m
    <2>1. a \in Nat /\ b \in Nat OBVIOUS
    <2> QED BY <2>1
  <1> QED BY <1>1, <1>2 DEF Min

LEMMA PageExtends ==
  ASSUME NEW l \in Seq(Entry), NEW rows \in Seq(1..Len(l)), NEW got, Shown(got, rows, l),
         NEW limit \in Nat \ {0}, NEW offset, offset = Len(got),
         NEW page, PageOf(page, rows, l, offset, limit)
  PROVE  /\ Shown(got \o page.found, rows, l) /\ page.more \in BOOLEAN
         /\ Len(got \o page.found) = offset + Len(page.found)
         /\ offset + Len(page.found) \in Nat
         /\ ~page.more => Len(got \o page.found) = Len(rows)
  <1> DEFINE m == Min({Len(rows), offset + limit})
             part == SubSeq(rows, offset + 1, m)
  <1>1. offset \in Nat /\ offset <= Len(rows) /\ Len(rows) \in Nat BY DEF Shown
  <1>2. m = IF Len(rows) <= offset + limit THEN Len(rows) ELSE offset + limit BY <1>1, MinOf
  <1>3. m \in Nat /\ offset <= m /\ m <= Len(rows) BY <1>1, <1>2
  <1>4. page.found = [i \in DOMAIN part |-> <<part[i], l[part[i]]>>]
        /\ page.more = (Len(rows) > offset + limit)
    BY DEF PageOf
  <1> HIDE DEF m
  <1>5. Len(part) = m - offset /\ DOMAIN part = 1..(m - offset) /\ m - offset \in Nat
    BY <1>1, <1>3
  <1>6. \A i \in 1..(m - offset) : part[i] = rows[offset + i] /\ offset + i \in 1..Len(rows)
    BY <1>1, <1>3
  <1>7. \A i \in 1..Len(rows) : rows[i] \in 1..Len(l) /\ rows[i] \in Nat /\ l[rows[i]] \in Entry
    OBVIOUS
  <1> HIDE DEF part
  <1>8. /\ page.found \in Seq(Nat \X Entry) /\ Len(page.found) = m - offset
        /\ \A i \in 1..(m - offset) : page.found[i] = <<rows[offset + i], l[rows[offset + i]]>>
    <2> DEFINE g == [i \in 1..(m - offset) |-> <<part[i], l[part[i]]>>]
    <2>1. page.found = g BY <1>4, <1>5
    <2>2. ASSUME NEW i \in 1..(m - offset)
          PROVE  /\ g[i] = <<rows[offset + i], l[rows[offset + i]]>>
                 /\ g[i] \in Nat \X Entry
      <3>1. g[i] = <<part[i], l[part[i]]>> OBVIOUS
      <3>2. part[i] = rows[offset + i] /\ offset + i \in 1..Len(rows) BY <1>6
      <3>3. rows[offset + i] \in Nat /\ l[rows[offset + i]] \in Entry BY <1>7, <3>2
      <3> HIDE DEF g
      <3> QED BY <3>1, <3>2, <3>3
    <2>3. DOMAIN g = 1..(m - offset) /\ g = [i \in 1..(m - offset) |-> g[i]] OBVIOUS
    <2> HIDE DEF g
    <2>4. g \in [1..(m - offset) -> Nat \X Entry] BY <2>2, <2>3
    <2>5. g \in Seq(Nat \X Entry) /\ Len(g) = m - offset BY <1>5, <2>4
    <2> QED BY <2>1, <2>2, <2>5
  <1> DEFINE f == page.found
             all == got \o f
  <1>9. got \in Seq(Nat \X Entry) /\ f \in Seq(Nat \X Entry) BY <1>8 DEF Shown
  <1> HIDE DEF f
  <1>10. all \in Seq(Nat \X Entry) /\ Len(all) = Len(got) + Len(f) BY <1>9
  <1>11. Len(all) = m BY <1>1, <1>3, <1>8, <1>10 DEF f
  <1>12. ASSUME NEW i \in 1..m PROVE all[i] = <<rows[i], l[rows[i]]>>
    <2>1. CASE i <= offset
      <3>1. i \in 1..Len(got) BY <1>1, <2>1
      <3>2. all[i] = got[i] BY <1>9, <3>1
      <3> QED BY <3>1, <3>2 DEF Shown
    <2>2. CASE i > offset
      <3>1. i - offset \in 1..(m - offset) /\ offset + (i - offset) = i BY <1>1, <1>3, <2>2
      <3>2. all[i] = f[i - offset] BY <1>1, <1>3, <1>8, <1>9, <2>2, <3>1 DEF f
      <3> QED BY <1>8, <3>1, <3>2 DEF f
    <2>3. i <= offset \/ i > offset
      <3>1. i \in Nat /\ offset \in Nat BY <1>1, <1>3
      <3> HIDE DEF all
      <3> QED BY <3>1
    <2> QED BY <2>1, <2>2, <2>3
  <1> HIDE DEF all
  <1>13. Shown(all, rows, l) BY <1>3, <1>10, <1>11, <1>12 DEF Shown
  <1>14. ~page.more => m = Len(rows)
    <2> SUFFICES ASSUME ~page.more PROVE m = Len(rows) OBVIOUS
    <2>1. ~(Len(rows) > offset + limit) BY <1>4
    <2>2. Len(rows) <= offset + limit BY <1>1, <2>1
    <2> QED BY <1>2, <2>2
  <1>15. offset + Len(f) = m BY <1>1, <1>3, <1>8 DEF f
  <1>16. page.more \in BOOLEAN BY <1>4
  <1> QED BY <1>3, <1>10, <1>11, <1>13, <1>14, <1>15, <1>16 DEF all, f
----------------------------------------------------------------------------
(***************************************************************************)
(* The invariant.                                                          *)
(***************************************************************************)

Snapshot == [log : Seq(Entry), signer : {"old", "new"}]
Cursor == [snapshot : Snapshot, signer : {"old", "new"}, offset : Nat, expires : Nat]
Walking == [phase : {"asked", "ready", "checked", "done", "refused"}, query : Query,
            got : Seq(Nat \X Entry), seen : SUBSET Snapshot, cursor : Cursor]

RowsOf(w) == Rows(w.cursor.snapshot.log, w.query)

(* What was returned is the beginning of the rows of the one boundary that *)
(* was shown, and the cursor stands behind it.                             *)
WalkFine(w) ==
  /\ w \in Walking
  /\ w.phase = "asked" => w.got = <<>> /\ w.seen = {}
  /\ w.phase # "asked" => /\ w.seen = {w.cursor.snapshot}
                          /\ Shown(w.got, RowsOf(w), w.cursor.snapshot.log)
  /\ w.phase \in {"ready", "checked"} => w.cursor.offset = Len(w.got)
  /\ w.phase = "done" => Len(w.got) = Len(RowsOf(w))

(* Its entries were born before now.                                       *)
Behind(l, b) == \A i \in 1..Len(l) : l[i].id <= b

(* A first request still finds its boundary, or a log that lost its tail.  *)
Agrees(w, l, s) ==
  w.phase = "asked" => \/ IsPrefix(w.cursor.snapshot.log, l)
                       \/ ~s /\ IsPrefix(l, w.cursor.snapshot.log)

(* Nobody signs with the new key before it is active.                      *)
KeysFit(w, e) ==
  "new" \in {w.cursor.signer, w.cursor.snapshot.signer} => e \in {"overlap", "after"}

Justified(w, n, l, e) ==
  w.phase = "refused" =>
    \/ w.cursor.expires < n
    \/ ~ IsPrefix(w.cursor.snapshot.log, l)
    \/ e = "after" /\ "old" \in {w.cursor.signer, w.cursor.snapshot.signer}

WalkInv(w, l, b, s, e, n) ==
  w = NoWalk \/ /\ WalkFine(w) /\ Behind(w.cursor.snapshot.log, b) /\ Agrees(w, l, s)
                /\ KeysFit(w, e) /\ Justified(w, n, l, e)

TypeInv == /\ log \in Seq(Entry) /\ born \in Nat /\ now \in Nat /\ sound \in BOOLEAN
           /\ era \in {"before", "staged", "overlap", "after"}

Inv == TypeInv /\ Behind(log, born) /\ WalkInv(walk, log, born, sound, era, now)

LEMMA RowsOfQuery ==
  ASSUME NEW l \in Seq(Entry), NEW q \in Query
  PROVE  Rows(l, q) \in Seq(1..Len(l)) /\ q.limit \in Nat \ {0}
  <1>1. CASE q.on = "log"
    <2>1. q \in [on : {"log"}, since : 0..MaxLog, limit : Limit] BY <1>1 DEF Query
    <2>a. q.since \in 0..MaxLog /\ q.limit \in Limit BY <2>1
    <2>b. MaxLog \in Nat BY PagesAssumption
    <2>2. q.since \in Nat BY <2>a, <2>b
    <2>3. q.limit \in Nat \ {0} BY <2>a, PagesAssumption
    <2>4. Rows(l, q) = LogRows(l, q.since) BY <1>1 DEF Rows
    <2> QED BY <2>2, <2>3, <2>4, LogRowsFacts
  <1>2. CASE q.on # "log"
    <2>1. q \in [on : {"records"}, about : Subject, limit : Limit] BY <1>2 DEF Query
    <2>2. q.limit \in Nat \ {0} BY <2>1, PagesAssumption
    <2>3. Rows(l, q) = RecordRows(l, q.about) BY <1>2 DEF Rows
    <2> QED BY <2>2, <2>3, RecordRowsFacts
  <1> QED BY <1>1, <1>2

(* A page read from a log that extends the boundary is one of its rows.    *)
LEMMA PageIsPart ==
  ASSUME log \in Seq(Entry), NEW l \in Seq(Entry), IsPrefix(l, log), NEW q \in Query,
         NEW offset \in Nat, NEW page, page = Page(q, Len(l), offset)
  PROVE  PageOf(page, Rows(l, q), l, offset, q.limit)
  <1>1. Len(l) <= Len(log) /\ \A i \in 1..Len(l) : l[i] = log[i] BY PrefixIs
  <1>2. SubSeq(log, 1, Len(l)) = l BY <1>1, PrefixPart
  <1> DEFINE rows == Rows(l, q)
             m == Min({Len(rows), offset + q.limit})
             part == SubSeq(rows, offset + 1, m)
  <1>3. page = [found |-> [i \in DOMAIN part |-> <<part[i], log[part[i]]>>],
                more  |-> Len(rows) > offset + q.limit]
    BY <1>2 DEF Page
  <1>4. rows \in Seq(1..Len(l)) /\ q.limit \in Nat \ {0} BY RowsOfQuery
  <1> HIDE DEF rows
  <1>5. m \in Nat /\ m <= Len(rows)
    <2>1. Len(rows) \in Nat /\ offset + q.limit \in Nat BY <1>4
    <2>2. m = IF Len(rows) <= offset + q.limit THEN Len(rows) ELSE offset + q.limit
      BY <2>1, MinOf
    <2> QED BY <2>1, <2>2
  <1> HIDE DEF m, part
  <1> SUFFICES \A i \in DOMAIN part : part[i] \in 1..Len(l)
    <2> SUFFICES ASSUME \A i \in DOMAIN part : part[i] \in 1..Len(l)
                 PROVE  PageOf(page, rows, l, offset, q.limit)
      BY DEF rows
    <2>1. \A i \in DOMAIN part : log[part[i]] = l[part[i]] BY <1>1
    <2>2. [i \in DOMAIN part |-> <<part[i], log[part[i]]>>]
            = [i \in DOMAIN part |-> <<part[i], l[part[i]]>>]
      BY <2>1
    <2>3. /\ page.found = [i \in DOMAIN part |-> <<part[i], l[part[i]]>>]
          /\ page.more = (Len(rows) > offset + q.limit)
      BY <1>3, <2>2
    <2> QED BY <2>3 DEF PageOf, part, m
  <1>6. part = SubSeq(rows, offset + 1, m) BY DEF part
  <1>7. \A i \in DOMAIN part : part[i] = rows[offset + i] /\ offset + i \in 1..Len(rows)
    <2>1. CASE m <= offset
      <3>1. part = << >> BY <1>4, <1>5, <1>6, <2>1
      <3> QED BY <3>1
    <2>2. CASE offset < m
      <3>1. Len(part) = m - offset /\ DOMAIN part = 1..(m - offset) BY <1>4, <1>5, <1>6, <2>2
      <3>2. \A i \in 1..(m - offset) : part[i] = rows[offset + i] /\ offset + i \in 1..Len(rows)
        BY <1>4, <1>5, <1>6, <2>2
      <3> QED BY <3>1, <3>2
    <2> QED BY <1>5, <2>1, <2>2
  <1> QED BY <1>4, <1>7

LEMMA SignerFits ==
  ASSUME TypeInv
  PROVE  Signer \in {"old", "new"} /\ (Signer = "new" => era \in {"overlap", "after"})
  BY DEF TypeInv, Signer

(* A page that is served takes the walk on along the rows of its boundary. *)
LEMMA ServedKeeps ==
  ASSUME TypeInv, WalkFine(walk), walk.phase \in {"asked", "checked"},
         NEW b, b = walk.cursor.snapshot, IsPrefix(b.log, log), Behind(b.log, born),
         KeysFit(walk, era), NEW offset, offset = Len(walk.got),
         Served(Page(walk.query, Len(b.log), offset), b, offset)
  PROVE  WalkInv(walk', log, born, sound, era, now)
  <1> DEFINE page == Page(walk.query, Len(b.log), offset)
             c == IF page.more THEN EncodeCursor(b, offset, page) ELSE walk.cursor
             rows == RowsOf(walk)
             got == walk.got \o page.found
  <1>1. /\ walk \in Walking /\ walk.cursor \in Cursor /\ b \in Snapshot /\ b.log \in Seq(Entry)
        /\ walk.query \in Query /\ walk.got \in Seq(Nat \X Entry) /\ walk.seen \subseteq {b}
    BY DEF WalkFine, Walking, Cursor, Snapshot
  <1>2. rows = Rows(b.log, walk.query) /\ rows \in Seq(1..Len(b.log))
        /\ walk.query.limit \in Nat \ {0}
    BY <1>1, RowsOfQuery DEF RowsOf
  <1>3. Shown(walk.got, rows, b.log)
    <2>1. CASE walk.phase = "asked"
      <3>1. walk.got = <<>> BY <2>1 DEF WalkFine
      <3>2. Len(rows) \in Nat BY <1>2
      <3> HIDE DEF rows
      <3> QED BY <3>1, <3>2 DEF Shown
    <2>2. CASE walk.phase # "asked" BY <2>2 DEF WalkFine
    <2> QED BY <2>1, <2>2
  <1>4. offset \in Nat BY <1>1
  <1>5. log \in Seq(Entry) BY DEF TypeInv
  <1> HIDE DEF rows, page
  <1>6. PageOf(page, rows, b.log, offset, walk.query.limit)
    BY <1>1, <1>2, <1>4, <1>5, PageIsPart DEF page
  <1>7. /\ Shown(got, rows, b.log) /\ page.more \in BOOLEAN
        /\ Len(got) = offset + Len(page.found) /\ offset + Len(page.found) \in Nat
        /\ ~page.more => Len(got) = Len(rows)
    <2> DEFINE l == b.log
               was == walk.got
               limit == walk.query.limit
    <2>1. l \in Seq(Entry) /\ rows \in Seq(1..Len(l)) /\ limit \in Nat \ {0} BY <1>1, <1>2
    <2>2. Shown(was, rows, l) /\ offset = Len(was) /\ PageOf(page, rows, l, offset, limit)
      BY <1>3, <1>6
    <2> HIDE DEF l, was, limit
    <2>3. /\ Shown(was \o page.found, rows, l) /\ page.more \in BOOLEAN
          /\ Len(was \o page.found) = offset + Len(page.found)
          /\ offset + Len(page.found) \in Nat
          /\ ~page.more => Len(was \o page.found) = Len(rows)
      BY <2>1, <2>2, PageExtends
    <2> QED BY <2>3 DEF l, was
  <1>8. /\ walk' = [phase |-> IF page.more THEN "ready" ELSE "done", query |-> walk.query,
                    got |-> got, seen |-> walk.seen \cup {b}, cursor |-> c]
    BY DEF Served, page
  <1>9. /\ c \in Cursor /\ c.snapshot = b /\ (page.more => c.offset = Len(got))
        /\ "new" \in {c.signer, c.snapshot.signer} => era \in {"overlap", "after"}
    <2>1. CASE page.more
      <3>1. c = EncodeCursor(b, offset, page) BY <2>1
      <3>2. now + TTL \in Nat BY PagesAssumption DEF TypeInv
      <3>3. /\ c = [snapshot |-> b, signer |-> Signer, offset |-> offset + Len(page.found),
                    expires |-> now + TTL]
        BY <3>1 DEF EncodeCursor
      <3> HIDE DEF c, got
      <3>4. c \in Cursor BY <1>1, <1>7, <3>2, <3>3, SignerFits DEF Cursor
      <3>5. c.snapshot = b /\ c.signer = Signer /\ c.offset = Len(got) BY <1>7, <3>3
      <3> QED BY <3>4, <3>5, SignerFits DEF KeysFit
    <2>2. CASE ~page.more BY <1>1, <2>2 DEF KeysFit
    <2> QED BY <2>1, <2>2
  <1>10. got \in Seq(Nat \X Entry) BY <1>7 DEF Shown
  <1> HIDE DEF c, got
  <1>11. /\ walk'.phase = (IF page.more THEN "ready" ELSE "done") /\ walk'.query = walk.query
         /\ walk'.got = got /\ walk'.seen = {b} /\ walk'.cursor = c
    BY <1>1, <1>8
  <1>12. walk' \in Walking BY <1>1, <1>7, <1>8, <1>9, <1>10 DEF Walking
  <1>13. walk'.phase \in {"ready", "done"} /\ (walk'.phase = "ready" <=> page.more)
    BY <1>7, <1>11
  <1>14. Rows(c.snapshot.log, walk.query) = rows BY <1>2, <1>9
  <1>15. WalkFine(walk')
    BY <1>7, <1>9, <1>11, <1>12, <1>13, <1>14 DEF WalkFine, RowsOf
  <1>16. /\ Behind(walk'.cursor.snapshot.log, born) /\ Agrees(walk', log, sound)
         /\ KeysFit(walk', era) /\ Justified(walk', now, log, era)
    BY <1>9, <1>11, <1>13 DEF Agrees, KeysFit, Justified
  <1> QED BY <1>15, <1>16 DEF WalkInv

LEMMA PrefixOfItself ==
  ASSUME NEW l \in Seq(Entry)
  PROVE  IsPrefix(l, l)
  BY PrefixIs

LEMMA Cut ==
  ASSUME NEW l \in Seq(Entry), NEW n \in Nat, n <= Len(l), NEW t, t = SubSeq(l, 1, n)
  PROVE  t \in Seq(Entry) /\ Len(t) = n /\ \A i \in 1..n : t[i] = l[i]
  OBVIOUS

LEMMA InWalk ==
  ASSUME Inv, walk.phase # "idle"
  PROVE  /\ WalkFine(walk) /\ Behind(walk.cursor.snapshot.log, born)
         /\ Agrees(walk, log, sound) /\ KeysFit(walk, era) /\ Justified(walk, now, log, era)
  <1>1. walk # NoWalk BY DEF NoWalk
  <1> QED BY <1>1 DEF Inv, WalkInv

(* A step of the client leaves the rest of the service alone.              *)
LEMMA ClientStep ==
  ASSUME Inv, UNCHANGED <<log, born, sound, era, now>>,
         WalkInv(walk', log, born, sound, era, now)
  PROVE  Inv'
  <1>1. TypeInv' BY DEF Inv, TypeInv
  <1>2. Behind(log', born') BY DEF Inv
  <1>3. WalkInv(walk', log', born', sound', era', now') OBVIOUS
  <1> QED BY <1>1, <1>2, <1>3 DEF Inv

LEMMA AskKeeps ==
  ASSUME Inv, NEW q \in Query, Ask(q)
  PROVE  Inv'
  <1> DEFINE s == [log |-> log, signer |-> Signer]
             c == [snapshot |-> s, signer |-> Signer, offset |-> 0, expires |-> now]
  <1>1. /\ walk' = [phase |-> "asked", query |-> q, got |-> <<>>, seen |-> {}, cursor |-> c]
        /\ UNCHANGED <<log, born, sound, era, now>>
    BY DEF Ask
  <1>2. Signer \in {"old", "new"} /\ (Signer = "new" => era \in {"overlap", "after"})
    BY SignerFits DEF Inv
  <1>3. s \in Snapshot BY <1>2 DEF Snapshot, Inv, TypeInv
  <1>4. s.log = log /\ s.signer = Signer OBVIOUS
  <1>n. now \in Nat BY DEF Inv, TypeInv
  <1> HIDE DEF s
  <1>5. c \in Cursor BY <1>2, <1>3, <1>n DEF Cursor
  <1>6. c.snapshot = s /\ c.signer = Signer OBVIOUS
  <1> HIDE DEF c
  <1>7. /\ walk'.phase = "asked" /\ walk'.got = <<>> /\ walk'.seen = {} /\ walk'.cursor = c
        /\ walk' \in Walking
    <2>1. <<>> \in Seq(Nat \X Entry) OBVIOUS
    <2> QED BY <1>1, <1>5, <2>1 DEF Walking
  <1>8. WalkFine(walk') BY <1>7 DEF WalkFine
  <1>9. Behind(c.snapshot.log, born) BY <1>4, <1>6 DEF Inv
  <1>10. IsPrefix(c.snapshot.log, log) BY <1>4, <1>6, PrefixOfItself DEF Inv, TypeInv
  <1>11. "new" \in {c.signer, c.snapshot.signer} => era \in {"overlap", "after"}
    BY <1>2, <1>4, <1>6
  <1>12. WalkInv(walk', log, born, sound, era, now)
    BY <1>7, <1>8, <1>9, <1>10, <1>11 DEF WalkInv, Agrees, KeysFit, Justified
  <1> QED BY <1>1, <1>12, ClientStep

LEMMA FirstPageKeeps ==
  ASSUME Inv, FirstPage
  PROVE  Inv'
  <1> DEFINE b == walk.cursor.snapshot
  <1>1. walk.phase = "asked" /\ UNCHANGED <<log, born, sound, era, now>> BY DEF FirstPage
  <1>2. /\ WalkFine(walk) /\ Behind(b.log, born) /\ Agrees(walk, log, sound)
        /\ KeysFit(walk, era) /\ TypeInv
    BY <1>1, InWalk DEF Inv
  <1>3. CASE Len(b.log) <= Len(log)
    <2>1. b.log \in Seq(Entry) BY <1>2 DEF WalkFine, Walking, Cursor, Snapshot
    <2>2. log \in Seq(Entry) BY <1>2 DEF TypeInv
    <2>3. IsPrefix(b.log, log) \/ IsPrefix(log, b.log) BY <1>1, <1>2 DEF Agrees
    <2> DEFINE l == b.log
    <2>4. l \in Seq(Entry) /\ Len(l) <= Len(log) /\ (IsPrefix(l, log) \/ IsPrefix(log, l))
      BY <1>3, <2>1, <2>3
    <2> HIDE DEF l
    <2>5. ASSUME IsPrefix(log, l) PROVE IsPrefix(l, log)
      <3>1. Len(log) <= Len(l) /\ \A i \in 1..Len(log) : log[i] = l[i]
        BY <2>2, <2>4, <2>5, PrefixIs
      <3>2. Len(log) = Len(l)
        <4>1. Len(log) \in Nat /\ Len(l) \in Nat BY <2>2, <2>4
        <4> QED BY <2>4, <3>1, <4>1
      <3> QED BY <2>2, <2>4, <3>1, <3>2, PrefixIs
    <2>6. IsPrefix(l, log) BY <2>4, <2>5
    <2>7. IsPrefix(b.log, log) BY <2>6 DEF l
    <2>8. walk.got = <<>> /\ Len(walk.got) = 0 BY <1>1, <1>2 DEF WalkFine
    <2>9. Served(Page(walk.query, Len(b.log), 0), b, 0) BY <1>3 DEF FirstPage
    <2> HIDE DEF b
    <2>10. WalkInv(walk', log, born, sound, era, now)
      BY <1>1, <1>2, <2>7, <2>8, <2>9, ServedKeeps DEF b
    <2> QED BY <1>1, <2>10, ClientStep
  <1>4. CASE ~(Len(b.log) <= Len(log))
    <2>1. walk' = NoWalk BY <1>4 DEF FirstPage
    <2> QED BY <1>1, <2>1, ClientStep DEF WalkInv
  <1> QED BY <1>3, <1>4

(* Another phase of a walk that has its cursor.                            *)
LEMMA PhaseOnly ==
  ASSUME WalkFine(walk), walk.phase \in {"ready", "checked"},
         NEW p \in {"ready", "checked", "refused"}, NEW w, w = [walk EXCEPT !.phase = p]
  PROVE  WalkFine(w) /\ w.phase = p /\ w.cursor = walk.cursor
  <1>1. walk \in Walking BY DEF WalkFine
  <1>2. /\ w.phase = p /\ w.query = walk.query /\ w.got = walk.got /\ w.seen = walk.seen
        /\ w.cursor = walk.cursor /\ w \in Walking
    BY <1>1 DEF Walking
  <1>3. RowsOf(w) = RowsOf(walk) BY <1>2 DEF RowsOf
  <1> QED BY <1>2, <1>3 DEF WalkFine

LEMMA CheckCursorKeeps ==
  ASSUME Inv, CheckCursor
  PROVE  Inv'
  <1> DEFINE c == walk.cursor
             p == IF CursorLive(c) THEN "checked" ELSE "refused"
  <1>1. /\ walk.phase = "ready" /\ walk' = [walk EXCEPT !.phase = p]
        /\ UNCHANGED <<log, born, sound, era, now>>
    BY DEF CheckCursor
  <1>2. /\ WalkFine(walk) /\ Behind(c.snapshot.log, born) /\ KeysFit(walk, era) /\ TypeInv
    BY <1>1, InWalk DEF Inv
  <1>3. c \in Cursor BY <1>2 DEF WalkFine, Walking
  <1>4. p \in {"checked", "refused"} /\ (p = "refused" => ~CursorLive(c)) OBVIOUS
  <1>5. ASSUME ~CursorLive(c)
        PROVE  \/ c.expires < now
               \/ ~ IsPrefix(c.snapshot.log, log)
               \/ era = "after" /\ "old" \in {c.signer, c.snapshot.signer}
    <2>1. /\ c.expires \in Nat /\ now \in Nat
          /\ c.signer \in {"old", "new"} /\ c.snapshot.signer \in {"old", "new"}
      BY <1>2, <1>3 DEF Cursor, Snapshot, TypeInv
    <2>2. \/ c.signer \notin Accepted \/ c.snapshot.signer \notin Accepted
          \/ ~IsPrefix(c.snapshot.log, log) \/ ~(c.expires >= now)
      BY <1>5 DEF CursorLive, BoundaryAvailable
    <2>3. ASSUME NEW k \in {c.signer, c.snapshot.signer}, k \notin Accepted
          PROVE  era = "after" /\ k = "old"
      <3>1. k \in {"old", "new"} BY <2>1, <2>3
      <3>2. k = "new" => era \in {"overlap", "after"} BY <1>2, <2>3 DEF KeysFit
      <3>3. era \in {"before", "staged", "overlap", "after"} BY <1>2 DEF TypeInv
      <3>4. CASE era = "before"
        <4>1. Accepted = {"old"} BY <3>4 DEF Accepted
        <4> QED BY <2>3, <3>1, <3>2, <3>4, <4>1
      <3>5. CASE era \in {"staged", "overlap"}
        <4>1. Accepted = {"old", "new"} BY <3>5 DEF Accepted
        <4> QED BY <2>3, <3>1, <4>1
      <3>6. CASE era = "after"
        <4>1. Accepted = {"new"} BY <3>6 DEF Accepted
        <4> QED BY <2>3, <3>1, <3>6, <4>1
      <3> QED BY <3>3, <3>4, <3>5, <3>6
    <2>4. ~(c.expires >= now) => c.expires < now BY <2>1
    <2> QED BY <2>2, <2>3, <2>4
  <1> HIDE DEF p
  <1>6. WalkFine(walk') /\ walk'.phase = p /\ walk'.cursor = c
    BY <1>1, <1>2, <1>4, PhaseOnly
  <1> HIDE DEF c
  <1>7. Agrees(walk', log, sound) /\ Justified(walk', now, log, era)
    BY <1>4, <1>5, <1>6 DEF Agrees, Justified
  <1>8. KeysFit(walk', era) BY <1>2, <1>6 DEF KeysFit, c
  <1>9. WalkInv(walk', log, born, sound, era, now)
    BY <1>2, <1>6, <1>7, <1>8 DEF WalkInv
  <1> QED BY <1>1, <1>9, ClientStep

LEMMA NextPageKeeps ==
  ASSUME Inv, NextPage
  PROVE  Inv'
  <1> DEFINE c == walk.cursor
             b == c.snapshot
  <1>1. walk.phase = "checked" /\ UNCHANGED <<log, born, sound, era, now>> BY DEF NextPage
  <1>2. WalkFine(walk) /\ Behind(b.log, born) /\ KeysFit(walk, era) /\ TypeInv
    BY <1>1, InWalk DEF Inv
  <1>3. c.offset = Len(walk.got) BY <1>1, <1>2 DEF WalkFine
  <1>4. CASE IsPrefix(b.log, log)
    <2>1. Served(Page(walk.query, Len(b.log), c.offset), b, c.offset)
      BY <1>4 DEF NextPage, BoundaryAvailable
    <2>2. WalkInv(walk', log, born, sound, era, now)
      BY <1>1, <1>2, <1>3, <1>4, <2>1, ServedKeeps
    <2> QED BY <1>1, <2>2, ClientStep
  <1>5. CASE ~IsPrefix(b.log, log)
    <2>1. walk' = [walk EXCEPT !.phase = "refused"] BY <1>5 DEF NextPage, BoundaryAvailable
    <2>2. WalkFine(walk') /\ walk'.phase = "refused" /\ walk'.cursor = c
      BY <1>1, <1>2, <2>1, PhaseOnly
    <2>3. /\ Agrees(walk', log, sound) /\ Justified(walk', now, log, era) /\ KeysFit(walk', era)
          /\ Behind(walk'.cursor.snapshot.log, born)
      BY <1>2, <1>5, <2>2 DEF Agrees, Justified, KeysFit
    <2>4. WalkInv(walk', log, born, sound, era, now) BY <2>2, <2>3 DEF WalkInv
    <2> QED BY <1>1, <2>4, ClientStep
  <1> QED BY <1>4, <1>5

(* Whatever begins the new log began the old one.                          *)
NoNewPrefix(new, old) == \A x \in Seq(Entry) : IsPrefix(x, new) => IsPrefix(x, old)

(* A request that came to nothing, in a log that was cut or a later stage. *)
LEMMA UnansweredKeeps ==
  ASSUME NEW l, NEW s, NEW e, WalkInv(walk, l, born, s, e, now),
         NEW m, NEW t, NEW f, NoNewPrefix(m, l),
         e \in {"overlap", "after"} => f \in {"overlap", "after"}, e = "after" => f = "after"
  PROVE  WalkInv(Unanswered(walk), m, born, t, f, now)
  <1> DEFINE w == Unanswered(walk)
  <1>1. CASE walk = NoWalk
    <2>1. w = NoWalk BY <1>1 DEF Unanswered, NoWalk
    <2> QED BY <2>1 DEF WalkInv
  <1>2. CASE walk # NoWalk
    <2>1. /\ WalkFine(walk) /\ Behind(walk.cursor.snapshot.log, born)
          /\ KeysFit(walk, e) /\ Justified(walk, now, l, e)
      BY <1>2 DEF WalkInv
    <2>2. walk.phase \in {"asked", "ready", "checked", "done", "refused"}
          /\ walk.cursor.snapshot.log \in Seq(Entry)
      BY <2>1 DEF WalkFine, Walking, Cursor, Snapshot
    <2>3. CASE walk.phase = "asked"
      <3>1. w = NoWalk BY <2>3 DEF Unanswered
      <3> QED BY <3>1 DEF WalkInv
    <2>4. CASE walk.phase # "asked"
      <3>1. /\ WalkFine(w) /\ w.cursor = walk.cursor /\ w.phase # "asked"
            /\ w.phase = "refused" => walk.phase = "refused"
        <4>1. CASE walk.phase = "checked"
          <5>1. w = [walk EXCEPT !.phase = "ready"] BY <4>1 DEF Unanswered
          <5> HIDE DEF w
          <5> QED BY <2>1, <4>1, <5>1, PhaseOnly
        <4>2. CASE walk.phase # "checked"
          <5>1. w = walk BY <2>4, <4>2 DEF Unanswered
          <5> QED BY <2>1, <2>4, <5>1
        <4> QED BY <4>1, <4>2
      <3> HIDE DEF w
      <3>2. Behind(w.cursor.snapshot.log, born) /\ Agrees(w, m, t) /\ KeysFit(w, f)
        BY <2>1, <3>1 DEF Agrees, KeysFit
      <3>3. Justified(w, now, m, f) BY <2>1, <2>2, <3>1 DEF Justified, NoNewPrefix
      <3> QED BY <3>1, <3>2, <3>3 DEF WalkInv, w
    <2> QED BY <2>3, <2>4
  <1> QED BY <1>1, <1>2

LEMMA AnswerLostKeeps ==
  ASSUME Inv, AnswerLost
  PROVE  Inv'
  <1>1. walk' = Unanswered(walk) /\ UNCHANGED <<log, born, sound, era, now>> BY DEF AnswerLost
  <1>2. WalkInv(walk', log, born, sound, era, now) BY <1>1, UnansweredKeeps DEF Inv, NoNewPrefix
  <1> QED BY <1>1, <1>2, ClientStep

LEMMA RotateKeeps ==
  ASSUME Inv, Rotate
  PROVE  Inv'
  <1>1. walk' = Unanswered(walk) /\ UNCHANGED <<log, born, sound, now>> BY DEF Rotate
  <1>2. /\ era' \in {"staged", "overlap", "after"} /\ era # "after"
        /\ era \in {"overlap", "after"} => era' \in {"overlap", "after"}
    BY DEF Rotate
  <1>3. WalkInv(walk', log, born, sound, era', now) BY <1>1, <1>2, UnansweredKeeps DEF Inv, NoNewPrefix
  <1>4. TypeInv' BY <1>1, <1>2 DEF Inv, TypeInv
  <1>5. Behind(log', born') BY <1>1 DEF Inv
  <1>6. WalkInv(walk', log', born', sound', era', now') BY <1>1, <1>3
  <1> QED BY <1>4, <1>5, <1>6 DEF Inv

LEMMA CutLosesPrefixes ==
  ASSUME NEW l \in Seq(Entry), NEW n \in Nat, n <= Len(l), NEW t, t = SubSeq(l, 1, n)
  PROVE  NoNewPrefix(t, l)
  <1> SUFFICES ASSUME NEW x \in Seq(Entry), IsPrefix(x, t) PROVE IsPrefix(x, l)
    BY DEF NoNewPrefix
  <1>1. t \in Seq(Entry) /\ Len(t) = n /\ \A i \in 1..n : t[i] = l[i] BY Cut
  <1>2. Len(x) <= n /\ \A i \in 1..Len(x) : x[i] = t[i] BY <1>1, PrefixIs
  <1>3. Len(x) \in Nat /\ Len(l) \in Nat OBVIOUS
  <1>4. Len(x) <= Len(l) BY <1>2, <1>3
  <1>5. ASSUME NEW i \in 1..Len(x) PROVE x[i] = l[i]
    <2>1. i \in 1..n BY <1>2, <1>3
    <2> QED BY <1>1, <1>2, <2>1
  <1> QED BY <1>4, <1>5, PrefixIs

LEMMA CutStaysBehind ==
  ASSUME NEW l \in Seq(Entry), NEW n \in Nat, n <= Len(l), NEW t, t = SubSeq(l, 1, n),
         NEW b, Behind(l, b)
  PROVE  t \in Seq(Entry) /\ Behind(t, b)
  <1>1. t \in Seq(Entry) /\ Len(t) = n /\ \A i \in 1..n : t[i] = l[i] BY Cut
  <1>2. \A i \in 1..n : i \in 1..Len(l) OBVIOUS
  <1> QED BY <1>1, <1>2 DEF Behind

LEMMA RestoreKeeps ==
  ASSUME Inv, NEW n \in 0..MaxLog, Restore(n)
  PROVE  Inv'
  <1>1. /\ n <= Len(log) /\ log' = SubSeq(log, 1, n) /\ sound' = TRUE
        /\ walk' = Unanswered(walk) /\ UNCHANGED <<born, era, now>>
    BY DEF Restore
  <1>a. MaxLog \in Nat BY PagesAssumption
  <1>b. n \in Nat BY <1>a
  <1>2. log \in Seq(Entry) /\ n \in Nat /\ Behind(log, born) BY <1>b DEF Inv, TypeInv
  <1>3. log' \in Seq(Entry) /\ Behind(log', born) BY <1>1, <1>2, CutStaysBehind
  <1>4. NoNewPrefix(log', log) BY <1>1, <1>2, CutLosesPrefixes
  <1>5. WalkInv(walk', log', born, sound', era, now)
    <2>1. WalkInv(walk, log, born, sound, era, now) BY DEF Inv
    <2>2. WalkInv(Unanswered(walk), log', born, sound', era, now)
      BY <1>4, <2>1, UnansweredKeeps
    <2> QED BY <1>1, <2>2
  <1>6. TypeInv' BY <1>1, <1>3 DEF Inv, TypeInv
  <1>7. Behind(log', born') /\ WalkInv(walk', log', born', sound', era', now')
    BY <1>1, <1>3, <1>5
  <1> QED BY <1>6, <1>7 DEF Inv

LEMMA LoseTailKeeps ==
  ASSUME Inv, NEW n \in 0..MaxLog, LoseTail(n)
  PROVE  Inv'
  <1>1. /\ n < Len(log) /\ log' = SubSeq(log, 1, n) /\ sound' = FALSE
        /\ UNCHANGED <<born, era, now, walk>>
    BY DEF LoseTail
  <1>a. MaxLog \in Nat BY PagesAssumption
  <1>b. n \in Nat BY <1>a
  <1>2. log \in Seq(Entry) /\ n \in Nat /\ Behind(log, born) BY <1>b DEF Inv, TypeInv
  <1>3. n <= Len(log) BY <1>1, <1>2
  <1>4. log' \in Seq(Entry) /\ Behind(log', born) BY <1>1, <1>2, <1>3, CutStaysBehind
  <1>5. NoNewPrefix(log', log)
    BY <1>1, <1>2, <1>3, CutLosesPrefixes
  <1>6. Len(log') = n /\ \A i \in 1..n : log'[i] = log[i] BY <1>1, <1>2, <1>3, Cut
  <1>7. ASSUME NEW x \in Seq(Entry), IsPrefix(x, log) \/ IsPrefix(log, x)
        PROVE  IsPrefix(x, log') \/ IsPrefix(log', x)
    <2>1. Len(x) \in Nat /\ Len(log) \in Nat BY <1>2
    <2>2. \A i \in 1..Len(x) : i <= Len(log) => x[i] = log[i]
      <3>1. CASE IsPrefix(x, log) BY <1>2, <3>1, PrefixIs
      <3>2. CASE IsPrefix(log, x)
        <4>1. \A i \in 1..Len(log) : log[i] = x[i] BY <1>2, <3>2, PrefixIs
        <4> QED BY <2>1, <4>1
      <3> QED BY <1>7, <3>1, <3>2
    <2>3. CASE Len(x) <= n
      <3>1. \A i \in 1..Len(x) : x[i] = log'[i] BY <1>2, <1>3, <1>6, <2>1, <2>2, <2>3
      <3> QED BY <1>4, <1>6, <2>3, <3>1, PrefixIs
    <2>4. CASE n <= Len(x)
      <3>1. \A i \in 1..n : log'[i] = x[i] BY <1>2, <1>3, <1>6, <2>1, <2>2, <2>4
      <3> QED BY <1>4, <1>6, <2>4, <3>1, PrefixIs
    <2> QED BY <1>2, <2>1, <2>3, <2>4
  <1>8. WalkInv(walk, log', born, sound', era, now)
    <2>1. CASE walk = NoWalk BY <2>1 DEF WalkInv
    <2>2. CASE walk # NoWalk
      <3> DEFINE b == walk.cursor.snapshot.log
      <3>1. /\ WalkFine(walk) /\ Behind(b, born) /\ Agrees(walk, log, sound)
            /\ KeysFit(walk, era) /\ Justified(walk, now, log, era)
        BY <2>2 DEF Inv, WalkInv
      <3>2. b \in Seq(Entry) BY <3>1 DEF WalkFine, Walking, Cursor, Snapshot
      <3>3. walk.phase = "asked" => IsPrefix(b, log) \/ IsPrefix(log, b) BY <3>1 DEF Agrees
      <3>4. walk.phase = "asked" => IsPrefix(b, log') \/ IsPrefix(log', b)
        BY <1>7, <3>2, <3>3
      <3>5. Agrees(walk, log', sound') BY <1>1, <3>4 DEF Agrees
      <3>6. Justified(walk, now, log', era) BY <1>5, <3>1, <3>2 DEF Justified, NoNewPrefix
      <3> QED BY <3>1, <3>5, <3>6 DEF WalkInv
    <2> QED BY <2>1, <2>2
  <1>9. TypeInv' BY <1>1, <1>4 DEF Inv, TypeInv
  <1>10. Behind(log', born') /\ WalkInv(walk', log', born', sound', era', now')
    BY <1>1, <1>4, <1>8
  <1> QED BY <1>9, <1>10 DEF Inv

LEMMA AppendRecordKeeps ==
  ASSUME Inv, NEW name \in Name, NEW about \in Subject, AppendRecord(name, about)
  PROVE  Inv'
  <1> DEFINE z == Len(log)
             new == [name |-> name, about |-> about, id |-> born + 1]
  <1>1. /\ sound = TRUE /\ born < MaxBorn /\ born' = born + 1 /\ log' = log \o <<new>>
        /\ UNCHANGED <<sound, era, now, walk>>
    BY DEF AppendRecord, Inv, TypeInv
  <1>2. /\ log \in Seq(Entry) /\ z \in Nat /\ Behind(log, born) /\ born \in Nat
    BY DEF Inv, TypeInv
  <1>3. new \in Entry /\ new.id = born + 1
    <2>1. MaxBorn \in Nat BY PagesAssumption
    <2>2. born + 1 \in 1..MaxBorn BY <1>1, <1>2, <2>1
    <2> QED BY <2>2 DEF Entry
  <1> HIDE DEF new
  <1>4. /\ log' \in Seq(Entry) /\ Len(log') = z + 1 /\ log'[z + 1] = new
        /\ \A i \in 1..z : log'[i] = log[i]
    BY <1>1, <1>2, <1>3
  <1> HIDE DEF z
  <1>5. \A i \in 1..z : log[i].id \in Nat
    <2>1. \A i \in 1..z : log[i] \in Entry BY <1>2 DEF z
    <2>2. \A x \in Entry : x.id \in Nat
      <3>1. \A x \in Entry : x.id \in 1..MaxBorn BY DEF Entry
      <3>2. MaxBorn \in Nat BY PagesAssumption
      <3> QED BY <3>1, <3>2
    <2> QED BY <2>1, <2>2
  <1>6. Behind(log', born + 1)
    <2> SUFFICES ASSUME NEW i \in 1..(z + 1) PROVE log'[i].id <= born + 1 BY <1>4 DEF Behind
    <2>1. CASE i = z + 1
      <3>1. log'[i].id = born + 1 BY <1>3, <1>4, <2>1
      <3> QED BY <1>2, <3>1
    <2>2. CASE i \in 1..z
      <3>1. log'[i].id = log[i].id /\ log[i].id <= born /\ log[i].id \in Nat
        BY <1>2, <1>4, <1>5, <2>2 DEF Behind, z
      <3> QED BY <1>2, <3>1
    <2>3. i = z + 1 \/ i \in 1..z BY <1>2
    <2> QED BY <2>1, <2>2, <2>3
  <1>7. ASSUME NEW x \in Seq(Entry), Behind(x, born)
        PROVE  Behind(x, born + 1) /\ (IsPrefix(x, log') <=> IsPrefix(x, log))
    <2>1. Len(x) \in Nat OBVIOUS
    <2>2. \A i \in 1..Len(x) : x[i].id \in Nat /\ x[i].id <= born
      <3>1. \A i \in 1..Len(x) : x[i] \in Entry OBVIOUS
      <3>2. \A y \in Entry : y.id \in 1..MaxBorn BY DEF Entry
      <3>3. MaxBorn \in Nat BY PagesAssumption
      <3>4. \A i \in 1..Len(x) : x[i].id \in Nat BY <3>1, <3>2, <3>3
      <3>5. \A i \in 1..Len(x) : x[i].id <= born BY <1>7 DEF Behind
      <3> QED BY <3>4, <3>5
    <2>3. Behind(x, born + 1)
      <3> SUFFICES ASSUME NEW i \in 1..Len(x) PROVE x[i].id <= born + 1 BY DEF Behind
      <3>1. x[i].id \in Nat /\ x[i].id <= born BY <2>2
      <3> QED BY <1>2, <3>1
    <2>4. ASSUME IsPrefix(x, log) PROVE IsPrefix(x, log')
      <3>1. Len(x) <= z /\ \A i \in 1..Len(x) : x[i] = log[i]
        BY <1>2, <2>4, PrefixIs DEF z
      <3>2. Len(x) <= z + 1 BY <1>2, <2>1, <3>1
      <3>3. ASSUME NEW i \in 1..Len(x) PROVE x[i] = log'[i]
        <4>1. i \in 1..z BY <1>2, <2>1, <3>1
        <4> QED BY <1>4, <3>1, <4>1
      <3> QED BY <1>4, <3>2, <3>3, PrefixIs
    <2>5. ASSUME IsPrefix(x, log') PROVE IsPrefix(x, log)
      <3>1. Len(x) <= z + 1 /\ \A i \in 1..Len(x) : x[i] = log'[i]
        BY <1>4, <2>5, PrefixIs
      <3>2. Len(x) # z + 1
        <4> SUFFICES ASSUME Len(x) = z + 1 PROVE FALSE OBVIOUS
        <4>1. z + 1 \in 1..Len(x) BY <1>2
        <4>2. x[z + 1].id = born + 1 BY <1>3, <1>4, <3>1, <4>1
        <4>3. x[z + 1].id <= born BY <2>2, <4>1
        <4> QED BY <1>2, <4>2, <4>3
      <3>3. Len(x) <= z BY <1>2, <2>1, <3>1, <3>2
      <3>4. ASSUME NEW i \in 1..Len(x) PROVE x[i] = log[i]
        <4>1. i \in 1..z BY <1>2, <2>1, <3>3
        <4> QED BY <1>4, <3>1, <4>1
      <3> QED BY <1>2, <3>3, <3>4, PrefixIs DEF z
    <2> QED BY <2>3, <2>4, <2>5
  <1>8. WalkInv(walk, log', born + 1, sound, era, now)
    <2>1. CASE walk = NoWalk BY <2>1 DEF WalkInv
    <2>2. CASE walk # NoWalk
      <3> DEFINE b == walk.cursor.snapshot.log
      <3>1. /\ WalkFine(walk) /\ Behind(b, born) /\ Agrees(walk, log, sound)
            /\ KeysFit(walk, era) /\ Justified(walk, now, log, era)
        BY <2>2 DEF Inv, WalkInv
      <3>2. b \in Seq(Entry) BY <3>1 DEF WalkFine, Walking, Cursor, Snapshot
      <3>3. Behind(b, born + 1) /\ (IsPrefix(b, log') <=> IsPrefix(b, log))
        BY <1>7, <3>1, <3>2
      <3>4. Agrees(walk, log', sound) BY <1>1, <3>1, <3>3 DEF Agrees
      <3>5. Justified(walk, now, log', era) BY <3>1, <3>3 DEF Justified
      <3> QED BY <3>1, <3>3, <3>4, <3>5 DEF WalkInv
    <2> QED BY <2>1, <2>2
  <1>9. TypeInv' BY <1>1, <1>2, <1>4 DEF Inv, TypeInv
  <1>10. Behind(log', born') /\ WalkInv(walk', log', born', sound', era', now')
    BY <1>1, <1>6, <1>8
  <1> QED BY <1>9, <1>10 DEF Inv

LEMMA TickKeeps ==
  ASSUME Inv, Tick
  PROVE  Inv'
  <1>1. now' = now + 1 /\ UNCHANGED <<log, born, sound, era, walk>> BY DEF Tick
  <1>2. now \in Nat BY DEF Inv, TypeInv
  <1>3. TypeInv' BY <1>1, <1>2 DEF Inv, TypeInv
  <1>4. WalkInv(walk, log, born, sound, era, now')
    <2>1. CASE walk = NoWalk BY <2>1 DEF WalkInv
    <2>2. CASE walk # NoWalk
      <3>1. WalkFine(walk) /\ Justified(walk, now, log, era) BY <2>2 DEF Inv, WalkInv
      <3>2. walk.cursor.expires \in Nat BY <3>1 DEF WalkFine, Walking, Cursor
      <3>3. walk.cursor.expires < now => walk.cursor.expires < now' BY <1>1, <1>2, <3>2
      <3>4. Justified(walk, now', log, era) BY <3>1, <3>3 DEF Justified
      <3> QED BY <2>2, <3>4 DEF Inv, WalkInv
    <2> QED BY <2>1, <2>2
  <1>5. Behind(log', born') /\ WalkInv(walk', log', born', sound', era', now')
    BY <1>1, <1>4 DEF Inv
  <1> QED BY <1>3, <1>5 DEF Inv

(* Every walk, through every page, append, loss, restore and rotation,     *)
(* keeps to the rows of the boundary that its cursor carries.              *)
THEOREM PagesInv == Spec => []Inv
  <1>1. Init => Inv
    <2> SUFFICES ASSUME Init PROVE Inv OBVIOUS
    <2>1. /\ log = <<>> /\ born = 0 /\ sound = TRUE /\ era = "before" /\ now = 0
          /\ walk = NoWalk
      BY DEF Init
    <2>2. TypeInv BY <2>1 DEF TypeInv
    <2>3. Behind(log, born) BY <2>1 DEF Behind
    <2> QED BY <2>1, <2>2, <2>3 DEF Inv, WalkInv
  <1>2. Inv /\ [Next]_vars => Inv'
    <2> SUFFICES ASSUME Inv, [Next]_vars PROVE Inv' OBVIOUS
    <2>1. CASE \E q \in Query : Ask(q) BY <2>1, AskKeeps
    <2>2. CASE FirstPage BY <2>2, FirstPageKeeps
    <2>3. CASE CheckCursor BY <2>3, CheckCursorKeeps
    <2>4. CASE NextPage BY <2>4, NextPageKeeps
    <2>5. CASE AnswerLost BY <2>5, AnswerLostKeeps
    <2>6. CASE \E name \in Name, about \in Subject : AppendRecord(name, about)
      BY <2>6, AppendRecordKeeps
    <2>7. CASE Rotate BY <2>7, RotateKeeps
    <2>8. CASE Tick BY <2>8, TickKeeps
    <2>9. CASE \E n \in 0..MaxLog : LoseTail(n) \/ Restore(n)
      BY <2>9, LoseTailKeeps, RestoreKeeps
    <2>10. CASE UNCHANGED vars
      <3>1. UNCHANGED <<log, born, sound, era, now, walk>> BY <2>10 DEF vars
      <3> QED BY <3>1 DEF Inv, TypeInv
    <2> QED BY <2>1, <2>2, <2>3, <2>4, <2>5, <2>6, <2>7, <2>8, <2>9, <2>10 DEF Next
  <1> QED BY <1>1, <1>2, PTL DEF Spec

(* A cursor is refused only when it expired, when the log no longer        *)
(* extends its boundary, or when a key that signed for it was retired:     *)
(* neither growth, nor a lost answer, nor a rotation inside its overlap    *)
(* ends a walk.                                                            *)
THEOREM RefusalsJustified == Spec => []RefusalJustified
  <1>1. Inv => RefusalJustified
    <2> SUFFICES ASSUME Inv, walk.phase = "refused" PROVE RefusalJustified
      BY DEF RefusalJustified
    <2> QED BY InWalk DEF Justified, RefusalJustified
  <1> QED BY <1>1, PagesInv, PTL

(* Every page of a walk is of one boundary, every row it returned is a row *)
(* of that boundary, and a walk that ended returned exactly the answer     *)
(* there: no row twice, none left out, none replaced, none out of order.   *)
THEOREM WalksAreExact == Spec => []WalkExact
  <1>1. Inv => WalkExact
    <2> SUFFICES ASSUME Inv, walk.phase \in {"ready", "checked", "done", "refused"}
                 PROVE  WalkExact
      BY DEF WalkExact
    <2> DEFINE snapshot == walk.cursor.snapshot
               l == snapshot.log
               rows == RowsOf(walk)
               got == walk.got
               q == walk.query
    <2>1. WalkFine(walk) BY InWalk
    <2>2. l \in Seq(Entry) /\ q \in Query
      BY <2>1 DEF WalkFine, Walking, Cursor, Snapshot
    <2>3. walk.seen = {snapshot} /\ Shown(got, rows, l) BY <2>1 DEF WalkFine
    <2>4. rows = Rows(l, q) /\ rows \in Seq(1..Len(l)) BY <2>2, RowsOfQuery DEF RowsOf
    <2>5. walk.phase = "done" => Len(got) = Len(rows) BY <2>1 DEF WalkFine
    <2> HIDE DEF l, rows, got, q
    <2>6. /\ Len(got) \in Nat /\ DOMAIN got = 1..Len(got) /\ Len(got) <= Len(rows)
          /\ \A i \in 1..Len(got) : got[i] = <<rows[i], l[rows[i]]>>
      BY <2>3 DEF Shown
    <2>7. ASSUME NEW i \in 1..Len(got)
          PROVE  /\ i \in 1..Len(rows) /\ rows[i] \in 1..Len(l)
                 /\ got[i][1] = rows[i] /\ got[i][2] = l[rows[i]]
      <3>1. Len(rows) \in Nat BY <2>4
      <3>2. i \in 1..Len(rows) BY <2>6, <3>1
      <3>3. rows[i] \in 1..Len(l) BY <2>4, <3>2
      <3> QED BY <2>6, <3>2, <3>3
    <2>8. \A i \in DOMAIN got : got[i][1] \in DOMAIN l /\ l[got[i][1]] = got[i][2]
      BY <2>2, <2>6, <2>7
    <2>9. ASSUME walk.phase = "done", q.on = "log" PROVE LogExactly(walk, l)
      <3>1. q.since \in Nat
        <4>1. q.since \in 0..MaxLog BY <2>2, <2>9 DEF Query
        <4>2. MaxLog \in Nat BY PagesAssumption
        <4> QED BY <4>1, <4>2
      <3>2. rows = LogRows(l, q.since) BY <2>4, <2>9 DEF Rows
      <3>3. /\ \A i \in 1..Len(rows) : rows[i] = q.since + i
            /\ Len(rows) = IF q.since < Len(l) THEN Len(l) - q.since ELSE 0
        BY <2>2, <3>1, <3>2, LogRowsFacts
      <3>4. Len(got) = IF q.since < Len(l) THEN Len(l) - q.since ELSE 0
        BY <2>5, <2>9, <3>3
      <3>5. [i \in DOMAIN got |-> got[i][1]] = [i \in 1..Len(got) |-> q.since + i]
        <4>1. \A i \in 1..Len(got) : got[i][1] = q.since + i BY <2>7, <3>3
        <4> QED BY <2>6, <4>1
      <3> QED BY <3>4, <3>5 DEF LogExactly, Seqs, got, q
    <2>10. ASSUME walk.phase = "done", q.on # "log" PROVE RecordsExactly(walk, l)
      <3>1. rows = RecordRows(l, q.about) BY <2>4, <2>10 DEF Rows
      <3>2. Sorted(rows, l) /\ Covers(rows, l, q.about) BY <2>2, <3>1, RecordRowsFacts
      <3>3. Len(got) = Len(rows) BY <2>5, <2>10
      <3>4. \A i, j \in DOMAIN got : i < j => got[i][2].name < got[j][2].name
        BY <2>6, <2>7, <3>2 DEF Sorted
      <3>5. \A i \in DOMAIN got : got[i][2].about = q.about
        BY <2>6, <2>7, <3>2 DEF Covers
      <3>6. \A s \in DOMAIN l : l[s].about = q.about =>
              \E i \in DOMAIN got : got[i][2].name = l[s].name /\ got[i][1] >= s
        <4> SUFFICES ASSUME NEW s \in 1..Len(l), l[s].about = q.about
                     PROVE  \E i \in DOMAIN got : got[i][2].name = l[s].name /\ got[i][1] >= s
          BY <2>2
        <4>1. PICK i \in 1..Len(rows) : l[rows[i]].name = l[s].name /\ rows[i] >= s
          BY <3>2 DEF Covers
        <4>2. i \in 1..Len(got) BY <3>3
        <4> QED BY <2>6, <2>7, <4>1, <4>2
      <3> QED BY <3>4, <3>5, <3>6 DEF RecordsExactly, got, q
    <2>11. walk.phase = "done" =>
             IF walk.query.on = "log" THEN LogExactly(walk, l) ELSE RecordsExactly(walk, l)
      BY <2>9, <2>10 DEF q
    <2>12. \A i \in DOMAIN walk.got :
             walk.got[i][1] \in DOMAIN l /\ l[walk.got[i][1]] = walk.got[i][2]
      BY <2>8 DEF got
    <2>13. /\ snapshot \in walk.seen /\ walk.seen = {snapshot} /\ l = snapshot.log
      BY <2>3 DEF l
    <2> HIDE DEF snapshot
    <2> QED BY <2>11, <2>12, <2>13 DEF WalkExact
  <1> QED BY <1>1, PagesInv, PTL
=============================================================================
