-------------------------- MODULE FederationProofs --------------------------
(***************************************************************************)
(* What holds of any number of registries that feed each other in any      *)
(* pattern, and take submissions that bring "upstream-import" endorsements *)
(* along: the promise of a high-water, what becomes of plain imports, and  *)
(* the checkpoint at startup, which refuses no service that lost nothing   *)
(* and lets no other become ready.                                         *)
(***************************************************************************)
EXTENDS Federation, FiniteSetTheorems, WellFoundedInduction, TLAPS

(***************************************************************************)
(* The invariant.                                                          *)
(***************************************************************************)

Row == [fp : [item : UNION Range(Item), sig : Seq(Signer)], seq : Nat]
Database == [log : Seq(Entry), imported : SUBSET Row,
             hw : [Registry -> Seq(Record) \cup {NoLog}]]
Bundle == [from : Registry, records : Seq(Record), snapshot : Seq(Record)]
Backup == [db : Database \cup {NoLog}, cp : Boundary \cup {NoLog}]

(* A ledger row stands for the record it was written for: the entry it     *)
(* names is that record, countersigned here.                               *)
Rooted(r, d) ==
  \A row \in d.imported :
    /\ row.seq \in DOMAIN d.log
    /\ d.log[row.seq].rec =
         Countersign([item |-> row.fp.item, signers |-> row.fp.sig], r)

Covered(r, d) ==
  \A u \in Registry : d.hw[u] # NoLog =>
    \A i \in DOMAIN d.hw[u] :
      \E n \in DOMAIN d.log : d.log[n].rec = Countersign(d.hw[u][i], r)

Sound(r, d) == d \in Database /\ Rooted(r, d) /\ Covered(r, d)

(* The log of e begins with that of d.                                     *)
Extends(d, e) ==
  /\ Len(d.log) <= Len(e.log)
  /\ \A i \in 1..Len(d.log) : e.log[i] = d.log[i]

TypeInv ==
  /\ db \in [Registry -> Database]
  /\ exporting \in [Registry -> Seq(Record) \cup {NoLog}]
  /\ bundles \in SUBSET Bundle
  /\ status \in [Registry -> {"down", "ready", "refused"}]
  /\ backup \in [Registry -> Backup]
  /\ checkpoint \in [Registry -> Boundary \cup {NoLog}]
  /\ restores \in 0..MaxRestores

(* The database in place and the one in the backup are sound alike.        *)
SoundInv ==
  \A r \in Registry : /\ Sound(r, db[r])
                      /\ backup[r].db # NoLog => Sound(r, backup[r].db)

(* A backup has the checkpoint of its own log, and until it has one the    *)
(* live log only grows beyond it.                                          *)
BackupInv ==
  \A r \in Registry : backup[r].db # NoLog =>
    /\ backup[r].cp # NoLog => backup[r].cp = BoundaryOf(backup[r].db.log)
    /\ backup[r].cp = NoLog => Extends(backup[r].db, db[r])

NoBackupNoCheckpoint == \A r \in Registry : backup[r].db = NoLog => backup[r].cp = NoLog

FedInv == TypeInv /\ SoundInv /\ BackupInv /\ NoBackupNoCheckpoint
----------------------------------------------------------------------------
(***************************************************************************)
(* Lemmas about the operators of the import.                               *)
(***************************************************************************)

(* Finitely many numbers can be put in order, each once and none left out. *)
LEMMA Ranked ==
  ASSUME NEW S \in SUBSET Nat, IsFiniteSet(S), NEW n, n = Cardinality(S)
  PROVE  \E s \in [1..n -> S] : \A i, j \in 1..n : i < j => s[i] < s[j]
  <1> DEFINE Below(x) == {y \in S : y <= x}
             rank == [x \in S |-> Cardinality(Below(x))]
  <1>1. n \in Nat /\ IsFiniteSet(1..n) /\ Cardinality(1..n) = n
    <2>1. n \in Nat BY FS_CardinalityType
    <2> QED BY <2>1, FS_Interval
  <1>2. ASSUME NEW x \in S
        PROVE  IsFiniteSet(Below(x)) /\ Cardinality(Below(x)) \in 1..n
    <2>1. Below(x) \in SUBSET S /\ x \in Below(x) OBVIOUS
    <2> HIDE DEF Below
    <2>2. IsFiniteSet(Below(x)) /\ Cardinality(Below(x)) <= Cardinality(S) BY <2>1, FS_Subset
    <2>3. Cardinality(Below(x)) \in Nat BY <2>2, FS_CardinalityType
    <2>4. Cardinality(Below(x)) # 0 BY <2>1, <2>2, FS_EmptySet
    <2> QED BY <1>1, <2>2, <2>3, <2>4
  <1>3. ASSUME NEW x \in S, NEW y \in S, x < y PROVE rank[x] < rank[y]
    <2>0. \A z \in S : z \in Nat OBVIOUS
    <2>1. Below(x) \in SUBSET Below(y) /\ y \in Below(y) /\ y \notin Below(x)
      <3>1. y \in Below(y) /\ y \notin Below(x) BY <1>3, <2>0
      <3>2. ASSUME NEW z \in Below(x) PROVE z \in Below(y) BY <1>3, <2>0, <3>2
      <3> QED BY <3>1, <3>2
    <2>2. /\ Cardinality(Below(x)) <= Cardinality(Below(y))
          /\ Cardinality(Below(y)) # Cardinality(Below(x))
      BY <1>2, <2>1, FS_Subset
    <2>3. Cardinality(Below(x)) \in Nat /\ Cardinality(Below(y)) \in Nat BY <1>2
    <2> HIDE DEF Below
    <2> QED BY <2>2, <2>3
  <1>4. rank \in [S -> 1..n] BY <1>2
  <1> HIDE DEF rank
  <1>5. rank \in Injection(S, 1..n)
    <2>1. ASSUME NEW x \in S, NEW y \in S, x # y PROVE rank[x] # rank[y]
      <3>1. x < y \/ y < x BY <2>1
      <3>2. rank[x] \in Nat /\ rank[y] \in Nat BY <1>1, <1>4
      <3> QED BY <1>3, <3>1, <3>2
    <2> QED BY <1>4, <2>1 DEF Injection, IsInjective
  <1>6. rank \in Surjection(S, 1..n)
    <2>1. Cardinality(S) = Cardinality(1..n) BY <1>1
    <2>2. Cardinality(S) = Cardinality(1..n) <=> rank \in Surjection(S, 1..n)
      BY <1>1, <1>5, FS_Injection
    <2> QED BY <2>1, <2>2
  <1>7. \A k \in 1..n : \E x \in S : rank[x] = k BY <1>6 DEF Surjection
  <1> DEFINE s == [k \in 1..n |-> CHOOSE x \in S : rank[x] = k]
  <1>8. \A k \in 1..n : s[k] \in S /\ rank[s[k]] = k BY <1>7
  <1>9. s \in [1..n -> S] BY <1>8
  <1> HIDE DEF s
  <1>10. ASSUME NEW i \in 1..n, NEW j \in 1..n, i < j PROVE s[i] < s[j]
    <2>1. s[i] \in Nat /\ s[j] \in Nat /\ s[i] # s[j]
      <3>1. i # j BY <1>1, <1>10
      <3> QED BY <1>8, <3>1
    <2>2. ~(s[j] < s[i])
      <3> SUFFICES ASSUME s[j] < s[i] PROVE FALSE OBVIOUS
      <3>1. rank[s[j]] < rank[s[i]] BY <1>3, <1>8
      <3>2. j < i BY <1>8, <3>1
      <3> QED BY <1>1, <1>10, <3>2
    <2> QED BY <2>1, <2>2
  <1> QED BY <1>9, <1>10

LEMMA InOrderFacts ==
  ASSUME NEW S \in SUBSET Nat, IsFiniteSet(S), NEW n, n = Cardinality(S)
  PROVE  /\ n \in Nat /\ InOrder(S) \in [1..n -> S]
         /\ \A x \in S : \E i \in 1..n : InOrder(S)[i] = x
  <1> DEFINE s == InOrder(S)
  <1>1. n \in Nat /\ IsFiniteSet(1..n) /\ Cardinality(1..n) = n
    <2>1. n \in Nat BY FS_CardinalityType
    <2> QED BY <2>1, FS_Interval
  <1>2. \E t \in [1..n -> S] : \A i, j \in DOMAIN t : i < j => t[i] < t[j]
    BY Ranked
  <1>3. s \in [1..n -> S] /\ \A i, j \in DOMAIN s : i < j => s[i] < s[j]
    BY <1>2 DEF InOrder
  <1> HIDE DEF s
  <1>4. s \in Injection(1..n, S)
    <2>1. ASSUME NEW i \in 1..n, NEW j \in 1..n, i # j PROVE s[i] # s[j]
      <3>1. i < j \/ j < i BY <1>1, <2>1
      <3>2. s[i] \in Nat /\ s[j] \in Nat BY <1>3
      <3> QED BY <1>3, <3>1, <3>2
    <2> QED BY <1>3, <2>1 DEF Injection, IsInjective
  <1>5. s \in Surjection(1..n, S) BY <1>1, <1>4, FS_Injection
  <1>6. \A x \in S : \E i \in 1..n : s[i] = x BY <1>5 DEF Surjection
  <1> QED BY <1>1, <1>3, <1>6 DEF s
(* Of some numbers one is the least.                                       *)
LEMMA Least ==
  ASSUME NEW T \in SUBSET Nat, T # {}
  PROVE  \E x \in T : \A y \in T : x <= y
  <1> DEFINE R == OpToRel(<, Nat)
  <1>1. IsWellFoundedOn(R, Nat) BY NatLessThanWellFounded
  <1>2. \A x, y \in Nat : x < y => <<x, y>> \in R BY DEF OpToRel
  <1> HIDE DEF R
  <1>3. PICK x \in T : \A y \in T : ~(<<y, x>> \in R) BY <1>1, WFMin
  <1>4. ASSUME NEW y \in T PROVE x <= y
    <2>1. x \in Nat /\ y \in Nat /\ <<y, x>> \notin R BY <1>3
    <2>2. ~(y < x) BY <1>2, <2>1
    <2> QED BY <2>1, <2>2
  <1> QED BY <1>4

(* A record of a bundle is fresh, at the first place it has there, or the  *)
(* ledger knows its fingerprint.                                           *)
Known(d) == {row.fp : row \in d.imported}

LEMMA FreshOrKnown ==
  ASSUME NEW d, NEW b, b.records \in Seq(Record), NEW i \in DOMAIN b.records
  PROVE  \E k \in DOMAIN b.records :
           /\ b.records[k] = b.records[i]
           /\ k \in Fresh(d, b) \/ Fingerprint(b.records[k]) \in Known(d)
  <1> DEFINE s == b.records
             T == {k \in DOMAIN s : s[k] = s[i]}
  <1>1. DOMAIN s = 1..Len(s) /\ Len(s) \in Nat OBVIOUS
  <1>2. T \in SUBSET Nat /\ i \in T BY <1>1
  <1>3. PICK k \in T : \A j \in T : k <= j BY <1>2, Least
  <1>4. s[k] \notin Range(SubSeq(s, 1, k - 1))
    <2> SUFFICES ASSUME NEW j \in DOMAIN SubSeq(s, 1, k - 1), SubSeq(s, 1, k - 1)[j] = s[k]
                 PROVE  FALSE
      BY DEF Range
    <2>1. k \in 1..Len(s) /\ s[k] = s[i] BY <1>1, <1>3
    <2>2. j \in 1..(k - 1) /\ s[j] = s[k] BY <1>1, <2>1
    <2>3. j \in T /\ ~(k <= j) BY <1>1, <2>1, <2>2
    <2> QED BY <1>3, <2>3
  <1>5. k \in DOMAIN s /\ s[k] = s[i] BY <1>3
  <1> HIDE DEF T
  <1> QED BY <1>4, <1>5 DEF Fresh, Known

LEMMA FreshFinite ==
  ASSUME NEW d, NEW b, b.records \in Seq(Record)
  PROVE  Fresh(d, b) \in SUBSET Nat /\ IsFiniteSet(Fresh(d, b))
  <1>1. DOMAIN b.records = 1..Len(b.records) /\ Len(b.records) \in Nat OBVIOUS
  <1>2. Fresh(d, b) \in SUBSET (1..Len(b.records)) BY <1>1 DEF Fresh
  <1>3. IsFiniteSet(1..Len(b.records)) BY <1>1, FS_Interval
  <1> QED BY <1>2, <1>3, FS_Subset

LEMMA CountersignType ==
  ASSUME NEW r \in Registry, NEW rec \in Record
  PROVE  /\ Countersign(rec, r) \in Record
         /\ Countersign(rec, r) = [item |-> rec.item, signers |-> Append(rec.signers, r)]
  <1>1. PICK x \in UNION Range(Item), s \in Seq(Signer) : rec = [item |-> x, signers |-> s]
    BY DEF Record
  <1>2. Append(s, r) \in Seq(Signer) BY DEF Signer
  <1>3. Countersign(rec, r) = [item |-> x, signers |-> Append(s, r)]
    <2>1. Countersign(rec, r) = [rec EXCEPT !.signers = Append(rec.signers, r)] BY DEF Countersign
    <2> QED BY <1>1, <2>1
  <1>4. rec.item = x /\ rec.signers = s BY <1>1
  <1> QED BY <1>2, <1>3, <1>4 DEF Record

(* What the loop of append_upstream_import leaves.                         *)
Imported(d, e, b, r) ==
  /\ e \in Database /\ e.hw = d.hw /\ Extends(d, e)
  /\ \A row \in e.imported : row \in d.imported \/
       \E k \in DOMAIN b.records :
         /\ row.fp = Fingerprint(b.records[k])
         /\ row.seq \in DOMAIN e.log
         /\ e.log[row.seq].rec = Countersign(b.records[k], r)
  /\ \A k \in Fresh(d, b) : \E m \in DOMAIN e.log : e.log[m].rec = Countersign(b.records[k], r)

LEMMA Joined ==
  ASSUME NEW S, NEW a \in Seq(S), NEW t \in Seq(S), NEW z, z = Len(a), NEW n, n = Len(t),
         NEW u, u = a \o t
  PROVE  /\ u \in Seq(S) /\ Len(u) = z + n /\ DOMAIN u = 1..(z + n)
         /\ \A i \in 1..z : u[i] = a[i]
         /\ \A m \in 1..n : z + m \in 1..(z + n) /\ u[z + m] = t[m]
  <1>1. z \in Nat /\ n \in Nat OBVIOUS
  <1>2. u \in Seq(S) /\ Len(u) = z + n OBVIOUS
  <1>3. DOMAIN u = 1..(z + n) BY <1>2
  <1>4. ASSUME NEW i \in 1..z PROVE u[i] = a[i] OBVIOUS
  <1>5. ASSUME NEW m \in 1..n PROVE z + m \in 1..(z + n) /\ u[z + m] = t[m]
    <2>1. z + m \in 1..(z + n) BY <1>1
    <2>2. u[z + m] = t[m] BY <1>1
    <2> QED BY <2>1, <2>2
  <1> QED BY <1>2, <1>3, <1>4, <1>5

LEMMA AppendImportsFacts ==
  ASSUME NEW d \in Database, NEW b \in Bundle, NEW r \in Registry, restores \in 0..MaxRestores
  PROVE  Imported(d, AppendImports(d, b, r), b, r)
  <1> DEFINE F == Fresh(d, b)
             n == Cardinality(F)
             new == InOrder(F)
             tail == [m \in DOMAIN new |->
                        [rec |-> Countersign(b.records[new[m]], r), at |-> restores]]
             rows == {[fp |-> Fingerprint(b.records[new[m]]), seq |-> Len(d.log) + m] : m \in DOMAIN new}
             e == AppendImports(d, b, r)
             z == Len(d.log)
  <1>1. /\ d.log \in Seq(Entry) /\ z \in Nat /\ d.imported \in SUBSET Row
        /\ d.hw \in [Registry -> Seq(Record) \cup {NoLog}]
    BY DEF Database
  <1>2. b.records \in Seq(Record) BY DEF Bundle
  <1>3. F \in SUBSET Nat /\ IsFiniteSet(F) /\ F \subseteq DOMAIN b.records
    BY <1>2, FreshFinite DEF Fresh
  <1>4. /\ n \in Nat /\ new \in [1..n -> F] /\ DOMAIN new = 1..n
        /\ \A x \in F : \E m \in 1..n : new[m] = x
    <2> HIDE DEF F
    <2> QED BY <1>3, InOrderFacts
  <1>5. e = [d EXCEPT !.log = d.log \o tail, !.imported = d.imported \cup rows]
    BY DEF AppendImports
  <1> HIDE DEF F, n, new, e
  <1>6. ASSUME NEW m \in 1..n PROVE new[m] \in DOMAIN b.records /\ b.records[new[m]] \in Record
    <2>1. new[m] \in DOMAIN b.records BY <1>3, <1>4
    <2> QED BY <1>2, <2>1
  <1>7. ASSUME NEW m \in 1..n
        PROVE  /\ tail[m] \in Entry /\ tail[m].rec = Countersign(b.records[new[m]], r)
               /\ [fp |-> Fingerprint(b.records[new[m]]), seq |-> z + m] \in Row
    <2> DEFINE rec == b.records[new[m]]
    <2>1. rec \in Record BY <1>6
    <2> HIDE DEF rec
    <2>2. Countersign(rec, r) \in Record BY <2>1, CountersignType
    <2>3. [rec |-> Countersign(rec, r), at |-> restores] \in Entry BY <2>2 DEF Entry
    <2>4. Fingerprint(rec) \in [item : UNION Range(Item), sig : Seq(Signer)]
      BY <2>1 DEF Fingerprint, Record
    <2>5. [fp |-> Fingerprint(rec), seq |-> z + m] \in Row BY <1>1, <1>4, <2>4 DEF Row
    <2> QED BY <1>4, <2>3, <2>5 DEF rec
  <1>8. tail \in Seq(Entry) /\ Len(tail) = n
    <2>1. DOMAIN tail = 1..n /\ tail = [m \in 1..n |-> tail[m]] BY <1>4
    <2> HIDE DEF tail
    <2>2. tail \in [1..n -> Entry] BY <1>7, <2>1
    <2> QED BY <1>4, <2>2
  <1>9. rows \subseteq Row BY <1>4, <1>7
  <1>10. \A row \in rows : \E m \in 1..n :
           row.fp = Fingerprint(b.records[new[m]]) /\ row.seq = z + m
    BY <1>4
  <1> HIDE DEF tail, rows
  <1>11. e \in Database /\ e.log = d.log \o tail /\ e.imported = d.imported \cup rows /\ e.hw = d.hw
    <2> DEFINE l == d.log \o tail
               all == d.imported \cup rows
    <2>1. l \in Seq(Entry) /\ all \in SUBSET Row BY <1>1, <1>8, <1>9
    <2>2. e = [d EXCEPT !.log = l, !.imported = all] BY <1>5
    <2> HIDE DEF l, all
    <2>3. e \in Database /\ e.log = l /\ e.imported = all /\ e.hw = d.hw
      BY <2>1, <2>2 DEF Database
    <2> QED BY <2>3 DEF l, all
  <1>12. /\ e.log \in Seq(Entry) /\ Len(e.log) = z + n /\ DOMAIN e.log = 1..(z + n)
         /\ \A i \in 1..z : e.log[i] = d.log[i]
         /\ \A m \in 1..n : z + m \in 1..(z + n) /\ e.log[z + m] = tail[m]
    <2> DEFINE a == d.log
    <2>1. a \in Seq(Entry) /\ z = Len(a) /\ tail \in Seq(Entry) /\ n = Len(tail) BY <1>1, <1>8
    <2>2. e.log = a \o tail BY <1>11
    <2> HIDE DEF a, z
    <2> QED BY <2>1, <2>2, Joined DEF a
  <1>14. Extends(d, e) BY <1>1, <1>4, <1>12 DEF Extends
  <1>15. ASSUME NEW row \in e.imported, row \notin d.imported
         PROVE  \E k \in DOMAIN b.records :
                  /\ row.fp = Fingerprint(b.records[k])
                  /\ row.seq \in DOMAIN e.log
                  /\ e.log[row.seq].rec = Countersign(b.records[k], r)
    <2>1. PICK m \in 1..n : row.fp = Fingerprint(b.records[new[m]]) /\ row.seq = z + m
      BY <1>10, <1>11, <1>15
    <2> DEFINE k == new[m]
    <2>2. k \in DOMAIN b.records BY <1>6
    <2>3. row.seq \in DOMAIN e.log /\ e.log[row.seq].rec = tail[m].rec BY <1>12, <2>1
    <2>4. tail[m].rec = Countersign(b.records[k], r) BY <1>7
    <2> QED BY <2>1, <2>2, <2>3, <2>4
  <1>16. ASSUME NEW k \in F
         PROVE  \E m \in DOMAIN e.log : e.log[m].rec = Countersign(b.records[k], r)
    <2>1. PICK m \in 1..n : new[m] = k BY <1>4
    <2>2. z + m \in DOMAIN e.log /\ e.log[z + m].rec = Countersign(b.records[k], r)
      BY <1>7, <1>12, <2>1
    <2> QED BY <2>2
  <1> QED BY <1>11, <1>14, <1>15, <1>16 DEF Imported, e, F
LEMMA ExtendsFacts ==
  ASSUME NEW d \in Database, NEW e \in Database, Extends(d, e), NEW i \in DOMAIN d.log
  PROVE  i \in DOMAIN e.log /\ e.log[i] = d.log[i]
  <1>1. /\ DOMAIN d.log = 1..Len(d.log) /\ Len(d.log) \in Nat
        /\ DOMAIN e.log = 1..Len(e.log) /\ Len(e.log) \in Nat
    BY DEF Database
  <1> QED BY <1>1 DEF Extends

LEMMA ExtendsReflexive ==
  ASSUME NEW d \in Database
  PROVE  Extends(d, d)
  <1>1. Len(d.log) \in Nat BY DEF Database
  <1> QED BY <1>1 DEF Extends

LEMMA ExtendsTransitive ==
  ASSUME NEW d \in Database, NEW e \in Database, NEW f \in Database,
         Extends(d, e), Extends(e, f)
  PROVE  Extends(d, f)
  <1>1. Len(d.log) \in Nat /\ Len(e.log) \in Nat /\ Len(f.log) \in Nat BY DEF Database
  <1>2. \A i \in 1..Len(d.log) : i \in 1..Len(e.log) BY <1>1 DEF Extends
  <1> QED BY <1>1, <1>2 DEF Extends

(* A fingerprint keeps all of a record.                                    *)
LEMMA FingerprintCommits ==
  ASSUME NEW rec \in Record, NEW fp, fp = Fingerprint(rec)
  PROVE  [item |-> fp.item, signers |-> fp.sig] = rec
  <1>1. PICK x \in UNION Range(Item), s \in Seq(Signer) : rec = [item |-> x, signers |-> s]
    BY DEF Record
  <1>2. fp.item = x /\ fp.sig = s BY <1>1 DEF Fingerprint
  <1> QED BY <1>1, <1>2

(* A row that stands for a record finds it in the log.                     *)
LEMMA RowFinds ==
  ASSUME NEW r, NEW d, Rooted(r, d), NEW row \in d.imported, NEW rec \in Record,
         row.fp = Fingerprint(rec)
  PROVE  row.seq \in DOMAIN d.log /\ d.log[row.seq].rec = Countersign(rec, r)
  <1>1. [item |-> row.fp.item, signers |-> row.fp.sig] = rec BY FingerprintCommits
  <1> QED BY <1>1 DEF Rooted

(* A database may grow, if its new rows name the right entries.            *)
LEMMA GrowthKeeps ==
  ASSUME NEW r \in Registry, NEW d, Sound(r, d), NEW e \in Database, Extends(d, e), e.hw = d.hw,
         NEW S \in SUBSET Record,
         \A row \in e.imported : row \in d.imported \/
           \E rec \in S : /\ row.fp = Fingerprint(rec) /\ row.seq \in DOMAIN e.log
                          /\ e.log[row.seq].rec = Countersign(rec, r)
  PROVE  Sound(r, e)
  <1>1. d \in Database /\ Rooted(r, d) /\ Covered(r, d) BY DEF Sound
  <1>2. ASSUME NEW row \in e.imported
        PROVE  /\ row.seq \in DOMAIN e.log
               /\ e.log[row.seq].rec =
                    Countersign([item |-> row.fp.item, signers |-> row.fp.sig], r)
    <2>1. CASE row \in d.imported
      <3>1. row.seq \in DOMAIN d.log BY <1>1, <2>1 DEF Rooted
      <3>2. row.seq \in DOMAIN e.log /\ e.log[row.seq] = d.log[row.seq]
        BY <1>1, <3>1, ExtendsFacts
      <3> QED BY <1>1, <2>1, <3>2 DEF Rooted
    <2>2. CASE row \notin d.imported
      <3>1. PICK rec \in S : /\ row.fp = Fingerprint(rec) /\ row.seq \in DOMAIN e.log
                             /\ e.log[row.seq].rec = Countersign(rec, r)
        BY <2>2
      <3>2. [item |-> row.fp.item, signers |-> row.fp.sig] = rec BY <3>1, FingerprintCommits
      <3> QED BY <3>1, <3>2
    <2> QED BY <2>1, <2>2
  <1>3. ASSUME NEW u \in Registry, e.hw[u] # NoLog, NEW i \in DOMAIN e.hw[u]
        PROVE  \E n \in DOMAIN e.log : e.log[n].rec = Countersign(e.hw[u][i], r)
    <2>1. PICK n \in DOMAIN d.log : d.log[n].rec = Countersign(d.hw[u][i], r)
      BY <1>1, <1>3 DEF Covered
    <2>2. n \in DOMAIN e.log /\ e.log[n] = d.log[n] BY <1>1, ExtendsFacts
    <2> QED BY <2>1, <2>2
  <1> QED BY <1>2, <1>3 DEF Sound, Rooted, Covered

LEMMA SubmitKeeps ==
  ASSUME NEW r \in Registry, NEW d, Sound(r, d), NEW x \in Entry,
         NEW e, e = [d EXCEPT !.log = Append(d.log, x)]
  PROVE  Sound(r, e) /\ Extends(d, e)
  <1>1. d \in Database /\ d.log \in Seq(Entry) /\ Len(d.log) \in Nat BY DEF Sound, Database
  <1> DEFINE l == Append(d.log, x)
  <1>2. /\ l \in Seq(Entry) /\ Len(l) = Len(d.log) + 1
        /\ \A i \in 1..Len(d.log) : l[i] = d.log[i]
    BY <1>1
  <1> HIDE DEF l
  <1>3. e = [d EXCEPT !.log = l] BY DEF l
  <1>4. e \in Database /\ e.log = l /\ e.imported = d.imported /\ e.hw = d.hw
    BY <1>1, <1>2, <1>3 DEF Database
  <1>5. Extends(d, e) BY <1>1, <1>2, <1>4 DEF Extends
  <1>6. Sound(r, e) BY <1>4, <1>5, GrowthKeeps
  <1> QED BY <1>4, <1>5, <1>6 DEF l

(* An import keeps a database sound.                                       *)
LEMMA ImportKeeps ==
  ASSUME NEW r \in Registry, NEW d, Sound(r, d), NEW b \in Bundle, Verified(b),
         restores \in 0..MaxRestores
  PROVE  LET e == MarkHighWater(AppendImports(d, b, r), b)
         IN  Sound(r, e) /\ Extends(d, e)
  <1> DEFINE a == AppendImports(d, b, r)
             e == MarkHighWater(a, b)
             S == {b.records[k] : k \in DOMAIN b.records}
  <1>1. d \in Database /\ Rooted(r, d) BY DEF Sound
  <1>2. Imported(d, a, b, r) BY <1>1, AppendImportsFacts
  <1> HIDE DEF a
  <1>3. /\ b.records \in Seq(Record) /\ b.snapshot \in Seq(Record) /\ b.from \in Registry
        /\ b.records = b.snapshot /\ S \in SUBSET Record
    BY DEF Bundle, Verified
  <1>4. a \in Database /\ a.hw = d.hw /\ Extends(d, a) BY <1>2 DEF Imported
  <1>5. Sound(r, a)
    <2>1. ASSUME NEW row \in a.imported, row \notin d.imported
          PROVE  \E rec \in S : /\ row.fp = Fingerprint(rec) /\ row.seq \in DOMAIN a.log
                                /\ a.log[row.seq].rec = Countersign(rec, r)
      <3>1. PICK k \in DOMAIN b.records : /\ row.fp = Fingerprint(b.records[k])
                                          /\ row.seq \in DOMAIN a.log
                                          /\ a.log[row.seq].rec = Countersign(b.records[k], r)
        BY <1>2, <2>1 DEF Imported
      <3> QED BY <3>1
    <2> QED BY <1>3, <1>4, <2>1, GrowthKeeps
  <1>6. ASSUME NEW i \in DOMAIN b.records
        PROVE  \E n \in DOMAIN a.log : a.log[n].rec = Countersign(b.records[i], r)
    <2>1. PICK k \in DOMAIN b.records :
            /\ b.records[k] = b.records[i]
            /\ k \in Fresh(d, b) \/ Fingerprint(b.records[k]) \in Known(d)
      BY <1>3, FreshOrKnown
    <2>2. CASE k \in Fresh(d, b) BY <1>2, <2>1, <2>2 DEF Imported
    <2>3. CASE Fingerprint(b.records[k]) \in Known(d)
      <3>1. PICK row \in d.imported : row.fp = Fingerprint(b.records[k]) BY <2>3 DEF Known
      <3>2. b.records[k] \in Record BY <1>3
      <3>3. row.seq \in DOMAIN d.log /\ d.log[row.seq].rec = Countersign(b.records[k], r)
        BY <1>1, <3>1, <3>2, RowFinds
      <3>4. row.seq \in DOMAIN a.log /\ a.log[row.seq] = d.log[row.seq]
        BY <1>1, <1>4, <3>3, ExtendsFacts
      <3> QED BY <2>1, <3>3, <3>4
    <2> QED BY <2>1, <2>2, <2>3
  <1>7. CASE ~Advances(a.hw[b.from], b)
    <2>1. e = a BY <1>7 DEF MarkHighWater
    <2> QED BY <1>4, <1>5, <2>1 DEF a
  <1>8. CASE Advances(a.hw[b.from], b)
    <2> DEFINE h == [a.hw EXCEPT ![b.from] = b.snapshot]
    <2>1. a.hw \in [Registry -> Seq(Record) \cup {NoLog}] BY <1>4 DEF Database
    <2>2. /\ h \in [Registry -> Seq(Record) \cup {NoLog}] /\ h[b.from] = b.records
          /\ \A u \in Registry : u # b.from => h[u] = a.hw[u]
      BY <1>3, <2>1
    <2>3. e = [a EXCEPT !.hw = h]
      <3>1. e = [a EXCEPT !.hw[b.from] = b.snapshot] BY <1>8 DEF MarkHighWater
      <3> QED BY <3>1
    <2> HIDE DEF h, e
    <2>4. e \in Database /\ e.log = a.log /\ e.imported = a.imported /\ e.hw = h
      BY <1>4, <2>2, <2>3 DEF Database
    <2>5. Rooted(r, e) BY <1>5, <2>4 DEF Sound, Rooted
    <2>6. ASSUME NEW u \in Registry, h[u] # NoLog, NEW i \in DOMAIN h[u]
          PROVE  \E n \in DOMAIN a.log : a.log[n].rec = Countersign(h[u][i], r)
      <3>1. CASE u = b.from BY <1>6, <2>2, <2>6, <3>1
      <3>2. CASE u # b.from
        <4>1. h[u] = a.hw[u] BY <2>2, <3>2
        <4> QED BY <1>5, <2>6, <4>1 DEF Sound, Covered
      <3> QED BY <3>1, <3>2
    <2>7. Covered(r, e) BY <2>4, <2>6 DEF Covered
    <2>8. Extends(d, e) BY <1>4, <2>4 DEF Extends
    <2> QED BY <2>4, <2>5, <2>7, <2>8 DEF Sound, e, a
  <1> QED BY <1>7, <1>8
----------------------------------------------------------------------------
(***************************************************************************)
(* The invariant holds.                                                    *)
(***************************************************************************)

LEMMA BoundaryFacts ==
  ASSUME NEW log \in Seq(Entry), NEW c, c = BoundaryOf(log)
  PROVE  /\ c \in Boundary /\ c.head \in Seq(Record) /\ Len(c.head) = Len(log)
         /\ DOMAIN c.head = 1..Len(log) /\ \A i \in 1..Len(log) : c.head[i] = log[i].rec
  <1> DEFINE h == [i \in DOMAIN log |-> log[i].rec]
             t == IF log = <<>> THEN 0 ELSE Last(log).at
  <1>1. DOMAIN log = 1..Len(log) /\ Len(log) \in Nat /\ \A i \in 1..Len(log) : log[i] \in Entry
    OBVIOUS
  <1>2. \A i \in 1..Len(log) : log[i].rec \in Record /\ log[i].at \in 0..MaxRestores
    BY <1>1 DEF Entry
  <1>3. h \in Seq(Record) /\ Len(h) = Len(log) BY <1>1, <1>2
  <1>4. \A i \in 1..Len(log) : h[i] = log[i].rec BY <1>1
  <1>5. t \in 0..MaxRestores
    <2>1. CASE log = <<>> BY <2>1, FeedsAssumption
    <2>2. CASE log # <<>>
      <3>1. Len(log) \in 1..Len(log) BY <1>1, <2>2
      <3> QED BY <1>2, <2>2, <3>1 DEF Last
    <2> QED BY <2>1, <2>2
  <1>6. c = [head |-> h, at |-> t] BY DEF BoundaryOf
  <1> HIDE DEF h, t
  <1>7. c \in Boundary /\ c.head = h BY <1>3, <1>5, <1>6 DEF Boundary
  <1> QED BY <1>1, <1>3, <1>4, <1>7

LEMMA FedInit == Init => FedInv
  <1> SUFFICES ASSUME Init PROVE FedInv OBVIOUS
  <1>1. EmptyDb \in Database /\ EmptyDb.imported = {} /\ \A u \in Registry : EmptyDb.hw[u] = NoLog
    <2>1. <<>> \in Seq(Entry) /\ {} \in SUBSET Row
          /\ [u \in Registry |-> NoLog] \in [Registry -> Seq(Record) \cup {NoLog}]
      OBVIOUS
    <2> QED BY <2>1 DEF EmptyDb, Database
  <1>2. \A r \in Registry : Sound(r, EmptyDb) BY <1>1 DEF Sound, Rooted, Covered
  <1>3. NoBackup \in Backup /\ NoBackup.db = NoLog /\ NoBackup.cp = NoLog BY DEF NoBackup, Backup
  <1>4. TypeInv BY <1>1, <1>3, FeedsAssumption DEF Init, TypeInv
  <1>5. SoundInv BY <1>2, <1>3 DEF Init, SoundInv
  <1>6. BackupInv /\ NoBackupNoCheckpoint BY <1>3 DEF Init, BackupInv, NoBackupNoCheckpoint
  <1> QED BY <1>4, <1>5, <1>6 DEF FedInv

(* What submissions and imports do to the database of their registry.      *)
LEMMA SubmitGrows ==
  ASSUME FedInv, NEW r \in Registry, NEW x \in Item[r], Submit(r, x)
  PROVE  \E e : Sound(r, e) /\ Extends(db[r], e) /\ db' = [db EXCEPT ![r] = e]
  <1>1. PICK brought \in {<<>>} \cup {<<e>> : e \in Endorser[x]} :
          db' = [db EXCEPT ![r].log =
                   Append(@, [rec |-> [item |-> x, signers |-> Append(brought, r)],
                              at |-> restores])]
    BY Zenon DEF Submit
  <1> DEFINE rec == [item |-> x, signers |-> Append(brought, r)]
             n == [rec |-> rec, at |-> restores]
             d == db[r]
             e == [d EXCEPT !.log = Append(d.log, n)]
  <1>2. n \in Entry
    <2>1. x \in UNION Range(Item) BY FeedsAssumption DEF Range
    <2>2. brought \in Seq(Signer)
      <3> HIDE DEF rec, n, d, e
      <3>1. CASE brought = <<>> BY <3>1
      <3>2. CASE \E en \in Endorser[x] : brought = <<en>>
        <4>1. Endorser[x] \subseteq Signer
          <5>1. x \in DOMAIN Endorser BY <2>1, FeedsAssumption
          <5>2. Endorser[x] \in Range(Endorser) BY <5>1 DEF Range
          <5> QED BY <5>2 DEF Signer
        <4> QED BY <3>2, <4>1
      <3> QED BY <3>1, <3>2
    <2>3. Append(brought, r) \in Seq(Signer) BY <2>2 DEF Signer
    <2>4. rec \in Record BY <2>1, <2>3 DEF Record
    <2> HIDE DEF rec
    <2> QED BY <2>4 DEF Entry, FedInv, TypeInv
  <1>3. db' = [db EXCEPT ![r] = e] BY <1>1
  <1> HIDE DEF n
  <1>4. Sound(r, d) BY DEF FedInv, SoundInv
  <1> HIDE DEF d
  <1>5. Sound(r, e) /\ Extends(d, e) BY <1>2, <1>4, SubmitKeeps
  <1> HIDE DEF e
  <1> QED BY <1>3, <1>5 DEF d

LEMMA ImportGrows ==
  ASSUME FedInv, NEW r \in Registry, NEW b \in bundles, Import(r, b)
  PROVE  \E e : Sound(r, e) /\ Extends(db[r], e) /\ db' = [db EXCEPT ![r] = e]
  <1> DEFINE e == MarkHighWater(AppendImports(db[r], b, r), b)
  <1>1. Sound(r, db[r]) /\ b \in Bundle /\ Verified(b) /\ restores \in 0..MaxRestores
    BY DEF FedInv, SoundInv, TypeInv, Import
  <1>2. Sound(r, e) /\ Extends(db[r], e) BY <1>1, ImportKeeps
  <1>3. db' = [db EXCEPT ![r] = e] BY DEF Import
  <1> QED BY <1>2, <1>3

(* The parts that speak of databases and backups, for a step of r that     *)
(* grows its database ...                                                  *)
LEMMA GrowthStep ==
  ASSUME FedInv, NEW r \in Registry, NEW e, Sound(r, e), Extends(db[r], e),
         db' = [db EXCEPT ![r] = e], backup' = backup
  PROVE  /\ db' \in [Registry -> Database] /\ SoundInv' /\ BackupInv' /\ NoBackupNoCheckpoint'
  <1>1. db \in [Registry -> Database] /\ backup \in [Registry -> Backup]
    BY DEF FedInv, TypeInv
  <1>2. e \in Database BY DEF Sound
  <1>3. db' \in [Registry -> Database] /\ db'[r] = e /\ \A q \in Registry : q # r => db'[q] = db[q]
    BY <1>1, <1>2
  <1>4. SoundInv' BY <1>3 DEF FedInv, SoundInv
  <1>5. ASSUME NEW q \in Registry, backup[q].db # NoLog, backup[q].cp = NoLog
        PROVE  Extends(backup[q].db, db'[q])
    <2>1. Extends(backup[q].db, db[q]) BY <1>5 DEF FedInv, BackupInv
    <2>2. backup[q].db \in Database BY <1>5 DEF FedInv, SoundInv, Sound
    <2>3. db[q] \in Database BY <1>1
    <2> QED BY <1>2, <1>3, <2>1, <2>2, <2>3, ExtendsTransitive
  <1>6. BackupInv' BY <1>5 DEF FedInv, BackupInv
  <1>7. NoBackupNoCheckpoint' BY DEF FedInv, NoBackupNoCheckpoint
  <1> QED BY <1>3, <1>4, <1>6, <1>7

(* ... and for one that leaves them alone.                                 *)
LEMMA IdleStep ==
  ASSUME FedInv, db' = db, backup' = backup
  PROVE  /\ db' \in [Registry -> Database] /\ SoundInv' /\ BackupInv' /\ NoBackupNoCheckpoint'
  BY DEF FedInv, TypeInv, SoundInv, BackupInv, NoBackupNoCheckpoint

LEMMA KeepType ==
  ASSUME FedInv, NEW r \in Registry, NEW c \in Boundary, Keep(r, c)
  PROVE  checkpoint' \in [Registry -> Boundary \cup {NoLog}]
  BY DEF FedInv, TypeInv, Keep

LEMMA FedStep ==
  ASSUME FedInv, [Next]_vars
  PROVE  FedInv'
  <1>0. /\ db \in [Registry -> Database] /\ backup \in [Registry -> Backup]
        /\ exporting \in [Registry -> Seq(Record) \cup {NoLog}]
        /\ bundles \in SUBSET Bundle /\ restores \in 0..MaxRestores
        /\ status \in [Registry -> {"down", "ready", "refused"}]
        /\ checkpoint \in [Registry -> Boundary \cup {NoLog}]
    BY DEF FedInv, TypeInv
  <1>d. ASSUME NEW r \in Registry PROVE db[r].log \in Seq(Entry) BY <1>0 DEF Database
  <1>1. ASSUME NEW r \in Registry, ExportRead(r) PROVE FedInv'
    <2>1. BoundaryOf(db[r].log).head \in Seq(Record) BY <1>d, BoundaryFacts
    <2>2. exporting' \in [Registry -> Seq(Record) \cup {NoLog}]
      BY <1>0, <1>1, <2>1 DEF ExportRead
    <2> QED BY <1>0, <1>1, <2>2, IdleStep DEF ExportRead, FedInv, TypeInv
  <1>2. ASSUME NEW r \in Registry, ExportSign(r) PROVE FedInv'
    <2> DEFINE b == [from |-> r, records |-> exporting[r], snapshot |-> BoundaryOf(db[r].log).head]
    <2>1. b \in Bundle
      <3>1. BoundaryOf(db[r].log).head \in Seq(Record) BY <1>d, BoundaryFacts
      <3>2. exporting[r] \in Seq(Record) BY <1>0, <1>2 DEF ExportSign
      <3> QED BY <3>1, <3>2 DEF Bundle
    <2>2. bundles' = bundles \/ bundles' = bundles \cup {b} BY <1>2 DEF ExportSign
    <2> HIDE DEF b
    <2>3. bundles' \in SUBSET Bundle BY <1>0, <2>1, <2>2
    <2>4. exporting' \in [Registry -> Seq(Record) \cup {NoLog}] BY <1>0, <1>2 DEF ExportSign
    <2> QED BY <1>0, <1>2, <2>3, <2>4, IdleStep DEF ExportSign, FedInv, TypeInv
  <1>3. ASSUME NEW r \in Registry, NEW b \in bundles, Import(r, b) PROVE FedInv'
    <2>1. PICK e : Sound(r, e) /\ Extends(db[r], e) /\ db' = [db EXCEPT ![r] = e]
      BY <1>3, ImportGrows
    <2>2. /\ db' \in [Registry -> Database] /\ SoundInv' /\ BackupInv' /\ NoBackupNoCheckpoint'
      BY <1>3, <2>1, GrowthStep DEF Import
    <2> QED BY <1>0, <1>3, <2>2 DEF Import, FedInv, TypeInv
  <1>4. ASSUME NEW r \in Registry, Start(r) \/ Stop(r) PROVE FedInv'
    <2>1. status' \in [Registry -> {"down", "ready", "refused"}]
      BY <1>0, <1>4 DEF Start, Stop
    <2> QED BY <1>0, <1>4, <2>1, IdleStep DEF Start, Stop, FedInv, TypeInv
  <1>5. ASSUME NEW r \in Registry, NEW x \in Item[r], Submit(r, x) PROVE FedInv'
    <2>1. PICK e : Sound(r, e) /\ Extends(db[r], e) /\ db' = [db EXCEPT ![r] = e]
      BY <1>5, SubmitGrows
    <2>2. /\ db' \in [Registry -> Database] /\ SoundInv' /\ BackupInv' /\ NoBackupNoCheckpoint'
      BY <1>5, <2>1, GrowthStep DEF Submit
    <2> QED BY <1>0, <1>5, <2>2 DEF Submit, FedInv, TypeInv
  <1>6. ASSUME NEW r \in Registry, BackupCopy(r) PROVE FedInv'
    <2> DEFINE c == [db |-> db[r], cp |-> NoLog]
    <2>1. c \in Backup /\ c.db = db[r] /\ c.cp = NoLog BY <1>0 DEF Backup
    <2>2. backup' = [backup EXCEPT ![r] = c] /\ db' = db BY <1>6 DEF BackupCopy
    <2> HIDE DEF c
    <2>3. /\ backup' \in [Registry -> Backup] /\ backup'[r] = c
          /\ \A q \in Registry : q # r => backup'[q] = backup[q]
      BY <1>0, <2>1, <2>2
    <2>4. TypeInv' BY <1>0, <1>6, <2>3 DEF BackupCopy, TypeInv
    <2>5. SoundInv' BY <2>1, <2>2, <2>3 DEF FedInv, SoundInv
    <2>6. Extends(db[r], db[r]) BY <1>0, ExtendsReflexive
    <2>7. BackupInv' BY <2>1, <2>2, <2>3, <2>6 DEF FedInv, BackupInv
    <2>8. NoBackupNoCheckpoint' BY <2>1, <2>3 DEF FedInv, NoBackupNoCheckpoint
    <2> QED BY <2>4, <2>5, <2>7, <2>8 DEF FedInv
  <1>7. ASSUME NEW r \in Registry, BackupSign(r) PROVE FedInv'
    <2> DEFINE c == BoundaryOf(backup[r].db.log)
    <2>1. backup[r].db # NoLog /\ backup[r].cp = NoLog /\ db' = db
          /\ backup' = [backup EXCEPT ![r].cp = c] /\ Keep(r, c)
      BY <1>7 DEF BackupSign
    <2>2. Sound(r, backup[r].db) /\ backup[r].db \in Database /\ backup[r].db.log \in Seq(Entry)
      BY <2>1 DEF FedInv, SoundInv, Sound, Database
    <2>3. c \in Boundary BY <2>2, BoundaryFacts
    <2> HIDE DEF c
    <2>4. /\ backup'[r] = [backup[r] EXCEPT !.cp = c]
          /\ \A q \in Registry : q # r => backup'[q] = backup[q]
          /\ backup' = [q \in Registry |-> backup'[q]]
      BY <1>0, <2>1
    <2>5. backup'[r] \in Backup /\ backup'[r].db = backup[r].db /\ backup'[r].cp = c
      <3>1. backup[r] \in Backup BY <1>0
      <3> QED BY <2>3, <2>4, <3>1 DEF Backup
    <2>6. backup' \in [Registry -> Backup] BY <1>0, <2>4, <2>5
    <2>7. checkpoint' \in [Registry -> Boundary \cup {NoLog}] BY <2>1, <2>3, KeepType
    <2>8. TypeInv' BY <1>0, <1>7, <2>6, <2>7 DEF BackupSign, TypeInv
    <2>9. SoundInv' BY <2>1, <2>2, <2>4, <2>5 DEF FedInv, SoundInv
    <2>10. BackupInv' BY <2>1, <2>4, <2>5 DEF FedInv, BackupInv, c
    <2>11. NoBackupNoCheckpoint' BY <2>1, <2>4, <2>5 DEF FedInv, NoBackupNoCheckpoint
    <2> QED BY <2>8, <2>9, <2>10, <2>11 DEF FedInv
  <1>8. ASSUME NEW r \in Registry, ExportCheckpoint(r) PROVE FedInv'
    <2>1. BoundaryOf(db[r].log) \in Boundary BY <1>d, BoundaryFacts
    <2>2. checkpoint' \in [Registry -> Boundary \cup {NoLog}]
      BY <1>8, <2>1, KeepType DEF ExportCheckpoint
    <2> QED BY <1>0, <1>8, <2>2, IdleStep DEF ExportCheckpoint, FedInv, TypeInv
  <1>9. ASSUME NEW r \in Registry, Restore(r) PROVE FedInv'
    <2> DEFINE e == backup[r].db
    <2>1. backup[r].cp # NoLog /\ db' = [db EXCEPT ![r] = e] /\ backup' = backup
          /\ restores' = restores + 1 /\ restores < MaxRestores
      BY <1>9 DEF Restore
    <2>2. e # NoLog BY <2>1 DEF FedInv, NoBackupNoCheckpoint
    <2>3. Sound(r, e) /\ e \in Database BY <2>2 DEF FedInv, SoundInv, Sound
    <2>4. db' \in [Registry -> Database] /\ db'[r] = e /\ \A q \in Registry : q # r => db'[q] = db[q]
      BY <1>0, <2>1, <2>3
    <2>5. restores' \in 0..MaxRestores BY <1>0, <2>1, FeedsAssumption
    <2>6. TypeInv' BY <1>0, <1>9, <2>4, <2>5 DEF Restore, TypeInv
    <2>7. SoundInv' BY <2>1, <2>3, <2>4 DEF FedInv, SoundInv
    <2>8. BackupInv' BY <2>1, <2>4 DEF FedInv, BackupInv
    <2>9. NoBackupNoCheckpoint' BY <2>1 DEF FedInv, NoBackupNoCheckpoint
    <2> QED BY <2>6, <2>7, <2>8, <2>9 DEF FedInv
  <1>10. CASE UNCHANGED vars
    BY <1>0, <1>10, IdleStep DEF vars, FedInv, TypeInv
  <1> QED BY <1>1, <1>2, <1>3, <1>4, <1>5, <1>6, <1>7, <1>8, <1>9, <1>10 DEF Next

LEMMA FedInvariant == Spec => []FedInv
  <1>1. FedInv /\ [Next]_vars => FedInv' BY FedStep
  <1> QED BY <1>1, FedInit, PTL DEF Spec

(* Whatever bundles were offered, torn, replayed, older or in any order,   *)
(* and whatever backup the registry came back from, a high-water only      *)
(* stands where everything below it was imported.                          *)
THEOREM HighWaterAlwaysCovered == Spec => []HighWaterCovered
  <1>1. FedInv => HighWaterCovered
    BY DEF FedInv, SoundInv, Sound, Covered, HighWaterCovered
  <1> QED BY <1>1, FedInvariant, PTL

(* A row for a plain record finds the record's own fingerprint in the log: *)
(* the endorsement that the import added is the first of that name.        *)
LEMMA PlainRowsVerify ==
  ASSUME NEW r \in Registry, NEW d, Sound(r, d), NEW row \in d.imported, Plain(row)
  PROVE  RowOK(d, row)
  <1>1. row.fp \in [item : UNION Range(Item), sig : Seq(Signer)] BY DEF Sound, Database, Row
  <1>2. PICK x \in UNION Range(Item), s \in Seq(Signer) : row.fp = [item |-> x, sig |-> s]
    BY <1>1
  <1>3. row.fp.item = x /\ row.fp.sig = s BY <1>2
  <1>4. Len(s) = 1 BY <1>3 DEF Plain
  <1> DEFINE rec == [item |-> x, signers |-> s]
             c == Countersign(rec, r)
  <1>5. row.seq \in DOMAIN d.log /\ d.log[row.seq].rec = c
    BY <1>3 DEF Sound, Rooted
  <1>6. c.item = x /\ c.signers = Append(s, r)
    <2>1. rec \in Record /\ rec.item = x /\ rec.signers = s BY DEF Record
    <2> HIDE DEF rec
    <2>2. c = [item |-> rec.item, signers |-> Append(rec.signers, r)] BY <2>1, CountersignType
    <2> HIDE DEF c
    <2> QED BY <2>1, <2>2
  <1> HIDE DEF c
  <1>7. Len(c.signers) = 2 /\ Head(c.signers) = s[1]
    <2> DEFINE t == Append(s, r)
    <2>1. t \in Seq(Signer) /\ Len(t) = Len(s) + 1 BY DEF Signer
    <2>2. t[1] = s[1]
      <3>1. \A i \in 1..Len(s) : t[i] = s[i] OBVIOUS
      <3>2. 1 \in 1..Len(s) BY <1>4
      <3> QED BY <3>1, <3>2
    <2> HIDE DEF t
    <2>3. Len(t) = 2 BY <1>4, <2>1
    <2>4. Head(t) = t[1] BY <2>1, <2>3
    <2> QED BY <1>6, <2>2, <2>3, <2>4 DEF t
  <1>8. <<s[1]>> = s
    <2>1. s[1] \in Signer
      <3>1. 1 \in 1..Len(s) BY <1>4
      <3> QED BY <3>1
    <2>2. <<s[1]>> \in Seq(Signer) /\ Len(<<s[1]>>) = 1 /\ <<s[1]>>[1] = s[1] BY <2>1
    <2> QED BY <1>4, <2>2
  <1>9. ImportFingerprint(c) = [item |-> x, sig |-> s] BY <1>6, <1>7, <1>8 DEF ImportFingerprint
  <1> QED BY <1>2, <1>5, <1>9 DEF RowOK

(* Whatever else was submitted or imported, endorsed or not, through any   *)
(* chain of registries, and whatever backup was put in place: the plain    *)
(* submissions of an upstream never make an importer fail its own          *)
(* verification.                                                           *)
(* Records that came endorsed do (_import_fingerprint takes the first      *)
(* "upstream-import" endorsement): see the run federation_hops.            *)
THEOREM PlainImportsAlwaysVerify == Spec => []PlainImportsVerify
  <1>1. FedInv => PlainImportsVerify
    BY PlainRowsVerify DEF FedInv, SoundInv, PlainImportsVerify
  <1> QED BY <1>1, FedInvariant, PTL
----------------------------------------------------------------------------
(***************************************************************************)
(* The checkpoint of a ready service.                                      *)
(***************************************************************************)

HeadIn(h, d) == Len(h) <= Len(d.log) /\ \A i \in 1..Len(h) : h[i] = d.log[i].rec

ReadyInv ==
  \A r \in Registry : status[r] = "ready" /\ checkpoint[r] # NoLog =>
    HeadIn(checkpoint[r].head, db[r])

LEMMA HeadInIsPrefix ==
  ASSUME NEW d \in Database, NEW h \in Seq(Record), HeadIn(h, d)
  PROVE  IsPrefix(h, BoundaryOf(d.log).head)
  <1> DEFINE t == BoundaryOf(d.log).head
  <1>1. d.log \in Seq(Entry) /\ Len(d.log) \in Nat /\ Len(h) \in Nat BY DEF Database
  <1>2. t \in Seq(Record) /\ Len(t) = Len(d.log) /\ \A i \in 1..Len(d.log) : t[i] = d.log[i].rec
    BY <1>1, BoundaryFacts
  <1> HIDE DEF t
  <1>3. Len(h) <= Len(t) BY <1>2 DEF HeadIn
  <1>4. \A i \in 1..Len(h) : h[i] = t[i] BY <1>1, <1>2 DEF HeadIn
  <1>5. SubSeq(h, 1, Len(h)) = SubSeq(t, 1, Len(h)) BY <1>1, <1>2, <1>3, <1>4
  <1> QED BY <1>3, <1>5 DEF IsPrefix, t

LEMMA HeadInGrows ==
  ASSUME NEW d \in Database, NEW e \in Database, Extends(d, e), NEW h \in Seq(Record), HeadIn(h, d)
  PROVE  HeadIn(h, e)
  <1>1. Len(d.log) \in Nat /\ Len(e.log) \in Nat /\ Len(h) \in Nat BY DEF Database
  <1> QED BY <1>1 DEF HeadIn, Extends

LEMMA OwnHeadIn ==
  ASSUME NEW d \in Database
  PROVE  HeadIn(BoundaryOf(d.log).head, d)
  <1>1. d.log \in Seq(Entry) /\ Len(d.log) \in Nat BY DEF Database
  <1> QED BY <1>1, BoundaryFacts DEF HeadIn

(* compare_checkpoint lets only extensions of the checkpoint pass.         *)
LEMMA ComparedHeadIn ==
  ASSUME NEW d \in Database, NEW c \in Boundary, CompareCheckpoint(d, c)
  PROVE  HeadIn(c.head, d)
  <1> DEFINE live == BoundaryOf(d.log)
             k == Len(c.head)
             p == Prefix(d.log, k)
  <1>1. d.log \in Seq(Entry) /\ Len(d.log) \in Nat /\ c.head \in Seq(Record) /\ k \in Nat
    BY DEF Database, Boundary
  <1>2. Len(live.head) = Len(d.log) /\ \A i \in 1..Len(d.log) : live.head[i] = d.log[i].rec
    BY <1>1, BoundaryFacts
  <1>3. /\ Len(live.head) >= k /\ (Len(live.head) = k => live.head = c.head)
        /\ Len(live.head) > k => BoundaryOf(p).head = c.head
    BY DEF CompareCheckpoint
  <1> HIDE DEF live
  <1>4. CASE Len(d.log) = k BY <1>1, <1>2, <1>3, <1>4 DEF HeadIn
  <1>5. CASE Len(d.log) > k
    <2>1. p \in Seq(Entry) /\ Len(p) = k /\ \A i \in 1..k : p[i] = d.log[i]
      BY <1>1, <1>5 DEF Prefix
    <2> HIDE DEF p
    <2>2. \A i \in 1..k : BoundaryOf(p).head[i] = p[i].rec BY <2>1, BoundaryFacts
    <2>3. BoundaryOf(p).head = c.head BY <1>2, <1>3, <1>5
    <2>4. \A i \in 1..k : c.head[i] = d.log[i].rec BY <2>1, <2>2, <2>3
    <2> QED BY <1>1, <1>5, <2>4 DEF HeadIn
  <1> QED BY <1>1, <1>2, <1>3, <1>4, <1>5

(* The later of two checkpoints, if both are in the log.                   *)
LEMMA KeepReady ==
  ASSUME FedInv, ReadyInv, NEW r \in Registry, NEW c \in Boundary, Keep(r, c),
         status[r] = "ready" => HeadIn(c.head, db[r]), UNCHANGED <<db, status>>
  PROVE  ReadyInv'
  <1>1. checkpoint \in [Registry -> Boundary \cup {NoLog}] BY DEF FedInv, TypeInv
  <1>2. /\ checkpoint'[r] = checkpoint[r] \/ checkpoint'[r] = c
        /\ \A q \in Registry : q # r => checkpoint'[q] = checkpoint[q]
    BY <1>1 DEF Keep
  <1> QED BY <1>2 DEF ReadyInv

LEMMA ReadyStep ==
  ASSUME FedInv, ReadyInv, [Next]_vars
  PROVE  ReadyInv'
  <1>0. /\ db \in [Registry -> Database] /\ status \in [Registry -> {"down", "ready", "refused"}]
        /\ checkpoint \in [Registry -> Boundary \cup {NoLog}]
        /\ bundles \in SUBSET Bundle /\ restores \in 0..MaxRestores
    BY DEF FedInv, TypeInv
  <1>1. ASSUME NEW r \in Registry, NEW e \in Database, Extends(db[r], e),
               db' = [db EXCEPT ![r] = e], UNCHANGED <<status, checkpoint>>
        PROVE  ReadyInv'
    <2> SUFFICES ASSUME NEW q \in Registry, status[q] = "ready", checkpoint[q] # NoLog
                 PROVE  HeadIn(checkpoint[q].head, db'[q])
      BY <1>1 DEF ReadyInv
    <2>1. HeadIn(checkpoint[q].head, db[q]) BY DEF ReadyInv
    <2>2. CASE q # r
      <3>1. db'[q] = db[q] BY <1>0, <1>1, <2>2
      <3> QED BY <2>1, <3>1
    <2>3. CASE q = r
      <3>1. db'[q] = e /\ db[q] \in Database BY <1>0, <1>1, <2>3
      <3>2. checkpoint[q].head \in Seq(Record)
        <4>1. checkpoint[q] \in Boundary BY <1>0
        <4> QED BY <4>1 DEF Boundary
      <3> QED BY <1>1, <2>1, <2>3, <3>1, <3>2, HeadInGrows
    <2> QED BY <2>2, <2>3
  <1>2. ASSUME NEW r \in Registry, NEW b \in bundles, Import(r, b) PROVE ReadyInv'
    <2>1. PICK e : Sound(r, e) /\ Extends(db[r], e) /\ db' = [db EXCEPT ![r] = e]
      BY <1>2, ImportGrows
    <2> QED BY <1>1, <1>2, <2>1 DEF Import, Sound
  <1>3. ASSUME NEW r \in Registry, NEW x \in Item[r], Submit(r, x) PROVE ReadyInv'
    <2>1. PICK e : Sound(r, e) /\ Extends(db[r], e) /\ db' = [db EXCEPT ![r] = e]
      BY <1>3, SubmitGrows
    <2> QED BY <1>1, <1>3, <2>1 DEF Submit, Sound
  <1>4. ASSUME NEW r \in Registry, Start(r) PROVE ReadyInv'
    <2>1. /\ \A q \in Registry : q # r => status'[q] = status[q]
          /\ status'[r] = IF checkpoint[r] = NoLog \/ CompareCheckpoint(db[r], checkpoint[r])
                          THEN "ready" ELSE "refused"
          /\ UNCHANGED <<db, checkpoint>>
      BY <1>0, <1>4 DEF Start
    <2>2. ASSUME checkpoint[r] # NoLog, CompareCheckpoint(db[r], checkpoint[r])
          PROVE  HeadIn(checkpoint[r].head, db[r])
      <3>1. checkpoint[r] \in Boundary /\ db[r] \in Database BY <1>0, <2>2
      <3> QED BY <2>2, <3>1, ComparedHeadIn
    <2> QED BY <2>1, <2>2 DEF ReadyInv
  <1>5. ASSUME NEW r \in Registry, Stop(r) PROVE ReadyInv'
    <2>1. /\ \A q \in Registry : q # r => status'[q] = status[q]
          /\ status'[r] = "down" /\ UNCHANGED <<db, checkpoint>>
      BY <1>0, <1>5 DEF Stop
    <2> QED BY <2>1 DEF ReadyInv
  <1>6. ASSUME NEW r \in Registry, BackupSign(r) PROVE ReadyInv'
    <2> DEFINE c == BoundaryOf(backup[r].db.log)
    <2>1. backup[r].db # NoLog /\ backup[r].cp = NoLog /\ Keep(r, c) /\ UNCHANGED <<db, status>>
      BY <1>6 DEF BackupSign
    <2>2. backup[r].db \in Database /\ backup[r].db.log \in Seq(Entry) /\ db[r] \in Database
      BY <1>0, <2>1 DEF FedInv, SoundInv, Sound, Database
    <2>3. Extends(backup[r].db, db[r]) BY <2>1 DEF FedInv, BackupInv
    <2>4. c \in Boundary /\ c.head \in Seq(Record) BY <2>2, BoundaryFacts
    <2>5. HeadIn(c.head, backup[r].db) BY <2>2, OwnHeadIn
    <2>6. HeadIn(c.head, db[r]) BY <2>2, <2>3, <2>4, <2>5, HeadInGrows
    <2> QED BY <2>1, <2>4, <2>6, KeepReady
  <1>7. ASSUME NEW r \in Registry, ExportCheckpoint(r) PROVE ReadyInv'
    <2> DEFINE c == BoundaryOf(db[r].log)
    <2>1. Keep(r, c) /\ UNCHANGED <<db, status>> BY <1>7 DEF ExportCheckpoint
    <2>2. db[r] \in Database /\ db[r].log \in Seq(Entry) BY <1>0 DEF Database
    <2>3. c \in Boundary /\ HeadIn(c.head, db[r]) BY <2>2, BoundaryFacts, OwnHeadIn
    <2> QED BY <2>1, <2>3, KeepReady
  <1>8. ASSUME NEW r \in Registry, Restore(r) PROVE ReadyInv'
    <2>1. status[r] = "down" /\ UNCHANGED <<status, checkpoint>>
          /\ \A q \in Registry : q # r => db'[q] = db[q]
      BY <1>0, <1>8 DEF Restore
    <2> QED BY <2>1 DEF ReadyInv
  <1>9. ASSUME NEW r \in Registry, ExportRead(r) \/ ExportSign(r) \/ BackupCopy(r) PROVE ReadyInv'
    BY <1>9 DEF ExportRead, ExportSign, BackupCopy, ReadyInv
  <1>10. CASE UNCHANGED vars BY <1>10 DEF vars, ReadyInv
  <1> QED BY <1>2, <1>3, <1>4, <1>5, <1>6, <1>7, <1>8, <1>9, <1>10 DEF Next

(* A ready service holds everything the kept checkpoint commits to, also   *)
(* after it was put back to an older backup and grew again on another      *)
(* branch (apply_startup_checkpoint, compare_checkpoint).                  *)
THEOREM ReadyAlwaysCovers == Spec => []ReadyCoversCheckpoint
  <1>1. Init => ReadyInv BY DEF Init, ReadyInv
  <1>2. FedInv /\ ReadyInv /\ [Next]_vars => ReadyInv' BY ReadyStep
  <1>3. FedInv /\ ReadyInv => ReadyCoversCheckpoint
    <2> SUFFICES ASSUME FedInv, ReadyInv, NEW r \in Registry,
                        status[r] = "ready", checkpoint[r] # NoLog
                 PROVE  IsPrefix(checkpoint[r].head, BoundaryOf(db[r].log).head)
      BY DEF ReadyCoversCheckpoint
    <2>1. db[r] \in Database /\ checkpoint[r] \in Boundary BY DEF FedInv, TypeInv
    <2>2. checkpoint[r].head \in Seq(Record) BY <2>1 DEF Boundary
    <2>3. HeadIn(checkpoint[r].head, db[r]) BY DEF ReadyInv
    <2> QED BY <2>1, <2>2, <2>3, HeadInIsPrefix
  <1> QED BY <1>1, <1>2, <1>3, FedInvariant, PTL DEF Spec
----------------------------------------------------------------------------
(***************************************************************************)
(* What the checkpoint refuses.                                            *)
(***************************************************************************)

(* How a registry stands to the checkpoint it keeps: bk its backup, cp     *)
(* that checkpoint, st its status, d its database, n the restores so far.  *)
(* The checkpoint written with the backup never leaves the live log, and   *)
(* before a restore neither does any later one.                            *)
Kept(bk, cp, st, d, n) ==
  /\ bk.cp = NoLog => cp = NoLog /\ st = "ready"
  /\ bk.cp # NoLog => Extends(bk.db, d)
  /\ bk.cp # NoLog /\ cp # NoLog =>
       cp.head = bk.cp.head \/ Len(cp.head) > Len(bk.cp.head)
  /\ n = 0 /\ cp # NoLog => HeadIn(cp.head, d)
  /\ st = "refused" => cp # NoLog /\ n > 0 /\ Len(cp.head) > Len(bk.cp.head)

LossInv == \A r \in Registry : Kept(backup[r], checkpoint[r], status[r], db[r], restores)

(* compare_checkpoint lets every extension of the checkpoint pass.         *)
LEMMA HeadInCompares ==
  ASSUME NEW d \in Database, NEW c \in Boundary, HeadIn(c.head, d)
  PROVE  CompareCheckpoint(d, c)
  <1> DEFINE live == BoundaryOf(d.log)
             k == Len(c.head)
             p == Prefix(d.log, k)
  <1>1. d.log \in Seq(Entry) /\ Len(d.log) \in Nat /\ c.head \in Seq(Record) /\ k \in Nat
    BY DEF Database, Boundary
  <1>2. /\ live.head \in Seq(Record) /\ Len(live.head) = Len(d.log)
        /\ \A i \in 1..Len(d.log) : live.head[i] = d.log[i].rec
    BY <1>1, BoundaryFacts
  <1>3. k <= Len(d.log) /\ \A i \in 1..k : c.head[i] = d.log[i].rec BY DEF HeadIn
  <1>4. ASSUME Len(live.head) = k PROVE live.head = c.head
    <2> HIDE DEF live, k
    <2>1. Len(live.head) = Len(c.head) BY <1>4 DEF k
    <2>2. \A i \in 1..Len(c.head) : live.head[i] = c.head[i] BY <1>2, <1>3, <1>4 DEF k
    <2> QED BY <1>1, <1>2, <2>1, <2>2
  <1>5. ASSUME Len(live.head) > k PROVE BoundaryOf(p).head = c.head
    <2>1. p \in Seq(Entry) /\ Len(p) = k /\ \A i \in 1..k : p[i] = d.log[i]
      BY <1>1, <1>2, <1>5 DEF Prefix
    <2> DEFINE t == BoundaryOf(p).head
    <2> HIDE DEF p
    <2>2. t \in Seq(Record) /\ Len(t) = k /\ \A i \in 1..k : t[i] = p[i].rec
      BY <2>1, BoundaryFacts
    <2> HIDE DEF t
    <2>3. \A i \in 1..Len(c.head) : t[i] = c.head[i] BY <1>3, <2>1, <2>2
    <2> QED BY <1>1, <2>2, <2>3 DEF t
  <1>6. Len(live.head) >= k BY <1>1, <1>2, <1>3
  <1> HIDE DEF p
  <1> QED BY <1>4, <1>5, <1>6 DEF CompareCheckpoint, p

(* A growing log, whatever its registry's state.                           *)
LEMMA KeptGrows ==
  ASSUME NEW bk, NEW cp \in Boundary \cup {NoLog}, NEW st, NEW n,
         NEW d \in Database, NEW e \in Database, Extends(d, e), Kept(bk, cp, st, d, n),
         bk.cp # NoLog => bk.db \in Database
  PROVE  Kept(bk, cp, st, e, n)
  <1>1. bk.cp # NoLog => Extends(bk.db, e)
    <2> SUFFICES ASSUME bk.cp # NoLog PROVE Extends(bk.db, e) OBVIOUS
    <2>1. Extends(bk.db, d) BY DEF Kept
    <2> QED BY <2>1, ExtendsTransitive
  <1>2. n = 0 /\ cp # NoLog => HeadIn(cp.head, e)
    <2> SUFFICES ASSUME n = 0, cp # NoLog PROVE HeadIn(cp.head, e) OBVIOUS
    <2>1. HeadIn(cp.head, d) BY DEF Kept
    <2>2. cp.head \in Seq(Record) BY DEF Boundary
    <2> QED BY <2>1, <2>2, HeadInGrows
  <1> QED BY <1>1, <1>2 DEF Kept

(* A checkpoint that keeps up with the log.                                *)
LEMMA KeptLater ==
  ASSUME NEW bk, NEW cp, NEW c, NEW st, NEW n, NEW d, Kept(bk, cp, st, d, n),
         bk.cp # NoLog, st # "refused", HeadIn(c.head, d),
         c.head = bk.cp.head \/ Len(c.head) > Len(bk.cp.head)
  PROVE  Kept(bk, c, st, d, n)
  BY DEF Kept

(* A restore puts the backup's own database in place.                      *)
LEMMA KeptRestored ==
  ASSUME NEW bk, NEW cp, NEW st, NEW n \in Nat, NEW d, NEW e, Kept(bk, cp, st, d, n),
         bk.cp # NoLog => Extends(bk.db, e)
  PROVE  Kept(bk, cp, st, e, n + 1)
  <1>1. n + 1 # 0 /\ n + 1 > 0 OBVIOUS
  <1> QED BY <1>1 DEF Kept

LEMMA LossStep ==
  ASSUME FedInv, LossInv, [Next]_vars
  PROVE  LossInv'
  <1>0. /\ db \in [Registry -> Database] /\ status \in [Registry -> {"down", "ready", "refused"}]
        /\ checkpoint \in [Registry -> Boundary \cup {NoLog}]
        /\ backup \in [Registry -> Backup]
        /\ bundles \in SUBSET Bundle /\ restores \in Nat
    BY FeedsAssumption DEF FedInv, TypeInv
  <1>k. ASSUME NEW q \in Registry PROVE Kept(backup[q], checkpoint[q], status[q], db[q], restores)
    BY DEF LossInv
  <1>b. ASSUME NEW q \in Registry, backup[q].cp # NoLog PROVE backup[q].db \in Database
    BY <1>b DEF FedInv, NoBackupNoCheckpoint, SoundInv, Sound
  <1>1. ASSUME NEW r \in Registry, NEW e \in Database, Extends(db[r], e),
               db' = [db EXCEPT ![r] = e], UNCHANGED <<status, backup, checkpoint, restores>>
        PROVE  LossInv'
    <2>1. db'[r] = e /\ \A q \in Registry : q # r => db'[q] = db[q] BY <1>0, <1>1
    <2>2. Kept(backup[r], checkpoint[r], status[r], e, restores)
      BY <1>0, <1>1, <1>k, <1>b, KeptGrows
    <2> QED BY <1>1, <1>k, <2>1, <2>2 DEF LossInv
  <1>2. ASSUME NEW r \in Registry, NEW b \in bundles, Import(r, b) PROVE LossInv'
    <2>1. PICK e : Sound(r, e) /\ Extends(db[r], e) /\ db' = [db EXCEPT ![r] = e]
      BY <1>2, ImportGrows
    <2> QED BY <1>1, <1>2, <2>1 DEF Import, Sound
  <1>3. ASSUME NEW r \in Registry, NEW x \in Item[r], Submit(r, x) PROVE LossInv'
    <2>1. PICK e : Sound(r, e) /\ Extends(db[r], e) /\ db' = [db EXCEPT ![r] = e]
      BY <1>3, SubmitGrows
    <2> QED BY <1>1, <1>3, <2>1 DEF Submit, Sound
  <1>4. ASSUME NEW r \in Registry, Start(r) PROVE LossInv'
    <2> DEFINE bk == backup[r]
               cp == checkpoint[r]
               d == db[r]
    <2>1. /\ \A q \in Registry : q # r => status'[q] = status[q]
          /\ status'[r] = IF cp = NoLog \/ CompareCheckpoint(d, cp) THEN "ready" ELSE "refused"
          /\ status[r] = "down" /\ UNCHANGED <<db, checkpoint, backup, restores>>
      BY <1>0, <1>4 DEF Start
    <2>2. Kept(bk, cp, "down", d, restores) BY <1>k, <2>1
    <2>3. ASSUME cp # NoLog, ~CompareCheckpoint(d, cp)
          PROVE  restores > 0 /\ Len(cp.head) > Len(bk.cp.head)
      <3>1. cp \in Boundary /\ d \in Database BY <1>0, <2>3
      <3>2. ~HeadIn(cp.head, d) BY <2>3, <3>1, HeadInCompares
      <3>3. bk.cp # NoLog BY <2>2 DEF Kept
      <3>4. bk.db \in Database /\ bk.cp = BoundaryOf(bk.db.log)
        BY <1>b, <3>3 DEF FedInv, BackupInv, NoBackupNoCheckpoint
      <3>5. HeadIn(bk.cp.head, d)
        <4>1. Extends(bk.db, d) BY <2>2, <3>3 DEF Kept
        <4>2. bk.db.log \in Seq(Entry) BY <3>4 DEF Database
        <4>3. bk.cp.head \in Seq(Record) BY <3>4, <4>2, BoundaryFacts
        <4>4. HeadIn(bk.cp.head, bk.db) BY <3>4, OwnHeadIn
        <4> QED BY <3>1, <3>4, <4>1, <4>3, <4>4, HeadInGrows
      <3>6. cp.head # bk.cp.head BY <3>2, <3>5
      <3>7. Len(cp.head) > Len(bk.cp.head) BY <2>2, <2>3, <3>3, <3>6 DEF Kept
      <3>8. restores # 0 BY <2>2, <2>3, <3>2 DEF Kept
      <3> QED BY <1>0, <3>7, <3>8
    <2> HIDE DEF bk, cp, d
    <2>4. Kept(bk, cp, status'[r], d, restores)
      <3>1. CASE cp = NoLog \/ CompareCheckpoint(d, cp) BY <2>1, <2>2, <3>1 DEF Kept
      <3>2. CASE ~(cp = NoLog \/ CompareCheckpoint(d, cp))
        BY <2>1, <2>2, <2>3, <3>2 DEF Kept
      <3> QED BY <3>1, <3>2
    <2> QED BY <1>k, <2>1, <2>4 DEF LossInv, bk, cp, d
  <1>5. ASSUME NEW r \in Registry, Stop(r) PROVE LossInv'
    <2>1. /\ \A q \in Registry : q # r => status'[q] = status[q]
          /\ status'[r] = "down" /\ backup[r].cp # NoLog
          /\ UNCHANGED <<db, checkpoint, backup, restores>>
      BY <1>0, <1>5 DEF Stop
    <2>2. Kept(backup[r], checkpoint[r], "down", db[r], restores) BY <1>k, <2>1 DEF Kept
    <2> QED BY <1>k, <2>1, <2>2 DEF LossInv
  <1>6. ASSUME NEW r \in Registry, BackupCopy(r) PROVE LossInv'
    <2>1. /\ backup'[r].cp = NoLog /\ \A q \in Registry : q # r => backup'[q] = backup[q]
          /\ backup[r].cp = NoLog /\ UNCHANGED <<db, checkpoint, status, restores>>
      BY <1>0, <1>6 DEF BackupCopy, NoBackup
    <2>2. Kept(backup'[r], checkpoint[r], status[r], db[r], restores) BY <1>k, <2>1 DEF Kept
    <2> QED BY <1>k, <2>1, <2>2 DEF LossInv
  <1>7. ASSUME NEW r \in Registry, BackupSign(r) PROVE LossInv'
    <2> DEFINE c == BoundaryOf(backup[r].db.log)
    <2>1. /\ backup[r].db # NoLog /\ backup[r].cp = NoLog
          /\ backup' = [backup EXCEPT ![r].cp = c] /\ Keep(r, c)
          /\ UNCHANGED <<db, status, restores>>
      BY <1>7 DEF BackupSign
    <2>2. backup[r].db \in Database /\ backup[r].db.log \in Seq(Entry) /\ db[r] \in Database
      BY <1>0, <2>1 DEF FedInv, SoundInv, Sound, Database
    <2>3. Extends(backup[r].db, db[r]) BY <2>1 DEF FedInv, BackupInv
    <2>4. c.head \in Seq(Record) /\ HeadIn(c.head, backup[r].db) BY <2>2, BoundaryFacts, OwnHeadIn
    <2>5. HeadIn(c.head, db[r]) BY <2>2, <2>3, <2>4, HeadInGrows
    <2>6. checkpoint[r] = NoLog /\ status[r] = "ready" BY <1>k, <2>1 DEF Kept
    <2> HIDE DEF c
    <2>7. /\ checkpoint'[r] = c /\ \A q \in Registry : q # r => checkpoint'[q] = checkpoint[q]
      BY <1>0, <2>1, <2>6 DEF Keep
    <2>8. /\ backup'[r].cp = c /\ backup'[r].db = backup[r].db
          /\ \A q \in Registry : q # r => backup'[q] = backup[q]
      BY <1>0, <2>1 DEF Backup
    <2>9. Kept(backup'[r], c, status[r], db[r], restores)
      BY <2>3, <2>5, <2>6, <2>8 DEF Kept
    <2> QED BY <1>k, <2>1, <2>7, <2>8, <2>9 DEF LossInv
  <1>8. ASSUME NEW r \in Registry, ExportCheckpoint(r) PROVE LossInv'
    <2> DEFINE c == BoundaryOf(db[r].log)
               bk == backup[r]
    <2>1. /\ status[r] = "ready" /\ checkpoint[r] # NoLog /\ Keep(r, c)
          /\ UNCHANGED <<db, status, backup, restores>>
      BY <1>8 DEF ExportCheckpoint
    <2>2. bk.cp # NoLog /\ Extends(bk.db, db[r]) BY <1>k, <2>1 DEF Kept
    <2>3. bk.db \in Database /\ bk.cp = BoundaryOf(bk.db.log) /\ db[r] \in Database
      BY <1>0, <1>b, <2>2 DEF FedInv, BackupInv, NoBackupNoCheckpoint
    <2>4. HeadIn(c.head, db[r]) BY <2>3, OwnHeadIn
    <2>5. /\ bk.db.log \in Seq(Entry) /\ db[r].log \in Seq(Entry)
          /\ Len(bk.db.log) <= Len(db[r].log)
          /\ \A i \in 1..Len(bk.db.log) : db[r].log[i] = bk.db.log[i]
      BY <2>2, <2>3 DEF Extends, Database
    <2>6. /\ c.head \in Seq(Record) /\ Len(c.head) = Len(db[r].log)
          /\ \A i \in 1..Len(db[r].log) : c.head[i] = db[r].log[i].rec
      BY <2>5, BoundaryFacts
    <2>7. /\ bk.cp.head \in Seq(Record) /\ Len(bk.cp.head) = Len(bk.db.log)
          /\ \A i \in 1..Len(bk.db.log) : bk.cp.head[i] = bk.db.log[i].rec
      BY <2>3, <2>5, BoundaryFacts
    <2> HIDE DEF c, bk
    <2>8. c.head = bk.cp.head \/ Len(c.head) > Len(bk.cp.head)
      <3>1. CASE Len(db[r].log) = Len(bk.db.log)
        <4>1. Len(c.head) = Len(bk.cp.head) BY <2>6, <2>7, <3>1
        <4>2. \A i \in 1..Len(c.head) : c.head[i] = bk.cp.head[i] BY <2>5, <2>6, <2>7, <3>1
        <4> QED BY <2>6, <2>7, <4>1, <4>2
      <3>2. CASE Len(db[r].log) # Len(bk.db.log)
        <4>1. Len(db[r].log) \in Nat /\ Len(bk.db.log) \in Nat BY <2>5
        <4> QED BY <2>5, <2>6, <2>7, <3>2, <4>1
      <3> QED BY <3>1, <3>2
    <2>9. /\ checkpoint'[r] = checkpoint[r] \/ checkpoint'[r] = c
          /\ \A q \in Registry : q # r => checkpoint'[q] = checkpoint[q]
      BY <1>0, <2>1 DEF Keep
    <2>10. Kept(bk, checkpoint[r], status[r], db[r], restores) BY <1>k DEF bk
    <2>11. Kept(bk, c, status[r], db[r], restores)
      BY <2>1, <2>2, <2>4, <2>8, <2>10, KeptLater
    <2> QED BY <1>k, <2>1, <2>9, <2>10, <2>11 DEF LossInv, bk
  <1>9. ASSUME NEW r \in Registry, Restore(r) PROVE LossInv'
    <2>1. /\ db'[r] = backup[r].db /\ \A q \in Registry : q # r => db'[q] = db[q]
          /\ backup[r].cp # NoLog /\ restores' = restores + 1
          /\ UNCHANGED <<status, backup, checkpoint>>
      BY <1>0, <1>9 DEF Restore
    <2>2. ASSUME NEW q \in Registry, backup[q].cp # NoLog PROVE Extends(backup[q].db, db'[q])
      <3>1. CASE q = r BY <1>b, <2>1, <3>1, ExtendsReflexive
      <3>2. CASE q # r BY <1>k, <2>1, <2>2, <3>2 DEF Kept
      <3> QED BY <3>1, <3>2
    <2>3. ASSUME NEW q \in Registry
          PROVE  Kept(backup[q], checkpoint[q], status[q], db'[q], restores + 1)
      BY <1>0, <1>k, <2>2, KeptRestored
    <2> QED BY <2>1, <2>3 DEF LossInv
  <1>10. ASSUME NEW r \in Registry, ExportRead(r) \/ ExportSign(r) PROVE LossInv'
    BY <1>10 DEF ExportRead, ExportSign, LossInv
  <1>11. CASE UNCHANGED vars BY <1>11 DEF vars, LossInv
  <1> QED BY <1>2, <1>3, <1>4, <1>5, <1>6, <1>7, <1>8, <1>9, <1>10, <1>11 DEF Next

(* Nothing but a loss is refused: a service stays refused only after it    *)
(* was put back to a backup that ends before the kept checkpoint, which    *)
(* verify-backup finds not to match it either (_cmd_backup,                *)
(* checkpoint_matches, compare_checkpoint).                                *)
THEOREM OnlyLossAlwaysRefused == Spec => []OnlyLossIsRefused
  <1>1. Init => LossInv BY DEF Init, LossInv, Kept, NoBackup
  <1>2. FedInv /\ LossInv /\ [Next]_vars => LossInv' BY LossStep
  <1>3. FedInv /\ LossInv => OnlyLossIsRefused
    <2> SUFFICES ASSUME FedInv, LossInv, NEW r \in Registry, status[r] = "refused"
                 PROVE  /\ restores > 0
                        /\ Len(checkpoint[r].head) > Len(backup[r].cp.head)
                        /\ ~CheckpointMatches(backup[r].db, checkpoint[r])
      BY DEF OnlyLossIsRefused
    <2>1. Kept(backup[r], checkpoint[r], status[r], db[r], restores) BY DEF LossInv
    <2>2. restores > 0 /\ Len(checkpoint[r].head) > Len(backup[r].cp.head) BY <2>1 DEF Kept
    <2>3. backup[r].cp # NoLog BY <2>1 DEF Kept
    <2>4. backup[r].db \in Database /\ backup[r].cp = BoundaryOf(backup[r].db.log)
      BY <2>3 DEF FedInv, BackupInv, NoBackupNoCheckpoint, SoundInv, Sound
    <2>5. backup[r].db.log \in Seq(Entry) BY <2>4 DEF Database
    <2>6. Len(backup[r].cp.head) = Len(backup[r].db.log) BY <2>4, <2>5, BoundaryFacts
    <2>7. checkpoint[r].head \in Seq(Record)
      <3>1. checkpoint[r] \in Boundary BY <2>1 DEF Kept, FedInv, TypeInv
      <3> QED BY <3>1 DEF Boundary
    <2> QED BY <2>2, <2>5, <2>6, <2>7 DEF CheckpointMatches
  <1> QED BY <1>1, <1>2, <1>3, FedInvariant, PTL DEF Spec
=============================================================================
