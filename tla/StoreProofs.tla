---------------------------- MODULE StoreProofs ----------------------------
(***************************************************************************)
(* Theorems about module Store, for every set of instances, records, keys  *)
(* and bundles and every bound.  First the log itself; then what the store *)
(* keeps beside it (the latch, the idempotency table with the answers      *)
(* given from it, the import ledger and the high-water of each upstream)   *)
(* and what it shows its readers: the heads it signs, the roots it         *)
(* attests, and that with intact storage it implements the abstract log    *)
(* of module TransparencyLog.  Faults may happen unless a theorem or its   *)
(* property excludes them.                                                 *)
(***************************************************************************)
EXTENDS Store, WellFoundedInduction, TLAPS

Row == [rec : Rec, prev : Hash, hash : Hash, live : BOOLEAN]

(* The head of a typed database is a hash.                                 *)
LEMMA HeadType ==
  ASSUME NEW d, IsDb(d)
  PROVE  /\ d.log \in Seq(Row)
         /\ Size(d) \in Nat
         /\ HeadHash(d) \in Hash
         /\ \A i \in 1..Size(d) : d.log[i] \in Row
  <1>1. d.log \in Seq(Row) BY DEF IsDb, Row
  <1>2. Size(d) \in Nat /\ \A i \in 1..Size(d) : d.log[i] \in Row
    BY <1>1 DEF Size
  <1>3. Genesis \in Hash BY DEF Genesis, Hash
  <1>4. \A i \in 1..Size(d) : d.log[i].hash \in Hash
    BY <1>2 DEF Row
  <1>5. HeadHash(d) \in Hash
    BY <1>2, <1>3, <1>4 DEF HeadHash, HashAt
  <1> QED BY <1>1, <1>2, <1>5

(* What _append_locked makes of a database, field by field.                *)
NewHash(d, r) == EntryHash(HeadHash(d), r)
NewRow(d, r) == [rec |-> r, prev |-> HeadHash(d), hash |-> NewHash(d, r), live |-> TRUE]
IsAppend(a, d, r) ==
  /\ DOMAIN a = DOMAIN d
  /\ a.log = Append(d.log, NewRow(d, r))
  /\ a.autoinc = d.autoinc + 1
  /\ a.frontier = Append(d.frontier, NewHash(d, r))
  /\ a.bounds = Put(d.bounds, Size(d) + 1,
                    [head |-> NewHash(d, r), root |-> Root(a.frontier)])
  /\ a.idem = d.idem /\ a.imported = d.imported /\ a.hw = d.hw

(* AppendRow writes exactly those fields.                                  *)
LEMMA AppendRowIsAppend ==
  ASSUME NEW d, IsDb(d), NEW r \in Rec
  PROVE  IsAppend(AppendRow(d, r), d, r)
  BY DEF AppendRow, IsDb, IsAppend, NewRow, NewHash

(* The new row is typed, comes last, and the older rows stay.              *)
LEMMA AppendRows ==
  ASSUME NEW d, IsDb(d), NEW r \in Rec, NEW a, IsAppend(a, d, r)
  PROVE  /\ NewHash(d, r) \in Hash
         /\ a.log \in Seq(Row)
         /\ Size(a) = Size(d) + 1
         /\ a.log[Size(d) + 1] = NewRow(d, r)
         /\ \A i \in 1..Size(d) : a.log[i] = d.log[i]
         /\ HeadHash(a) = NewHash(d, r)
  <1>1. /\ d.log \in Seq(Row) /\ Size(d) \in Nat /\ HeadHash(d) \in Hash
    BY HeadType
  <1>2. NewHash(d, r) \in Hash
    BY <1>1 DEF NewHash, EntryHash, Hash
  <1>3. NewRow(d, r) \in Row
    BY <1>1, <1>2 DEF NewRow, Row
  <1>4. a.log = Append(d.log, NewRow(d, r))
    BY DEF IsAppend
  <1>5. /\ a.log \in Seq(Row) /\ Size(a) = Size(d) + 1
        /\ a.log[Size(d) + 1] = NewRow(d, r)
        /\ \A i \in 1..Size(d) : a.log[i] = d.log[i]
    BY <1>1, <1>3, <1>4 DEF Size
  <1>6. NewRow(d, r).hash = NewHash(d, r)
    BY DEF NewRow
  <1>7. HeadHash(a) = NewHash(d, r)
    BY <1>1, <1>5, <1>6 DEF HeadHash, HashAt
  <1> QED BY <1>2, <1>5, <1>7

(* An append keeps the column types.                                       *)
LEMMA AppendRowType ==
  ASSUME NEW d, IsDb(d), NEW r \in Rec, NEW a, IsAppend(a, d, r)
  PROVE  IsDb(a)
  <1>1. /\ NewHash(d, r) \in Hash /\ a.log \in Seq(Row)
        /\ Size(d) \in Nat
    BY AppendRows, HeadType
  <1>2. a.frontier \in Seq(Hash) /\ a.autoinc \in Nat
    BY <1>1 DEF IsDb, IsAppend
  <1>3. /\ DOMAIN a.bounds = DOMAIN d.bounds \cup {Size(d) + 1}
        /\ \A n \in DOMAIN a.bounds :
              a.bounds[n] = IF n = Size(d) + 1
                            THEN [head |-> NewHash(d, r), root |-> Root(a.frontier)]
                            ELSE d.bounds[n]
    BY DEF IsAppend, Put
  <1>4. /\ DOMAIN a.bounds \subseteq Nat
        /\ \A n \in DOMAIN a.bounds : DOMAIN a.bounds[n] = {"head", "root"}
    BY <1>1, <1>3 DEF IsDb
  <1>5. a.idem = d.idem /\ a.imported = d.imported /\ DOMAIN a = DOMAIN d
    BY DEF IsAppend
  <1> QED BY <1>1, <1>2, <1>4, <1>5 DEF IsDb, Row

(* An append only extends the log.                                         *)
LEMMA AppendRowExtends ==
  ASSUME NEW d, IsDb(d), NEW r \in Rec, NEW a, IsAppend(a, d, r)
  PROVE  Extends(d, a)
  BY AppendRows, HeadType DEF Extends

(* Appending to a database that verifies leaves one that verifies: the     *)
(* chain, both ledgers, every boundary row and the frontier.               *)
LEMMA AppendRowSound ==
  ASSUME NEW d, IsDb(d), Sound(d), NEW r \in Rec, NEW a, IsAppend(a, d, r)
  PROVE  Sound(a)
  <1> DEFINE h == NewHash(d, r)
             n == Size(d)
  <1>1. /\ n \in Nat /\ Size(a) = n + 1 /\ h \in Hash
        /\ \A i \in 1..n : a.log[i] = d.log[i]
        /\ a.log[n + 1] = NewRow(d, r)
        /\ a.idem = d.idem /\ a.imported = d.imported
        /\ a.autoinc = d.autoinc + 1
        /\ d.autoinc = n
    BY AppendRows, HeadType DEF IsAppend, Sound
  <1>2. \A i \in 0..n : HashAt(a, i) = HashAt(d, i)
    BY <1>1 DEF HashAt
  <1>3. HashAt(a, n + 1) = h
    BY <1>1 DEF HashAt, NewRow
  <1>4. ChainOK(a)
    <2> SUFFICES ASSUME NEW i \in 1..(n + 1)
                 PROVE /\ a.log[i].live
                       /\ a.log[i].prev = HashAt(a, i - 1)
                       /\ a.log[i].hash = EntryHash(HashAt(a, i - 1), a.log[i].rec)
      BY <1>1 DEF ChainOK
    <2>1. i - 1 \in 0..n /\ HashAt(a, i - 1) = HashAt(d, i - 1)
      BY <1>1, <1>2
    <2>2. CASE i \in 1..n
      BY <1>1, <2>1, <2>2 DEF Sound, VerifiesClean, IntegrityOK, ChainOK
    <2>3. CASE i = n + 1
      BY <1>1, <2>1, <2>3 DEF HeadHash, NewRow, NewHash
    <2> QED BY <1>1, <2>2, <2>3
  <1>5. IdemOK(a)
    BY <1>1, <1>2 DEF Sound, VerifiesClean, IntegrityOK, IdemOK
  <1>6. ImportsOK(a)
    BY <1>1 DEF Sound, VerifiesClean, IntegrityOK, ImportsOK
  <1>7. a.frontier = Leaves(a)
    <2>1. d.frontier = Leaves(d) /\ d.frontier \in Seq(Hash)
      BY DEF Sound, VerifiesClean, CacheOK, IsDb
    <2>2. a.frontier = Append(d.frontier, h)
      BY DEF IsAppend
    <2>3. DOMAIN d.frontier = 1..n
      BY <2>1 DEF Leaves
    <2>4. Len(d.frontier) = n
      BY <1>1, <2>1, <2>3
    <2>5. a.frontier \in Seq(Hash) /\ Len(a.frontier) = n + 1
      BY <1>1, <2>1, <2>2, <2>4
    <2>6. Leaves(a) = [i \in 1..(n + 1) |-> a.log[i].hash]
      BY <1>1 DEF Leaves
    <2>7. \A i \in 1..n : a.frontier[i] = d.frontier[i]
      BY <1>1, <2>1, <2>2, <2>4
    <2>8. \A i \in 1..n : a.frontier[i] = a.log[i].hash
      BY <1>1, <2>1, <2>7 DEF Leaves
    <2>9. a.frontier[n + 1] = a.log[n + 1].hash
      BY <1>1, <2>1, <2>2, <2>4 DEF NewRow
    <2> QED BY <1>1, <2>5, <2>6, <2>8, <2>9
  <1>8. /\ DOMAIN a.bounds = 1..(n + 1)
        /\ a.bounds[n + 1] = [head |-> h, root |-> Root(a.frontier)]
        /\ \A m \in 1..n : a.bounds[m] = d.bounds[m] /\ d.bounds[m] = BoundaryAt(d, m)
    <2>1. DOMAIN d.bounds = 1..n /\ \A m \in 1..n : d.bounds[m] = BoundaryAt(d, m)
      BY DEF Sound, VerifiesClean, CacheOK
    <2>2. a.bounds = Put(d.bounds, n + 1, [head |-> h, root |-> Root(a.frontier)])
      BY DEF IsAppend
    <2> QED BY <1>1, <2>1, <2>2 DEF Put
  <1>9. \A m \in 1..(n + 1) : a.bounds[m] = BoundaryAt(a, m)
    <2> SUFFICES ASSUME NEW m \in 1..(n + 1) PROVE a.bounds[m] = BoundaryAt(a, m)
      OBVIOUS
    <2>1. CASE m \in 1..n
      <3>1. LeavesTo(a, m) = LeavesTo(d, m)
        BY <1>1, <2>1 DEF LeavesTo
      <3>2. HashAt(a, m) = HashAt(d, m)
        BY <1>1, <1>2, <2>1
      <3> QED BY <1>8, <2>1, <3>1, <3>2 DEF BoundaryAt
    <2>2. CASE m = n + 1
      <3>1. LeavesTo(a, m) = a.frontier
        BY <1>1, <1>7, <2>2 DEF LeavesTo, Leaves
      <3> QED BY <1>3, <1>8, <2>2, <3>1 DEF BoundaryAt
    <2> QED BY <1>1, <2>1, <2>2
  <1> QED BY <1>1, <1>4, <1>5, <1>6, <1>7, <1>8, <1>9
             DEF Sound, VerifiesClean, IntegrityOK, CacheOK
----------------------------------------------------------------------------
(***************************************************************************)
(* The other things operations write.                                      *)
(***************************************************************************)

(* Deleting expired keys keeps types, rows and verification.               *)
LEMMA PruneFacts ==
  ASSUME NEW d, IsDb(d), NEW now
  PROVE  /\ IsDb(Prune(d, now))
         /\ Prune(d, now).log = d.log
         /\ Sound(d) => Sound(Prune(d, now))
  <1> DEFINE e == Prune(d, now)
             S == {k \in DOMAIN d.idem : d.idem[k].expires > now}
  <1>1. /\ DOMAIN e = DOMAIN d /\ e.log = d.log /\ e.autoinc = d.autoinc
        /\ e.bounds = d.bounds /\ e.frontier = d.frontier
        /\ e.imported = d.imported /\ e.hw = d.hw
        /\ e.idem = Keep(d.idem, S)
    BY DEF Prune, IsDb
  <1>2. DOMAIN e.idem \subseteq DOMAIN d.idem /\ \A k \in DOMAIN e.idem : e.idem[k] = d.idem[k]
    BY <1>1 DEF Keep
  <1> HIDE DEF e
  <1>3. IsDb(e)
    BY <1>1, <1>2 DEF IsDb
  <1>4. ASSUME Sound(d) PROVE Sound(e)
    <2>1. Size(e) = Size(d) /\ \A i : HashAt(e, i) = HashAt(d, i)
      BY <1>1 DEF Size, HashAt
    <2>2. ChainOK(e) /\ ImportsOK(e) /\ IdemOK(e)
      BY <1>1, <1>2, <1>4, <2>1
         DEF Sound, VerifiesClean, IntegrityOK, ChainOK, ImportsOK, IdemOK
    <2>3. Leaves(e) = Leaves(d) /\ \A m : LeavesTo(e, m) = LeavesTo(d, m)
      BY <1>1, <2>1 DEF Leaves, LeavesTo
    <2>4. CacheOK(e)
      BY <1>1, <1>4, <2>1, <2>3 DEF Sound, VerifiesClean, CacheOK, BoundaryAt
    <2> QED BY <1>1, <1>4, <2>1, <2>2, <2>4 DEF Sound, VerifiesClean, IntegrityOK
  <1> QED BY <1>1, <1>3, <1>4 DEF e

(* Adding ledger rows that point at the newest entry keeps a database      *)
(* typed and verified.                                                     *)
LEMMA LedgerFacts ==
  ASSUME NEW d, IsDb(d), NEW e,
         DOMAIN e = DOMAIN d, e.log = d.log, e.autoinc = d.autoinc,
         e.bounds = d.bounds, e.frontier = d.frontier,
         Size(d) > 0,
         \/ /\ e.imported = d.imported
            /\ \E k \in Scope, r \in Rec, x \in Nat :
                  e.idem = Put(d.idem, k, [body |-> r, seq |-> Size(d),
                                           hash |-> HeadHash(d), expires |-> x])
         \/ /\ e.idem = d.idem
            /\ e.imported = Put(d.imported, d.log[Size(d)].rec, Size(d))
  PROVE  IsDb(e) /\ (Sound(d) => Sound(e))
  <1>1. /\ d.log \in Seq(Row) /\ Size(d) \in Nat /\ HeadHash(d) \in Hash
        /\ Size(d) \in 1..Size(d)
        /\ d.log[Size(d)] \in Row /\ d.log[Size(d)].rec \in Rec
    <2>1. /\ d.log \in Seq(Row) /\ Size(d) \in Nat /\ HeadHash(d) \in Hash
          /\ \A i \in 1..Size(d) : d.log[i] \in Row
      BY HeadType
    <2>2. Size(d) \in 1..Size(d) BY <2>1
    <2>3. d.log[Size(d)] \in Row BY <2>1, <2>2
    <2>4. d.log[Size(d)].rec \in Rec BY <2>3 DEF Row
    <2> QED BY <2>1, <2>2, <2>3, <2>4
  <1>2. HeadHash(d) = HashAt(d, Size(d)) BY DEF HeadHash
  <1>3. /\ DOMAIN e.idem \subseteq Scope
        /\ \A k \in DOMAIN e.idem :
              \/ k \in DOMAIN d.idem /\ e.idem[k] = d.idem[k]
              \/ /\ e.idem[k].seq = Size(d) /\ e.idem[k].hash = HeadHash(d)
                 /\ e.idem[k] \in [body : Rec, seq : Nat, hash : Hash, expires : Nat]
    <2>1. CASE e.idem = d.idem
      BY <2>1 DEF IsDb
    <2>2. CASE \E k \in Scope, r \in Rec, x \in Nat :
                  e.idem = Put(d.idem, k, [body |-> r, seq |-> Size(d),
                                           hash |-> HeadHash(d), expires |-> x])
      <3>1. PICK k \in Scope, r \in Rec, x \in Nat :
                  e.idem = Put(d.idem, k, [body |-> r, seq |-> Size(d),
                                           hash |-> HeadHash(d), expires |-> x])
        BY <2>2
      <3> DEFINE row == [body |-> r, seq |-> Size(d), hash |-> HeadHash(d), expires |-> x]
      <3>2. row \in [body : Rec, seq : Nat, hash : Hash, expires : Nat]
        BY <1>1
      <3>3. row.seq = Size(d) /\ row.hash = HeadHash(d)
        OBVIOUS
      <3> HIDE DEF row
      <3>4. /\ DOMAIN e.idem = DOMAIN d.idem \cup {k}
            /\ e.idem[k] = row
            /\ \A z \in DOMAIN d.idem : z # k => e.idem[z] = d.idem[z]
        BY <3>1 DEF Put, row
      <3> QED BY <3>2, <3>3, <3>4 DEF IsDb
    <2> QED BY <2>1, <2>2
  <1>4. /\ DOMAIN e.imported \subseteq Rec
        /\ \A r \in DOMAIN e.imported :
              \/ r \in DOMAIN d.imported /\ e.imported[r] = d.imported[r]
              \/ e.imported[r] = Size(d) /\ d.log[Size(d)].rec = r
    BY <1>1 DEF Put, IsDb
  <1>5. IsDb(e)
    BY <1>1, <1>3, <1>4 DEF IsDb
  <1>6. ASSUME Sound(d) PROVE Sound(e)
    <2>1. Size(e) = Size(d) /\ \A i : HashAt(e, i) = HashAt(d, i)
      BY DEF Size, HashAt
    <2>2. ChainOK(e)
      BY <1>6, <2>1 DEF Sound, VerifiesClean, IntegrityOK, ChainOK
    <2>3. IdemOK(e)
      BY <1>1, <1>2, <1>3, <1>6, <2>1 DEF Sound, VerifiesClean, IntegrityOK, IdemOK
    <2>4. ImportsOK(e)
      BY <1>1, <1>4, <1>6, <2>1 DEF Sound, VerifiesClean, IntegrityOK, ImportsOK
    <2>5. Leaves(e) = Leaves(d) /\ \A m : LeavesTo(e, m) = LeavesTo(d, m)
      BY <2>1 DEF Leaves, LeavesTo
    <2>6. CacheOK(e)
      BY <1>6, <2>1, <2>5 DEF Sound, VerifiesClean, CacheOK, BoundaryAt
    <2> QED BY <1>6, <2>1, <2>2, <2>3, <2>4, <2>6 DEF Sound, VerifiesClean, IntegrityOK
  <1> QED BY <1>5, <1>6

(* A keyed append: types, rows, verification.                              *)
LEMMA KeyedFacts ==
  ASSUME NEW d, IsDb(d), NEW k \in Scope, NEW r \in Rec, NEW now \in Nat
  PROVE  /\ IsDb(AppendKeyed(d, k, r, now))
         /\ Extends(d, AppendKeyed(d, k, r, now))
         /\ Sound(d) => Sound(AppendKeyed(d, k, r, now))
  <1> DEFINE a == AppendRow(d, r)
             e == AppendKeyed(d, k, r, now)
  <1>1. IsAppend(a, d, r) BY AppendRowIsAppend
  <1> HIDE DEF a
  <1>2. IsDb(a) /\ Extends(d, a) /\ (Sound(d) => Sound(a))
    BY <1>1, AppendRowType, AppendRowExtends, AppendRowSound
  <1>3. Size(d) \in Nat /\ Size(a) = Size(d) + 1
    BY <1>1, HeadType, AppendRows
  <1>4. /\ DOMAIN e = DOMAIN a /\ e.log = a.log /\ e.autoinc = a.autoinc
        /\ e.bounds = a.bounds /\ e.frontier = a.frontier
        /\ e.imported = a.imported
        /\ e.idem = Put(a.idem, k, [body |-> r, seq |-> Size(a),
                                    hash |-> HeadHash(a), expires |-> now + TTL])
    BY <1>2 DEF AppendKeyed, IsDb, a
  <1>5. now + TTL \in Nat BY TimingAssumption
  <1> HIDE DEF e
  <1>6. IsDb(e) /\ (Sound(a) => Sound(e))
    BY <1>2, <1>3, <1>4, <1>5, LedgerFacts
  <1>7. Extends(d, e)
    BY <1>2, <1>4 DEF Extends, Size
  <1> QED BY <1>2, <1>6, <1>7 DEF e

(* An imported record: types, rows, verification.                          *)
LEMMA ImportFacts ==
  ASSUME NEW d, IsDb(d), NEW r \in Rec
  PROVE  /\ IsDb(AppendImport(d, r))
         /\ Extends(d, AppendImport(d, r))
         /\ Sound(d) => Sound(AppendImport(d, r))
  <1> DEFINE a == AppendRow(d, r)
             e == AppendImport(d, r)
  <1>1. IsAppend(a, d, r) BY AppendRowIsAppend
  <1> HIDE DEF a
  <1>2. IsDb(a) /\ Extends(d, a) /\ (Sound(d) => Sound(a))
    BY <1>1, AppendRowType, AppendRowExtends, AppendRowSound
  <1>3. /\ Size(d) \in Nat /\ Size(a) = Size(d) + 1
        /\ a.log[Size(a)] = NewRow(d, r)
    BY <1>1, HeadType, AppendRows
  <1>4. a.log[Size(a)].rec = r
    BY <1>3 DEF NewRow
  <1>5. /\ DOMAIN e = DOMAIN a /\ e.log = a.log /\ e.autoinc = a.autoinc
        /\ e.bounds = a.bounds /\ e.frontier = a.frontier
        /\ e.idem = a.idem
        /\ e.imported = Put(a.imported, r, Size(a))
    BY <1>2 DEF AppendImport, IsDb, a
  <1> HIDE DEF e
  <1>6. IsDb(e) /\ (Sound(a) => Sound(e))
    BY <1>2, <1>3, <1>4, <1>5, LedgerFacts
  <1>7. Extends(d, e)
    BY <1>2, <1>5 DEF Extends, Size
  <1> QED BY <1>2, <1>6, <1>7 DEF e

(* The startup rebuild of the boundary cache keeps types and the log.      *)
LEMMA EnsureFacts ==
  ASSUME NEW d, IsDb(d)
  PROVE  /\ IsDb(EnsureBoundaries(d))
         /\ EnsureBoundaries(d).log = d.log
  <1> DEFINE e == EnsureBoundaries(d)
  <1>1. /\ DOMAIN e = DOMAIN d /\ e.log = d.log /\ e.autoinc = d.autoinc
        /\ e.bounds = [n \in 1..Size(d) |-> BoundaryAt(d, n)]
        /\ e.frontier = Leaves(d)
        /\ e.imported = d.imported /\ e.idem = d.idem
    BY DEF EnsureBoundaries, IsDb
  <1>2. Size(d) \in Nat /\ \A i \in 1..Size(d) : d.log[i].hash \in Hash
    BY HeadType DEF Row
  <1>3. Leaves(d) \in Seq(Hash)
    BY <1>2 DEF Leaves
  <1>4. /\ DOMAIN e.bounds \subseteq Nat
        /\ \A n \in DOMAIN e.bounds : DOMAIN e.bounds[n] = {"head", "root"}
    BY <1>1, <1>2 DEF BoundaryAt
  <1> HIDE DEF e
  <1>5. IsDb(e) BY <1>1, <1>3, <1>4 DEF IsDb
  <1> QED BY <1>1, <1>5 DEF e

(* A database that verifies passes the anchor checks and has a live        *)
(* boundary, so nothing refuses or latches on it.                          *)
LEMMA SoundFits ==
  ASSUME NEW d, IsDb(d), Sound(d)
  PROVE  AppendFits(d) /\ BoundaryAvailable(d)
  <1>1. /\ Size(d) \in Nat
        /\ d.frontier = Leaves(d) /\ d.frontier \in Seq(Hash)
        /\ DOMAIN d.bounds = 1..Size(d)
        /\ \A n \in 1..Size(d) : d.bounds[n] = BoundaryAt(d, n)
        /\ d.autoinc = Size(d)
        /\ \A i \in 1..Size(d) : d.log[i].live
    BY HeadType DEF Sound, VerifiesClean, CacheOK, IntegrityOK, ChainOK, IsDb
  <1>2. Len(d.frontier) = Size(d)
    BY <1>1 DEF Leaves
  <1>3. LeavesTo(d, Size(d)) = d.frontier
    BY <1>1 DEF Leaves, LeavesTo
  <1>4. AnchorsHold(d)
    <2> SUFFICES ASSUME Size(d) > 0
                 PROVE /\ Size(d) \in DOMAIN d.bounds
                       /\ d.bounds[Size(d)].head = HeadHash(d)
                       /\ d.frontier[Size(d)] = HeadHash(d)
                       /\ Size(d) > 1 => /\ d.log[Size(d) - 1].live
                                         /\ d.frontier[Size(d) - 1] = HashAt(d, Size(d) - 1)
                       /\ Root(d.frontier) = d.bounds[Size(d)].root
      BY <1>2 DEF AnchorsHold
    <2>1. d.bounds[Size(d)] = [head |-> HashAt(d, Size(d)), root |-> Root(d.frontier)]
      BY <1>1, <1>3 DEF BoundaryAt
    <2>2. \A i \in 1..Size(d) : d.frontier[i] = HashAt(d, i)
      BY <1>1 DEF Leaves, HashAt
    <2> QED BY <1>1, <2>1, <2>2 DEF HeadHash
  <1>5. BoundaryAvailable(d)
    BY <1>1, <1>4 DEF BoundaryAvailable, AnchorsHold
  <1> QED BY <1>1, <1>4, <1>5 DEF AppendFits
(* Storage damage changes values, not column types.                        *)
LEMMA DamagedType ==
  ASSUME NEW d, IsDb(d), NEW kind, NEW e \in Damaged(d, kind)
  PROVE  IsDb(e)
  <1>1. /\ d.log \in Seq(Row) /\ Size(d) \in Nat /\ d.frontier \in Seq(Hash)
        /\ \A i \in 1..Size(d) : d.log[i] \in Row
    BY HeadType DEF IsDb
  <1>2. Genesis \in Hash /\ Body \subseteq Rec
    BY RecAssumption DEF Genesis, Hash
  <1>3. \A i \in 1..Size(d) : OtherHash(d, i) \subseteq Hash
    <2> SUFFICES ASSUME NEW i \in 1..Size(d), NEW r \in Body
                 PROVE EntryHash(d.log[i].prev, r) \in Hash
      BY DEF OtherHash
    <2>1. d.log[i].prev \in Hash BY <1>1 DEF Row
    <2> QED BY <1>2, <2>1 DEF EntryHash, Hash
  <1>4. ASSUME NEW l, l \in Seq(Row), e = [d EXCEPT !.log = l]
        PROVE IsDb(e)
    BY <1>4 DEF IsDb, Row
  <1>5. ASSUME NEW i \in 1..Size(d), NEW row \in Row, e = [d EXCEPT !.log[i] = row]
        PROVE IsDb(e)
    <2>1. [d.log EXCEPT ![i] = row] \in Seq(Row)
      BY <1>1, <1>5 DEF Size
    <2>2. e = [d EXCEPT !.log = [d.log EXCEPT ![i] = row]]
      BY <1>5 DEF IsDb
    <2> QED BY <2>1, <2>2, <1>4
  <1>6. CASE kind = "truncate"
    <2>1. e = [d EXCEPT !.log = SubSeq(d.log, 1, Size(d) - 1)] /\ Size(d) > 0
      BY <1>6 DEF Damaged
    <2>2. SubSeq(d.log, 1, Size(d) - 1) \in Seq(Row)
      BY <1>1, <2>1 DEF Size
    <2> QED BY <1>4, <2>1, <2>2
  <1>7. CASE kind = "prune"
    <2>1. PICK i \in 1..(Size(d) - 1) : e = [d EXCEPT !.log[i].live = FALSE]
      BY <1>7 DEF Damaged
    <2>2. i \in 1..Size(d) /\ d.log[i] \in Row BY <1>1
    <2>3. [d.log[i] EXCEPT !.live = FALSE] \in Row BY <2>2 DEF Row
    <2>4. e = [d EXCEPT !.log[i] = [d.log[i] EXCEPT !.live = FALSE]]
      BY <2>1, <2>2
    <2> QED BY <1>5, <2>2, <2>3, <2>4
  <1>8. CASE kind = "record"
    <2>1. PICK i \in 1..Size(d), r \in Body : e = [d EXCEPT !.log[i].rec = r]
      BY <1>8 DEF Damaged
    <2>2. [d.log[i] EXCEPT !.rec = r] \in Row BY <1>1, <1>2 DEF Row
    <2>3. e = [d EXCEPT !.log[i] = [d.log[i] EXCEPT !.rec = r]]
      BY <2>1
    <2> QED BY <1>5, <2>2, <2>3
  <1>9. CASE kind = "hash"
    <2>0. PICK i \in 1..Size(d) :
             \E h \in OtherHash(d, i) : e = [d EXCEPT !.log[i].hash = h]
      BY <1>9 DEF Damaged
    <2>1. PICK h \in OtherHash(d, i) : e = [d EXCEPT !.log[i].hash = h]
      BY <2>0
    <2>2. h \in Hash BY <1>3
    <2>3. [d.log[i] EXCEPT !.hash = h] \in Row BY <1>1, <2>2 DEF Row
    <2>4. e = [d EXCEPT !.log[i] = [d.log[i] EXCEPT !.hash = h]]
      BY <2>1
    <2> QED BY <1>5, <2>3, <2>4
  <1>10. CASE kind = "dropBoundary"
    <2>1. PICK n \in DOMAIN d.bounds :
             e = [d EXCEPT !.bounds = Keep(d.bounds, DOMAIN d.bounds \ {n})]
      BY <1>10 DEF Damaged
    <2> QED BY <2>1 DEF IsDb, Keep
  <1>11. CASE kind = "root"
    <2>1. PICK n \in DOMAIN d.bounds : e = [d EXCEPT !.bounds[n].root = Genesis]
      BY <1>11 DEF Damaged
    <2> QED BY <2>1 DEF IsDb
  <1>12. CASE kind = "frontier"
    <2>0. PICK i \in 1..Len(d.frontier) \cap 1..Size(d) :
             \E h \in OtherHash(d, i) : e = [d EXCEPT !.frontier[i] = h]
      BY <1>12 DEF Damaged
    <2>1. PICK h \in OtherHash(d, i) : e = [d EXCEPT !.frontier[i] = h]
      BY <2>0
    <2>2. h \in Hash BY <1>3
    <2>3. [d.frontier EXCEPT ![i] = h] \in Seq(Hash)
      BY <1>1, <2>2
    <2> QED BY <2>1, <2>3 DEF IsDb
  <1>13. CASE kind = "answer"
    <2>1. PICK k \in DOMAIN d.idem : e = [d EXCEPT !.idem[k].hash = Genesis]
      BY <1>13 DEF Damaged
    <2>2. [d.idem[k] EXCEPT !.hash = Genesis]
             \in [body : Rec, seq : Nat, hash : Hash, expires : Nat]
      BY <1>2 DEF IsDb
    <2> QED BY <2>1, <2>2 DEF IsDb
  <1>14. CASE kind \notin {"truncate", "prune", "record", "hash", "dropBoundary",
                           "root", "frontier", "answer"}
    BY <1>14 DEF Damaged
  <1> QED BY <1>6, <1>7, <1>8, <1>9, <1>10, <1>11, <1>12, <1>13, <1>14
----------------------------------------------------------------------------
(* The empty database is typed and verifies.                               *)
LEMMA EmptyFacts == IsDb(EmptyDb) /\ Sound(EmptyDb)
  <1>1. /\ DOMAIN EmptyDb = {"log", "autoinc", "bounds", "frontier", "idem", "imported", "hw"}
        /\ EmptyDb.log = <<>> /\ EmptyDb.autoinc = 0 /\ EmptyDb.frontier = <<>>
        /\ DOMAIN EmptyDb.bounds = {} /\ DOMAIN EmptyDb.idem = {}
        /\ DOMAIN EmptyDb.imported = {}
    BY DEF EmptyDb
  <1>2. IsDb(EmptyDb) BY <1>1 DEF IsDb
  <1>3. Size(EmptyDb) = 0 BY <1>1 DEF Size
  <1>4. Leaves(EmptyDb) = EmptyDb.frontier BY <1>1, <1>3 DEF Leaves
  <1>5. Sound(EmptyDb)
    BY <1>1, <1>3, <1>4
       DEF Sound, VerifiesClean, IntegrityOK, ChainOK, IdemOK, ImportsOK, CacheOK
  <1> QED BY <1>2, <1>5

(* Every action keeps every variable's type.                               *)
LEMMA TypeStep == TypeOK /\ [Next]_vars => TypeOK'
  <1> SUFFICES ASSUME TypeOK, [Next]_vars PROVE TypeOK'
    OBVIOUS
  <1> USE TimingAssumption, RecAssumption
  <1>0. /\ StaleAfter \in Nat /\ IsDb(db) /\ IsDb(work) /\ clock \in Nat
        /\ \A p \in Proc : age[p] \in Nat
    BY DEF TypeOK, StaleAfter
  <1>h. \A d : IsDb(d) => Size(d) \in Nat /\ HeadHash(d) \in Hash
    BY HeadType
  <1>g. Genesis \in Hash BY DEF Genesis, Hash
  <1>l. ASSUME NEW p \in Proc, Latch(p)
        PROVE  /\ status' \in [Proc -> {"down", "ready", "failed"}]
               /\ age' \in [Proc -> 0..(StaleAfter + 1)]
    BY <1>0, <1>l DEF Latch, TypeOK
  <1>p. ASSUME NEW p \in Proc, NEW d, IsDb(d), Publish(p, d)
        PROVE  verified' \in [Proc -> [size : Nat, head : Hash]]
    BY <1>p, <1>h DEF Publish, TypeOK
  <1>1. ASSUME NEW p \in Proc, Open(p) PROVE TypeOK'
    <2>1. IsDb(db') /\ IsDb(work')
      BY <1>0, <1>1, EnsureFacts DEF Open, storage
    <2> QED BY <1>0, <1>1, <1>h, <2>1 DEF Open, Publish, storage, TypeOK
  <1>2. ASSUME NEW p \in Proc, Crash(p) PROVE TypeOK'
    <2>1. /\ IsDb(db') /\ IsDb(work') /\ writer' \in Proc \cup {Nobody}
          /\ todo' \in Seq(Rec) /\ "kind" \in DOMAIN outcome'
          /\ outcome'.kind \in {"idle", "append", "accept", "replay", "import", "imported"}
      <3>1. CASE writer = p
        BY <1>0, <1>2, <3>1 DEF Crash, Discard, Idle
      <3>2. CASE writer # p
        <4>1. UNCHANGED <<db, writer, work, todo, outcome>>
          BY <1>2, <3>2 DEF Crash
        <4> QED BY <4>1 DEF TypeOK
      <3> QED BY <3>1, <3>2
    <2> QED BY <1>0, <1>2, <1>g, <2>1 DEF Crash, TypeOK
  <1>3. ASSUME NEW p \in Proc, NEW r \in Body, AppendBegin(p, r) PROVE TypeOK'
    <2>1. IsDb(AppendRow(db, r))
      <3>1. r \in Rec BY RecAssumption
      <3> QED BY <1>0, <3>1, AppendRowIsAppend, AppendRowType
    <2>2. UNCHANGED <<db, verified, pass, call, clock, faults>>
      BY <1>3 DEF AppendBegin
    <2>3. CASE /\ Begin(p, AppendRow(db, r), <<>>, [kind |-> "append"])
               /\ UNCHANGED <<status, age>>
      BY <1>0, <2>1, <2>2, <2>3 DEF Begin, TypeOK
    <2>4. CASE Latch(p) /\ UNCHANGED <<writer, work, todo, outcome>>
      <3>1. /\ status' \in [Proc -> {"down", "ready", "failed"}]
            /\ age' \in [Proc -> 0..(StaleAfter + 1)]
        BY <2>4, <1>l
      <3> QED BY <1>0, <2>2, <2>4, <3>1 DEF TypeOK
    <2> QED BY <1>3, <2>3, <2>4 DEF AppendBegin
  <1>4. ASSUME NEW p \in Proc, NEW k \in Scope, NEW r \in Body, Submit(p, k, r) PROVE TypeOK'
    BY <1>0, <1>4 DEF Submit, storage, TypeOK
  <1>5. ASSUME NEW p \in Proc, SubmitBegin(p) PROVE TypeOK'
    <2> DEFINE c == call[p]
               d == Prune(db, c.now)
    <2>0. c # NoCall /\ c \in [scope : Scope, rec : Body, now : Nat]
      BY <1>5 DEF SubmitBegin, TypeOK
    <2>1. c.scope \in Scope /\ c.rec \in Rec /\ c.now \in Nat
      BY <2>0
    <2>2. IsDb(d) BY <1>0, PruneFacts
    <2>3. IsDb(AppendKeyed(d, c.scope, c.rec, c.now))
      BY <2>1, <2>2, KeyedFacts
    <2>4. /\ IsDb(db') /\ IsDb(work') /\ writer' \in Proc \cup {Nobody}
          /\ todo' \in Seq(Rec) /\ "kind" \in DOMAIN outcome'
          /\ outcome'.kind \in {"idle", "append", "accept", "replay", "import", "imported"}
      <3> HIDE DEF d
      <3>1. CASE /\ writer' = p /\ work' = AppendKeyed(d, c.scope, c.rec, c.now) /\ todo' = <<>>
                 /\ \E q, h : outcome' = Answer("accept", c, q, h)
        BY <1>0, <1>5, <2>3, <3>1 DEF SubmitBegin, Answer
      <3>2. CASE /\ writer' = p /\ work' = d /\ todo' = <<>>
                 /\ \E q, h : outcome' = Answer("replay", c, q, h)
        BY <1>0, <1>5, <2>2, <3>2 DEF SubmitBegin, Answer
      <3> QED BY <1>5, <3>1, <3>2 DEF SubmitBegin, Begin, d
    <2>5. UNCHANGED <<status, verified, age, pass, call, clock, faults>>
      BY <1>5 DEF SubmitBegin, memory
    <2> QED BY <1>0, <2>4, <2>5 DEF TypeOK
  <1>6. ASSUME NEW p \in Proc, SubmitRefused(p) PROVE TypeOK'
    <2>1. /\ UNCHANGED <<db, writer, work, todo, outcome, verified, pass, clock, faults>>
          /\ call' = [call EXCEPT ![p] = NoCall]
          /\ Latch(p) \/ UNCHANGED <<status, age>>
      BY <1>6 DEF SubmitRefused, storage
    <2>2. /\ status' \in [Proc -> {"down", "ready", "failed"}]
          /\ age' \in [Proc -> 0..(StaleAfter + 1)]
      BY <2>1, <1>l DEF TypeOK
    <2> QED BY <1>0, <2>1, <2>2 DEF TypeOK
  <1>7. ASSUME NEW p \in Proc, NEW o \in Offers, NEW older \in BOOLEAN,
               ImportBegin(p, o, older)
        PROVE TypeOK'
    BY <1>0, <1>7 DEF ImportBegin, Begin, memory, TypeOK
  <1>8. ASSUME NEW p \in Proc, ImportRow(p) PROVE TypeOK'
    <2>1. Head(todo) \in Rec /\ Tail(todo) \in Seq(Rec)
      BY <1>8 DEF ImportRow, TypeOK
    <2>2. IsDb(AppendImport(work, Head(todo)))
      BY <1>0, <2>1, ImportFacts
    <2>3. IsDb(work') /\ todo' = Tail(todo)
      BY <1>0, <1>8, <2>2 DEF ImportRow
    <2>4. UNCHANGED <<db, writer, outcome, status, verified, age, pass, call, clock, faults>>
      BY <1>8 DEF ImportRow, memory
    <2> QED BY <1>0, <2>1, <2>3, <2>4 DEF TypeOK
  <1>9. ASSUME NEW p \in Proc, ImportLatch(p) PROVE TypeOK'
    BY <1>0, <1>9 DEF ImportLatch, Latch, Discard, Idle, TypeOK
  <1>10. ASSUME NEW p \in Proc, ImportMark(p) PROVE TypeOK'
    <2>1. IsDb(work')
      BY <1>0, <1>10 DEF ImportMark, IsDb
    <2> QED BY <1>0, <1>10, <2>1 DEF ImportMark, memory, TypeOK
  <1>11. ASSUME NEW p \in Proc, Commit(p) PROVE TypeOK'
    <2>1. /\ db' = work /\ writer' = Nobody /\ todo' = <<>> /\ outcome' = Idle
          /\ call' = [call EXCEPT ![p] = NoCall]
          /\ UNCHANGED <<work, status, age, pass, clock, faults>>
          /\ Publish(p, work) \/ UNCHANGED verified
      BY <1>11 DEF Commit
    <2>2. verified' \in [Proc -> [size : Nat, head : Hash]]
      BY <1>0, <1>p, <2>1 DEF TypeOK
    <2>3. /\ "kind" \in DOMAIN outcome' /\ outcome'.kind = "idle"
          /\ todo' \in Seq(Rec)
      BY <2>1 DEF Idle
    <2>4. /\ DOMAIN call' = Proc
          /\ \A q \in Proc : call'[q] # NoCall =>
                call'[q] \in [scope : Scope, rec : Body, now : Nat]
      BY <2>1 DEF TypeOK
    <2>5. IsDb(db') /\ IsDb(work') /\ \A q \in Proc : pass'[q] # NoPass => IsDb(pass'[q])
      BY <1>0, <2>1 DEF TypeOK
    <2> QED BY <2>1, <2>2, <2>3, <2>4, <2>5 DEF TypeOK
  <1>12. ASSUME NEW p \in Proc, Rollback(p) PROVE TypeOK'
    BY <1>0, <1>12 DEF Rollback, Discard, Idle, TypeOK
  <1>13. ASSUME NEW p \in Proc, ServeSnapshot(p) PROVE TypeOK'
    BY <1>0, <1>13 DEF ServeSnapshot, storage, memory, TypeOK
  <1>14. ASSUME NEW p \in Proc, PassBegin(p) PROVE TypeOK'
    BY <1>0, <1>14 DEF PassBegin, storage, TypeOK
  <1>15. ASSUME NEW p \in Proc, PassEnd(p) PROVE TypeOK'
    <2>1. /\ UNCHANGED <<db, writer, work, todo, outcome, call, clock, faults>>
          /\ pass' = [pass EXCEPT ![p] = NoPass]
      BY <1>15 DEF PassEnd, storage
    <2>2. CASE UNCHANGED <<status, verified, age>>
      BY <1>0, <2>1, <2>2 DEF TypeOK
    <2>3. CASE Latch(p) /\ UNCHANGED verified
      <3>1. /\ status' \in [Proc -> {"down", "ready", "failed"}]
            /\ age' \in [Proc -> 0..(StaleAfter + 1)]
        BY <2>3, <1>l
      <3> QED BY <1>0, <2>1, <2>3, <3>1 DEF TypeOK
    <2>4. CASE Publish(p, db) /\ age' = [age EXCEPT ![p] = 0] /\ UNCHANGED status
      <3>1. verified' \in [Proc -> [size : Nat, head : Hash]]
        BY <1>0, <1>p, <2>4
      <3>2. age' \in [Proc -> 0..(StaleAfter + 1)] /\ status' = status
        BY <1>0, <2>4 DEF TypeOK
      <3> QED BY <1>0, <2>1, <3>1, <3>2 DEF TypeOK
    <2> QED BY <1>15, <2>2, <2>3, <2>4 DEF PassEnd
  <1>16. ASSUME NEW p \in Proc, PassFail(p) PROVE TypeOK'
    <2>1. /\ UNCHANGED <<db, writer, work, todo, outcome, verified, call, clock>>
          /\ pass' = [pass EXCEPT ![p] = NoPass]
          /\ faults' \in 0..MaxFaults
          /\ Latch(p) \/ UNCHANGED <<status, age>>
      BY <1>16 DEF PassFail, storage, TypeOK
    <2>2. /\ status' \in [Proc -> {"down", "ready", "failed"}]
          /\ age' \in [Proc -> 0..(StaleAfter + 1)]
      BY <2>1, <1>l DEF TypeOK
    <2> QED BY <1>0, <2>1, <2>2 DEF TypeOK
  <1>17. CASE Tick
    BY <1>0, <1>17 DEF Tick, storage, TypeOK
  <1>18. ASSUME NEW kind \in FaultKinds, Corrupt(kind) PROVE TypeOK'
    <2>1. IsDb(db') /\ IsDb(work')
      BY <1>0, <1>18, DamagedType DEF Corrupt
    <2> QED BY <1>0, <1>18, <2>1 DEF Corrupt, memory, TypeOK
  <1>19. CASE UNCHANGED vars
    BY <1>0, <1>19 DEF vars, storage, memory, TypeOK
  <1> QED
    BY <1>1, <1>2, <1>3, <1>4, <1>5, <1>6, <1>7, <1>8, <1>9, <1>10, <1>11, <1>12,
       <1>13, <1>14, <1>15, <1>16, <1>17, <1>18, <1>19 DEF Next, Step

(* Type correctness of the store: what the columns, the transaction, the   *)
(* cached verdicts and the calls in flight may hold.                       *)
THEOREM TypeCorrect == Spec => []TypeOK
  <1>1. Init => TypeOK
    <2>1. Genesis \in Hash BY DEF Genesis, Hash
    <2> QED BY <2>1, EmptyFacts, TimingAssumption
            DEF Init, TypeOK, Idle, StaleAfter
  <1> QED BY <1>1, TypeStep, PTL DEF Spec
----------------------------------------------------------------------------
(***************************************************************************)
(* Safety.                                                                 *)
(***************************************************************************)

(* Extends is a preorder that keeps the hashes of the shorter log.         *)
LEMMA ExtendsFacts ==
  /\ \A d : IsDb(d) => Extends(d, d)
  /\ \A d, e, f : /\ IsDb(d) /\ IsDb(e) /\ IsDb(f)
                 /\ Extends(d, e) /\ Extends(e, f)
                 => Extends(d, f)
  /\ \A d, e, f : e.log = f.log /\ Extends(d, e) => Extends(d, f)
  /\ \A d, e, n : /\ IsDb(d) /\ IsDb(e) /\ Extends(d, e)
                 /\ n \in Nat /\ n <= Size(d)
                 => n <= Size(e) /\ HashAt(e, n) = HashAt(d, n)
  <1>1. \A d : IsDb(d) => Size(d) \in Nat BY HeadType
  <1>2. \A d : IsDb(d) => Extends(d, d) BY <1>1 DEF Extends
  <1>3. ASSUME NEW d, NEW e, NEW f, IsDb(d), IsDb(e), IsDb(f),
               Extends(d, e), Extends(e, f)
        PROVE Extends(d, f)
    BY <1>1, <1>3 DEF Extends
  <1>4. \A d, e, f : e.log = f.log /\ Extends(d, e) => Extends(d, f)
    BY DEF Extends, Size
  <1>5. ASSUME NEW d, NEW e, NEW n, IsDb(d), IsDb(e), Extends(d, e),
               n \in Nat, n <= Size(d)
        PROVE n <= Size(e) /\ HashAt(e, n) = HashAt(d, n)
    BY <1>1, <1>5 DEF Extends, HashAt
  <1> QED BY <1>2, <1>3, <1>4, <1>5

(* The high-water row takes no part in verification.                       *)
LEMMA MarkFacts ==
  ASSUME NEW d, NEW e,
         e.log = d.log, e.autoinc = d.autoinc, e.bounds = d.bounds,
         e.frontier = d.frontier, e.idem = d.idem, e.imported = d.imported,
         Sound(d)
  PROVE  Sound(e)
  <1>1. Size(e) = Size(d) /\ \A i : HashAt(e, i) = HashAt(d, i)
    BY DEF Size, HashAt
  <1>2. ChainOK(e) /\ ImportsOK(e) /\ IdemOK(e)
    BY <1>1 DEF Sound, VerifiesClean, IntegrityOK, ChainOK, ImportsOK, IdemOK
  <1>3. Leaves(e) = Leaves(d) /\ \A m : LeavesTo(e, m) = LeavesTo(d, m)
    BY <1>1 DEF Leaves, LeavesTo
  <1>4. CacheOK(e)
    BY <1>1, <1>3 DEF Sound, VerifiesClean, CacheOK, BoundaryAt
  <1> QED BY <1>1, <1>2, <1>4 DEF Sound, VerifiesClean, IntegrityOK

(* Every action keeps the inductive invariant.  An open transaction only   *)
(* extends the committed log and, over intact storage, would verify; that  *)
(* is what makes a commit, a latch and a published verdict right.          *)
LEMMA InvStep == StoreInv /\ [Next]_vars => StoreInv'
  <1> SUFFICES ASSUME StoreInv, [Next]_vars PROVE StoreInv'
    OBVIOUS
  <1> DEFINE Rest == TransactionInv /\ IntactInv /\ NoFalseAlarm /\ VerdictOnDurablePrefix
  <1>0. TypeOK' BY TypeStep DEF StoreInv
  <1>1. /\ IsDb(db) /\ IsDb(work) /\ Extends(db, work) /\ Extends(db, db)
        /\ Nobody \notin Proc
        /\ \A p \in Proc : verified[p].size \in Nat
    BY ExtendsFacts, NobodyAssumption DEF StoreInv, TypeOK, TransactionInv
  <1>2. faults = 0 => /\ Sound(db) /\ Sound(work)
                      /\ AppendFits(db) /\ AppendFits(work)
                      /\ BoundaryAvailable(db)
    BY <1>1, SoundFits DEF StoreInv, IntactInv
  <1>t. UNCHANGED <<db, writer, work>> => TransactionInv'
    BY DEF StoreInv, TransactionInv, Extends, Size
  <1>u. ASSUME NEW p \in Proc, writer' = p, UNCHANGED db, Extends(db, work')
        PROVE TransactionInv'
    BY <1>1, <1>u DEF TransactionInv, Extends, Size
  <1>d. ASSUME Discard, UNCHANGED db PROVE TransactionInv'
    BY <1>1, <1>d DEF TransactionInv, Discard, Extends, Size
  <1>i. ASSUME UNCHANGED <<db, pass, faults>>, faults = 0 => Sound(work')
        PROVE IntactInv'
    BY <1>i DEF StoreInv, IntactInv
  <1>j. ASSUME NEW p \in Proc, UNCHANGED <<db, work, faults>>, pass' = [pass EXCEPT ![p] = NoPass]
        PROVE IntactInv'
    BY <1>j DEF StoreInv, IntactInv, TypeOK
  <1>n. UNCHANGED <<status, faults>> => NoFalseAlarm'
    BY DEF StoreInv, NoFalseAlarm
  <1>v. UNCHANGED <<db, verified, faults>> => VerdictOnDurablePrefix'
    BY DEF StoreInv, VerdictOnDurablePrefix, Size, HashAt
  <1>w. ASSUME NEW p \in Proc, Publish(p, db'), IsDb(db'), Extends(db, db'), UNCHANGED faults
        PROVE VerdictOnDurablePrefix'
    <2> SUFFICES ASSUME faults = 0, NEW q \in Proc
                 PROVE /\ verified'[q].size <= Size(db')
                       /\ verified'[q].head = HashAt(db', verified'[q].size)
      BY <1>w DEF VerdictOnDurablePrefix
    <2>1. CASE q = p
      <3>1. verified'[q] = [size |-> Size(db'), head |-> HeadHash(db')]
        BY <1>w, <2>1 DEF Publish, StoreInv, TypeOK
      <3>2. Size(db') \in Nat BY <1>w, HeadType
      <3> QED BY <3>1, <3>2 DEF HeadHash
    <2>2. CASE q # p
      <3>1. verified'[q] = verified[q]
        BY <1>w, <2>2 DEF Publish, StoreInv, TypeOK
      <3>2. verified[q].size <= Size(db) /\ verified[q].head = HashAt(db, verified[q].size)
        BY DEF StoreInv, VerdictOnDurablePrefix
      <3> QED BY <1>1, <1>w, <3>1, <3>2, ExtendsFacts
    <2> QED BY <2>1, <2>2
  <1>3. ASSUME NEW p \in Proc, Open(p) PROVE Rest'
    <2>1. UNCHANGED <<pass, faults>> /\ Publish(p, db)
          /\ status' = [status EXCEPT ![p] = "ready"]
      BY <1>3 DEF Open
    <2>2. NoFalseAlarm'
      BY <2>1 DEF StoreInv, NoFalseAlarm, TypeOK
    <2>3. CASE CacheOK(db) /\ UNCHANGED <<db, writer, work, todo, outcome>>
      <3>1. Publish(p, db') BY <2>1, <2>3
      <3>2. IsDb(db') /\ Extends(db, db') BY <1>1, <2>3
      <3> QED BY <1>2, <1>t, <1>i, <1>w, <2>1, <2>2, <2>3, <3>1, <3>2
    <2>4. CASE /\ ~CacheOK(db) /\ writer = Nobody /\ db' = EnsureBoundaries(db)
               /\ work' = db' /\ writer' = writer
      <3>1. faults # 0 BY <1>2, <2>4 DEF Sound, VerifiesClean
      <3>2. TransactionInv'
        BY <1>0, <2>4, ExtendsFacts DEF TransactionInv, TypeOK
      <3> QED BY <2>1, <2>2, <3>1, <3>2 DEF IntactInv, VerdictOnDurablePrefix
    <2> QED BY <1>3, <2>3, <2>4 DEF Open, storage
  <1>4. ASSUME NEW p \in Proc, Crash(p) PROVE Rest'
    <2>1. /\ UNCHANGED <<db, faults>>
          /\ status' = [status EXCEPT ![p] = "down"]
          /\ verified' = [verified EXCEPT ![p] = [size |-> 0, head |-> Genesis]]
          /\ pass' = [pass EXCEPT ![p] = NoPass]
          /\ Discard \/ UNCHANGED <<writer, work>>
      BY <1>4 DEF Crash
    <2>2. TransactionInv' BY <1>t, <1>d, <2>1
    <2>3. faults = 0 => Sound(work')
      BY <1>2, <2>1 DEF Discard
    <2>4. IntactInv'
      BY <2>1, <2>3 DEF StoreInv, IntactInv, TypeOK
    <2>5. NoFalseAlarm' BY <2>1 DEF StoreInv, NoFalseAlarm, TypeOK
    <2>6. VerdictOnDurablePrefix'
      <3> SUFFICES ASSUME faults = 0, NEW q \in Proc
                   PROVE /\ verified'[q].size <= Size(db)
                         /\ verified'[q].head = HashAt(db, verified'[q].size)
        BY <2>1 DEF VerdictOnDurablePrefix
      <3>1. CASE q = p
        <4>1. verified'[q] = [size |-> 0, head |-> Genesis]
          BY <2>1, <3>1 DEF StoreInv, TypeOK
        <4>2. Size(db) \in Nat BY <1>1, HeadType
        <4> QED BY <4>1, <4>2 DEF HashAt
      <3>2. CASE q # p
        BY <2>1, <3>2 DEF StoreInv, TypeOK, VerdictOnDurablePrefix
      <3> QED BY <3>1, <3>2
    <2> QED BY <2>2, <2>4, <2>5, <2>6
  <1>5. ASSUME NEW p \in Proc, NEW r \in Body, AppendBegin(p, r) PROVE Rest'
    <2>1. UNCHANGED <<db, verified, pass, faults>>
      BY <1>5 DEF AppendBegin
    <2>2. VerdictOnDurablePrefix' BY <1>v, <2>1
    <2>3. CASE writer' = p /\ work' = AppendRow(db, r) /\ UNCHANGED status
      <3>1. r \in Rec BY RecAssumption
      <3>2. Extends(db, work') /\ (Sound(db) => Sound(work'))
        BY <1>1, <2>3, <3>1, AppendRowIsAppend, AppendRowExtends, AppendRowSound
      <3> QED BY <1>2, <1>u, <1>i, <1>n, <2>1, <2>2, <2>3, <3>2
    <2>4. CASE ~AppendFits(db) /\ UNCHANGED <<writer, work>>
      <3>1. faults # 0 BY <1>2, <2>4
      <3> QED BY <1>t, <2>1, <2>2, <2>4, <3>1 DEF IntactInv, NoFalseAlarm
    <2> QED BY <1>5, <2>3, <2>4 DEF AppendBegin, Begin
  <1>6. ASSUME NEW p \in Proc, NEW k \in Scope, NEW r \in Body, Submit(p, k, r) PROVE Rest'
    <2>1. UNCHANGED <<db, writer, work, status, verified, pass, faults>>
      BY <1>6 DEF Submit, storage
    <2> QED BY <1>2, <1>t, <1>i, <1>n, <1>v, <2>1
  <1>7. ASSUME NEW p \in Proc, SubmitBegin(p) PROVE Rest'
    <2> DEFINE c == call[p]
               d == Prune(db, c.now)
    <2>0. c # NoCall /\ c \in [scope : Scope, rec : Body, now : Nat]
      BY <1>7 DEF SubmitBegin, StoreInv, TypeOK
    <2>1. c.scope \in Scope /\ c.rec \in Rec /\ c.now \in Nat
      BY <2>0, RecAssumption
    <2>2. IsDb(d) /\ d.log = db.log /\ (Sound(db) => Sound(d))
      BY <1>1, PruneFacts
    <2>3. /\ UNCHANGED <<db, status, verified, pass, faults>> /\ writer' = p
          /\ \/ work' = d
             \/ work' = AppendKeyed(d, c.scope, c.rec, c.now)
      BY <1>7 DEF SubmitBegin, Begin, memory
    <2> HIDE DEF d
    <2>4. Extends(db, work') /\ (Sound(db) => Sound(work'))
      <3>1. Extends(db, d) BY <1>1, <2>2, ExtendsFacts
      <3>2. CASE work' = d BY <2>2, <3>1, <3>2
      <3>3. CASE work' = AppendKeyed(d, c.scope, c.rec, c.now)
        <4>1. IsDb(work') /\ Extends(d, work') /\ (Sound(d) => Sound(work'))
          BY <2>1, <2>2, <3>3, KeyedFacts
        <4> QED BY <1>1, <2>2, <3>1, <4>1, ExtendsFacts
      <3> QED BY <2>3, <3>2, <3>3
    <2> QED BY <1>2, <1>u, <1>i, <1>n, <1>v, <2>3, <2>4
  <1>8. ASSUME NEW p \in Proc, SubmitRefused(p) PROVE Rest'
    <2>1. /\ UNCHANGED <<db, writer, work, verified, pass, faults>>
          /\ \/ UNCHANGED status
             \/ ~AppendFits(Prune(db, call[p].now))
      BY <1>8 DEF SubmitRefused, storage
    <2>2. faults = 0 => AppendFits(Prune(db, call[p].now))
      BY <1>1, <1>2, PruneFacts, SoundFits
    <2>3. NoFalseAlarm'
      BY <1>n, <2>1, <2>2 DEF NoFalseAlarm
    <2> QED BY <1>2, <1>t, <1>i, <1>v, <2>1, <2>3
  <1>9. ASSUME NEW p \in Proc, NEW o \in Offers, NEW older \in BOOLEAN,
               ImportBegin(p, o, older)
        PROVE Rest'
    <2>1. writer' = p /\ work' = db /\ UNCHANGED <<db, status, verified, pass, faults>>
      BY <1>9 DEF ImportBegin, Begin, memory
    <2> QED BY <1>1, <1>2, <1>u, <1>i, <1>n, <1>v, <2>1
  <1>10. ASSUME NEW p \in Proc, ImportRow(p) PROVE Rest'
    <2>1. Head(todo) \in Rec
      BY <1>10 DEF ImportRow, StoreInv, TypeOK
    <2>2. /\ UNCHANGED <<db, writer, status, verified, pass, faults>> /\ writer = p
          /\ work' = work \/ work' = AppendImport(work, Head(todo))
      BY <1>10 DEF ImportRow, memory
    <2>3. Extends(db, work') /\ (Sound(work) => Sound(work'))
      <3>1. CASE work' = work BY <1>1, <3>1
      <3>2. CASE work' = AppendImport(work, Head(todo))
        <4>1. IsDb(work') /\ Extends(work, work') /\ (Sound(work) => Sound(work'))
          BY <1>1, <2>1, <3>2, ImportFacts
        <4> QED BY <1>1, <4>1, ExtendsFacts
      <3> QED BY <2>2, <3>1, <3>2
    <2> QED BY <1>2, <1>u, <1>i, <1>n, <1>v, <2>2, <2>3
  <1>11. ASSUME NEW p \in Proc, ImportLatch(p) PROVE Rest'
    <2>1. ~AppendFits(work) /\ Discard /\ UNCHANGED <<db, verified, pass, faults>>
      BY <1>11 DEF ImportLatch
    <2>2. faults # 0 BY <1>2, <2>1
    <2> QED BY <1>d, <2>1, <2>2 DEF IntactInv, NoFalseAlarm, VerdictOnDurablePrefix
  <1>12. ASSUME NEW p \in Proc, ImportMark(p) PROVE Rest'
    <2>1. /\ UNCHANGED <<db, writer, status, verified, pass, faults>> /\ writer = p
          /\ \/ work' = work
             \/ work' = [work EXCEPT !.hw = Put(@, outcome.offer.key,
                                               [ver |-> outcome.offer.ver,
                                                body |-> outcome.offer.body])]
      BY <1>12 DEF ImportMark, memory
    <2>2. /\ work'.log = work.log /\ work'.autoinc = work.autoinc
          /\ work'.bounds = work.bounds /\ work'.frontier = work.frontier
          /\ work'.idem = work.idem /\ work'.imported = work.imported
      BY <1>1, <2>1 DEF IsDb
    <2>3. Sound(work) => Sound(work') BY <2>2, MarkFacts
    <2>4. Extends(db, work') BY <1>1, <2>2, ExtendsFacts
    <2> QED BY <1>2, <1>u, <1>i, <1>n, <1>v, <2>1, <2>3, <2>4
  <1>13. ASSUME NEW p \in Proc, Commit(p) PROVE Rest'
    <2>1. /\ db' = work /\ work' = work /\ UNCHANGED <<status, pass, faults>>
          /\ Publish(p, work) \/ (UNCHANGED verified /\ ~(Size(work) > Size(db)))
      BY <1>13 DEF Commit
    <2>2. TransactionInv'
      BY <1>1, <2>1, ExtendsFacts DEF TransactionInv
    <2>3. IntactInv'
      BY <1>2, <2>1 DEF StoreInv, IntactInv
    <2>4. VerdictOnDurablePrefix'
      <3>1. CASE Publish(p, work)
        <4>1. Publish(p, db') BY <2>1, <3>1
        <4> QED BY <1>1, <1>w, <2>1, <4>1
      <3>2. CASE UNCHANGED verified
        <4> SUFFICES ASSUME faults = 0, NEW q \in Proc
                     PROVE /\ verified[q].size <= Size(work)
                           /\ verified[q].head = HashAt(work, verified[q].size)
          BY <2>1, <3>2 DEF VerdictOnDurablePrefix
        <4>1. verified[q].size <= Size(db) /\ verified[q].head = HashAt(db, verified[q].size)
          BY DEF StoreInv, VerdictOnDurablePrefix
        <4> QED BY <1>1, <4>1, ExtendsFacts
      <3> QED BY <2>1, <3>1, <3>2
    <2> QED BY <1>n, <2>1, <2>2, <2>3, <2>4
  <1>14. ASSUME NEW p \in Proc, Rollback(p) PROVE Rest'
    <2>1. Discard /\ UNCHANGED <<db, status, verified, pass, faults>>
      BY <1>14 DEF Rollback
    <2>2. work' = db BY <2>1 DEF Discard
    <2> QED BY <1>2, <1>d, <1>i, <1>n, <1>v, <2>1, <2>2
  <1>15. ASSUME NEW p \in Proc, ServeSnapshot(p) PROVE Rest'
    <2>1. UNCHANGED <<db, writer, work, status, verified, pass, faults>>
      BY <1>15 DEF ServeSnapshot, storage, memory
    <2> QED BY <1>2, <1>t, <1>i, <1>n, <1>v, <2>1
  <1>16. ASSUME NEW p \in Proc, PassBegin(p) PROVE Rest'
    <2>1. /\ UNCHANGED <<db, writer, work, status, verified, faults>>
          /\ pass' = [pass EXCEPT ![p] = db]
      BY <1>16 DEF PassBegin, storage
    <2>2. IntactInv'
      BY <1>2, <2>1 DEF StoreInv, IntactInv, TypeOK, Sound
    <2> QED BY <1>t, <1>n, <1>v, <2>1, <2>2
  <1>17. ASSUME NEW p \in Proc, PassEnd(p) PROVE Rest'
    <2>1. /\ UNCHANGED <<db, writer, work, faults>>
          /\ pass' = [pass EXCEPT ![p] = NoPass] /\ pass[p] # NoPass
          /\ \/ UNCHANGED <<status, verified>>
             \/ ~PassClean(p) /\ UNCHANGED verified
             \/ Publish(p, db) /\ UNCHANGED status
      BY <1>17 DEF PassEnd, storage
    <2>2. TransactionInv' /\ IntactInv' BY <1>t, <1>j, <2>1
    <2>3. faults = 0 => PassClean(p)
      BY <1>2, <2>1 DEF StoreInv, IntactInv, PassClean
    <2>4. CASE UNCHANGED <<status, verified>>
      BY <1>n, <1>v, <2>1, <2>2, <2>4
    <2>5. CASE ~PassClean(p) /\ UNCHANGED verified
      <3>1. faults # 0 BY <2>3, <2>5
      <3> QED BY <1>v, <2>1, <2>2, <2>5, <3>1 DEF NoFalseAlarm
    <2>6. CASE Publish(p, db) /\ UNCHANGED status
      <3>1. Publish(p, db') /\ IsDb(db') /\ Extends(db, db')
        BY <1>1, <2>1, <2>6
      <3> QED BY <1>n, <1>w, <2>1, <2>2, <2>6, <3>1
    <2> QED BY <2>1, <2>4, <2>5, <2>6
  <1>18. ASSUME NEW p \in Proc, PassFail(p) PROVE Rest'
    <2>1. UNCHANGED <<db, writer, work>> /\ faults' = faults + 1 /\ faults \in Nat
      BY <1>18 DEF PassFail, storage, StoreInv, TypeOK
    <2>2. faults' # 0 BY <2>1
    <2> QED BY <1>t, <2>1, <2>2 DEF IntactInv, NoFalseAlarm, VerdictOnDurablePrefix
  <1>19. ASSUME Tick PROVE Rest'
    <2>1. UNCHANGED <<db, writer, work, status, verified, pass, faults>>
      BY <1>19 DEF Tick, storage
    <2> QED BY <1>2, <1>t, <1>i, <1>n, <1>v, <2>1
  <1>20. ASSUME NEW kind \in FaultKinds, Corrupt(kind) PROVE Rest'
    <2>1. work' = db' /\ faults' = faults + 1 /\ faults \in Nat
      BY <1>20 DEF Corrupt, StoreInv, TypeOK
    <2>2. faults' # 0 BY <2>1
    <2>3. TransactionInv'
      BY <1>0, <2>1, ExtendsFacts DEF TransactionInv, TypeOK
    <2> QED BY <2>2, <2>3 DEF IntactInv, NoFalseAlarm, VerdictOnDurablePrefix
  <1>21. ASSUME UNCHANGED vars PROVE Rest'
    <2>1. UNCHANGED <<db, writer, work, status, verified, pass, faults>>
      BY <1>21 DEF vars, storage, memory
    <2> QED BY <1>2, <1>t, <1>i, <1>n, <1>v, <2>1
  <1>22. Rest'
    BY <1>3, <1>4, <1>5, <1>6, <1>7, <1>8, <1>9, <1>10, <1>11, <1>12, <1>13, <1>14,
       <1>15, <1>16, <1>17, <1>18, <1>19, <1>20, <1>21 DEF Next, Step
  <1> QED BY <1>0, <1>22 DEF StoreInv

(* The inductive invariant holds in every reachable state.                 *)
THEOREM StoreInvariant == Spec => []StoreInv
  <1>1. Init => StoreInv
    <2> SUFFICES ASSUME Init PROVE StoreInv
      OBVIOUS
    <2>1. TypeOK
      <3>1. Genesis \in Hash BY DEF Genesis, Hash
      <3> QED BY <3>1, EmptyFacts, TimingAssumption DEF Init, TypeOK, Idle, StaleAfter
    <2>2. Size(EmptyDb) = 0 BY DEF Size, EmptyDb
    <2>3. TransactionInv /\ IntactInv
      BY EmptyFacts, ExtendsFacts DEF Init, TransactionInv, IntactInv
    <2>4. NoFalseAlarm BY DEF Init, NoFalseAlarm
    <2>5. VerdictOnDurablePrefix
      BY <2>2 DEF Init, VerdictOnDurablePrefix, HashAt
    <2> QED BY <2>1, <2>3, <2>4, <2>5 DEF StoreInv
  <1> QED BY <1>1, InvStep, PTL DEF Spec

(* Whatever writers, crashes and rollbacks of any number of instances do,  *)
(* the startup verification accepts the database they leave.               *)
THEOREM IntactStoreAlwaysVerifies == Spec => []IntactStoreVerifies
  <1>1. StoreInv => IntactStoreVerifies
    BY DEF StoreInv, IntactInv, Sound, IntactStoreVerifies
  <1> QED BY <1>1, StoreInvariant, PTL

(* Over intact storage no instance ever latches: the append anchors and    *)
(* the verification pass raise no false alarm, whatever raced them.        *)
THEOREM NeverAFalseAlarm == Spec => []NoFalseAlarm
  <1>1. StoreInv => NoFalseAlarm BY DEF StoreInv
  <1> QED BY <1>1, StoreInvariant, PTL

(* A cached verdict always names an entry of the committed log.            *)
THEOREM VerdictIsDurable == Spec => []VerdictOnDurablePrefix
  <1>1. StoreInv => VerdictOnDurablePrefix BY DEF StoreInv
  <1> QED BY <1>1, StoreInvariant, PTL

(* No operation of any instance changes or removes a committed entry: only *)
(* Commit and the rebuild at startup write the database, and what they     *)
(* write extends the log.                                                  *)
THEOREM LogIsAppendOnly == Spec => AppendOnly
  <1>1. StoreInv /\ [Next]_vars => [faults' = faults => Extends(db, db')]_vars
    <2> SUFFICES ASSUME StoreInv, [Next]_vars, faults' = faults PROVE Extends(db, db')
      OBVIOUS
    <2>1. IsDb(db) /\ Extends(db, db) /\ Extends(db, work) /\ faults \in Nat
      BY ExtendsFacts DEF StoreInv, TypeOK, TransactionInv
    <2>2. ASSUME NEW p \in Proc, Open(p) PROVE Extends(db, db')
      BY <2>1, <2>2, EnsureFacts, ExtendsFacts DEF Open, storage
    <2>3. ASSUME NEW p \in Proc, Commit(p) PROVE Extends(db, db')
      BY <2>1, <2>3 DEF Commit
    <2>4. ASSUME NEW kind \in FaultKinds, Corrupt(kind) PROVE FALSE
      BY <2>1, <2>4 DEF Corrupt
    <2>5. ASSUME UNCHANGED db PROVE Extends(db, db')
      BY <2>1, <2>5
    <2>6. ASSUME NEW p \in Proc, Step(p), ~Open(p), ~Commit(p) PROVE UNCHANGED db
      <3>1. CASE Crash(p) BY <3>1 DEF Crash
      <3>2. CASE \E r \in Body : AppendBegin(p, r) BY <3>2 DEF AppendBegin
      <3>3. CASE \E k \in Scope, r \in Body : Submit(p, k, r) BY <3>3 DEF Submit, storage
      <3>4. CASE SubmitBegin(p) BY <3>4 DEF SubmitBegin
      <3>5. CASE SubmitRefused(p) BY <3>5 DEF SubmitRefused, storage
      <3>6. CASE \E o \in Offers, older \in BOOLEAN : ImportBegin(p, o, older)
        BY <3>6 DEF ImportBegin
      <3>7. CASE ImportRow(p) \/ ImportLatch(p) \/ ImportMark(p)
        BY <3>7 DEF ImportRow, ImportLatch, ImportMark
      <3>8. CASE Rollback(p) BY <3>8 DEF Rollback
      <3>9. CASE ServeSnapshot(p) \/ PassBegin(p) \/ PassEnd(p) \/ PassFail(p)
        BY <3>9 DEF ServeSnapshot, PassBegin, PassEnd, PassFail, storage
      <3> QED BY <2>6, <3>1, <3>2, <3>3, <3>4, <3>5, <3>6, <3>7, <3>8, <3>9 DEF Step
    <2>7. Tick \/ UNCHANGED vars => UNCHANGED db
      BY DEF Tick, vars, storage
    <2> QED BY <2>2, <2>3, <2>4, <2>5, <2>6, <2>7 DEF Next
  <1> QED BY <1>1, StoreInvariant, PTL DEF Spec, AppendOnly
----------------------------------------------------------------------------

(***************************************************************************)
(* What steps do to the database, by kind.                                 *)
(***************************************************************************)

(* Nothing is written.                                                     *)
Quiet == /\ UNCHANGED <<db, writer, work, todo, outcome, accepted, replayed>>
         /\ faults' \in {faults, faults + 1}

(* The startup rebuild of the boundary cache.                              *)
Rebuild == /\ writer = Nobody /\ IntegrityOK(db)
           /\ db' = EnsureBoundaries(db) /\ work' = db'
           /\ UNCHANGED <<writer, todo, outcome, accepted, replayed, faults>>

(* The open transaction is lost.                                           *)
Drop == Discard /\ UNCHANGED <<db, accepted, replayed, faults>>

(* A direct append has written its rows.                                   *)
Appends(p, r) == /\ writer = Nobody /\ AppendFits(db)
                 /\ Begin(p, AppendRow(db, r), <<>>, [kind |-> "append"])
                 /\ UNCHANGED <<db, accepted, replayed, faults>>

Effect ==
  \/ Quiet \/ Rebuild \/ Drop
  \/ \E p \in Proc, r \in Body : Appends(p, r)
  \/ \E p \in Proc : SubmitBegin(p)
  \/ \E p \in Proc, o \in Offers, older \in BOOLEAN : ImportBegin(p, o, older)
  \/ \E p \in Proc : ImportRow(p) \/ ImportMark(p) \/ Commit(p)
  \/ \E kind \in FaultKinds : Corrupt(kind)

(* Every step of the store is of one of these kinds.                       *)
LEMMA StepEffect == [Next]_vars => Effect
  <1> SUFFICES ASSUME [Next]_vars PROVE Effect
    OBVIOUS
  <1>1. ASSUME NEW p \in Proc, Open(p) PROVE Effect
    <2>1. CASE UNCHANGED storage
      BY <1>1, <2>1 DEF Open, storage, history, Effect, Quiet
    <2>2. CASE ~UNCHANGED storage
      BY <1>1, <2>2 DEF Open, history, Effect, Rebuild
    <2> QED BY <2>1, <2>2
  <1>2. ASSUME NEW p \in Proc, Crash(p) PROVE Effect
    BY <1>2 DEF Crash, history, Effect, Quiet, Drop
  <1>3. ASSUME NEW p \in Proc, NEW r \in Body, AppendBegin(p, r) PROVE Effect
    <2>1. UNCHANGED <<db, accepted, replayed, faults>> /\ writer = Nobody
      BY <1>3 DEF AppendBegin, history
    <2>2. CASE AppendFits(db) /\ Begin(p, AppendRow(db, r), <<>>, [kind |-> "append"])
      <3>1. Appends(p, r) BY <2>1, <2>2 DEF Appends
      <3> QED BY <3>1 DEF Effect
    <2>3. CASE UNCHANGED <<writer, work, todo, outcome>>
      BY <2>1, <2>3 DEF Effect, Quiet
    <2> QED BY <1>3, <2>2, <2>3 DEF AppendBegin
  <1>4. ASSUME NEW p \in Proc, NEW k \in Scope, NEW r \in Body, Submit(p, k, r) PROVE Effect
    BY <1>4 DEF Submit, storage, history, Effect, Quiet
  <1>5. ASSUME NEW p \in Proc, SubmitRefused(p) PROVE Effect
    BY <1>5 DEF SubmitRefused, storage, history, Effect, Quiet
  <1>6. ASSUME NEW p \in Proc, ImportLatch(p) \/ Rollback(p) PROVE Effect
    BY <1>6 DEF ImportLatch, Rollback, history, Effect, Drop
  <1>7. ASSUME NEW p \in Proc, ServeSnapshot(p) \/ PassBegin(p) \/ PassEnd(p) PROVE Effect
    BY <1>7 DEF ServeSnapshot, PassBegin, PassEnd, storage, history, Effect, Quiet
  <1>8. ASSUME NEW p \in Proc, PassFail(p) PROVE Effect
    BY <1>8 DEF PassFail, storage, history, Effect, Quiet
  <1>9. Tick \/ UNCHANGED vars => Effect
    BY DEF Tick, vars, storage, history, Effect, Quiet
  <1>10. ASSUME NEW p \in Proc,
                SubmitBegin(p) \/ (\E o \in Offers, older \in BOOLEAN : ImportBegin(p, o, older))
                \/ ImportRow(p) \/ ImportMark(p) \/ Commit(p)
         PROVE Effect
    BY <1>10 DEF Effect
  <1>11. (\E kind \in FaultKinds : Corrupt(kind)) => Effect
    BY DEF Effect
  <1> QED BY <1>1, <1>2, <1>3, <1>4, <1>5, <1>6, <1>7, <1>8, <1>9, <1>10, <1>11
          DEF Next, Step

(* Storage that is intact after a step was intact before it.               *)
LEMMA FaultStep ==
  ASSUME TypeOK, [Next]_vars, faults' = 0
  PROVE  faults = 0 /\ ~(\E kind \in FaultKinds : Corrupt(kind))
  <1>1. Effect BY StepEffect
  <1>2. faults \in Nat BY TimingAssumption DEF TypeOK
  <1>3. faults' = faults \/ faults' = faults + 1
    <2>1. Quiet \/ Rebuild \/ Drop => faults' = faults \/ faults' = faults + 1
      BY DEF Quiet, Rebuild, Drop
    <2>2. (\E p \in Proc, r \in Body : Appends(p, r)) => faults' = faults
      BY DEF Appends
    <2>3. (\E p \in Proc : SubmitBegin(p) \/ ImportRow(p) \/ ImportMark(p) \/ Commit(p))
            => faults' = faults
      BY DEF SubmitBegin, ImportRow, ImportMark, Commit
    <2>4. (\E p \in Proc, o \in Offers, older \in BOOLEAN : ImportBegin(p, o, older))
            => faults' = faults
      BY DEF ImportBegin
    <2>5. (\E kind \in FaultKinds : Corrupt(kind)) => faults' = faults + 1
      BY DEF Corrupt
    <2> QED BY <1>1, <2>1, <2>2, <2>3, <2>4, <2>5 DEF Effect
  <1>4. ASSUME NEW kind \in FaultKinds, Corrupt(kind) PROVE FALSE
    BY <1>2, <1>4 DEF Corrupt
  <1> QED BY <1>2, <1>3, <1>4
----------------------------------------------------------------------------
(***************************************************************************)
(* The transaction's owner, the calls in flight and the latch.             *)
(***************************************************************************)
Answering == {"accept", "replay"}

(* Only a ready instance is inside a transaction, and a submission's       *)
(* transaction belongs to a call that has not waited too long.             *)
OwnerInv == writer # Nobody => status[writer] = "ready"
OutcomeInv ==
  /\ writer = Nobody => outcome = Idle
  /\ outcome.kind \in Answering => /\ writer # Nobody /\ call[writer] # NoCall
                                   /\ outcome.scope = call[writer].scope
                                   /\ outcome.rec = call[writer].rec
CallInv ==
  \A p \in Proc : call[p] # NoCall => /\ call[p].now <= clock
                                     /\ clock <= call[p].now + MaxWait
SessionInv == OwnerInv /\ OutcomeInv /\ CallInv

(* Time does not go back, and the call a transaction answers stays.        *)
SessionKept ==
  /\ clock <= clock'
  /\ writer' = writer /\ outcome' = outcome /\ outcome.kind \in Answering
       => call'[writer] = call[writer]

(* Every action keeps that.                                                *)
LEMMA SessionStep == StoreInv /\ SessionInv /\ [Next]_vars => SessionInv' /\ SessionKept
  <1> SUFFICES ASSUME StoreInv, SessionInv, [Next]_vars PROVE SessionInv' /\ SessionKept
    OBVIOUS
  <1> DEFINE Goal == SessionInv' /\ SessionKept
  <1>t. /\ Nobody \notin Proc /\ writer \in Proc \cup {Nobody}
        /\ clock \in Nat /\ MaxWait \in Nat
        /\ DOMAIN status = Proc /\ DOMAIN call = Proc
        /\ \A p \in Proc : call[p] # NoCall => call[p].now \in Nat
    BY NobodyAssumption, TimingAssumption DEF StoreInv, TypeOK
  <1>i. Idle.kind \notin Answering /\ "append" \notin Answering
        /\ "import" \notin Answering /\ "imported" \notin Answering
    BY DEF Idle, Answering
  <1>o. OwnerInv /\ OutcomeInv /\ CallInv BY DEF SessionInv
  <1>1. ASSUME UNCHANGED <<writer, outcome, clock, call, status>> PROVE Goal
    BY <1>1, <1>o, <1>t DEF SessionInv, OwnerInv, OutcomeInv, CallInv, SessionKept
  <1>2. ASSUME NEW p \in Proc, NEW d, NEW b, NEW o, writer = Nobody, WritesAllowed(p),
               Begin(p, d, b, o), UNCHANGED <<clock, call, status>>,
               \/ o.kind \notin Answering
               \/ call[p] # NoCall /\ o.scope = call[p].scope /\ o.rec = call[p].rec
        PROVE Goal
    BY <1>2, <1>o, <1>t DEF SessionInv, OwnerInv, OutcomeInv, CallInv, SessionKept, Begin,
       WritesAllowed
  <1>3. ASSUME NEW p \in Proc, writer = p,
               writer' = Nobody, outcome' = Idle, UNCHANGED clock,
               UNCHANGED call \/ call' = [call EXCEPT ![p] = NoCall]
        PROVE Goal
    BY <1>3, <1>i, <1>o, <1>t DEF SessionInv, OwnerInv, OutcomeInv, CallInv, SessionKept
  <1>4. ASSUME NEW p \in Proc, writer # p, UNCHANGED <<writer, outcome, clock>>,
               \/ UNCHANGED call
               \/ call' = [call EXCEPT ![p] = NoCall]
               \/ \E k, r : call' = [call EXCEPT ![p] = [scope |-> k, rec |-> r, now |-> clock]],
               \A q \in Proc \ {p} : status'[q] = status[q]
        PROVE Goal
    <2>1. \A q \in Proc \ {p} : call'[q] = call[q]
      BY <1>4, <1>t
    <2>2. OwnerInv' BY <1>4, <1>o, <1>t DEF OwnerInv
    <2>3. OutcomeInv' BY <1>4, <1>o, <1>t, <2>1 DEF OutcomeInv
    <2>4. call'[p] # NoCall => call'[p] = call[p] \/ call'[p].now = clock
      BY <1>4, <1>t
    <2>5. CallInv' BY <1>4, <1>o, <1>t, <2>1, <2>4 DEF CallInv
    <2>6. SessionKept BY <1>4, <1>o, <1>t, <2>1 DEF SessionKept, OutcomeInv
    <2> QED BY <2>2, <2>3, <2>5, <2>6 DEF SessionInv
  <1>l. ASSUME NEW p \in Proc, Latch(p) PROVE \A q \in Proc \ {p} : status'[q] = status[q]
    BY <1>l, <1>t DEF Latch
  <1> HIDE DEF Goal
  <1>5. ASSUME NEW p \in Proc, Open(p) PROVE Goal
    <2>1. /\ status[p] = "down" /\ UNCHANGED <<writer, outcome, call, clock>>
          /\ status' = [status EXCEPT ![p] = "ready"]
      BY <1>5 DEF Open, storage
    <2>2. writer # p BY <2>1, <1>o, <1>t DEF OwnerInv
    <2>3. \A q \in Proc \ {p} : status'[q] = status[q] BY <2>1, <1>t
    <2> QED BY <1>4, <2>1, <2>2, <2>3
  <1>6. ASSUME NEW p \in Proc, Crash(p) PROVE Goal
    <2>1. /\ UNCHANGED clock /\ call' = [call EXCEPT ![p] = NoCall]
          /\ status' = [status EXCEPT ![p] = "down"]
      BY <1>6 DEF Crash
    <2>2. CASE writer = p
      BY <1>3, <1>6, <2>1, <2>2 DEF Crash, Discard
    <2>3. CASE writer # p
      <3>1. \A q \in Proc \ {p} : status'[q] = status[q] BY <2>1, <1>t
      <3> QED BY <1>4, <1>6, <2>1, <2>3, <3>1 DEF Crash
    <2> QED BY <2>2, <2>3
  <1>7. ASSUME NEW p \in Proc, NEW r \in Body, AppendBegin(p, r) PROVE Goal
    <2>1. UNCHANGED <<call, clock>> /\ writer = Nobody /\ WritesAllowed(p) /\ writer # p
      BY <1>7, <1>t DEF AppendBegin
    <2>2. CASE Begin(p, AppendRow(db, r), <<>>, [kind |-> "append"]) /\ UNCHANGED status
      BY <1>2, <1>i, <2>1, <2>2
    <2>3. CASE Latch(p) /\ UNCHANGED <<writer, outcome>>
      BY <1>4, <1>l, <2>1, <2>3
    <2> QED BY <1>7, <2>2, <2>3 DEF AppendBegin
  <1>8. ASSUME NEW p \in Proc, NEW k \in Scope, NEW r \in Body, Submit(p, k, r) PROVE Goal
    <2>1. /\ writer # p /\ UNCHANGED <<writer, outcome, clock, status>>
          /\ call' = [call EXCEPT ![p] = [scope |-> k, rec |-> r, now |-> clock]]
      BY <1>8 DEF Submit, storage
    <2> QED BY <1>4, <2>1
  <1>9. ASSUME NEW p \in Proc, SubmitBegin(p) PROVE Goal
    <2>1. /\ writer = Nobody /\ WritesAllowed(p) /\ call[p] # NoCall
          /\ UNCHANGED <<clock, call, status>>
          /\ \E d, k, q, h : Begin(p, d, <<>>, Answer(k, call[p], q, h))
      BY <1>9 DEF SubmitBegin, memory
    <2>2. \A k, q, h : /\ Answer(k, call[p], q, h).scope = call[p].scope
                       /\ Answer(k, call[p], q, h).rec = call[p].rec
      BY DEF Answer
    <2> QED BY <1>2, <2>1, <2>2
  <1>10. ASSUME NEW p \in Proc, SubmitRefused(p) PROVE Goal
    <2>1. /\ writer = Nobody /\ UNCHANGED <<writer, outcome, clock>>
          /\ call' = [call EXCEPT ![p] = NoCall]
          /\ Latch(p) \/ UNCHANGED status
      BY <1>10 DEF SubmitRefused, storage
    <2> QED BY <1>4, <1>l, <1>t, <2>1
  <1>11. ASSUME NEW p \in Proc, NEW o \in Offers, NEW older \in BOOLEAN, ImportBegin(p, o, older)
         PROVE Goal
    <2>1. /\ writer = Nobody /\ WritesAllowed(p) /\ UNCHANGED <<clock, call, status>>
          /\ Begin(p, db, o.batch, [kind |-> "import", offer |-> o, advance |-> Advances(db, o)])
      BY <1>11 DEF ImportBegin, memory
    <2> QED BY <1>2, <1>i, <2>1
  <1>12. ASSUME NEW p \in Proc, ImportRow(p) PROVE Goal
    BY <1>1, <1>12 DEF ImportRow, memory
  <1>13. ASSUME NEW p \in Proc, ImportLatch(p) PROVE Goal
    BY <1>3, <1>13 DEF ImportLatch, Discard
  <1>14. ASSUME NEW p \in Proc, ImportMark(p) PROVE Goal
    <2>1. /\ writer = p /\ UNCHANGED <<writer, clock, call, status>>
          /\ outcome.kind = "import" /\ outcome' = [outcome EXCEPT !.kind = "imported"]
      BY <1>14 DEF ImportMark, memory
    <2>2. outcome'.kind = "imported"
      BY <2>1 DEF StoreInv, TypeOK
    <2> QED BY <2>1, <2>2, <1>i, <1>o, <1>t
            DEF Goal, SessionInv, OwnerInv, OutcomeInv, CallInv, SessionKept
  <1>15. ASSUME NEW p \in Proc, Commit(p) \/ Rollback(p) PROVE Goal
    BY <1>3, <1>15 DEF Commit, Rollback, Discard
  <1>16. ASSUME NEW p \in Proc, ServeSnapshot(p) \/ PassBegin(p) PROVE Goal
    BY <1>1, <1>16 DEF ServeSnapshot, PassBegin, storage, memory
  <1>17. ASSUME NEW p \in Proc, PassEnd(p) \/ PassFail(p) PROVE Goal
    <2>1. /\ writer # p /\ UNCHANGED <<writer, outcome, call, clock>>
          /\ Latch(p) \/ UNCHANGED status
      BY <1>17 DEF PassEnd, PassFail, storage
    <2> QED BY <1>4, <1>l, <2>1
  <1>18. ASSUME Tick PROVE Goal
    <2>1. /\ UNCHANGED <<writer, outcome, call, status>>
          /\ clock' = clock \/ clock' = clock + 1
          /\ \A p \in Proc : call[p] # NoCall => clock - call[p].now < MaxWait
      BY <1>18 DEF Tick, storage
    <2>2. CallInv' BY <1>o, <1>t, <2>1 DEF CallInv
    <2> QED BY <1>o, <1>t, <2>1, <2>2 DEF Goal, SessionInv, OwnerInv, OutcomeInv, SessionKept
  <1>19. ASSUME NEW kind \in FaultKinds, Corrupt(kind) PROVE Goal
    BY <1>1, <1>19 DEF Corrupt, memory
  <1>20. ASSUME UNCHANGED vars PROVE Goal
    BY <1>1, <1>20 DEF vars, storage, memory
  <1>21. Goal
    BY <1>5, <1>6, <1>7, <1>8, <1>9, <1>10, <1>11, <1>12, <1>13, <1>14, <1>15, <1>16,
       <1>17, <1>18, <1>19, <1>20 DEF Next, Step
  <1> QED BY <1>21 DEF Goal

(* The store's and the session's invariants together.                      *)
LEMMA SessionInvariant == Spec => [](StoreInv /\ SessionInv)
  <1>1. Init => SessionInv
    BY DEF Init, SessionInv, OwnerInv, OutcomeInv, CallInv, Idle, Answering
  <1>2. StoreInv /\ SessionInv /\ [Next]_vars => SessionInv'
    BY SessionStep
  <1> QED BY <1>1, <1>2, StoreInvariant, PTL DEF Spec

(* What a step does to an instance's status.                               *)
LEMMA StatusStep ==
  ASSUME TypeOK, [Next]_vars, NEW p \in Proc, status[p] = "failed"
  PROVE  status'[p] \in {"failed", "down"}
  <1> DEFINE Goal == status'[p] \in {"failed", "down"}
  <1>t. DOMAIN status = Proc BY DEF TypeOK
  <1>1. UNCHANGED status => Goal OBVIOUS
  <1>2. ASSUME NEW q \in Proc, Latch(q) PROVE Goal
    BY <1>2, <1>t DEF Latch
  <1>3. ASSUME NEW q \in Proc, status[q] = "down",
               status' = [status EXCEPT ![q] = "ready"]
        PROVE Goal
    BY <1>3, <1>t
  <1>4. ASSUME NEW q \in Proc, status' = [status EXCEPT ![q] = "down"] PROVE Goal
    BY <1>4, <1>t
  <1> HIDE DEF Goal
  <1>5. ASSUME NEW q \in Proc, Step(q) PROVE Goal
    <2>1. CASE Open(q) BY <1>3, <2>1 DEF Open
    <2>2. CASE Crash(q) BY <1>4, <2>2 DEF Crash
    <2>3. CASE \E r \in Body : AppendBegin(q, r) BY <1>1, <1>2, <2>3 DEF AppendBegin
    <2>4. CASE \E k \in Scope, r \in Body : Submit(q, k, r) BY <1>1, <2>4 DEF Submit
    <2>5. CASE SubmitBegin(q) BY <1>1, <2>5 DEF SubmitBegin, memory
    <2>6. CASE SubmitRefused(q) BY <1>1, <1>2, <2>6 DEF SubmitRefused
    <2>7. CASE \E o \in Offers, older \in BOOLEAN : ImportBegin(q, o, older)
      BY <1>1, <2>7 DEF ImportBegin, memory
    <2>8. CASE ImportRow(q) \/ ImportMark(q) BY <1>1, <2>8 DEF ImportRow, ImportMark, memory
    <2>9. CASE ImportLatch(q) BY <1>2, <2>9 DEF ImportLatch
    <2>10. CASE Commit(q) \/ Rollback(q) BY <1>1, <2>10 DEF Commit, Rollback
    <2>11. CASE ServeSnapshot(q) \/ PassBegin(q)
      BY <1>1, <2>11 DEF ServeSnapshot, PassBegin, memory
    <2>12. CASE PassEnd(q) \/ PassFail(q) BY <1>1, <1>2, <2>12 DEF PassEnd, PassFail
    <2> QED BY <1>5, <2>1, <2>2, <2>3, <2>4, <2>5, <2>6, <2>7, <2>8, <2>9, <2>10, <2>11, <2>12
            DEF Step
  <1>6. Tick \/ (\E kind \in FaultKinds : Corrupt(kind)) \/ UNCHANGED vars => Goal
    BY <1>1 DEF Tick, Corrupt, vars, memory
  <1>7. Goal BY <1>5, <1>6 DEF Next
  <1> QED BY <1>7 DEF Goal

(* Only a restart clears a latch, whatever passes and writes were under    *)
(* way when the instance latched.                                          *)
THEOREM LatchOnlyClearedByRestart == Spec => LatchSticks
  <1>1. TypeOK /\ [Next]_vars
          => [\A p \in Proc : status[p] = "failed" => status'[p] \in {"failed", "down"}]_vars
    BY StatusStep
  <1> QED BY <1>1, TypeCorrect, PTL DEF Spec, LatchSticks

(* An instance that has latched neither commits what it was writing nor    *)
(* begins another transaction.                                             *)
THEOREM NoCommitWhileLatched == Spec => LatchedNeverCommits
  <1> DEFINE A == \A p \in Proc : status[p] = "failed"
                                    => writer' # p /\ (writer = p => db' = db)
  <1>1. StoreInv /\ SessionInv /\ [Next]_vars => [A]_vars
    <2> SUFFICES ASSUME StoreInv, SessionInv, [Next]_vars, NEW p \in Proc, status[p] = "failed"
                 PROVE writer' # p /\ writer # p
      OBVIOUS
    <2>1. p # Nobody BY NobodyAssumption
    <2>2. writer # p BY <2>1 DEF SessionInv, OwnerInv
    <2>3. status'[p] # "ready" BY StatusStep DEF StoreInv
    <2>4. OwnerInv' BY SessionStep DEF SessionInv
    <2> QED BY <2>1, <2>2, <2>3, <2>4 DEF OwnerInv
  <1> QED BY <1>1, SessionInvariant, PTL DEF Spec, LatchedNeverCommits
----------------------------------------------------------------------------
(***************************************************************************)
(* What each kind of write leaves in each table.                           *)
(***************************************************************************)

(* The boundary row of one more entry.                                     *)
GrowsBounds(e, d, r) ==
  e.bounds = Put(d.bounds, Size(d) + 1,
                 [head |-> NewHash(d, r), root |-> Root(e.frontier)])

(* A keyed append, table by table.                                         *)
LEMMA KeyedFields ==
  ASSUME NEW d, IsDb(d), NEW k \in Scope, NEW r \in Rec, NEW now \in Nat,
         NEW e, e = AppendKeyed(d, k, r, now)
  PROVE  /\ e.log = Append(d.log, NewRow(d, r))
         /\ e.autoinc = d.autoinc + 1
         /\ e.frontier = Append(d.frontier, NewHash(d, r)) /\ GrowsBounds(e, d, r)
         /\ DOMAIN e.idem = DOMAIN d.idem \cup {k}
         /\ \A j \in DOMAIN d.idem : j # k => e.idem[j] = d.idem[j]
         /\ e.idem[k].body = r /\ e.idem[k].seq = Size(e)
         /\ e.idem[k].hash = HeadHash(e) /\ e.idem[k].expires = now + TTL
         /\ e.imported = d.imported /\ e.hw = d.hw
         /\ Size(e) = Size(d) + 1 /\ HeadHash(e) = NewHash(d, r)
  <1> DEFINE a == AppendRow(d, r)
             row == [body |-> r, seq |-> Size(a), hash |-> HeadHash(a), expires |-> now + TTL]
  <1>1. IsAppend(a, d, r) BY AppendRowIsAppend
  <1> HIDE DEF a
  <1>2. IsDb(a) /\ Size(a) = Size(d) + 1 /\ HeadHash(a) = NewHash(d, r)
    BY <1>1, AppendRowType, AppendRows
  <1>3. /\ e.log = a.log /\ e.autoinc = a.autoinc
        /\ e.bounds = a.bounds /\ e.frontier = a.frontier
        /\ e.imported = a.imported /\ e.hw = a.hw
        /\ e.idem = Put(a.idem, k, row)
    BY <1>2 DEF AppendKeyed, IsDb, a
  <1>4. Size(e) = Size(a) /\ HeadHash(e) = HeadHash(a)
    BY <1>3 DEF Size, HeadHash, HashAt
  <1>5. /\ row.body = r /\ row.seq = Size(a)
        /\ row.hash = HeadHash(a) /\ row.expires = now + TTL
    OBVIOUS
  <1> HIDE DEF row
  <1>6. /\ DOMAIN e.idem = DOMAIN a.idem \cup {k} /\ e.idem[k] = row
        /\ \A j \in DOMAIN a.idem : j # k => e.idem[j] = a.idem[j]
    BY <1>3 DEF Put
  <1>7. a.idem = d.idem BY <1>1 DEF IsAppend
  <1>8. /\ DOMAIN e.idem = DOMAIN d.idem \cup {k}
        /\ \A j \in DOMAIN d.idem : j # k => e.idem[j] = d.idem[j]
        /\ e.idem[k].body = r /\ e.idem[k].seq = Size(e)
        /\ e.idem[k].hash = HeadHash(e) /\ e.idem[k].expires = now + TTL
    BY <1>4, <1>5, <1>6, <1>7
  <1> QED BY <1>1, <1>2, <1>3, <1>4, <1>8 DEF IsAppend, GrowsBounds

(* An imported record, table by table.                                     *)
LEMMA ImportFields ==
  ASSUME NEW d, IsDb(d), NEW r \in Rec, NEW e, e = AppendImport(d, r)
  PROVE  /\ e.log = Append(d.log, NewRow(d, r))
         /\ e.autoinc = d.autoinc + 1
         /\ e.frontier = Append(d.frontier, NewHash(d, r)) /\ GrowsBounds(e, d, r)
         /\ e.imported = Put(d.imported, r, Size(e))
         /\ e.idem = d.idem /\ e.hw = d.hw
         /\ Size(e) = Size(d) + 1 /\ HeadHash(e) = NewHash(d, r)
  <1> DEFINE a == AppendRow(d, r)
  <1>1. IsAppend(a, d, r) BY AppendRowIsAppend
  <1> HIDE DEF a
  <1>2. IsDb(a) /\ Size(a) = Size(d) + 1 /\ HeadHash(a) = NewHash(d, r)
    BY <1>1, AppendRowType, AppendRows
  <1>3. /\ e.log = a.log /\ e.autoinc = a.autoinc
        /\ e.bounds = a.bounds /\ e.frontier = a.frontier
        /\ e.idem = a.idem /\ e.hw = a.hw
        /\ e.imported = Put(a.imported, r, Size(a))
    BY <1>2 DEF AppendImport, IsDb, a
  <1>4. Size(e) = Size(a) /\ HeadHash(e) = HeadHash(a)
    BY <1>3 DEF Size, HeadHash, HashAt
  <1> QED BY <1>1, <1>2, <1>3, <1>4 DEF IsAppend, GrowsBounds

(* Deleting expired keys touches one table.                                *)
LEMMA PruneFields ==
  ASSUME NEW d, IsDb(d), NEW now, NEW e, e = Prune(d, now)
  PROVE  /\ e.log = d.log /\ e.autoinc = d.autoinc /\ e.bounds = d.bounds
         /\ e.frontier = d.frontier /\ e.imported = d.imported /\ e.hw = d.hw
         /\ \A k : k \in DOMAIN e.idem <=> k \in DOMAIN d.idem /\ d.idem[k].expires > now
         /\ \A k \in DOMAIN e.idem : e.idem[k] = d.idem[k]
         /\ Size(e) = Size(d) /\ HeadHash(e) = HeadHash(d)
  <1> DEFINE S == {k \in DOMAIN d.idem : d.idem[k].expires > now}
  <1>1. /\ e.log = d.log /\ e.autoinc = d.autoinc /\ e.bounds = d.bounds
        /\ e.frontier = d.frontier /\ e.imported = d.imported /\ e.hw = d.hw
        /\ e.idem = Keep(d.idem, S)
    BY DEF Prune, IsDb
  <1>2. /\ \A k : k \in DOMAIN e.idem <=> k \in DOMAIN d.idem /\ d.idem[k].expires > now
        /\ \A k \in DOMAIN e.idem : e.idem[k] = d.idem[k]
    BY <1>1 DEF Keep
  <1>3. Size(e) = Size(d) /\ HeadHash(e) = HeadHash(d)
    BY <1>1 DEF Size, HeadHash, HashAt
  <1> QED BY <1>1, <1>2, <1>3

(* The startup rebuild touches the boundary cache only.                    *)
LEMMA EnsureFields ==
  ASSUME NEW d, IsDb(d), NEW e, e = EnsureBoundaries(d)
  PROVE  /\ e.log = d.log /\ e.autoinc = d.autoinc /\ e.idem = d.idem
         /\ e.imported = d.imported /\ e.hw = d.hw
         /\ e.bounds = [n \in 1..Size(d) |-> BoundaryAt(d, n)]
         /\ e.frontier = Leaves(d)
         /\ Size(e) = Size(d) /\ HeadHash(e) = HeadHash(d)
  <1>1. /\ e.log = d.log /\ e.autoinc = d.autoinc /\ e.idem = d.idem
        /\ e.imported = d.imported /\ e.hw = d.hw
        /\ e.bounds = [n \in 1..Size(d) |-> BoundaryAt(d, n)]
        /\ e.frontier = Leaves(d)
    BY DEF EnsureBoundaries, IsDb
  <1> QED BY <1>1 DEF Size, HeadHash, HashAt

(* No storage fault considered here touches the sequence counter, the      *)
(* ledgers or a key's expiry; only a hash fault changes a log hash.        *)
LEMMA DamagedKeeps ==
  ASSUME NEW d, IsDb(d), NEW kind, NEW e \in Damaged(d, kind)
  PROVE  /\ e.autoinc = d.autoinc /\ e.imported = d.imported /\ e.hw = d.hw
         /\ DOMAIN e.idem = DOMAIN d.idem
         /\ \A k \in DOMAIN d.idem : e.idem[k].expires = d.idem[k].expires
         /\ Size(e) <= Size(d)
         /\ kind # "hash" => \A i \in 1..Size(e) : e.log[i].hash = d.log[i].hash
  <1>1. /\ d.log \in Seq(Row) /\ Size(d) \in Nat
        /\ \A i \in 1..Size(d) : d.log[i] \in Row
        /\ DOMAIN d = {"log", "autoinc", "bounds", "frontier", "idem", "imported", "hw"}
    BY HeadType DEF IsDb
  <1> DEFINE Ledgers == /\ e.autoinc = d.autoinc /\ e.imported = d.imported /\ e.hw = d.hw
             Answers == /\ DOMAIN e.idem = DOMAIN d.idem
                        /\ \A k \in DOMAIN d.idem : e.idem[k].expires = d.idem[k].expires
             Hashes == /\ Size(e) <= Size(d)
                       /\ kind # "hash" => \A i \in 1..Size(e) : e.log[i].hash = d.log[i].hash
             Goal == Ledgers /\ Answers /\ Hashes
  <1>2. ASSUME e.log = d.log PROVE Hashes BY <1>1, <1>2 DEF Size
  <1>3. ASSUME NEW i \in 1..Size(d), NEW row, e.log = [d.log EXCEPT ![i] = row],
               kind # "hash" => row.hash = d.log[i].hash
        PROVE Hashes
    <2>1. Len(e.log) = Len(d.log) BY <1>1, <1>3 DEF Size
    <2>2. \A j \in 1..Size(e) : e.log[j] = IF j = i THEN row ELSE d.log[j]
      BY <1>1, <1>3, <2>1 DEF Size
    <2> QED BY <1>1, <1>3, <2>1, <2>2 DEF Size
  <1>6. CASE kind = "truncate"
    <2>1. e = [d EXCEPT !.log = SubSeq(d.log, 1, Size(d) - 1)] /\ Size(d) > 0
      BY <1>6 DEF Damaged
    <2>2. e.log = SubSeq(d.log, 1, Size(d) - 1) /\ Ledgers /\ Answers
      BY <1>1, <2>1
    <2>3. e.log = SubSeq(d.log, 1, Size(d) - 1) /\ Size(d) > 0
      BY <2>1, <2>2
    <2>4. Len(e.log) = Size(d) - 1 /\ \A i \in 1..(Size(d) - 1) : e.log[i] = d.log[i]
      <3>1. ASSUME NEW s \in Seq(Row), NEW m \in Nat, m <= Len(s)
            PROVE Len(SubSeq(s, 1, m)) = m /\ \A i \in 1..m : SubSeq(s, 1, m)[i] = s[i]
        BY <3>1
      <3>2. Size(d) - 1 \in Nat /\ Size(d) - 1 <= Len(d.log) BY <1>1, <2>3 DEF Size
      <3> QED BY <1>1, <2>3, <3>1, <3>2
    <2>5. Size(e) = Size(d) - 1 BY <2>4 DEF Size
    <2>6. Hashes BY <1>1, <2>4, <2>5
    <2> QED BY <2>2, <2>6
  <1>7. CASE kind = "prune"
    <2>1. PICK i \in 1..(Size(d) - 1) : e = [d EXCEPT !.log[i].live = FALSE]
      BY <1>7 DEF Damaged
    <2>2. i \in 1..Size(d) /\ d.log[i] \in Row BY <1>1
    <2>3. /\ e.log = [d.log EXCEPT ![i] = [d.log[i] EXCEPT !.live = FALSE]]
          /\ Ledgers /\ Answers
      BY <1>1, <2>1, <2>2
    <2>4. [d.log[i] EXCEPT !.live = FALSE].hash = d.log[i].hash BY <2>2 DEF Row
    <2> QED BY <1>3, <2>2, <2>3, <2>4
  <1>8. CASE kind = "record"
    <2>1. PICK i \in 1..Size(d), r \in Body : e = [d EXCEPT !.log[i].rec = r]
      BY <1>8 DEF Damaged
    <2>2. d.log[i] \in Row BY <1>1
    <2>3. /\ e.log = [d.log EXCEPT ![i] = [d.log[i] EXCEPT !.rec = r]]
          /\ Ledgers /\ Answers
      BY <1>1, <2>1, <2>2
    <2>4. [d.log[i] EXCEPT !.rec = r].hash = d.log[i].hash BY <2>2 DEF Row
    <2> QED BY <1>3, <2>3, <2>4
  <1>9. CASE kind = "hash"
    <2>0. PICK i \in 1..Size(d) :
             \E h \in OtherHash(d, i) : e = [d EXCEPT !.log[i].hash = h]
      BY <1>9 DEF Damaged
    <2>1. PICK h \in OtherHash(d, i) : e = [d EXCEPT !.log[i].hash = h]
      BY <2>0
    <2>2. /\ e.log = [d.log EXCEPT ![i] = [d.log[i] EXCEPT !.hash = h]]
          /\ Ledgers /\ Answers
      BY <1>1, <2>1
    <2> QED BY <1>3, <1>9, <2>2
  <1>10. CASE kind = "dropBoundary"
    <2>1. PICK n \in DOMAIN d.bounds :
             e = [d EXCEPT !.bounds = Keep(d.bounds, DOMAIN d.bounds \ {n})]
      BY <1>10 DEF Damaged
    <2> QED BY <1>1, <1>2, <2>1
  <1>11. CASE kind = "root"
    <2>1. PICK n \in DOMAIN d.bounds : e = [d EXCEPT !.bounds[n].root = Genesis]
      BY <1>11 DEF Damaged
    <2> QED BY <1>1, <1>2, <2>1
  <1>12. CASE kind = "frontier"
    <2>0. PICK i \in 1..Len(d.frontier) \cap 1..Size(d) :
             \E h \in OtherHash(d, i) : e = [d EXCEPT !.frontier[i] = h]
      BY <1>12 DEF Damaged
    <2>1. PICK h \in OtherHash(d, i) : e = [d EXCEPT !.frontier[i] = h]
      BY <2>0
    <2> QED BY <1>1, <1>2, <2>1
  <1>13. CASE kind = "answer"
    <2>1. PICK k \in DOMAIN d.idem : e = [d EXCEPT !.idem[k].hash = Genesis]
      BY <1>13 DEF Damaged
    <2>2. e.idem = [d.idem EXCEPT ![k] = [d.idem[k] EXCEPT !.hash = Genesis]] /\ Ledgers
          /\ e.log = d.log
      BY <1>1, <2>1
    <2>3. [d.idem[k] EXCEPT !.hash = Genesis].expires = d.idem[k].expires
      BY DEF IsDb
    <2>4. Answers BY <2>2, <2>3
    <2> QED BY <1>2, <2>2, <2>4
  <1>14. CASE kind \notin {"truncate", "prune", "record", "hash", "dropBoundary",
                           "root", "frontier", "answer"}
    BY <1>14 DEF Damaged
  <1> QED BY <1>6, <1>7, <1>8, <1>9, <1>10, <1>11, <1>12, <1>13, <1>14
----------------------------------------------------------------------------
(***************************************************************************)
(* Idempotency keys.                                                       *)
(***************************************************************************)

(* At time t, database d still protects the accepted submission a, or its  *)
(* retention is over.                                                      *)
Covers(t, d, a) ==
  \/ t >= a.at + MinRetention
  \/ a.scope \in DOMAIN d.idem /\ d.idem[a.scope].expires >= a.at + MinRetention

(* What makes RetentionHolds inductive: committed and uncommitted rows     *)
(* cover every accepted submission, and an accepting transaction takes a   *)
(* new sequence number for a key whose earlier submissions ran out.        *)
CoverInv ==
  \A a \in accepted : /\ a.at \in Nat /\ a.seq \in Nat /\ a.seq <= db.autoinc
                      /\ Covers(clock, db, a) /\ Covers(clock, work, a)
AcceptInv ==
  outcome.kind = "accept" =>
    /\ outcome.seq = work.autoinc /\ db.autoinc < work.autoinc
    /\ outcome.scope \in DOMAIN work.idem
    /\ work.idem[outcome.scope].expires = call[writer].now + TTL
    /\ \A a \in accepted : a.scope = outcome.scope => clock >= a.at + MinRetention
RetainInv ==
  db.autoinc <= work.autoinc /\ CoverInv /\ AcceptInv /\ RetentionHolds

(* Every action keeps the keys' invariant.                                 *)
LEMMA RetainStep == StoreInv /\ SessionInv /\ RetainInv /\ [Next]_vars => RetainInv'
  <1> SUFFICES ASSUME StoreInv, SessionInv, RetainInv, [Next]_vars PROVE RetainInv'
    OBVIOUS
  <1> DEFINE Same(d, e) == /\ DOMAIN d.idem \subseteq DOMAIN e.idem
                           /\ \A k \in DOMAIN d.idem : e.idem[k].expires = d.idem[k].expires
  <1>0. \A d : IsDb(d) => d.autoinc \in Nat BY DEF IsDb
  <1>t. /\ IsDb(db) /\ IsDb(work) /\ clock \in Nat /\ TypeOK
        /\ db.autoinc \in Nat /\ work.autoinc \in Nat
        /\ MinRetention \in Nat /\ TTL \in Nat /\ MaxWait \in Nat
        /\ TTL >= MinRetention + MaxWait
        /\ Nobody \notin Proc /\ writer \in Proc \cup {Nobody}
        /\ Idle.kind # "accept"
    BY <1>0, TimingAssumption, NobodyAssumption DEF StoreInv, TypeOK, Idle
  <1>u. clock' \in Nat /\ IsDb(db') /\ IsDb(work')
    BY TypeStep, TimingAssumption DEF StoreInv, TypeOK
  <1>s. SessionKept /\ clock <= clock' BY SessionStep DEF SessionKept
  <1>e. OutcomeInv /\ CallInv BY DEF SessionInv
  <1>i. CoverInv /\ AcceptInv /\ RetentionHolds /\ db.autoinc <= work.autoinc
    BY DEF RetainInv
  <1>w. writer = Nobody => work = db /\ outcome.kind # "accept"
    BY <1>e, <1>t DEF StoreInv, TransactionInv, OutcomeInv
  <1>c. ASSUME NEW d, NEW e, NEW a, a.at \in Nat, Covers(clock, d, a), Same(d, e)
        PROVE Covers(clock', e, a)
    <2>1. a.at + MinRetention \in Nat BY <1>c, <1>t
    <2> QED BY <1>c, <1>s, <1>t, <1>u, <2>1 DEF Covers
  <1>g. ASSUME accepted' = accepted, Same(db, db'), Same(db, work') \/ Same(work, work'),
               db'.autoinc = db.autoinc, db'.autoinc <= work'.autoinc,
               outcome'.kind # "accept"
        PROVE RetainInv'
    <2>1. CoverInv' BY <1>c, <1>g, <1>i DEF CoverInv
    <2>2. AcceptInv' BY <1>g DEF AcceptInv
    <2>3. RetentionHolds' BY <1>g, <1>i DEF RetentionHolds
    <2> QED BY <1>g, <2>1, <2>2, <2>3 DEF RetainInv
  <1>m. \A d : Same(d, d) OBVIOUS
  <1>n. ASSUME NEW d, NEW e, d.idem = e.idem PROVE Same(d, e) BY <1>n
  <1> HIDE DEF Same
  <1>1. ASSUME Quiet PROVE RetainInv'
    <2>1. UNCHANGED <<db, writer, work, outcome, accepted>> BY <1>1 DEF Quiet
    <2>2. CASE outcome.kind # "accept"
      BY <1>g, <1>i, <1>m, <2>1, <2>2
    <2>3. CASE outcome.kind = "accept"
      <3>1. CoverInv' BY <1>c, <1>i, <1>m, <2>1 DEF CoverInv
      <3>2. call'[writer] = call[writer]
        BY <1>s, <2>1, <2>3 DEF SessionKept, Answering
      <3>3. \A a \in accepted : a.scope = outcome.scope => clock' >= a.at + MinRetention
        BY <1>i, <1>s, <1>t, <1>u, <2>3 DEF AcceptInv, CoverInv
      <3>4. AcceptInv' BY <1>i, <2>1, <2>3, <3>2, <3>3 DEF AcceptInv
      <3>5. RetentionHolds' BY <1>i, <2>1 DEF RetentionHolds
      <3> QED BY <1>i, <2>1, <3>1, <3>4, <3>5 DEF RetainInv
    <2> QED BY <2>2, <2>3
  <1>2. ASSUME Rebuild PROVE RetainInv'
    <2>1. /\ db'.idem = db.idem /\ db'.autoinc = db.autoinc /\ work' = db'
          /\ UNCHANGED <<accepted, outcome>> /\ writer = Nobody
      BY <1>2, <1>t, EnsureFields DEF Rebuild
    <2> QED BY <1>g, <1>n, <1>t, <1>w, <2>1
  <1>3. ASSUME Drop PROVE RetainInv'
    <2>1. UNCHANGED <<db, accepted>> /\ work' = db /\ outcome' = Idle
      BY <1>3 DEF Drop, Discard
    <2> QED BY <1>g, <1>m, <1>t, <2>1
  <1>4. ASSUME NEW p \in Proc, NEW r \in Body, Appends(p, r) PROVE RetainInv'
    <2>1. UNCHANGED <<db, accepted>> /\ work' = AppendRow(db, r) /\ outcome'.kind = "append"
      BY <1>4 DEF Appends, Begin
    <2>2. work'.idem = db.idem /\ work'.autoinc = db.autoinc + 1
      BY <1>t, <2>1, AppendRowIsAppend, RecAssumption DEF IsAppend
    <2> QED BY <1>g, <1>m, <1>n, <1>t, <2>1, <2>2
  <1>5. ASSUME NEW p \in Proc, SubmitBegin(p) PROVE RetainInv'
    <2> DEFINE c == call[p]
               d == Prune(db, c.now)
    <2>1. c # NoCall /\ c \in [scope : Scope, rec : Body, now : Nat]
      BY <1>5 DEF SubmitBegin, StoreInv, TypeOK
    <2>2. c.scope \in Scope /\ c.rec \in Rec /\ c.now \in Nat /\ c.now <= clock
      BY <1>e, <2>1, RecAssumption DEF CallInv
    <2>3. /\ UNCHANGED <<db, call, clock, accepted>> /\ writer' = p
          /\ \/ /\ c.scope \notin DOMAIN d.idem /\ AppendFits(d)
                /\ work' = AppendKeyed(d, c.scope, c.rec, c.now)
                /\ outcome' = Answer("accept", c, Size(work'), HeadHash(work'))
             \/ /\ work' = d
                /\ \E q, h : outcome' = Answer("replay", c, q, h)
      BY <1>5 DEF SubmitBegin, Begin, memory, history
    <2>4. /\ IsDb(d) /\ d.autoinc = db.autoinc
          /\ \A k : k \in DOMAIN d.idem <=> k \in DOMAIN db.idem /\ db.idem[k].expires > c.now
          /\ \A k \in DOMAIN d.idem : d.idem[k] = db.idem[k]
      BY <1>t, PruneFields, PruneFacts
    <2> HIDE DEF d
    <2>5. ASSUME NEW a \in accepted PROVE a.at \in Nat /\ Covers(clock, d, a)
      <3>1. a.at \in Nat /\ a.at + MinRetention \in Nat /\ Covers(clock, db, a)
        BY <1>i, <1>t DEF CoverInv
      <3>2. a.scope \in DOMAIN db.idem => db.idem[a.scope].expires \in Nat
        BY <1>t DEF IsDb
      <3> QED BY <1>t, <2>2, <2>4, <3>1, <3>2 DEF Covers
    <2>6. RetentionHolds' BY <1>i, <2>3 DEF RetentionHolds
    <2>7. CASE /\ c.scope \notin DOMAIN d.idem /\ AppendFits(d)
               /\ work' = AppendKeyed(d, c.scope, c.rec, c.now)
               /\ outcome' = Answer("accept", c, Size(work'), HeadHash(work'))
      <3>1. /\ work'.autoinc = d.autoinc + 1 /\ Size(work') = Size(d) + 1
            /\ DOMAIN work'.idem = DOMAIN d.idem \cup {c.scope}
            /\ work'.idem[c.scope].expires = c.now + TTL
            /\ \A k \in DOMAIN d.idem : k # c.scope => work'.idem[k] = d.idem[k]
        BY <2>2, <2>4, <2>7, KeyedFields
      <3>3. \A k \in DOMAIN d.idem : work'.idem[k] = d.idem[k]
        BY <2>7, <3>1
      <3>4. d.autoinc = Size(d) BY <2>7 DEF AppendFits
      <3>5. outcome'.seq = Size(work') /\ outcome'.scope = c.scope
        BY <2>7 DEF Answer
      <3>6. \A a \in accepted : a.scope = c.scope => clock >= a.at + MinRetention
        BY <2>5, <2>7 DEF Covers
      <3>7. AcceptInv'
        BY <1>t, <2>3, <2>4, <3>1, <3>4, <3>5, <3>6 DEF AcceptInv
      <3>8. Same(d, work') BY <3>1, <3>3 DEF Same
      <3>9. CoverInv'
        BY <1>c, <1>i, <1>m, <2>3, <2>5, <3>8 DEF CoverInv
      <3> QED BY <1>t, <2>3, <2>4, <2>6, <3>1, <3>7, <3>9 DEF RetainInv
    <2>8. CASE work' = d /\ \E q, h : outcome' = Answer("replay", c, q, h)
      <3>1. outcome'.kind # "accept" BY <2>8 DEF Answer
      <3>2. CoverInv' BY <1>c, <1>i, <1>m, <2>3, <2>5, <2>8 DEF CoverInv
      <3> QED BY <1>t, <2>3, <2>4, <2>6, <2>8, <3>1, <3>2 DEF RetainInv, AcceptInv
    <2> QED BY <2>3, <2>7, <2>8
  <1>6. ASSUME NEW p \in Proc, NEW o \in Offers, NEW older \in BOOLEAN, ImportBegin(p, o, older)
        PROVE RetainInv'
    <2>1. UNCHANGED <<db, accepted>> /\ work' = db /\ outcome'.kind = "import"
      BY <1>6 DEF ImportBegin, Begin, history
    <2> QED BY <1>g, <1>m, <1>t, <2>1
  <1>7. ASSUME NEW p \in Proc, ImportRow(p) PROVE RetainInv'
    <2>1. /\ UNCHANGED <<db, accepted, outcome>> /\ outcome.kind = "import"
          /\ Head(todo) \in Rec
          /\ work' = work \/ work' = AppendImport(work, Head(todo))
      BY <1>7, <1>t DEF ImportRow, TypeOK, history
    <2>2. work'.idem = work.idem /\ work'.autoinc \in {work.autoinc, work.autoinc + 1}
      BY <1>t, <2>1, ImportFields
    <2> QED BY <1>g, <1>i, <1>m, <1>n, <1>t, <2>1, <2>2
  <1>8. ASSUME NEW p \in Proc, ImportMark(p) PROVE RetainInv'
    <2>1. /\ UNCHANGED <<db, accepted>> /\ work'.idem = work.idem
          /\ work'.autoinc = work.autoinc /\ outcome'.kind = "imported"
      BY <1>8, <1>t DEF ImportMark, TypeOK, IsDb, history
    <2> QED BY <1>g, <1>i, <1>m, <1>n, <1>t, <2>1
  <1>9. ASSUME NEW p \in Proc, Commit(p) PROVE RetainInv'
    <2>1. /\ writer = p /\ db' = work /\ work' = work /\ outcome' = Idle /\ UNCHANGED clock
      BY <1>9 DEF Commit
    <2>2. AcceptInv' BY <1>t, <2>1 DEF AcceptInv
    <2>3. \A a \in accepted : /\ a.at \in Nat /\ a.seq \in Nat
                              /\ a.seq <= db.autoinc /\ a.seq <= work.autoinc
                              /\ Covers(clock, work, a)
      BY <1>i, <1>t DEF CoverInv
    <2>4. CASE outcome.kind # "accept"
      <3>1. accepted' = accepted BY <1>9, <2>4 DEF Commit
      <3>2. CoverInv' BY <2>1, <2>3, <3>1 DEF CoverInv
      <3>3. RetentionHolds' BY <1>i, <3>1 DEF RetentionHolds
      <3> QED BY <1>t, <2>1, <2>2, <3>2, <3>3 DEF RetainInv
    <2>5. CASE outcome.kind = "accept"
      <3> DEFINE b == [scope |-> outcome.scope, rec |-> outcome.rec, seq |-> outcome.seq,
                       hash |-> outcome.hash, at |-> clock]
      <3>1. accepted' = accepted \cup {b} BY <1>9, <2>5 DEF Commit
      <3>2. b.scope = outcome.scope /\ b.seq = work.autoinc /\ b.at = clock
        BY <1>i, <2>5 DEF AcceptInv
      <3> HIDE DEF b
      <3>3. call[p] # NoCall /\ call[p].now \in Nat /\ clock <= call[p].now + MaxWait
        <4>1. call[p] # NoCall BY <1>e, <2>1, <2>5 DEF OutcomeInv, Answering
        <4>2. call[p] \in [scope : Scope, rec : Body, now : Nat] BY <1>t, <4>1 DEF TypeOK
        <4> QED BY <1>e, <4>1, <4>2 DEF CallInv
      <3>4. /\ outcome.scope \in DOMAIN work.idem
            /\ work.idem[outcome.scope].expires = call[p].now + TTL
            /\ db.autoinc < work.autoinc
            /\ \A a \in accepted : a.scope = outcome.scope => clock >= a.at + MinRetention
        BY <1>i, <2>1, <2>5 DEF AcceptInv
      <3>5. work.idem[b.scope].expires >= b.at + MinRetention
        BY <1>t, <3>2, <3>3, <3>4
      <3>6. Covers(clock, work, b) BY <3>2, <3>4, <3>5 DEF Covers
      <3>7. CoverInv'
        BY <1>t, <2>1, <2>3, <3>1, <3>2, <3>6 DEF CoverInv
      <3>8. RetentionHolds'
        <4> SUFFICES ASSUME NEW x \in accepted \cup {b}, NEW y \in accepted \cup {b},
                            x.scope = y.scope, x.seq < y.seq
                     PROVE y.at >= x.at + MinRetention
          BY <3>1 DEF RetentionHolds
        <4>1. CASE x \in accepted /\ y \in accepted
          BY <1>i, <4>1 DEF RetentionHolds
        <4>2. CASE x \in accepted /\ y = b
          BY <3>2, <3>4, <4>2
        <4>3. CASE x = b
          <5>1. y.seq <= work.autoinc /\ y.seq \in Nat BY <1>t, <2>3, <3>2
          <5> QED BY <1>t, <3>2, <4>3, <5>1
        <4> QED BY <4>1, <4>2, <4>3
      <3> QED BY <1>t, <2>1, <2>2, <3>7, <3>8 DEF RetainInv
    <2> QED BY <2>4, <2>5
  <1>10. ASSUME NEW kind \in FaultKinds, Corrupt(kind) PROVE RetainInv'
    <2>1. /\ UNCHANGED <<accepted, outcome>> /\ writer = Nobody /\ work' = db'
          /\ db' \in Damaged(db, kind)
      BY <1>10 DEF Corrupt, history
    <2>2. /\ db'.autoinc = db.autoinc /\ DOMAIN db'.idem = DOMAIN db.idem
          /\ \A k \in DOMAIN db.idem : db'.idem[k].expires = db.idem[k].expires
      BY <1>t, <2>1, DamagedKeeps
    <2>3. Same(db, db') BY <2>2 DEF Same
    <2> QED BY <1>g, <1>t, <1>w, <2>1, <2>2, <2>3
  <1> QED BY <1>1, <1>2, <1>3, <1>4, <1>5, <1>6, <1>7, <1>8, <1>9, <1>10, StepEffect DEF Effect

(* Whatever instances handle them, however long calls wait, whoever        *)
(* crashes and whatever storage loses, two commits under one key are the   *)
(* promised retention apart.                                               *)
THEOREM RetentionAlwaysHolds == Spec => []RetentionHolds
  <1>1. Init => RetainInv
    BY EmptyFacts DEF Init, RetainInv, CoverInv, AcceptInv, RetentionHolds, Idle, EmptyDb
  <1>2. (StoreInv /\ SessionInv) /\ RetainInv /\ [Next]_vars => RetainInv'
    BY RetainStep
  <1>3. RetainInv => RetentionHolds BY DEF RetainInv
  <1> QED BY <1>1, <1>2, <1>3, SessionInvariant, PTL DEF Spec

(* A row of the idempotency table repeats an answer that was given.        *)
Answered(A, d, k) ==
  \E a \in A : /\ a.scope = k /\ a.rec = d.idem[k].body
                      /\ a.seq = d.idem[k].seq /\ a.hash = d.idem[k].hash
Pending(o, d, k) ==
  /\ o.kind = "accept" /\ o.scope = k /\ o.rec = d.idem[k].body
  /\ o.seq = d.idem[k].seq /\ o.hash = d.idem[k].hash
InLog(d, a) == /\ a.seq \in 1..Size(d)
               /\ d.log[a.seq].rec = a.rec /\ d.log[a.seq].hash = a.hash
Repeats(A, b) == \E a \in A :
                 a.scope = b.scope /\ a.rec = b.rec /\ a.seq = b.seq /\ a.hash = b.hash

(* What makes AnswersDurable inductive: rows, committed or not, stand for  *)
(* answers, and the answer being prepared is in the transaction's log.     *)
AnswerInv ==
  faults = 0 =>
    /\ \A a \in accepted : InLog(db, a)
    /\ \A b \in replayed : Repeats(accepted, b)
    /\ \A k \in DOMAIN db.idem : Answered(accepted, db, k)
    /\ \A k \in DOMAIN work.idem : Answered(accepted, work, k) \/ Pending(outcome, work, k)
    /\ outcome.kind = "accept" => InLog(work, outcome)
    /\ outcome.kind = "replay" => Repeats(accepted, outcome)

(* Every action keeps the answers' invariant.                              *)
LEMMA AnswerStep == StoreInv /\ SessionInv /\ AnswerInv /\ [Next]_vars => AnswerInv'
  <1> SUFFICES ASSUME StoreInv, SessionInv, AnswerInv, [Next]_vars, faults' = 0
               PROVE  AnswerInv'
    BY DEF AnswerInv
  <1>0. Effect BY StepEffect
  <1>1. faults = 0 /\ ~(\E kind \in FaultKinds : Corrupt(kind))
    BY FaultStep DEF StoreInv
  <1>t. /\ IsDb(db) /\ IsDb(work) /\ TypeOK /\ Extends(db, work)
        /\ IsDb(db') /\ IsDb(work')
        /\ Size(db) \in Nat /\ Size(work) \in Nat /\ Size(work') \in Nat
        /\ Idle.kind \notin Answering
    BY TypeStep, HeadType DEF StoreInv, TransactionInv, TypeOK, Idle, Answering
  <1>w. writer = Nobody => work = db /\ outcome.kind \notin Answering
    BY <1>t DEF StoreInv, TransactionInv, SessionInv, OutcomeInv
  <1>i. /\ \A a \in accepted : InLog(db, a)
        /\ \A b \in replayed : Repeats(accepted, b)
        /\ \A k \in DOMAIN db.idem : Answered(accepted, db, k)
        /\ \A k \in DOMAIN work.idem : Answered(accepted, work, k) \/ Pending(outcome, work, k)
        /\ outcome.kind = "accept" => InLog(work, outcome)
        /\ outcome.kind = "replay" => Repeats(accepted, outcome)
    BY <1>1 DEF AnswerInv
  <1>l. ASSUME NEW d, NEW e, NEW a, Size(d) \in Nat, Size(e) \in Nat,
               Extends(d, e), InLog(d, a)
        PROVE  InLog(e, a)
    BY <1>l DEF InLog, Extends
  <1>g. ASSUME UNCHANGED <<accepted, replayed>>, Extends(db, db'), IsDb(db'),
               DOMAIN db'.idem \subseteq DOMAIN db.idem,
               \A k \in DOMAIN db'.idem : db'.idem[k] = db.idem[k],
               \A k \in DOMAIN work'.idem : Answered(accepted', work', k),
               outcome'.kind \notin Answering
        PROVE  AnswerInv'
    <2>1. Size(db') \in Nat BY <1>g, HeadType
    <2>2. \A a \in accepted' : InLog(db', a) BY <1>g, <1>i, <1>l, <1>t, <2>1
    <2>3. \A b \in replayed' : Repeats(accepted', b) BY <1>g, <1>i DEF Repeats
    <2>4. \A k \in DOMAIN db'.idem : Answered(accepted', db', k) BY <1>g, <1>i DEF Answered
    <2> QED BY <1>g, <2>2, <2>3, <2>4 DEF AnswerInv, Answering
  <1>e. ASSUME accepted' = accepted, NEW d, NEW e, NEW k, Answered(accepted, d, k), e.idem[k] = d.idem[k]
        PROVE Answered(accepted', e, k)
    BY <1>e DEF Answered
  <1>x. Extends(db, db) BY <1>t, ExtendsFacts
  <1>2. ASSUME Quiet PROVE AnswerInv'
    <2>1. UNCHANGED <<db, work, outcome, accepted, replayed>> BY <1>2 DEF Quiet
    <2> QED BY <1>i, <2>1 DEF AnswerInv, InLog, Repeats, Answered, Pending, Size
  <1>3. ASSUME Rebuild PROVE AnswerInv'
    <2>1. /\ db'.idem = db.idem /\ db'.log = db.log /\ work' = db'
          /\ UNCHANGED <<accepted, replayed, outcome>> /\ writer = Nobody
      BY <1>3, <1>t, EnsureFields DEF Rebuild
    <2>2. Extends(db, db') BY <1>x, <2>1, ExtendsFacts
    <2>3. \A k \in DOMAIN work'.idem : Answered(accepted', work', k)
      BY <1>e, <1>i, <2>1
    <2> QED BY <1>g, <1>t, <1>w, <2>1, <2>2, <2>3
  <1>4. ASSUME Drop PROVE AnswerInv'
    <2>1. UNCHANGED <<db, accepted, replayed>> /\ work' = db /\ outcome' = Idle
      BY <1>4 DEF Drop, Discard
    <2>2. \A k \in DOMAIN work'.idem : Answered(accepted', work', k)
      BY <1>e, <1>i, <2>1
    <2> QED BY <1>g, <1>t, <1>x, <2>1, <2>2
  <1>5. ASSUME NEW p \in Proc, NEW r \in Body, Appends(p, r) PROVE AnswerInv'
    <2>1. /\ UNCHANGED <<db, accepted, replayed>> /\ work' = AppendRow(db, r)
          /\ outcome'.kind = "append"
      BY <1>5 DEF Appends, Begin
    <2>2. work'.idem = db.idem
      BY <1>t, <2>1, AppendRowIsAppend, RecAssumption DEF IsAppend
    <2>3. \A k \in DOMAIN work'.idem : Answered(accepted', work', k)
      BY <1>e, <1>i, <2>1, <2>2
    <2>4. outcome'.kind \notin Answering BY <2>1 DEF Answering
    <2> QED BY <1>g, <1>t, <1>x, <2>1, <2>3, <2>4
  <1>6. ASSUME NEW p \in Proc, SubmitBegin(p) PROVE AnswerInv'
    <2> DEFINE c == call[p]
               d == Prune(db, c.now)
    <2>1. c # NoCall /\ c \in [scope : Scope, rec : Body, now : Nat]
      BY <1>6 DEF SubmitBegin, StoreInv, TypeOK
    <2>2. c.scope \in Scope /\ c.rec \in Rec /\ c.now \in Nat
      BY <2>1, RecAssumption
    <2>3. /\ UNCHANGED <<db, accepted, replayed>>
          /\ \/ /\ c.scope \notin DOMAIN d.idem
                /\ work' = AppendKeyed(d, c.scope, c.rec, c.now)
                /\ outcome' = Answer("accept", c, Size(work'), HeadHash(work'))
             \/ /\ work' = d
                /\ c.scope \in DOMAIN d.idem /\ d.idem[c.scope].body = c.rec
                /\ outcome' = Answer("replay", c, d.idem[c.scope].seq, d.idem[c.scope].hash)
      BY <1>6 DEF SubmitBegin, Begin, history
    <2>4. /\ IsDb(d) /\ DOMAIN d.idem \subseteq DOMAIN db.idem
          /\ \A k \in DOMAIN d.idem : d.idem[k] = db.idem[k]
      BY <1>t, PruneFields, PruneFacts
    <2> HIDE DEF d
    <2>5. \A k \in DOMAIN d.idem : Answered(accepted, d, k)
      BY <1>i, <2>4 DEF Answered
    <2>6. /\ \A a \in accepted' : InLog(db', a)
          /\ \A b \in replayed' : Repeats(accepted', b)
          /\ \A k \in DOMAIN db'.idem : Answered(accepted', db', k)
      BY <1>i, <2>3 DEF InLog, Repeats, Answered, Size
    <2>7. CASE /\ c.scope \notin DOMAIN d.idem
               /\ work' = AppendKeyed(d, c.scope, c.rec, c.now)
               /\ outcome' = Answer("accept", c, Size(work'), HeadHash(work'))
      <3>1. /\ Size(work') = Size(d) + 1 /\ HeadHash(work') = NewHash(d, c.rec)
            /\ work'.log = Append(d.log, NewRow(d, c.rec))
            /\ DOMAIN work'.idem = DOMAIN d.idem \cup {c.scope}
            /\ \A k \in DOMAIN d.idem : k # c.scope => work'.idem[k] = d.idem[k]
            /\ work'.idem[c.scope].body = c.rec /\ work'.idem[c.scope].seq = Size(work')
            /\ work'.idem[c.scope].hash = HeadHash(work')
        BY <2>2, <2>4, <2>7, KeyedFields
      <3>2. /\ outcome'.kind = "accept" /\ outcome'.scope = c.scope /\ outcome'.rec = c.rec
            /\ outcome'.seq = Size(work') /\ outcome'.hash = HeadHash(work')
        BY <2>7 DEF Answer
      <3>3. \A k \in DOMAIN work'.idem : Answered(accepted', work', k) \/ Pending(outcome', work', k)
        <4> SUFFICES ASSUME NEW k \in DOMAIN work'.idem, k # c.scope
                     PROVE Answered(accepted', work', k)
          BY <3>1, <3>2 DEF Pending
        <4>1. k \in DOMAIN d.idem /\ work'.idem[k] = d.idem[k] BY <3>1
        <4> QED BY <1>e, <2>3, <2>5, <4>1
      <3>4. d.log \in Seq(Row) /\ Size(d) \in Nat BY <2>4, HeadType
      <3>5. work'.log[Size(d) + 1] = NewRow(d, c.rec)
        BY <3>1, <3>4 DEF Size
      <3>6. NewRow(d, c.rec).rec = c.rec /\ NewRow(d, c.rec).hash = NewHash(d, c.rec)
        BY DEF NewRow
      <3>7. InLog(work', outcome')
        BY <3>1, <3>2, <3>4, <3>5, <3>6 DEF InLog
      <3> QED BY <2>6, <3>2, <3>3, <3>7 DEF AnswerInv
    <2>8. CASE /\ work' = d
               /\ c.scope \in DOMAIN d.idem /\ d.idem[c.scope].body = c.rec
               /\ outcome' = Answer("replay", c, d.idem[c.scope].seq, d.idem[c.scope].hash)
      <3>1. /\ outcome'.kind = "replay" /\ outcome'.scope = c.scope /\ outcome'.rec = c.rec
            /\ outcome'.seq = d.idem[c.scope].seq /\ outcome'.hash = d.idem[c.scope].hash
        BY <2>8 DEF Answer
      <3>2. Repeats(accepted', outcome')
        <4>1. Answered(accepted, d, c.scope) BY <2>5, <2>8
        <4>2. PICK a \in accepted : /\ a.scope = c.scope /\ a.rec = d.idem[c.scope].body
                                    /\ a.seq = d.idem[c.scope].seq
                                    /\ a.hash = d.idem[c.scope].hash
          BY <4>1 DEF Answered
        <4>3. /\ a.scope = outcome'.scope /\ a.rec = outcome'.rec
              /\ a.seq = outcome'.seq /\ a.hash = outcome'.hash
          BY <2>8, <3>1, <4>2
        <4> QED BY <2>3, <4>3 DEF Repeats
      <3>3. \A k \in DOMAIN work'.idem : Answered(accepted', work', k)
        BY <1>e, <2>3, <2>5, <2>8
      <3> QED BY <2>6, <3>1, <3>2, <3>3 DEF AnswerInv
    <2> QED BY <2>3, <2>7, <2>8
  <1>7. ASSUME NEW p \in Proc, NEW o \in Offers, NEW older \in BOOLEAN, ImportBegin(p, o, older)
        PROVE AnswerInv'
    <2>1. UNCHANGED <<db, accepted, replayed>> /\ work' = db /\ outcome'.kind = "import"
      BY <1>7 DEF ImportBegin, Begin, history
    <2>2. \A k \in DOMAIN work'.idem : Answered(accepted', work', k)
      BY <1>e, <1>i, <2>1
    <2>3. outcome'.kind \notin Answering BY <2>1 DEF Answering
    <2> QED BY <1>g, <1>t, <1>x, <2>1, <2>2, <2>3
  <1>8. ASSUME NEW p \in Proc, ImportRow(p) \/ ImportMark(p) PROVE AnswerInv'
    <2>1. /\ UNCHANGED <<db, accepted, replayed>> /\ outcome.kind = "import"
          /\ outcome'.kind \in {"import", "imported"}
      BY <1>8, <1>t DEF ImportRow, ImportMark, TypeOK, history
    <2>2. work'.idem = work.idem
      <3>1. CASE ImportRow(p)
        <4>1. /\ Head(todo) \in Rec
              /\ work' = work \/ work' = AppendImport(work, Head(todo))
          BY <1>t, <3>1 DEF ImportRow, TypeOK
        <4> QED BY <1>t, <4>1, ImportFields
      <3>2. CASE ImportMark(p) BY <1>t, <3>2 DEF ImportMark, IsDb
      <3> QED BY <1>8, <3>1, <3>2
    <2>3. \A k \in DOMAIN work.idem : Answered(accepted, work, k)
      BY <1>i, <2>1 DEF Pending
    <2>4. \A k \in DOMAIN work'.idem : Answered(accepted', work', k)
      BY <1>e, <2>1, <2>2, <2>3
    <2>5. outcome'.kind \notin Answering BY <2>1 DEF Answering
    <2> QED BY <1>g, <1>t, <1>x, <2>1, <2>4, <2>5
  <1>9. ASSUME NEW p \in Proc, Commit(p) PROVE AnswerInv'
    <2> DEFINE b == [scope |-> outcome.scope, rec |-> outcome.rec, seq |-> outcome.seq,
                     hash |-> outcome.hash]
               n == [scope |-> outcome.scope, rec |-> outcome.rec, seq |-> outcome.seq,
                     hash |-> outcome.hash, at |-> clock]
    <2>1. db' = work /\ work' = work /\ outcome' = Idle BY <1>9 DEF Commit
    <2>2. /\ accepted' = IF outcome.kind = "accept" THEN accepted \cup {n} ELSE accepted
          /\ replayed' = IF outcome.kind = "replay" THEN replayed \cup {b} ELSE replayed
      BY <1>9 DEF Commit
    <2>3. /\ n.scope = outcome.scope /\ n.rec = outcome.rec /\ n.seq = outcome.seq
          /\ n.hash = outcome.hash
          /\ b.scope = outcome.scope /\ b.rec = outcome.rec /\ b.seq = outcome.seq
          /\ b.hash = outcome.hash
      OBVIOUS
    <2> HIDE DEF b, n
    <2>4. \A a \in accepted' : InLog(work, a)
      <3>1. \A a \in accepted : InLog(work, a) BY <1>i, <1>l, <1>t
      <3>2. outcome.kind = "accept" => InLog(work, n) BY <1>i, <2>3 DEF InLog
      <3> QED BY <2>2, <3>1, <3>2
    <2>5. \A x \in replayed' : Repeats(accepted', x)
      <3>1. accepted \subseteq accepted' BY <2>2
      <3>2. \A x \in replayed : Repeats(accepted', x) BY <1>i, <3>1 DEF Repeats
      <3>3. outcome.kind = "replay" => Repeats(accepted', b) BY <1>i, <2>3, <3>1 DEF Repeats
      <3> QED BY <2>2, <3>2, <3>3
    <2>6. ASSUME NEW k \in DOMAIN work.idem PROVE Answered(accepted', work, k)
      <3>1. CASE Answered(accepted, work, k) BY <2>1, <2>2, <3>1 DEF Answered
      <3>2. CASE Pending(outcome, work, k) BY <2>1, <2>2, <2>3, <3>2 DEF Answered, Pending
      <3> QED BY <1>i, <3>1, <3>2
    <2>7. outcome'.kind # "accept" /\ outcome'.kind # "replay"
      BY <1>t, <2>1 DEF Answering
    <2>9. \A a \in accepted' : InLog(db', a) BY <2>1, <2>4
    <2>10. \A k \in DOMAIN db'.idem : Answered(accepted', db', k) BY <2>1, <2>6
    <2>11. \A k \in DOMAIN work'.idem : Answered(accepted', work', k) BY <2>1, <2>6
    <2> QED BY <2>5, <2>7, <2>9, <2>10, <2>11 DEF AnswerInv
  <1> QED BY <1>0, <1>1, <1>2, <1>3, <1>4, <1>5, <1>6, <1>7, <1>8, <1>9 DEF Effect

(* Every answer a submitter was given stays true: the entry it names is    *)
(* in the log and stays there, whatever other instances, crashes and       *)
(* rollbacks do, and a replay repeats an answer given before.              *)
THEOREM AnswersAreDurable == Spec => []AnswersDurable
  <1>1. Init => AnswerInv
    BY DEF Init, AnswerInv, EmptyDb, Idle
  <1>2. (StoreInv /\ SessionInv) /\ AnswerInv /\ [Next]_vars => AnswerInv'
    BY AnswerStep
  <1>3. AnswerInv => AnswersDurable BY DEF AnswerInv, AnswersDurable, InLog, Repeats
  <1> QED BY <1>1, <1>2, <1>3, SessionInvariant, PTL DEF Spec
----------------------------------------------------------------------------
(***************************************************************************)
(* The high-water of each upstream.                                        *)
(***************************************************************************)
Boundary(o) == [ver |-> o.ver, body |-> o.body]

(* A high-water row stands for a bundle all of whose records came in.      *)
HwCovers(d) ==
  \A o \in Offers : o.key \in DOMAIN d.hw /\ d.hw[o.key] = Boundary(o)
                      => \A i \in 1..Len(o.batch) : o.batch[i] \in DOMAIN d.imported
HwTyped(d) == \A u \in DOMAIN d.hw : d.hw[u].ver \in Nat

(* No high-water goes back from d to e.                                    *)
HwGrows(d, e) ==
  \A u \in DOMAIN d.hw : /\ u \in DOMAIN e.hw
                         /\ e.hw[u].ver >= d.hw[u].ver
                         /\ e.hw[u].ver = d.hw[u].ver => e.hw[u] = d.hw[u]

(* What makes both inductive: an import still under way has not touched    *)
(* the high-water, its decision to advance is that of the committed row,   *)
(* and the records it has not seen are in todo.                            *)
ImportingInv ==
  outcome.kind = "import" =>
    /\ writer # Nobody
    /\ outcome.offer \in Offers /\ work.hw = db.hw
    /\ outcome.advance <=> Advances(db, outcome.offer)
    /\ \A i \in 1..Len(outcome.offer.batch) :
          \/ outcome.offer.batch[i] \in DOMAIN work.imported
          \/ \E j \in 1..Len(todo) : todo[j] = outcome.offer.batch[i]
HighWaterInv ==
  /\ HwTyped(db) /\ HwTyped(work)
  /\ HwCovers(db) /\ HwCovers(work)
  /\ HwGrows(db, work)
  /\ ImportingInv

(* Every action keeps it, and lowers no committed high-water.              *)
LEMMA HighWaterStep ==
  StoreInv /\ SessionInv /\ HighWaterInv /\ [Next]_vars
    => HighWaterInv' /\ HwGrows(db, db')
  <1> SUFFICES ASSUME StoreInv, SessionInv, HighWaterInv, [Next]_vars
               PROVE  HighWaterInv' /\ HwGrows(db, db')
    OBVIOUS
  <1> DEFINE Goal == HighWaterInv' /\ HwGrows(db, db')
  <1>t. /\ IsDb(db) /\ IsDb(work) /\ TypeOK /\ todo \in Seq(Rec)
        /\ Nobody \notin Proc /\ Idle.kind # "import"
    BY NobodyAssumption DEF StoreInv, TypeOK, Idle
  <1>i. /\ HwTyped(db) /\ HwTyped(work) /\ HwCovers(db) /\ HwCovers(work)
        /\ HwGrows(db, work) /\ ImportingInv
    BY DEF HighWaterInv
  <1>w. writer = Nobody => work = db /\ outcome.kind # "import"
    BY <1>i DEF StoreInv, TransactionInv, ImportingInv
  <1>s. ASSUME NEW d, NEW e, e.hw = d.hw, DOMAIN d.imported \subseteq DOMAIN e.imported
        PROVE  (HwTyped(d) => HwTyped(e)) /\ (HwCovers(d) => HwCovers(e))
    BY <1>s DEF HwTyped, HwCovers
  <1>r. \A d, e : HwTyped(d) /\ e.hw = d.hw => HwGrows(d, e)
    BY DEF HwTyped, HwGrows
  <1>g. ASSUME db'.hw = db.hw, db'.imported = db.imported,
               \/ work'.hw = db.hw /\ DOMAIN db.imported \subseteq DOMAIN work'.imported
               \/ work'.hw = work.hw /\ DOMAIN work.imported \subseteq DOMAIN work'.imported,
               outcome'.kind # "import"
        PROVE  Goal
    <2>1. HwTyped(db') /\ HwCovers(db') /\ HwGrows(db, db') BY <1>g, <1>i, <1>r, <1>s
    <2>2. HwTyped(work') /\ HwCovers(work') BY <1>g, <1>i, <1>s
    <2>3. HwGrows(db', work')
      <3>1. CASE work'.hw = db.hw
        <4>1. work'.hw = db'.hw BY <1>g, <3>1
        <4> QED BY <1>r, <2>1, <4>1
      <3>2. CASE work'.hw = work.hw
        BY <1>g, <1>i, <3>2 DEF HwGrows
      <3> QED BY <1>g, <3>1, <3>2
    <2>4. ImportingInv' BY <1>g DEF ImportingInv
    <2> QED BY <2>1, <2>2, <2>3, <2>4 DEF HighWaterInv
  <1> HIDE DEF Goal
  <1>1. ASSUME Quiet PROVE Goal
    <2>1. UNCHANGED <<db, writer, work, todo, outcome>> BY <1>1 DEF Quiet
    <2>2. HighWaterInv'
      BY <1>i, <2>1 DEF HighWaterInv, HwTyped, HwCovers, HwGrows, ImportingInv, Advances
    <2>3. HwGrows(db, db') BY <1>i, <1>r, <2>1
    <2> QED BY <2>2, <2>3 DEF Goal
  <1>2. ASSUME Rebuild PROVE Goal
    <2>1. /\ db'.hw = db.hw /\ db'.imported = db.imported /\ work' = db'
          /\ UNCHANGED outcome /\ writer = Nobody
      BY <1>2, <1>t, EnsureFields DEF Rebuild
    <2> QED BY <1>g, <1>w, <2>1
  <1>3. ASSUME Drop PROVE Goal
    <2>1. UNCHANGED db /\ work' = db /\ outcome' = Idle
      BY <1>3 DEF Drop, Discard
    <2> QED BY <1>g, <1>t, <2>1
  <1>4. ASSUME NEW p \in Proc, NEW r \in Body, Appends(p, r) PROVE Goal
    <2>1. UNCHANGED db /\ work' = AppendRow(db, r) /\ outcome'.kind = "append"
      BY <1>4 DEF Appends, Begin
    <2>2. work'.hw = db.hw /\ work'.imported = db.imported
      BY <1>t, <2>1, AppendRowIsAppend, RecAssumption DEF IsAppend
    <2> QED BY <1>g, <2>1, <2>2
  <1>5. ASSUME NEW p \in Proc, SubmitBegin(p) PROVE Goal
    <2> DEFINE c == call[p]
               d == Prune(db, c.now)
    <2>1. c # NoCall /\ c \in [scope : Scope, rec : Body, now : Nat]
      BY <1>5 DEF SubmitBegin, StoreInv, TypeOK
    <2>2. c.scope \in Scope /\ c.rec \in Rec /\ c.now \in Nat
      BY <2>1, RecAssumption
    <2>3. /\ UNCHANGED db /\ outcome'.kind \in {"accept", "replay"}
          /\ work' = d \/ work' = AppendKeyed(d, c.scope, c.rec, c.now)
      BY <1>5 DEF SubmitBegin, Begin, Answer
    <2>4. IsDb(d) /\ d.hw = db.hw /\ d.imported = db.imported
      BY <1>t, PruneFields, PruneFacts
    <2> HIDE DEF d
    <2>5. work'.hw = db.hw /\ work'.imported = db.imported
      BY <2>2, <2>3, <2>4, KeyedFields
    <2> QED BY <1>g, <2>3, <2>5
  <1>6. ASSUME NEW p \in Proc, NEW o \in Offers, NEW older \in BOOLEAN, ImportBegin(p, o, older)
        PROVE Goal
    <2>1. /\ UNCHANGED db /\ work' = db /\ writer' = p /\ todo' = o.batch
          /\ outcome' = [kind |-> "import", offer |-> o, advance |-> Advances(db, o)]
      BY <1>6 DEF ImportBegin, Begin
    <2>2. outcome'.offer = o /\ outcome'.advance = Advances(db, o)
      BY <2>1
    <2>3. Advances(db, o) <=> Advances(db', o) BY <2>1 DEF Advances
    <2>4. ImportingInv'
      BY <1>t, <2>1, <2>2, <2>3 DEF ImportingInv
    <2>5. HwGrows(db, db') /\ HwGrows(db', work') BY <1>i, <1>r, <2>1
    <2>6. HwTyped(db') /\ HwTyped(work') /\ HwCovers(db') /\ HwCovers(work')
      BY <1>i, <2>1
    <2> QED BY <2>4, <2>5, <2>6 DEF Goal, HighWaterInv
  <1>7. ASSUME NEW p \in Proc, ImportRow(p) PROVE Goal
    <2> DEFINE r == Head(todo)
               q == outcome.offer
    <2>1. /\ UNCHANGED <<db, writer, outcome>> /\ outcome.kind = "import" /\ todo # <<>>
          /\ todo' = Tail(todo)
          /\ \/ r \in DOMAIN work.imported /\ work' = work
             \/ work' = AppendImport(work, r)
      BY <1>7 DEF ImportRow
    <2>2. r \in Rec /\ Len(todo) \in Nat /\ todo[1] = r
          /\ Len(todo') = Len(todo) - 1 /\ Len(todo) >= 1
          /\ \A j \in 2..Len(todo) : todo'[j - 1] = todo[j]
      BY <1>t, <2>1
    <2> HIDE DEF r
    <2>3. work'.hw = work.hw /\ DOMAIN work'.imported = DOMAIN work.imported \cup {r}
      <3>1. CASE work' = AppendImport(work, r)
        <4>1. work'.hw = work.hw /\ work'.imported = Put(work.imported, r, Size(work'))
          BY <1>t, <2>2, <3>1, ImportFields
        <4> QED BY <4>1 DEF Put
      <3> QED BY <2>1, <3>1
    <2>4. /\ writer # Nobody /\ q \in Offers /\ work.hw = db.hw
          /\ outcome.advance <=> Advances(db, q)
          /\ \A i \in 1..Len(q.batch) :
                \/ q.batch[i] \in DOMAIN work.imported
                \/ \E j \in 1..Len(todo) : todo[j] = q.batch[i]
      BY <1>i, <2>1 DEF ImportingInv
    <2>5. ASSUME NEW i \in 1..Len(q.batch)
          PROVE \/ q.batch[i] \in DOMAIN work'.imported
                \/ \E j \in 1..Len(todo') : todo'[j] = q.batch[i]
      <3>1. CASE q.batch[i] \in DOMAIN work.imported BY <2>3, <3>1
      <3>2. ASSUME NEW j \in 1..Len(todo), todo[j] = q.batch[i]
            PROVE \/ q.batch[i] \in DOMAIN work'.imported
                  \/ \E m \in 1..Len(todo') : todo'[m] = q.batch[i]
        <4>1. CASE j = 1 BY <2>2, <2>3, <3>2, <4>1
        <4>2. CASE j # 1
          <5>1. j \in 2..Len(todo) /\ j - 1 \in 1..Len(todo') BY <2>2, <4>2
          <5> QED BY <2>2, <3>2, <5>1
        <4> QED BY <4>1, <4>2
      <3> QED BY <2>4, <3>1, <3>2
    <2>6. Advances(db, q) <=> Advances(db', q) BY <2>1 DEF Advances
    <2>7. ImportingInv' BY <2>1, <2>3, <2>4, <2>5, <2>6 DEF ImportingInv
    <2>8. HwTyped(work') /\ HwCovers(work') BY <1>i, <1>s, <2>3
    <2>9. HwGrows(db, work') /\ HwGrows(db, db) BY <1>i, <1>r, <2>3, <2>4
    <2> QED BY <1>i, <2>1, <2>7, <2>8, <2>9 DEF Goal, HighWaterInv
  <1>8. ASSUME NEW p \in Proc, ImportMark(p) PROVE Goal
    <2> DEFINE q == outcome.offer
    <2>1. /\ UNCHANGED db /\ outcome.kind = "import" /\ todo = <<>>
          /\ outcome' = [outcome EXCEPT !.kind = "imported"]
          /\ work' = IF outcome.advance
                     THEN [work EXCEPT !.hw = Put(@, q.key, [ver |-> q.ver, body |-> q.body])]
                     ELSE work
      BY <1>8 DEF ImportMark
    <2>2. outcome'.kind # "import"
      BY <1>t, <2>1 DEF TypeOK
    <2>3. CASE ~outcome.advance BY <1>g, <2>1, <2>2, <2>3
    <2>4. CASE outcome.advance
      <3>1. /\ work'.hw = Put(work.hw, q.key, Boundary(q)) /\ work'.imported = work.imported
        BY <1>t, <2>1, <2>4 DEF IsDb, Boundary
      <3>2. /\ DOMAIN work'.hw = DOMAIN work.hw \cup {q.key}
            /\ work'.hw[q.key] = Boundary(q)
            /\ \A u \in DOMAIN work.hw : u # q.key => work'.hw[u] = work.hw[u]
        BY <3>1 DEF Put
      <3>3. /\ q \in Offers /\ work.hw = db.hw /\ Advances(db, q) /\ q.ver \in Nat
            /\ \A i \in 1..Len(q.batch) : q.batch[i] \in DOMAIN work.imported
        <4>1. /\ q \in Offers /\ work.hw = db.hw /\ Advances(db, q)
              /\ \A i \in 1..Len(q.batch) : \/ q.batch[i] \in DOMAIN work.imported
                                             \/ \E j \in 1..Len(todo) : todo[j] = q.batch[i]
          BY <1>i, <2>1, <2>4 DEF ImportingInv
        <4>2. ~(\E j \in 1..Len(todo) : TRUE) BY <2>1
        <4> QED BY <4>1, <4>2, RecAssumption
      <3>4. Boundary(q).ver = q.ver /\ Boundary(q).body = q.body BY DEF Boundary
      <3>5. HwTyped(work') BY <1>i, <3>2, <3>3, <3>4 DEF HwTyped
      <3>6. HwGrows(db, work')
        <4> SUFFICES ASSUME NEW u \in DOMAIN db.hw
                     PROVE  /\ u \in DOMAIN work'.hw
                            /\ work'.hw[u].ver >= db.hw[u].ver
                            /\ work'.hw[u].ver = db.hw[u].ver => work'.hw[u] = db.hw[u]
          BY DEF HwGrows
        <4>1. db.hw[u].ver \in Nat BY <1>i DEF HwTyped
        <4>2. CASE u = q.key
          <5>1. q.ver > db.hw[u].ver BY <3>3, <4>2 DEF Advances
          <5> QED BY <3>2, <3>3, <3>4, <4>1, <4>2, <5>1
        <4>3. CASE u # q.key BY <3>2, <3>3, <4>1, <4>3
        <4> QED BY <4>2, <4>3
      <3>7. HwCovers(work')
        <4> SUFFICES ASSUME NEW o \in Offers, o.key \in DOMAIN work'.hw,
                            work'.hw[o.key] = Boundary(o), NEW i \in 1..Len(o.batch)
                     PROVE  o.batch[i] \in DOMAIN work.imported
          BY <3>1 DEF HwCovers
        <4>1. CASE o.key = q.key
          <5>1. Boundary(o) = Boundary(q) BY <3>2, <4>1
          <5>2. Boundary(o).ver = o.ver /\ Boundary(o).body = o.body BY DEF Boundary
          <5>3. o.ver = q.ver /\ o.body = q.body BY <3>4, <5>1, <5>2
          <5>4. o.batch = q.batch BY <3>3, <4>1, <5>3, OfferAssumption
          <5> QED BY <3>3, <5>4
        <4>2. CASE o.key # q.key
          <5>1. o.key \in DOMAIN work.hw /\ work.hw[o.key] = Boundary(o) BY <3>2, <4>2
          <5> QED BY <1>i, <5>1 DEF HwCovers
        <4> QED BY <4>1, <4>2
      <3>8. ImportingInv' BY <2>2 DEF ImportingInv
      <3>9. HwGrows(db, db) BY <1>i, <1>r
      <3> QED BY <1>i, <2>1, <3>5, <3>6, <3>7, <3>8, <3>9 DEF Goal, HighWaterInv
    <2> QED BY <2>3, <2>4
  <1>9. ASSUME NEW p \in Proc, Commit(p) PROVE Goal
    <2>1. db' = work /\ work' = work /\ outcome' = Idle BY <1>9 DEF Commit
    <2>2. ImportingInv' BY <1>t, <2>1 DEF ImportingInv
    <2>3. HwGrows(work, work) BY <1>i, <1>r
    <2> QED BY <1>i, <2>1, <2>2, <2>3 DEF Goal, HighWaterInv
  <1>10. ASSUME NEW kind \in FaultKinds, Corrupt(kind) PROVE Goal
    <2>1. /\ UNCHANGED outcome /\ writer = Nobody /\ work' = db'
          /\ db' \in Damaged(db, kind)
      BY <1>10 DEF Corrupt
    <2>2. db'.hw = db.hw /\ db'.imported = db.imported BY <1>t, <2>1, DamagedKeeps
    <2> QED BY <1>g, <1>w, <2>1, <2>2
  <1>11. Goal
    BY <1>1, <1>2, <1>3, <1>4, <1>5, <1>6, <1>7, <1>8, <1>9, <1>10, StepEffect DEF Effect
  <1> QED BY <1>11 DEF Goal

(* The high-water's invariant holds in every reachable state.              *)
LEMMA HighWaterInvariant == Spec => []HighWaterInv
  <1>1. Init => HighWaterInv
    <2>1. DOMAIN EmptyDb.hw = {} BY DEF EmptyDb
    <2> QED BY <2>1 DEF Init, HighWaterInv, HwTyped, HwCovers, HwGrows, ImportingInv, Idle
  <1>2. (StoreInv /\ SessionInv) /\ HighWaterInv /\ [Next]_vars => HighWaterInv'
    BY HighWaterStep
  <1> QED BY <1>1, <1>2, SessionInvariant, PTL DEF Spec

(* A high-water row is never committed without every record of its bundle, *)
(* however imports race, fail half-way or crash.                           *)
THEOREM HighWaterAlwaysImported == Spec => []HighWaterImpliesImported
  <1>1. HighWaterInv => HighWaterImpliesImported
    BY DEF HighWaterInv, HwCovers, HighWaterImpliesImported, Boundary
  <1> QED BY <1>1, HighWaterInvariant, PTL

(* No step lowers a committed high-water or changes its boundary at one    *)
(* version, an older bundle let in by hand included.                       *)
THEOREM HighWaterOnlyRises == Spec => HighWaterNeverLowered
  <1> DEFINE A == \A u \in DOMAIN db.hw :
                    /\ u \in DOMAIN db'.hw
                    /\ db'.hw[u].ver >= db.hw[u].ver
                    /\ db'.hw[u].ver = db.hw[u].ver => db'.hw[u] = db.hw[u]
  <1>1. (StoreInv /\ SessionInv) /\ HighWaterInv /\ [Next]_vars => [A]_vars
    BY HighWaterStep DEF HwGrows
  <1> QED BY <1>1, HighWaterInvariant, SessionInvariant, PTL DEF Spec, HighWaterNeverLowered
----------------------------------------------------------------------------
(***************************************************************************)
(* The import ledger.                                                      *)
(***************************************************************************)

(* Every upstream record in the log has its ledger row, which names it:    *)
(* what makes ImportedOnce inductive.                                      *)
RowsMarked(d) ==
  \A i \in 1..Size(d) : d.log[i].rec \notin Body => /\ d.log[i].rec \in DOMAIN d.imported
                                                    /\ d.imported[d.log[i].rec] = i
OnceInv == faults = 0 => RowsMarked(db) /\ RowsMarked(work)

(* Appending a record of the registry's own, or an upstream record the     *)
(* ledger does not know together with its row, keeps every row marked.     *)
LEMMA MarkedFacts ==
  ASSUME NEW d, IsDb(d), RowsMarked(d), NEW r \in Rec, NEW e,
         e.log = Append(d.log, NewRow(d, r)),
         \/ r \in Body /\ e.imported = d.imported
         \/ r \notin DOMAIN d.imported /\ e.imported = Put(d.imported, r, Size(e))
  PROVE  RowsMarked(e)
  <1>1. /\ d.log \in Seq(Row) /\ Size(d) \in Nat /\ NewRow(d, r).rec = r
    BY HeadType DEF NewRow
  <1>2. /\ Len(e.log) = Len(d.log) + 1 /\ e.log[Len(d.log) + 1] = NewRow(d, r)
        /\ \A i \in 1..Len(d.log) : e.log[i] = d.log[i]
    BY <1>1
  <1>3. /\ Size(e) = Size(d) + 1 /\ e.log[Size(d) + 1] = NewRow(d, r)
        /\ \A i \in 1..Size(d) : e.log[i] = d.log[i]
    BY <1>2 DEF Size
  <1>4. \/ r \in Body /\ e.imported = d.imported
        \/ /\ r \notin DOMAIN d.imported
           /\ DOMAIN e.imported = DOMAIN d.imported \cup {r} /\ e.imported[r] = Size(e)
           /\ \A q \in DOMAIN d.imported : e.imported[q] = d.imported[q]
    BY DEF Put
  <1> SUFFICES ASSUME NEW i \in 1..Size(e), e.log[i].rec \notin Body
               PROVE  e.log[i].rec \in DOMAIN e.imported /\ e.imported[e.log[i].rec] = i
    BY DEF RowsMarked
  <1>5. CASE i = Size(d) + 1 BY <1>1, <1>3, <1>4, <1>5
  <1>6. CASE i # Size(d) + 1
    <2>1. i \in 1..Size(d) BY <1>1, <1>3, <1>6
    <2>2. /\ e.log[i].rec \in DOMAIN d.imported /\ d.imported[e.log[i].rec] = i
      BY <1>3, <2>1 DEF RowsMarked
    <2> QED BY <1>4, <2>2
  <1> QED BY <1>5, <1>6

(* Every action keeps that.                                                *)
LEMMA OnceStep == StoreInv /\ SessionInv /\ OnceInv /\ [Next]_vars => OnceInv'
  <1> SUFFICES ASSUME StoreInv, SessionInv, OnceInv, [Next]_vars, faults' = 0 PROVE OnceInv'
    BY DEF OnceInv
  <1>0. Effect BY StepEffect
  <1>1. faults = 0 /\ ~(\E kind \in FaultKinds : Corrupt(kind))
    BY FaultStep DEF StoreInv
  <1>t. IsDb(db) /\ IsDb(work) /\ TypeOK BY DEF StoreInv, TypeOK
  <1>i. RowsMarked(db) /\ RowsMarked(work) BY <1>1 DEF OnceInv
  <1>s. ASSUME NEW d, NEW e, RowsMarked(d), e.log = d.log, e.imported = d.imported
        PROVE  RowsMarked(e)
    BY <1>s DEF RowsMarked, Size
  <1>g. RowsMarked(db') /\ RowsMarked(work') => OnceInv' BY DEF OnceInv
  <1>2. ASSUME Quiet \/ Drop PROVE OnceInv'
    BY <1>2, <1>g, <1>i DEF Quiet, Drop, Discard
  <1>3. ASSUME Rebuild PROVE OnceInv'
    <2>1. db'.log = db.log /\ db'.imported = db.imported /\ work' = db'
      BY <1>3, <1>t, EnsureFields DEF Rebuild
    <2> QED BY <1>g, <1>i, <1>s, <2>1
  <1>4. ASSUME NEW p \in Proc, NEW r \in Body, Appends(p, r) PROVE OnceInv'
    <2>1. UNCHANGED db /\ work' = AppendRow(db, r) /\ r \in Rec
      BY <1>4, RecAssumption DEF Appends, Begin
    <2>2. work'.log = Append(db.log, NewRow(db, r)) /\ work'.imported = db.imported
      BY <1>t, <2>1, AppendRowIsAppend DEF IsAppend
    <2>3. RowsMarked(work') BY <1>i, <1>t, <2>1, <2>2, MarkedFacts
    <2> QED BY <1>g, <1>i, <2>1, <2>3
  <1>5. ASSUME NEW p \in Proc, SubmitBegin(p) PROVE OnceInv'
    <2> DEFINE c == call[p]
               d == Prune(db, c.now)
    <2>1. c # NoCall /\ c \in [scope : Scope, rec : Body, now : Nat]
      BY <1>5 DEF SubmitBegin, StoreInv, TypeOK
    <2>2. c.scope \in Scope /\ c.rec \in Body /\ c.rec \in Rec /\ c.now \in Nat
      BY <2>1, RecAssumption
    <2>3. UNCHANGED db /\ (work' = d \/ work' = AppendKeyed(d, c.scope, c.rec, c.now))
      BY <1>5 DEF SubmitBegin, Begin
    <2>4. IsDb(d) /\ d.log = db.log /\ d.imported = db.imported
      BY <1>t, PruneFields, PruneFacts
    <2> HIDE DEF d
    <2>5. RowsMarked(d) BY <1>i, <1>s, <2>4
    <2>6. CASE work' = AppendKeyed(d, c.scope, c.rec, c.now)
      <3>1. work'.log = Append(d.log, NewRow(d, c.rec)) /\ work'.imported = d.imported
        BY <2>2, <2>4, <2>6, KeyedFields
      <3>2. RowsMarked(work') BY <2>2, <2>4, <2>5, <3>1, MarkedFacts
      <3> QED BY <1>g, <1>i, <2>3, <3>2
    <2> QED BY <1>g, <1>i, <2>3, <2>5, <2>6
  <1>6. ASSUME NEW p \in Proc, NEW o \in Offers, NEW older \in BOOLEAN, ImportBegin(p, o, older)
        PROVE OnceInv'
    BY <1>6, <1>g, <1>i DEF ImportBegin, Begin
  <1>7. ASSUME NEW p \in Proc, ImportRow(p) PROVE OnceInv'
    <2>1. /\ UNCHANGED db /\ Head(todo) \in Rec
          /\ \/ work' = work
             \/ /\ Head(todo) \notin DOMAIN work.imported
                /\ work' = AppendImport(work, Head(todo))
      BY <1>7, <1>t DEF ImportRow, TypeOK
    <2>2. CASE /\ Head(todo) \notin DOMAIN work.imported
               /\ work' = AppendImport(work, Head(todo))
      <3>1. /\ work'.log = Append(work.log, NewRow(work, Head(todo)))
            /\ work'.imported = Put(work.imported, Head(todo), Size(work'))
        BY <1>t, <2>1, <2>2, ImportFields
      <3>2. RowsMarked(work') BY <1>i, <1>t, <2>1, <2>2, <3>1, MarkedFacts
      <3> QED BY <1>g, <1>i, <2>1, <3>2
    <2> QED BY <1>g, <1>i, <2>1, <2>2
  <1>8. ASSUME NEW p \in Proc, ImportMark(p) PROVE OnceInv'
    <2>1. UNCHANGED db /\ work'.log = work.log /\ work'.imported = work.imported
      BY <1>8, <1>t DEF ImportMark, IsDb
    <2> QED BY <1>g, <1>i, <1>s, <2>1
  <1>9. ASSUME NEW p \in Proc, Commit(p) PROVE OnceInv'
    BY <1>9, <1>g, <1>i DEF Commit
  <1> QED BY <1>0, <1>1, <1>2, <1>3, <1>4, <1>5, <1>6, <1>7, <1>8, <1>9 DEF Effect

(* An upstream record enters the log at most once, however many bundles    *)
(* carry it and however many imports race, repeat or fail half-way.        *)
THEOREM UpstreamRecordsOnce == Spec => []ImportedOnce
  <1>1. Init => OnceInv
    <2>1. Size(EmptyDb) = 0 BY DEF Size, EmptyDb
    <2> QED BY <2>1 DEF Init, OnceInv, RowsMarked
  <1>2. (StoreInv /\ SessionInv) /\ OnceInv /\ [Next]_vars => OnceInv'
    BY OnceStep
  <1>3. OnceInv => ImportedOnce BY DEF OnceInv, RowsMarked, ImportedOnce
  <1> QED BY <1>1, <1>2, <1>3, SessionInvariant, PTL DEF Spec
----------------------------------------------------------------------------

(***************************************************************************)
(* Induction over the log.                                                 *)
(***************************************************************************)

(* A set of numbers that has any has a least one.                          *)
LEMMA LeastNat ==
  ASSUME NEW T \in SUBSET Nat, T # {}
  PROVE  \E x \in T : \A y \in T : x <= y
  <1> DEFINE R == OpToRel(<, Nat)
  <1>1. IsWellFoundedOn(R, Nat) BY NatLessThanWellFounded
  <1>2. \A x, y \in Nat : x < y => <<x, y>> \in R
    BY DEF OpToRel
  <1> HIDE DEF R
  <1>3. PICK x \in T : \A y \in T : ~(<<y, x>> \in R)
    BY <1>1, WFMin
  <1>4. ASSUME NEW y \in T PROVE x <= y
    <2>1. x \in Nat /\ y \in Nat /\ <<y, x>> \notin R BY <1>3
    <2>2. ~(y < x) BY <1>2, <2>1
    <2> QED BY <2>1, <2>2
  <1> QED BY <1>4

(* Induction, with the property as a set of numbers.                       *)
LEMMA InductionSet ==
  ASSUME NEW T, 0 \in T, \A n \in Nat : n \in T => n + 1 \in T
  PROVE  Nat \subseteq T
  <1> SUFFICES ASSUME Nat \ T # {} PROVE FALSE
    OBVIOUS
  <1>1. PICK x \in Nat \ T : \A y \in Nat \ T : x <= y
    BY LeastNat
  <1>2. x # 0 /\ x - 1 \in Nat BY <1>1
  <1>3. x - 1 \in T BY <1>1, <1>2
  <1> QED BY <1>1, <1>2, <1>3

(* A chain that verifies commits, at each entry, to the records up to it.  *)
LEMMA ChainCommits ==
  ASSUME NEW d, IsDb(d), ChainOK(d), NEW n \in 0..Size(d)
  PROVE  /\ HashAt(d, n) \in Hash
         /\ Len(HashAt(d, n)) = n
         /\ \A i \in 1..n : HashAt(d, n)[i] = d.log[i].rec
  <1> DEFINE P(m) == /\ HashAt(d, m) \in Hash /\ Len(HashAt(d, m)) = m
                     /\ \A i \in 1..m : HashAt(d, m)[i] = d.log[i].rec
             T == {m \in Nat : m <= Size(d) => P(m)}
  <1>1. Size(d) \in Nat /\ \A i \in 1..Size(d) : d.log[i].rec \in Rec
    BY HeadType DEF Row
  <1>2. 0 \in T BY DEF HashAt, Genesis, Hash
  <1>3. ASSUME NEW m \in Nat, m \in T PROVE m + 1 \in T
    <2> SUFFICES ASSUME m + 1 <= Size(d) PROVE P(m + 1)
      OBVIOUS
    <2>1. m + 1 \in 1..Size(d) /\ P(m) BY <1>1, <1>3
    <2>2. /\ d.log[m + 1].hash = EntryHash(HashAt(d, (m + 1) - 1), d.log[m + 1].rec)
          /\ (m + 1) - 1 = m
      BY <2>1 DEF ChainOK
    <2>3. HashAt(d, m + 1) = Append(HashAt(d, m), d.log[m + 1].rec)
      <3>1. HashAt(d, m + 1) = d.log[m + 1].hash BY DEF HashAt
      <3> QED BY <2>2, <3>1 DEF EntryHash
    <2>4. d.log[m + 1].rec \in Rec BY <1>1, <2>1
    <2> DEFINE h == HashAt(d, m)
    <2>5. h \in Seq(Rec) /\ Len(h) = m /\ \A i \in 1..m : h[i] = d.log[i].rec
      BY <2>1 DEF Hash
    <2> HIDE DEF h
    <2>6. /\ Append(h, d.log[m + 1].rec) \in Seq(Rec)
          /\ Len(Append(h, d.log[m + 1].rec)) = m + 1
          /\ \A i \in 1..(m + 1) : Append(h, d.log[m + 1].rec)[i] = d.log[i].rec
      BY <2>4, <2>5
    <2> QED BY <2>3, <2>6 DEF Hash, h
  <1> HIDE DEF P
  <1>4. Nat \subseteq T BY <1>2, <1>3, InductionSet
  <1>5. P(n) BY <1>1, <1>4
  <1> QED BY <1>5 DEF P
----------------------------------------------------------------------------
(***************************************************************************)
(* The abstract log.                                                       *)
(***************************************************************************)

(* Only serving a snapshot adds to what was served, and it writes nothing. *)
LEMMA ServedStep ==
  ASSUME [Next]_vars
  PROVE  \/ UNCHANGED served
         \/ UNCHANGED <<db, writer, work, outcome>> /\ served' = served \cup {SnapshotBoundary(db)}
  <1> DEFINE Goal == \/ UNCHANGED served
                     \/ /\ UNCHANGED <<db, writer, work, outcome>>
                        /\ served' = served \cup {SnapshotBoundary(db)}
  <1>1. ASSUME NEW p \in Proc, Step(p) PROVE Goal
    <2>1. CASE Open(p) \/ Crash(p) BY <2>1 DEF Open, Crash, history
    <2>2. CASE \E r \in Body : AppendBegin(p, r) BY <2>2 DEF AppendBegin, history
    <2>3. CASE \E k \in Scope, r \in Body : Submit(p, k, r) BY <2>3 DEF Submit, history
    <2>4. CASE SubmitBegin(p) \/ SubmitRefused(p)
      BY <2>4 DEF SubmitBegin, SubmitRefused, history
    <2>5. CASE \E o \in Offers, older \in BOOLEAN : ImportBegin(p, o, older)
      BY <2>5 DEF ImportBegin, history
    <2>6. CASE ImportRow(p) \/ ImportLatch(p) \/ ImportMark(p)
      BY <2>6 DEF ImportRow, ImportLatch, ImportMark, history
    <2>7. CASE Commit(p) \/ Rollback(p) BY <2>7 DEF Commit, Rollback, history
    <2>8. CASE ServeSnapshot(p) BY <2>8 DEF ServeSnapshot, storage
    <2>9. CASE PassBegin(p) \/ PassEnd(p) \/ PassFail(p)
      BY <2>9 DEF PassBegin, PassEnd, PassFail, history
    <2> QED BY <1>1, <2>1, <2>2, <2>3, <2>4, <2>5, <2>6, <2>7, <2>8, <2>9 DEF Step
  <1>2. Tick \/ (\E kind \in FaultKinds : Corrupt(kind)) \/ UNCHANGED vars => Goal
    BY DEF Tick, Corrupt, vars, history
  <1> QED BY <1>1, <1>2 DEF Next

(* What a step does to the committed database.                             *)
LEMMA DbStep ==
  ASSUME [Next]_vars
  PROVE  \/ UNCHANGED db
         \/ db' = EnsureBoundaries(db) /\ IntegrityOK(db)
         \/ db' = work
         \/ \E kind \in FaultKinds : Corrupt(kind)
  <1> DEFINE Goal == \/ UNCHANGED db
                     \/ db' = EnsureBoundaries(db) /\ IntegrityOK(db)
                     \/ db' = work
                     \/ \E kind \in FaultKinds : Corrupt(kind)
  <1>1. Quiet \/ Rebuild \/ Drop => Goal BY DEF Quiet, Rebuild, Drop
  <1>2. (\E p \in Proc, r \in Body : Appends(p, r)) => Goal BY DEF Appends
  <1>3. (\E p \in Proc : SubmitBegin(p) \/ ImportRow(p) \/ ImportMark(p) \/ Commit(p)) => Goal
    BY DEF SubmitBegin, ImportRow, ImportMark, Commit
  <1>4. (\E p \in Proc, o \in Offers, older \in BOOLEAN : ImportBegin(p, o, older)) => Goal
    BY DEF ImportBegin
  <1>5. (\E kind \in FaultKinds : Corrupt(kind)) => Goal OBVIOUS
  <1> QED BY <1>1, <1>2, <1>3, <1>4, <1>5, StepEffect DEF Effect

(* With intact storage the registry implements the abstract log: a commit  *)
(* of any number of entries is one step of it, a transaction that is       *)
(* rolled back none, and every head served signs the log as it was.        *)
THEOREM StoreImplementsLog ==
  ASSUME MaxFaults = 0
  PROVE  Spec => ImplementsLog
  <1>1. ASSUME NEW d, IsDb(d)
        PROVE /\ Contents(d) \in Seq(Rec) /\ Len(Contents(d)) = Size(d)
              /\ \A i \in 1..Size(d) : Contents(d)[i] = d.log[i].rec
    <2>1. Size(d) \in Nat /\ \A i \in 1..Size(d) : d.log[i].rec \in Rec
      BY <1>1, HeadType DEF Row
    <2> QED BY <2>1 DEF Contents
  <1>2. Init => Log!Init
    <2> SUFFICES ASSUME Init PROVE Log!Init
      OBVIOUS
    <2>1. db = EmptyDb /\ served = {} BY DEF Init
    <2>2. Contents(db) \in Seq(Rec) /\ Len(Contents(db)) = 0
      BY <1>1, <2>1, EmptyFacts DEF Size, EmptyDb
    <2>3. Contents(db) = <<>> BY <2>2
    <2> QED BY <2>1, <2>3 DEF Log!Init
  <1>3. StoreInv /\ [Next]_vars => [Log!Next]_<<Contents(db), {s.head : s \in served}>>
    <2> SUFFICES ASSUME StoreInv, [Next]_vars
                 PROVE  \/ Log!Next
                        \/ UNCHANGED <<Contents(db), {s.head : s \in served}>>
      OBVIOUS
    <2>1. /\ faults = 0 /\ IsDb(db) /\ IsDb(work) /\ Sound(db) /\ Extends(db, work)
          /\ Size(db) \in Nat /\ Size(work) \in Nat
      BY HeadType, MaxFaults = 0 DEF StoreInv, TypeOK, TransactionInv, IntactInv
    <2>2. ~(\E kind \in FaultKinds : Corrupt(kind))
      BY <2>1, MaxFaults = 0 DEF Corrupt
    <2>3. ASSUME NEW d, NEW e, e.log = d.log PROVE Contents(e) = Contents(d)
      BY <2>3 DEF Contents, Size
    <2>4. CASE /\ UNCHANGED db /\ served' = served \cup {SnapshotBoundary(db)}
      <3>1. SnapshotBoundary(db).head = HashAt(db, Size(db))
        BY DEF SnapshotBoundary, HeadHash
      <3>2. /\ HashAt(db, Size(db)) \in Seq(Rec) /\ Len(HashAt(db, Size(db))) = Size(db)
            /\ \A i \in 1..Size(db) : HashAt(db, Size(db))[i] = db.log[i].rec
        BY <2>1, ChainCommits DEF Sound, VerifiesClean, IntegrityOK, Hash
      <3>3. HashAt(db, Size(db)) = Contents(db)
        BY <1>1, <2>1, <3>2
      <3>4. {s.head : s \in served'} = {s.head : s \in served} \cup {Contents(db)}
        BY <2>4, <3>1, <3>3
      <3> QED BY <2>4, <3>4 DEF Log!Next, Log!Sign, Contents, Size
    <2>5. CASE UNCHANGED served
      <3>1. CASE Contents(db') = Contents(db)
        <4>1. Contents(db)' = Contents(db) BY <3>1 DEF Contents, Size
        <4>2. {s.head : s \in served}' = {s.head : s \in served} BY <2>5
        <4> QED BY <4>1, <4>2
      <3>2. CASE db' = work /\ Contents(db') # Contents(db)
        <4>1. /\ Contents(work) \in Seq(Rec) /\ Len(Contents(work)) = Size(work)
              /\ Contents(db) \in Seq(Rec) /\ Len(Contents(db)) = Size(db)
          BY <1>1, <2>1
        <4>2. \A i \in 1..Size(db) : Contents(work)[i] = Contents(db)[i]
          BY <1>1, <2>1 DEF Extends
        <4>3. Size(work) # Size(db) BY <3>2, <4>1, <4>2
        <4>4. Size(work) > Size(db) BY <2>1, <4>3 DEF Extends
        <4>5. Contents(db)' = Contents(work) BY <3>2 DEF Contents, Size
        <4>6. {s.head : s \in served}' = {s.head : s \in served} BY <2>5
        <4>7. Log!Extend
          BY <4>1, <4>2, <4>4, <4>5, <4>6 DEF Log!Extend
        <4> QED BY <4>7 DEF Log!Next
      <3>3. db' = work \/ Contents(db') = Contents(db)
        BY <2>1, <2>2, <2>3, DbStep, EnsureFields
      <3> QED BY <3>1, <3>2, <3>3
    <2> QED BY <2>4, <2>5, ServedStep
  <1> QED BY <1>2, <1>3, StoreInvariant, PTL DEF Spec, ImplementsLog, Log!Spec
----------------------------------------------------------------------------
(***************************************************************************)
(* The heads the registry served agree, whatever the log lost meanwhile.   *)
(***************************************************************************)

(* A head of n records that is what G holds.                               *)
Within(h, n, G) == h \in Hash /\ Len(h) = n /\ \A j \in 1..n : h[j] = G[j]

(* G holds a record for every sequence number ever issued, and the log     *)
(* that is left is a beginning of it.                                      *)
Written(d, G) ==
  /\ Size(d) <= d.autoinc
  /\ \A i \in 1..Size(d) : Within(d.log[i].hash, i, G)

(* The committed log, the open transaction and everything served are parts *)
(* of one history, of which the sequence counter counts the issued part.   *)
IsHistory(d, w, S, G, W) ==
  /\ Written(d, G) /\ Written(w, W)
  /\ d.autoinc <= w.autoinc
  /\ \A j \in 1..d.autoinc : W[j] = G[j]
  /\ \A s \in S : s.size <= d.autoinc /\ Within(s.head, s.size, G)

HistoryOf(d, w, S) ==
  \E G \in [1..d.autoinc -> Rec], W \in [1..w.autoinc -> Rec] : IsHistory(d, w, S, G, W)

HistoryInv == HistoryOf(db, work, served)

(* A database with the same counter and some of the same rows is part of   *)
(* the same history.                                                       *)
Less(e, d) == /\ e.autoinc = d.autoinc /\ Size(e) <= Size(d)
              /\ \A i \in 1..Size(e) : e.log[i].hash = d.log[i].hash

LEMMA LessWritten ==
  ASSUME NEW d, IsDb(d), NEW e, IsDb(e), Less(e, d), NEW G, Written(d, G)
  PROVE  Written(e, G)
  <1>1. /\ Size(d) \in Nat /\ Size(e) \in Nat
        /\ d.autoinc \in Nat /\ e.autoinc \in Nat
    BY HeadType DEF IsDb
  <1> QED BY <1>1 DEF Written, Less

(* A transaction may be dropped, committed, or lose rows; nothing served   *)
(* is contradicted.                                                        *)
LEMMA HistoryKept ==
  ASSUME NEW d, IsDb(d), NEW w, IsDb(w), NEW S, HistoryOf(d, w, S)
  PROVE  /\ HistoryOf(d, d, S) /\ HistoryOf(w, w, S)
         /\ \A e : IsDb(e) /\ Less(e, w) => HistoryOf(d, e, S)
         /\ \A e : IsDb(e) /\ Less(e, d) => HistoryOf(e, e, S)
  <1>1. PICK G \in [1..d.autoinc -> Rec], W \in [1..w.autoinc -> Rec] : IsHistory(d, w, S, G, W)
    BY DEF HistoryOf
  <1>2. /\ d.autoinc \in Nat /\ w.autoinc \in Nat
        /\ Written(d, G) /\ Written(w, W) /\ d.autoinc <= w.autoinc
        /\ \A j \in 1..d.autoinc : W[j] = G[j]
        /\ \A s \in S : s.size <= d.autoinc /\ Within(s.head, s.size, G)
    BY <1>1 DEF IsHistory, IsDb
  <1>3. IsHistory(d, d, S, G, G) BY <1>2 DEF IsHistory
  <1>4. IsHistory(w, w, S, W, W)
    <2>1. ASSUME NEW s \in S PROVE s.size <= w.autoinc /\ Within(s.head, s.size, W)
      <3>1. s.size <= d.autoinc /\ Within(s.head, s.size, G) BY <1>2
      <3>2. s.size \in Nat BY <3>1 DEF Within, Hash
      <3> QED BY <1>2, <3>1, <3>2 DEF Within
    <2> QED BY <1>2, <2>1 DEF IsHistory
  <1>5. ASSUME NEW e, IsDb(e), Less(e, w) PROVE HistoryOf(d, e, S)
    <2>1. Written(e, W) /\ e.autoinc = w.autoinc
      BY <1>2, <1>5, LessWritten DEF Less
    <2>2. IsHistory(d, e, S, G, W) BY <1>2, <2>1 DEF IsHistory
    <2> QED BY <1>1, <2>1, <2>2 DEF HistoryOf
  <1>6. ASSUME NEW e, IsDb(e), Less(e, d) PROVE HistoryOf(e, e, S)
    <2>1. Written(e, G) /\ e.autoinc = d.autoinc
      BY <1>2, <1>6, LessWritten DEF Less
    <2>2. IsHistory(e, e, S, G, G) BY <1>2, <2>1 DEF IsHistory
    <2> QED BY <1>1, <2>1, <2>2 DEF HistoryOf
  <1> QED BY <1>1, <1>3, <1>4, <1>5, <1>6 DEF HistoryOf

(* One more row, under the next sequence number.                           *)
Grown(a, w, r) == a.log = Append(w.log, NewRow(w, r)) /\ a.autoinc = w.autoinc + 1

LEMMA KeyedGrows ==
  ASSUME NEW d, IsDb(d), NEW k \in Scope, NEW r \in Rec, NEW now \in Nat,
         NEW e, e = AppendKeyed(d, k, r, now)
  PROVE  /\ Grown(e, d, r) /\ GrowsBounds(e, d, r)
         /\ e.frontier = Append(d.frontier, NewHash(d, r))
  BY KeyedFields DEF Grown

(* An append that takes the next sequence number continues the history.    *)
LEMMA HistoryAppend ==
  ASSUME NEW d, IsDb(d), NEW w, IsDb(w), NEW S, HistoryOf(d, w, S), w.autoinc = Size(w),
         NEW r \in Rec, NEW a, IsDb(a), Grown(a, w, r)
  PROVE  HistoryOf(d, a, S)
  <1>1. PICK G \in [1..d.autoinc -> Rec], W \in [1..w.autoinc -> Rec] : IsHistory(d, w, S, G, W)
    BY DEF HistoryOf
  <1>2. /\ d.autoinc \in Nat /\ w.autoinc \in Nat
        /\ Written(d, G) /\ Written(w, W) /\ d.autoinc <= w.autoinc
        /\ \A j \in 1..d.autoinc : W[j] = G[j]
        /\ \A s \in S : s.size <= d.autoinc /\ Within(s.head, s.size, G)
    BY <1>1 DEF IsHistory, IsDb
  <1> DEFINE n == w.autoinc
  <1>0. a.autoinc = n + 1 BY DEF Grown
  <1> DEFINE V == [j \in 1..(n + 1) |-> IF j = n + 1 THEN r ELSE W[j]]
  <1>3. V \in [1..(n + 1) -> Rec] /\ V[n + 1] = r /\ \A j \in 1..n : V[j] = W[j]
    BY <1>2
  <1> HIDE DEF V
  <1>4. /\ Size(a) = n + 1
        /\ \A i \in 1..n : a.log[i] = w.log[i]
        /\ a.log[n + 1].hash = Append(HeadHash(w), r)
    <2>1. w.log \in Seq(Row) /\ Len(w.log) = n BY HeadType DEF Size
    <2>2. NewRow(w, r).hash = Append(HeadHash(w), r) BY DEF NewRow, NewHash, EntryHash
    <2>3. NewRow(w, r) \in Row
      <3>1. HeadHash(w) \in Seq(Rec) BY HeadType DEF Hash
      <3>2. Append(HeadHash(w), r) \in Hash BY <3>1 DEF Hash
      <3> QED BY <3>1, <3>2 DEF NewRow, NewHash, EntryHash, Row, Hash
    <2>4. a.log[n + 1] = NewRow(w, r) /\ Len(a.log) = n + 1 /\ \A i \in 1..n : a.log[i] = w.log[i]
      BY <2>1, <2>3 DEF Grown
    <2> QED BY <2>2, <2>4 DEF Size
  <1>5. Within(HeadHash(w), n, W)
    <2>1. CASE n = 0
      BY <2>1 DEF Within, HeadHash, HashAt, Genesis, Hash
    <2>2. CASE n # 0
      <3>1. n \in 1..Size(w) /\ HeadHash(w) = w.log[n].hash
        BY <1>2, <2>2 DEF HeadHash, HashAt
      <3> QED BY <1>2, <3>1 DEF Written
    <2> QED BY <2>1, <2>2
  <1>6. Within(a.log[n + 1].hash, n + 1, V)
    <2> DEFINE h == HeadHash(w)
    <2>1. h \in Seq(Rec) /\ Len(h) = n /\ \A j \in 1..n : h[j] = W[j]
      BY <1>5 DEF Within, Hash
    <2> HIDE DEF h
    <2>2. /\ Append(h, r) \in Seq(Rec) /\ Len(Append(h, r)) = n + 1
          /\ \A j \in 1..(n + 1) : Append(h, r)[j] = V[j]
      BY <1>2, <1>3, <2>1
    <2> QED BY <1>4, <2>2 DEF Within, Hash, h
  <1>7. ASSUME NEW i \in 1..Size(a) PROVE Within(a.log[i].hash, i, V)
    <2>1. CASE i = n + 1 BY <1>6, <2>1
    <2>2. CASE i # n + 1
      <3>1. i \in 1..n /\ a.log[i] = w.log[i] BY <1>2, <1>4, <2>2
      <3>2. Within(w.log[i].hash, i, W) BY <1>2, <3>1 DEF Written
      <3> QED BY <1>2, <1>3, <3>1, <3>2 DEF Within
    <2> QED BY <2>1, <2>2
  <1>8. Written(a, V) BY <1>0, <1>2, <1>4, <1>7 DEF Written
  <1>9. \A j \in 1..d.autoinc : V[j] = G[j] BY <1>2, <1>3
  <1>10. IsHistory(d, a, S, G, V) BY <1>0, <1>2, <1>8, <1>9 DEF IsHistory
  <1> QED BY <1>0, <1>1, <1>3, <1>10 DEF HistoryOf

(* Serving the live head adds a statement about the same history.          *)
LEMMA HistoryServe ==
  ASSUME NEW d, IsDb(d), NEW w, NEW S, HistoryOf(d, w, S)
  PROVE  HistoryOf(d, w, S \cup {SnapshotBoundary(d)})
  <1>1. PICK G \in [1..d.autoinc -> Rec], W \in [1..w.autoinc -> Rec] : IsHistory(d, w, S, G, W)
    BY DEF HistoryOf
  <1> DEFINE b == SnapshotBoundary(d)
  <1>2. b.size = Size(d) /\ b.head = HeadHash(d) BY DEF SnapshotBoundary
  <1> HIDE DEF b
  <1>3. Size(d) \in Nat /\ Size(d) <= d.autoinc BY <1>1, HeadType DEF IsHistory, Written
  <1>4. Within(HeadHash(d), Size(d), G)
    <2>1. CASE Size(d) = 0
      BY <2>1 DEF Within, HeadHash, HashAt, Genesis, Hash
    <2>2. CASE Size(d) # 0
      <3>1. Size(d) \in 1..Size(d) /\ HeadHash(d) = d.log[Size(d)].hash
        BY <1>3, <2>2 DEF HeadHash, HashAt
      <3> QED BY <1>1, <3>1 DEF IsHistory, Written
    <2> QED BY <2>1, <2>2
  <1>5. IsHistory(d, w, S \cup {b}, G, W)
    BY <1>1, <1>2, <1>3, <1>4 DEF IsHistory
  <1> QED BY <1>1, <1>5 DEF HistoryOf, b

(* Every step keeps the history, unless a fault rewrites a log hash.       *)
LEMMA HistoryStep ==
  ASSUME "hash" \notin FaultKinds, StoreInv, HistoryInv, [Next]_vars
  PROVE  HistoryInv'
  <1>1. /\ IsDb(db) /\ IsDb(work) /\ IsDb(db') /\ IsDb(work')
        /\ writer = Nobody => work = db
    BY TypeStep DEF StoreInv, TypeOK, TransactionInv
  <1>2. HistoryOf(db, work, served) BY DEF HistoryInv
  <1>3. ASSUME UNCHANGED <<db, work>>, served' = served \cup {SnapshotBoundary(db)}
        PROVE  HistoryInv'
    <2>1. HistoryOf(db, work, served \cup {SnapshotBoundary(db)})
      BY <1>1, <1>2, HistoryServe
    <2> QED BY <1>3, <2>1 DEF HistoryInv
  <1> SUFFICES ASSUME UNCHANGED served PROVE HistoryOf(db', work', served)
    BY <1>3, ServedStep DEF HistoryInv
  <1>4. /\ HistoryOf(db, db, served) /\ HistoryOf(work, work, served)
        /\ \A e : IsDb(e) /\ Less(e, work) => HistoryOf(db, e, served)
        /\ \A e : IsDb(e) /\ Less(e, db) => HistoryOf(e, e, served)
    BY <1>1, <1>2, HistoryKept
  <1>5. ASSUME NEW e, NEW d, IsDb(d), e.log = d.log, e.autoinc = d.autoinc PROVE Less(e, d)
    <2>1. Size(d) \in Nat /\ Size(e) = Size(d) BY <1>5, HeadType DEF Size
    <2> QED BY <1>5, <2>1 DEF Less
  <1>6. CASE Quiet \/ Drop
    BY <1>2, <1>4, <1>6 DEF Quiet, Drop, Discard
  <1>7. CASE Rebuild
    <2>1. db' = EnsureBoundaries(db) /\ work' = db' BY <1>7 DEF Rebuild
    <2>2. db'.log = db.log /\ db'.autoinc = db.autoinc BY <1>1, <2>1, EnsureFields
    <2> QED BY <1>1, <1>4, <1>5, <2>1, <2>2
  <1>8. ASSUME NEW p \in Proc, NEW r \in Body, Appends(p, r)
        PROVE  HistoryOf(db', work', served)
    <2>1. /\ db' = db /\ work' = AppendRow(db, r) /\ db.autoinc = Size(db) /\ r \in Rec
      BY <1>8, RecAssumption DEF Appends, Begin, AppendFits
    <2>2. Grown(work', db, r) BY <1>1, <2>1, AppendRowIsAppend DEF Grown, IsAppend
    <2> QED BY <1>1, <1>4, <2>1, <2>2, HistoryAppend
  <1>9. ASSUME NEW p \in Proc, SubmitBegin(p) PROVE HistoryOf(db', work', served)
    <2> DEFINE c == call[p]
               d == Prune(db, c.now)
    <2>1. /\ d.log = db.log /\ d.autoinc = db.autoinc
          /\ IsDb(d) /\ db' = db /\ c # NoCall
      BY <1>1, <1>9, PruneFields, PruneFacts DEF SubmitBegin
    <2>2. c.scope \in Scope /\ c.rec \in Rec /\ c.now \in Nat
      BY <2>1, RecAssumption DEF StoreInv, TypeOK
    <2> HIDE DEF d
    <2>3. HistoryOf(db, d, served)
      <3>1. Less(d, db) BY <1>1, <1>5, <2>1
      <3> QED BY <1>1, <1>4, <2>1, <3>1, HistoryKept
    <2>4. CASE work' = d BY <2>1, <2>3, <2>4
    <2>5. CASE AppendFits(d) /\ work' = AppendKeyed(d, c.scope, c.rec, c.now)
      <3>1. Grown(work', d, c.rec)
        BY <2>1, <2>2, <2>5, KeyedFields DEF Grown
      <3>2. d.autoinc = Size(d) BY <2>5 DEF AppendFits
      <3> QED BY <1>1, <2>1, <2>2, <2>3, <3>1, <3>2, HistoryAppend
    <2> QED BY <1>9, <2>4, <2>5 DEF SubmitBegin, Begin, d
  <1>10. ASSUME NEW p \in Proc, NEW o \in Offers, NEW older \in BOOLEAN, ImportBegin(p, o, older)
         PROVE  HistoryOf(db', work', served)
    BY <1>4, <1>10 DEF ImportBegin, Begin
  <1>11. ASSUME NEW p \in Proc, ImportRow(p) PROVE HistoryOf(db', work', served)
    <2>1. CASE UNCHANGED work BY <1>2, <1>11, <2>1 DEF ImportRow
    <2>2. CASE AppendFits(work) /\ work' = AppendImport(work, Head(todo))
      <3>1. Head(todo) \in Rec /\ db' = db BY <1>11 DEF ImportRow, StoreInv, TypeOK
      <3>2. Grown(work', work, Head(todo))
        BY <1>1, <2>2, <3>1, ImportFields DEF Grown
      <3>3. work.autoinc = Size(work) BY <2>2 DEF AppendFits
      <3> QED BY <1>1, <1>2, <3>1, <3>2, <3>3, HistoryAppend
    <2> QED BY <1>11, <2>1, <2>2 DEF ImportRow
  <1>12. ASSUME NEW p \in Proc, ImportMark(p) PROVE HistoryOf(db', work', served)
    <2>1. db' = db /\ work'.log = work.log /\ work'.autoinc = work.autoinc
      BY <1>1, <1>12 DEF ImportMark, IsDb
    <2> QED BY <1>1, <1>4, <1>5, <2>1
  <1>13. ASSUME NEW p \in Proc, Commit(p) PROVE HistoryOf(db', work', served)
    BY <1>4, <1>13 DEF Commit
  <1>14. ASSUME NEW kind \in FaultKinds, Corrupt(kind) PROVE HistoryOf(db', work', served)
    <2>1. db' \in Damaged(db, kind) /\ work' = db' BY <1>14 DEF Corrupt
    <2>2. Less(db', db)
      BY <1>1, <2>1, DamagedKeeps, "hash" \notin FaultKinds DEF Less
    <2> QED BY <1>1, <1>4, <2>1, <2>2
  <1> QED BY StepEffect, <1>6, <1>7, <1>8, <1>9, <1>10, <1>11, <1>12, <1>13, <1>14 DEF Effect

(* No two heads ever served contradict each other, even when faults        *)
(* truncate, prune or damage the log and its caches, any number of times:  *)
(* SQLite never issues a sequence number twice, and an append that would   *)
(* need one again is refused.  (A fault that rewrites stored log hashes    *)
(* can forge a head: that case is excluded, and left to verification.)     *)
THEOREM ServedHeadsAgree ==
  ASSUME "hash" \notin FaultKinds
  PROVE  Spec => []SnapshotsConsistent
  <1>1. Init => HistoryInv
    <2> SUFFICES ASSUME Init PROVE HistoryInv
      OBVIOUS
    <2>1. db = EmptyDb /\ work = EmptyDb /\ served = {} BY DEF Init
    <2>2. EmptyDb.autoinc = 0 /\ Size(EmptyDb) = 0 BY DEF EmptyDb, Size
    <2> DEFINE G == [j \in 1..0 |-> 0]
    <2>3. G \in [1..0 -> Rec] OBVIOUS
    <2>4. Written(EmptyDb, G) BY <2>2 DEF Written
    <2>5. IsHistory(EmptyDb, EmptyDb, {}, G, G) BY <2>2, <2>4 DEF IsHistory
    <2> HIDE DEF G
    <2> QED BY <2>1, <2>2, <2>3, <2>5 DEF HistoryInv, HistoryOf
  <1>2. StoreInv /\ HistoryInv /\ [Next]_vars => HistoryInv'
    BY HistoryStep
  <1>3. StoreInv /\ HistoryInv => SnapshotsConsistent
    <2> SUFFICES ASSUME StoreInv, HistoryInv, NEW s \in served, NEW t \in served,
                        s.size <= t.size
                 PROVE  s.head = SubSeq(t.head, 1, s.size)
      BY DEF SnapshotsConsistent
    <2>1. PICK G : \A x \in served : Within(x.head, x.size, G)
      BY DEF HistoryInv, HistoryOf, IsHistory
    <2> DEFINE g == s.head
               h == t.head
               m == s.size
               n == t.size
    <2>2. /\ g \in Seq(Rec) /\ Len(g) = m /\ h \in Seq(Rec) /\ Len(h) = n
          /\ \A j \in 1..m : g[j] = G[j]
          /\ \A j \in 1..n : h[j] = G[j]
      BY <2>1 DEF Within, Hash
    <2> HIDE DEF g, h, m, n
    <2>3. m <= n /\ m \in Nat /\ n \in Nat BY <2>2 DEF m, n
    <2>4. SubSeq(h, 1, m) \in Seq(Rec) /\ Len(SubSeq(h, 1, m)) = m
          /\ \A j \in 1..m : SubSeq(h, 1, m)[j] = h[j]
      BY <2>2, <2>3
    <2>5. g = SubSeq(h, 1, m) BY <2>2, <2>3, <2>4
    <2> QED BY <2>5 DEF g, h, m
  <1> QED BY <1>1, <1>2, <1>3, StoreInvariant, PTL DEF Spec
----------------------------------------------------------------------------
(***************************************************************************)
(* The root an append attests, over damaged storage.                       *)
(***************************************************************************)
Leaf == Hash \ {Genesis}

(* What the Merkle tree is relied on for: the root of as many leaves       *)
(* determines them, and no root is the digest a blank row would hold.      *)
RootCommits ==
  \A f, g \in Seq(Leaf) :
     Len(f) = Len(g) /\ f # <<>> => Root(f) # Genesis /\ (Root(f) = Root(g) => f = g)

Attests(b) == b.root = Root(AttestedFrom(b.head))

(* Every boundary row attests its own head or was blanked by a fault.      *)
Attested(d) ==
  /\ \A n \in DOMAIN d.bounds : /\ d.bounds[n].head \in Hash /\ Len(d.bounds[n].head) = n
                                /\ d.bounds[n].root = Genesis \/ Attests(d.bounds[n])
  /\ \A i \in 1..Len(d.frontier) : d.frontier[i] \in Leaf

(* The rows a transaction has added beyond d do attest theirs.             *)
Fresh(d, w) ==
  \A n \in (Size(d) + 1)..Size(w) : n \in DOMAIN w.bounds /\ Attests(w.bounds[n])

AttestInv == Attested(db) /\ Attested(work) /\ Fresh(db, work)

(* The leaves a head attests, as a sequence.                               *)
LEMMA AttestedLeaves ==
  ASSUME NEW h \in Hash
  PROVE  /\ AttestedFrom(h) \in Seq(Leaf) /\ Len(AttestedFrom(h)) = Len(h)
         /\ \A i \in 1..Len(h) : AttestedFrom(h)[i] = SubSeq(h, 1, i)
  <1>1. h \in Seq(Rec) /\ Len(h) \in Nat BY DEF Hash
  <1>2. ASSUME NEW i \in 1..Len(h) PROVE SubSeq(h, 1, i) \in Leaf
    <2>1. SubSeq(h, 1, i) \in Seq(Rec) /\ Len(SubSeq(h, 1, i)) = i
      BY <1>1
    <2>2. SubSeq(h, 1, i) # <<>> BY <2>1
    <2> QED BY <2>1, <2>2 DEF Leaf, Hash, Genesis
  <1> QED BY <1>1, <1>2 DEF AttestedFrom

(* One more record attests one more leaf, the new head.                    *)
LEMMA AttestedGrows ==
  ASSUME NEW h \in Hash, NEW r \in Rec
  PROVE  /\ Append(h, r) \in Leaf /\ Len(Append(h, r)) = Len(h) + 1
         /\ AttestedFrom(Append(h, r)) = Append(AttestedFrom(h), Append(h, r))
  <1> DEFINE g == Append(h, r)
             n == Len(h)
             A == AttestedFrom(h)
             B == AttestedFrom(g)
  <1>1. /\ h \in Seq(Rec) /\ n \in Nat /\ g \in Seq(Rec) /\ Len(g) = n + 1
        /\ \A j \in 1..n : g[j] = h[j]
    BY DEF Hash
  <1>2. g # <<>> BY <1>1
  <1>3. g \in Leaf BY <1>1, <1>2 DEF Leaf, Hash, Genesis
  <1>4. /\ A \in Seq(Leaf) /\ Len(A) = n /\ \A i \in 1..n : A[i] = SubSeq(h, 1, i)
    BY AttestedLeaves
  <1>5. /\ B \in Seq(Leaf) /\ Len(B) = n + 1 /\ \A i \in 1..(n + 1) : B[i] = SubSeq(g, 1, i)
    BY <1>1, <1>3, AttestedLeaves DEF Leaf
  <1> HIDE DEF g, A, B, n
  <1>6. ASSUME NEW i \in 1..n PROVE SubSeq(g, 1, i) = SubSeq(h, 1, i)
    <2>1. i \in Nat /\ i <= n BY <1>1
    <2>2. SubSeq(g, 1, i) \in Seq(Rec) /\ Len(SubSeq(g, 1, i)) = i
          /\ \A j \in 1..i : SubSeq(g, 1, i)[j] = g[j]
      BY <1>1, <2>1
    <2>3. SubSeq(h, 1, i) \in Seq(Rec) /\ Len(SubSeq(h, 1, i)) = i
          /\ \A j \in 1..i : SubSeq(h, 1, i)[j] = h[j]
      BY <1>1, <2>1 DEF n
    <2>4. \A j \in 1..i : g[j] = h[j] BY <1>1, <2>1
    <2> QED BY <2>1, <2>2, <2>3, <2>4
  <1>7. SubSeq(g, 1, n + 1) = g BY <1>1
  <1>8. B = Append(A, g)
    <2>1. /\ Append(A, g) \in Seq(Leaf) /\ Len(Append(A, g)) = n + 1
          /\ \A i \in 1..n : Append(A, g)[i] = A[i]
          /\ Append(A, g)[n + 1] = g
      BY <1>1, <1>3, <1>4
    <2>2. \A i \in 1..(n + 1) : B[i] = Append(A, g)[i]
      BY <1>1, <1>4, <1>5, <1>6, <1>7, <2>1
    <2> QED BY <1>1, <1>5, <2>1, <2>2
  <1> QED BY <1>1, <1>3, <1>8 DEF g, A, B, n

(* The anchor checks pin the whole frontier, not only the leaves they      *)
(* compare: its root is that of the boundary row, which attests the head.  *)
LEMMA AnchoredFrontier ==
  ASSUME RootCommits, NEW d, IsDb(d), Attested(d), AnchorsHold(d)
  PROVE  /\ HeadHash(d) \in Hash /\ Len(HeadHash(d)) = Size(d)
         /\ d.frontier = AttestedFrom(HeadHash(d))
  <1> DEFINE h == HeadHash(d)
             f == d.frontier
             n == Size(d)
  <1>1. n \in Nat /\ h \in Hash /\ f \in Seq(Hash) /\ Len(f) = n
    BY HeadType DEF AnchorsHold, IsDb
  <1>2. f \in Seq(Leaf)
    <2>1. \A i \in 1..Len(f) : f[i] \in Leaf BY DEF Attested
    <2> QED BY <1>1, <2>1
  <1>3. CASE n = 0
    <2>1. h = <<>> BY <1>3 DEF HeadHash, HashAt, Genesis
    <2>2. Len(h) = 0 BY <2>1
    <2>3. AttestedFrom(h) \in Seq(Leaf) /\ Len(AttestedFrom(h)) = 0
      BY <1>1, <2>2, AttestedLeaves
    <2> QED BY <1>1, <1>2, <1>3, <2>2, <2>3
  <1>4. CASE n # 0
    <2>1. /\ n \in DOMAIN d.bounds /\ d.bounds[n].head = h
          /\ Root(f) = d.bounds[n].root
      BY <1>1, <1>4 DEF AnchorsHold
    <2>2. /\ Len(h) = n
          /\ d.bounds[n].root = Genesis \/ d.bounds[n].root = Root(AttestedFrom(h))
      BY <2>1 DEF Attested, Attests
    <2>3. AttestedFrom(h) \in Seq(Leaf) /\ Len(AttestedFrom(h)) = n
      BY <1>1, <2>2, AttestedLeaves
    <2>4. f # <<>> BY <1>1, <1>4
    <2>5. Root(f) # Genesis /\ (Root(f) = Root(AttestedFrom(h)) => f = AttestedFrom(h))
      BY <1>1, <1>2, <2>3, <2>4 DEF RootCommits
    <2> QED BY <1>1, <2>1, <2>2, <2>5
  <1> QED BY <1>3, <1>4

(* An append over matching anchors attests its own head.                   *)
LEMMA AttestAppend ==
  ASSUME RootCommits, NEW w, IsDb(w), Attested(w), AppendFits(w), NEW r \in Rec,
         NEW a, Grown(a, w, r), GrowsBounds(a, w, r),
         a.frontier = Append(w.frontier, NewHash(w, r))
  PROVE  /\ Attested(a)
         /\ \A d : IsDb(d) /\ Size(d) <= Size(w) /\ Fresh(d, w) => Fresh(d, a)
  <1> DEFINE h == HeadHash(w)
             g == Append(h, r)
             n == Size(w)
             b == [head |-> g, root |-> Root(a.frontier)]
  <1>1. /\ n \in Nat /\ h \in Hash /\ Len(h) = n
        /\ w.frontier = AttestedFrom(h) /\ NewHash(w, r) = g
    BY HeadType, AnchoredFrontier DEF AppendFits, NewHash, EntryHash
  <1>2. g \in Leaf /\ Len(g) = n + 1 /\ AttestedFrom(g) = Append(AttestedFrom(h), g)
    BY <1>1, AttestedGrows
  <1>3. a.frontier = AttestedFrom(g) BY <1>1, <1>2
  <1>4. a.bounds = Put(w.bounds, n + 1, b) BY <1>1 DEF GrowsBounds
  <1>5. b.head = g /\ b.root = Root(AttestedFrom(g)) BY <1>3
  <1> HIDE DEF b, g, h
  <1>6. /\ DOMAIN a.bounds = DOMAIN w.bounds \cup {n + 1} /\ a.bounds[n + 1] = b
        /\ \A m \in DOMAIN w.bounds : m # n + 1 => a.bounds[m] = w.bounds[m]
    BY <1>4 DEF Put
  <1>7. Attests(a.bounds[n + 1]) BY <1>5, <1>6 DEF Attests
  <1>8. \A m \in DOMAIN a.bounds : /\ a.bounds[m].head \in Hash /\ Len(a.bounds[m].head) = m
                                   /\ a.bounds[m].root = Genesis \/ Attests(a.bounds[m])
    BY <1>2, <1>5, <1>6, <1>7 DEF Attested, Leaf
  <1>9. \A i \in 1..Len(a.frontier) : a.frontier[i] \in Leaf
    <2>1. g \in Hash BY <1>2 DEF Leaf
    <2>2. AttestedFrom(g) \in Seq(Leaf) BY <2>1, AttestedLeaves
    <2> QED BY <1>3, <2>2
  <1>10. Size(a) = n + 1
    <2>1. w.log \in Seq(Row) BY HeadType
    <2>2. Len(Append(w.log, NewRow(w, r))) = Len(w.log) + 1 BY <2>1
    <2> QED BY <2>2 DEF Grown, Size
  <1>11. ASSUME NEW d, IsDb(d), Size(d) <= n, Fresh(d, w) PROVE Fresh(d, a)
    <2> SUFFICES ASSUME NEW m \in (Size(d) + 1)..Size(a)
                 PROVE  m \in DOMAIN a.bounds /\ Attests(a.bounds[m])
      BY DEF Fresh
    <2>1. Size(d) \in Nat BY <1>11, HeadType
    <2>2. CASE m = n + 1 BY <1>6, <1>7, <2>2
    <2>3. CASE m # n + 1
      <3>1. m \in (Size(d) + 1)..n BY <1>1, <1>10, <2>1, <2>3
      <3>2. m \in DOMAIN w.bounds /\ Attests(w.bounds[m]) BY <1>11, <3>1 DEF Fresh
      <3> QED BY <1>6, <2>3, <3>2
    <2> QED BY <2>2, <2>3
  <1> QED BY <1>8, <1>9, <1>11 DEF Attested

(* The startup rebuild attests each prefix of the chain it has verified.   *)
LEMMA AttestRebuild ==
  ASSUME NEW d, IsDb(d), IntegrityOK(d), NEW e, e = EnsureBoundaries(d)
  PROVE  Attested(e)
  <1>1. /\ Size(d) \in Nat /\ ChainOK(d)
        /\ e.bounds = [n \in 1..Size(d) |-> BoundaryAt(d, n)] /\ e.frontier = Leaves(d)
    BY HeadType, EnsureFields DEF IntegrityOK
  <1>2. ASSUME NEW n \in 0..Size(d)
        PROVE  /\ HashAt(d, n) \in Seq(Rec) /\ Len(HashAt(d, n)) = n
               /\ \A i \in 1..n : HashAt(d, n)[i] = d.log[i].rec
    BY <1>1, ChainCommits DEF Hash
  <1>3. ASSUME NEW n \in 1..Size(d) PROVE d.log[n].hash \in Leaf
    <2>1. d.log[n].hash = HashAt(d, n) BY DEF HashAt
    <2>2. HashAt(d, n) \in Seq(Rec) /\ Len(HashAt(d, n)) = n BY <1>1, <1>2
    <2>3. HashAt(d, n) # <<>> BY <2>2
    <2> QED BY <2>1, <2>2, <2>3 DEF Leaf, Hash, Genesis
  <1>4. ASSUME NEW n \in 1..Size(d) PROVE LeavesTo(d, n) = AttestedFrom(HashAt(d, n))
    <2> DEFINE h == HashAt(d, n)
    <2>1. h \in Seq(Rec) /\ Len(h) = n /\ \A i \in 1..n : h[i] = d.log[i].rec
      BY <1>1, <1>2
    <2> HIDE DEF h
    <2>2. ASSUME NEW i \in 1..n PROVE d.log[i].hash = SubSeq(h, 1, i)
      <3> DEFINE g == HashAt(d, i)
      <3>1. g \in Seq(Rec) /\ Len(g) = i /\ \A j \in 1..i : g[j] = d.log[j].rec
        BY <1>1, <1>2
      <3>2. g = d.log[i].hash BY DEF HashAt
      <3> HIDE DEF g
      <3>3. /\ SubSeq(h, 1, i) \in Seq(Rec) /\ Len(SubSeq(h, 1, i)) = i
            /\ \A j \in 1..i : SubSeq(h, 1, i)[j] = h[j]
        BY <2>1
      <3>4. \A j \in 1..i : h[j] = g[j] BY <2>1, <3>1
      <3>5. g = SubSeq(h, 1, i) BY <3>1, <3>3, <3>4
      <3> QED BY <3>2, <3>5
    <2>3. AttestedFrom(h) = [i \in 1..n |-> SubSeq(h, 1, i)] BY <2>1 DEF AttestedFrom
    <2>4. LeavesTo(d, n) = [i \in 1..n |-> d.log[i].hash] BY DEF LeavesTo
    <2>5. LeavesTo(d, n) = AttestedFrom(h) BY <2>2, <2>3, <2>4
    <2> QED BY <2>5 DEF h
  <1>5. ASSUME NEW n \in DOMAIN e.bounds
        PROVE  /\ e.bounds[n].head \in Hash /\ Len(e.bounds[n].head) = n
               /\ e.bounds[n].root = Genesis \/ Attests(e.bounds[n])
    <2>1. n \in 1..Size(d) /\ e.bounds[n] = BoundaryAt(d, n) BY <1>1
    <2>2. /\ e.bounds[n].head = HashAt(d, n) /\ e.bounds[n].root = Root(LeavesTo(d, n))
      BY <2>1 DEF BoundaryAt
    <2>3. HashAt(d, n) \in Hash /\ Len(HashAt(d, n)) = n BY <1>1, <1>2, <2>1 DEF Hash
    <2> QED BY <1>4, <2>1, <2>2, <2>3 DEF Attests
  <1>6. \A i \in 1..Len(e.frontier) : e.frontier[i] \in Leaf
    <2>1. Leaves(d) \in Seq(Leaf) BY <1>1, <1>3 DEF Leaves
    <2> QED BY <1>1, <2>1
  <1> QED BY <1>5, <1>6 DEF Attested

(* A fault may drop or blank a boundary row or exchange a leaf, but it     *)
(* does not make a row attest another head.                                *)
LEMMA AttestDamaged ==
  ASSUME NEW d, IsDb(d), Attested(d), NEW kind, NEW e \in Damaged(d, kind)
  PROVE  Attested(e)
  <1>1. /\ d.log \in Seq(Row) /\ Size(d) \in Nat
        /\ \A i \in 1..Size(d) : d.log[i] \in Row
        /\ DOMAIN d = {"log", "autoinc", "bounds", "frontier", "idem", "imported", "hw"}
        /\ d.frontier \in Seq(Hash)
    BY HeadType DEF IsDb
  <1>2. ASSUME e.bounds = d.bounds, e.frontier = d.frontier PROVE Attested(e)
    BY <1>2 DEF Attested
  <1>3. CASE kind \in {"truncate", "prune", "record", "hash", "answer"}
    <2>1. CASE kind = "truncate"
      <3>1. e = [d EXCEPT !.log = SubSeq(d.log, 1, Size(d) - 1)] BY <2>1 DEF Damaged
      <3> QED BY <1>1, <1>2, <3>1
    <2>2. CASE kind = "prune"
      <3>1. PICK i : e = [d EXCEPT !.log[i].live = FALSE] BY <2>2 DEF Damaged
      <3> QED BY <1>1, <1>2, <3>1
    <2>3. CASE kind = "record"
      <3>1. PICK i, r : e = [d EXCEPT !.log[i].rec = r] BY <2>3 DEF Damaged
      <3> QED BY <1>1, <1>2, <3>1
    <2>4. CASE kind = "hash"
      <3>1. PICK i, h : e = [d EXCEPT !.log[i].hash = h] BY <2>4 DEF Damaged
      <3> QED BY <1>1, <1>2, <3>1
    <2>5. CASE kind = "answer"
      <3>1. PICK k : e = [d EXCEPT !.idem[k].hash = Genesis] BY <2>5 DEF Damaged
      <3> QED BY <1>1, <1>2, <3>1
    <2> QED BY <1>3, <2>1, <2>2, <2>3, <2>4, <2>5
  <1>4. CASE kind = "dropBoundary"
    <2>1. PICK n \in DOMAIN d.bounds : 
             e = [d EXCEPT !.bounds = Keep(d.bounds, DOMAIN d.bounds \ {n})]
      BY <1>4 DEF Damaged
    <2>2. e.frontier = d.frontier /\ e.bounds = Keep(d.bounds, DOMAIN d.bounds \ {n})
      BY <1>1, <2>1
    <2>3. /\ DOMAIN e.bounds \subseteq DOMAIN d.bounds
          /\ \A m \in DOMAIN e.bounds : e.bounds[m] = d.bounds[m]
      BY <2>2 DEF Keep
    <2> QED BY <2>2, <2>3 DEF Attested
  <1>5. CASE kind = "root"
    <2>1. PICK n \in DOMAIN d.bounds : e = [d EXCEPT !.bounds[n].root = Genesis]
      BY <1>5 DEF Damaged
    <2>2. e.frontier = d.frontier /\ e.bounds = [d.bounds EXCEPT ![n].root = Genesis]
      BY <1>1, <2>1
    <2>3. /\ DOMAIN e.bounds = DOMAIN d.bounds
          /\ e.bounds[n] = [d.bounds[n] EXCEPT !.root = Genesis]
          /\ \A m \in DOMAIN d.bounds : m # n => e.bounds[m] = d.bounds[m]
      BY <2>2
    <2>4. DOMAIN d.bounds[n] = {"head", "root"} BY DEF IsDb
    <2>5. e.bounds[n].head = d.bounds[n].head /\ e.bounds[n].root = Genesis
      BY <2>3, <2>4
    <2> QED BY <2>2, <2>3, <2>5 DEF Attested
  <1>6. CASE kind = "frontier"
    <2>0. PICK i \in 1..Len(d.frontier) \cap 1..Size(d) :
             \E h \in OtherHash(d, i) : e = [d EXCEPT !.frontier[i] = h]
      BY <1>6 DEF Damaged
    <2>1. PICK g \in OtherHash(d, i) : e = [d EXCEPT !.frontier[i] = g]
      BY <2>0
    <2>2. e.bounds = d.bounds /\ e.frontier = [d.frontier EXCEPT ![i] = g]
      BY <1>1, <2>1
    <2>3. PICK r \in Body : g = Append(d.log[i].prev, r)
      BY <2>1 DEF OtherHash, EntryHash
    <2>4. d.log[i].prev \in Hash /\ r \in Rec
      BY <1>1, RecAssumption DEF Row
    <2>5. g \in Leaf BY <2>3, <2>4, AttestedGrows
    <2>6. /\ Len(e.frontier) = Len(d.frontier)
          /\ \A j \in 1..Len(d.frontier) : e.frontier[j] = IF j = i THEN g ELSE d.frontier[j]
      BY <1>1, <2>2
    <2>7. \A j \in 1..Len(e.frontier) : e.frontier[j] \in Leaf
      BY <2>5, <2>6 DEF Attested
    <2> QED BY <2>2, <2>7 DEF Attested
  <1> QED BY <1>3, <1>4, <1>5, <1>6 DEF Damaged

(* Every step keeps the attestation invariant.                             *)
LEMMA AttestStep ==
  ASSUME RootCommits, StoreInv, AttestInv, [Next]_vars
  PROVE  AttestInv' /\ (faults' = faults /\ Size(db') > Size(db) => db' = work)
  <1>1. /\ IsDb(db) /\ IsDb(work) /\ IsDb(db') /\ IsDb(work')
        /\ Size(db) \in Nat /\ Size(work) \in Nat /\ Size(db) <= Size(work)
        /\ writer = Nobody => work = db
    BY TypeStep, HeadType DEF StoreInv, TypeOK, TransactionInv, Extends
  <1> DEFINE Goal == /\ Attested(db') /\ Attested(work') /\ Fresh(db', work')
                     /\ faults' = faults /\ Size(db') > Size(db) => db' = work
  <1>2. Attested(db) /\ Attested(work) /\ Fresh(db, work) BY DEF AttestInv
  <1>3. ASSUME NEW d, NEW e, e.log = d.log, e.bounds = d.bounds, e.frontier = d.frontier
        PROVE  /\ Attested(d) => Attested(e)
               /\ \A c : Fresh(c, d) => Fresh(c, e)
    BY <1>3 DEF Attested, Fresh, Size
  <1>4. \A d : IsDb(d) => Fresh(d, d)
    <2>1. \A d : IsDb(d) => Size(d) \in Nat BY HeadType
    <2> QED BY <2>1 DEF Fresh
  <1> SUFFICES Goal BY DEF AttestInv
  <1>5. CASE Quiet BY <1>1, <1>2, <1>5 DEF Quiet
  <1>6. CASE Drop BY <1>1, <1>2, <1>4, <1>6 DEF Drop, Discard
  <1>7. CASE Rebuild
    <2>1. db' = EnsureBoundaries(db) /\ work' = db' /\ IntegrityOK(db) BY <1>7 DEF Rebuild
    <2>2. Size(db') = Size(db) BY <1>1, <2>1, EnsureFields
    <2> QED BY <1>1, <1>4, <2>1, <2>2, AttestRebuild
  <1>8. ASSUME NEW p \in Proc, NEW r \in Body, Appends(p, r) PROVE Goal
    <2>1. /\ db' = db /\ work' = AppendRow(db, r) /\ AppendFits(db) /\ r \in Rec
      BY <1>8, RecAssumption DEF Appends, Begin
    <2>2. /\ Grown(work', db, r) /\ GrowsBounds(work', db, r)
          /\ work'.frontier = Append(db.frontier, NewHash(db, r))
      BY <1>1, <2>1, AppendRowIsAppend DEF Grown, GrowsBounds, IsAppend
    <2>3. Attested(work') /\ Fresh(db, work')
      BY <1>1, <1>2, <1>4, <2>1, <2>2, AttestAppend
    <2> QED BY <1>1, <1>2, <2>1, <2>3
  <1>9. ASSUME NEW p \in Proc, SubmitBegin(p) PROVE Goal
    <2> DEFINE c == call[p]
               d == Prune(db, c.now)
    <2>1. /\ d.log = db.log /\ d.bounds = db.bounds /\ d.frontier = db.frontier
          /\ IsDb(d) /\ db' = db /\ c # NoCall /\ Size(d) = Size(db)
      BY <1>1, <1>9, PruneFields, PruneFacts DEF SubmitBegin
    <2>2. c.scope \in Scope /\ c.rec \in Rec /\ c.now \in Nat
      BY <2>1, RecAssumption DEF StoreInv, TypeOK
    <2> HIDE DEF d
    <2>3. Attested(d) /\ Fresh(db, d)
      BY <1>1, <1>2, <1>3, <1>4, <2>1
    <2>4. CASE work' = d BY <1>1, <1>2, <2>1, <2>3, <2>4
    <2>5. CASE AppendFits(d) /\ work' = AppendKeyed(d, c.scope, c.rec, c.now)
      <3>1. /\ Grown(work', d, c.rec) /\ GrowsBounds(work', d, c.rec)
            /\ work'.frontier = Append(d.frontier, NewHash(d, c.rec))
        <4>1. work' = AppendKeyed(d, c.scope, c.rec, c.now) BY <2>5
        <4>2. IsDb(d) BY <2>1
        <4> HIDE DEF c
        <4> QED BY <2>2, <4>1, <4>2, KeyedGrows
      <3>2. Attested(work') /\ Fresh(db, work')
        BY <1>1, <2>1, <2>2, <2>3, <2>5, <3>1, AttestAppend
      <3> QED BY <1>1, <1>2, <2>1, <3>2
    <2> QED BY <1>9, <2>4, <2>5 DEF SubmitBegin, Begin, d
  <1>10. ASSUME NEW p \in Proc, NEW o \in Offers, NEW older \in BOOLEAN, ImportBegin(p, o, older)
         PROVE  Goal
    BY <1>1, <1>2, <1>4, <1>10 DEF ImportBegin, Begin
  <1>11. ASSUME NEW p \in Proc, ImportRow(p) PROVE Goal
    <2>1. CASE UNCHANGED work BY <1>1, <1>2, <1>11, <2>1 DEF ImportRow
    <2>2. CASE AppendFits(work) /\ work' = AppendImport(work, Head(todo))
      <3>1. Head(todo) \in Rec /\ db' = db BY <1>11 DEF ImportRow, StoreInv, TypeOK
      <3>2. /\ Grown(work', work, Head(todo)) /\ GrowsBounds(work', work, Head(todo))
            /\ work'.frontier = Append(work.frontier, NewHash(work, Head(todo)))
        BY <1>1, <2>2, <3>1, ImportFields DEF Grown
      <3>3. Attested(work') /\ Fresh(db, work')
        BY <1>1, <1>2, <2>2, <3>1, <3>2, AttestAppend
      <3> QED BY <1>1, <1>2, <3>1, <3>3
    <2> QED BY <1>11, <2>1, <2>2 DEF ImportRow
  <1>12. ASSUME NEW p \in Proc, ImportMark(p) PROVE Goal
    <2>1. /\ db' = db /\ work'.log = work.log
          /\ work'.bounds = work.bounds /\ work'.frontier = work.frontier
      BY <1>1, <1>12 DEF ImportMark, IsDb
    <2>2. Attested(work') /\ Fresh(db, work') BY <1>2, <1>3, <2>1
    <2> QED BY <1>1, <1>2, <2>1, <2>2
  <1>13. ASSUME NEW p \in Proc, Commit(p) PROVE Goal
    BY <1>1, <1>2, <1>4, <1>13 DEF Commit
  <1>14. ASSUME NEW kind \in FaultKinds, Corrupt(kind) PROVE Goal
    <2>1. db' \in Damaged(db, kind) /\ work' = db' /\ faults' = faults + 1
      BY <1>14 DEF Corrupt
    <2>2. Attested(db') BY <1>1, <1>2, <2>1, AttestDamaged
    <2>3. faults' # faults BY <2>1 DEF StoreInv, TypeOK
    <2> QED BY <1>1, <1>4, <2>1, <2>2, <2>3
  <1> QED BY StepEffect, <1>5, <1>6, <1>7, <1>8, <1>9, <1>10, <1>11, <1>12, <1>13, <1>14
          DEF Effect

(* Whatever damage the storage has suffered, the root that comes with an   *)
(* appended entry commits to exactly the entries its head commits to: the  *)
(* checks of _validate_append_anchors_locked, which compare two leaves and *)
(* one root, suffice to pin the whole frontier.                            *)
THEOREM AppendsAlwaysAttestTheirHead ==
  ASSUME RootCommits
  PROVE  Spec => AppendsAttestTheirHead
  <1>1. Init => AttestInv
    <2> SUFFICES ASSUME Init PROVE AttestInv
      OBVIOUS
    <2>1. db = EmptyDb /\ work = EmptyDb BY DEF Init
    <2>2. EmptyDb.bounds = <<>> /\ EmptyDb.frontier = <<>> /\ Size(EmptyDb) = 0
      BY DEF EmptyDb, Size
    <2>3. Attested(EmptyDb) BY <2>2 DEF Attested
    <2>4. Fresh(EmptyDb, EmptyDb) BY <2>2 DEF Fresh
    <2> QED BY <2>1, <2>3, <2>4 DEF AttestInv
  <1>2. StoreInv /\ AttestInv /\ [Next]_vars => AttestInv'
    BY AttestStep
  <1>3. StoreInv /\ AttestInv /\ [Next]_vars =>
          [faults' = faults /\ Size(db') > Size(db) =>
             \A n \in (Size(db) + 1)..Size(db') :
                db'.bounds[n].root = Root(AttestedFrom(db'.bounds[n].head))]_vars
    <2> SUFFICES ASSUME StoreInv, AttestInv, [Next]_vars,
                        faults' = faults, Size(db') > Size(db),
                        NEW n \in (Size(db) + 1)..Size(db')
                 PROVE  db'.bounds[n].root = Root(AttestedFrom(db'.bounds[n].head))
      OBVIOUS
    <2>1. db' = work BY AttestStep
    <2>2. Attests(work.bounds[n]) BY <2>1 DEF AttestInv, Fresh
    <2> QED BY <2>1, <2>2 DEF Attests
  <1> QED BY <1>1, <1>2, <1>3, StoreInvariant, PTL DEF Spec, AppendsAttestTheirHead
=============================================================================
