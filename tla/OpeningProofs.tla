--------------------------- MODULE OpeningProofs ---------------------------
(***************************************************************************)
(* What holds of any number of processes that open one file of any earlier *)
(* release, append to it and die: why an opening is refused, what a ready  *)
(* process finds, and that a migration keeps the live rows.                *)
(***************************************************************************)
EXTENDS Opening, TLAPS

(***************************************************************************)
(* The invariant.                                                          *)
(***************************************************************************)

Early == {"wal", "version", "legacy", "require2", "require3", "require4", "migrate2",
          "migrate3", "script", "imports", "alter", "resolve", "idempotency",
          "createIdempotency", "createIndex", "mark", "verify"}
Late == {"frontier", "backfill", "head"}

(* The locals of a process, by where it is.                                *)
LocType(l) ==
  /\ l.pc \in Early \cup Late \cup {"off", "rebuild", "leaves", "stored", "recheck", "ready"}
  /\ l.pc = "off" => l = Off
  /\ l.pc \in Early => l \in [pc : Early, met : BOOLEAN]
  /\ l.pc = "rebuild" =>
       l \in [pc : {"rebuild"}, met : BOOLEAN, keep : SUBSET [at : Nat, live : BOOLEAN]]
  /\ l.pc = "leaves" =>
       l \in [pc : {"leaves"}, met : BOOLEAN, try : 1..Attempts, since : Nat]
  /\ l.pc \in {"stored", "recheck"} =>
       l \in [pc : {"stored", "recheck"}, met : BOOLEAN, try : 1..Attempts, since : Nat,
              leaves : Nat]
  /\ l.pc \in Late =>
       l \in [pc : Late, met : BOOLEAN, try : 1..Attempts, since : Nat, leaves : Nat,
              missing : SUBSET Nat]

ScriptTables == {Script[i] : i \in DOMAIN Script}
Complete(d) == d.tables = Tables /\ d.columns = "current" /\ d.seqColumn /\ d.index

(* What a process has made sure of, and nobody undoes.                     *)
Ensured(l, d) ==
  /\ l.pc \in {"imports", "alter", "resolve", "idempotency", "createIdempotency",
               "createIndex", "rebuild"} => ScriptTables \subseteq d.tables
  /\ l.pc \in {"resolve", "idempotency", "createIdempotency", "createIndex", "rebuild"} =>
       d.seqColumn
  /\ l.pc \in {"createIndex", "rebuild"} => "idempotency" \in d.tables
  /\ l.pc \in {"createIdempotency", "createIndex"} => d.columns = "current"
  /\ l.pc \in {"require2", "require3", "require4", "migrate2", "migrate3"} =>
       /\ "idempotency" \in d.tables /\ d.columns = "current" /\ d.seqColumn /\ d.index
       /\ \A i \in d.imports : i.known
  /\ l.pc \in {"mark", "verify", "leaves", "stored", "recheck", "ready"} \cup Late => Complete(d)
  /\ l.pc = "recheck" => \E n \in d.cached : n > l.leaves
  /\ l.pc = "leaves" => l.since + l.try <= d.size + 1
  /\ l.pc \in {"stored", "recheck"} \cup Late =>
       l.since + l.try <= l.leaves + 1 /\ l.leaves <= d.size

(* Every entry has its boundary, and the frontier is that of the log.      *)
Full(d) == d.cached = 1..d.size /\ d.frontier = d.size

(* What is missing was found before, if nobody was faster.                 *)
Counted(l, d) ==
  /\ l.pc \in {"head", "ready"} => Full(d)
  /\ l.pc \in {"stored", "recheck"} => Full(d) \/ d.size = l.leaves
  /\ l.pc \in {"frontier", "backfill"} =>
       /\ l.missing \subseteq 1..l.leaves
       /\ Full(d) \/ /\ d.size = l.leaves /\ d.cached \subseteq 1..d.size
                     /\ (1..l.leaves) \ d.cached \subseteq l.missing

(* Nobody writes to a table that is still to be rebuilt.                   *)
Spared(l, d) ==
  l.pc = "rebuild" /\ ~d.index => \A r \in Live(d.rows) : \E k \in l.keep : k.at = r.at

Opens(l) == l.pc \notin {"off", "ready"}

(* What a process that has met no other finds as it left it.               *)
Undisturbed(l, d) ==
  /\ l.pc = "legacy" => d.ver = 0
  /\ l.pc = "require2" => d.ver = 2
  /\ l.pc = "require3" => d.ver = 3
  /\ l.pc \in {"require4", "verify"} => d.ver = 4
  /\ l.pc = "alter" => ~d.seqColumn
  /\ l.pc = "createIdempotency" => "idempotency" \notin d.tables
  /\ l.pc = "createIndex" => ~d.index
  /\ l.pc = "rebuild" => d.columns # "current"
  /\ l.pc \in {"idempotency", "createIdempotency", "createIndex", "rebuild", "mark"} =>
       \A i \in d.imports : i.at <= d.size => i.known

TypeInv == /\ loc = [p \in Proc |-> loc[p]] /\ \A p \in Proc : LocType(loc[p])
           /\ WellMade(disk)
EnsuredInv == \A p \in Proc : Ensured(loc[p], disk)
CountedInv == \A p \in Proc : Counted(loc[p], disk)
SparedInv == \A p \in Proc : Spared(loc[p], disk)
AloneInv == \A p \in Proc : Opens(loc[p]) /\ ~loc[p].met =>
              Undisturbed(loc[p], disk) /\ Alone(p)

Inv == TypeInv /\ EnsuredInv /\ CountedInv /\ SparedInv /\ AloneInv
----------------------------------------------------------------------------
(***************************************************************************)
(* A step of one process, and what it means for the others.                *)
(***************************************************************************)

(* The file only gains: tables, columns, index, boundaries, entries.       *)
Gains(d, e) ==
  /\ d.tables \subseteq e.tables /\ (d.seqColumn => e.seqColumn) /\ (d.index => e.index)
  /\ d.columns = "current" => e.columns = "current"
  /\ (\A i \in d.imports : i.known) => \A i \in e.imports : i.known
  /\ d.size <= e.size /\ d.cached \subseteq e.cached

(* Log and boundaries change only to be complete, and rows are only added  *)
(* to a table that has its index.                                          *)
CacheMoves(d, e) ==
  /\ Full(d) => Full(e)
  /\ Full(e) \/ (e.size = d.size /\ e.cached = d.cached /\ e.frontier = d.frontier)
RowsMove(d, e) ==
  ~e.index => \A r \in Live(e.rows) : \E s \in Live(d.rows) : s.at = r.at

Moves(d, e) == WellMade(e) /\ Gains(d, e) /\ CacheMoves(d, e) /\ RowsMove(d, e)

(* A process at k may go on to l with the file d.                          *)
Fits(k, l, d) ==
  /\ LocType(l) /\ Ensured(l, d) /\ Counted(l, d) /\ Spared(l, d)
  /\ Opens(l) /\ ~l.met => Opens(k) /\ ~k.met /\ Undisturbed(l, d)

LEMMA StaysMoves ==
  ASSUME NEW d, WellMade(d)
  PROVE  Moves(d, d)
  <1>1. d.size \in Nat BY DEF WellMade, File
  <1> QED BY <1>1 DEF Moves, Gains, CacheMoves, RowsMove

LEMMA EnsuredStays ==
  ASSUME NEW l, NEW d, NEW e, LocType(l), WellMade(d), Moves(d, e), Ensured(l, d)
  PROVE  Ensured(l, e)
  <1>1. d.size \in Nat /\ e.size \in Nat /\ d.size <= e.size /\ e.tables \subseteq Tables
    BY DEF Moves, WellMade, File, Gains
  <1>2. /\ l.pc = "leaves" => l.since \in Nat /\ l.try \in Nat
        /\ l.pc \in {"stored", "recheck"} \cup Late =>
             l.since \in Nat /\ l.try \in Nat /\ l.leaves \in Nat
    BY OpeningAssumption DEF LocType
  <1>3. l.pc = "recheck" => \E n \in e.cached : n > l.leaves
    BY DEF Ensured, Moves, Gains
  <1>4. l.pc = "leaves" => l.since + l.try <= e.size + 1 BY <1>1, <1>2 DEF Ensured
  <1>5. l.pc \in {"stored", "recheck"} \cup Late =>
          l.since + l.try <= l.leaves + 1 /\ l.leaves <= e.size
    BY <1>1, <1>2 DEF Ensured
  <1>6. Complete(d) => Complete(e) BY <1>1 DEF Complete, Moves, Gains
  <1> QED BY <1>3, <1>4, <1>5, <1>6 DEF Ensured, Moves, Gains

LEMMA CountedStays ==
  ASSUME NEW l, NEW d, NEW e, Moves(d, e), Counted(l, d)
  PROVE  Counted(l, e)
  BY DEF Counted, Moves, CacheMoves

LEMMA SparedStays ==
  ASSUME NEW l, NEW d, NEW e, Moves(d, e), Spared(l, d)
  PROVE  Spared(l, e)
  <1> SUFFICES ASSUME l.pc = "rebuild", ~e.index, NEW r \in Live(e.rows)
               PROVE  \E k \in l.keep : k.at = r.at
    BY DEF Spared
  <1>1. ~d.index BY DEF Moves, Gains
  <1>2. PICK s \in Live(d.rows) : s.at = r.at BY DEF Moves, RowsMove
  <1> QED BY <1>1, <1>2 DEF Spared

(* One process moves, the others stay.                                     *)
LEMMA MoveKeeps ==
  ASSUME Inv, NEW p \in Proc, loc[p] # Off, Moves(disk, disk'),
         NEW l, Fits(loc[p], l, disk'), loc' = [loc EXCEPT ![p] = l]
  PROVE  Inv'
  <1>1. /\ loc = [q \in Proc |-> loc[q]] /\ WellMade(disk) /\ WellMade(disk')
        /\ \A q \in Proc : LocType(loc[q])
    BY DEF Inv, TypeInv, Moves
  <1>2. /\ loc' = [q \in Proc |-> loc'[q]] /\ loc'[p] = l
        /\ \A q \in Proc : q # p => loc'[q] = loc[q]
    BY <1>1
  <1>3. TypeInv' BY <1>1, <1>2 DEF TypeInv, Fits
  <1>4. EnsuredInv'
    <2> SUFFICES ASSUME NEW q \in Proc PROVE Ensured(loc'[q], disk') BY DEF EnsuredInv
    <2>1. Ensured(loc[q], disk') BY <1>1, EnsuredStays DEF Inv, EnsuredInv
    <2> QED BY <1>2, <2>1 DEF Fits
  <1>5. CountedInv'
    <2> SUFFICES ASSUME NEW q \in Proc PROVE Counted(loc'[q], disk') BY DEF CountedInv
    <2>1. Counted(loc[q], disk') BY CountedStays DEF Inv, CountedInv
    <2> QED BY <1>2, <2>1 DEF Fits
  <1>6. SparedInv'
    <2> SUFFICES ASSUME NEW q \in Proc PROVE Spared(loc'[q], disk') BY DEF SparedInv
    <2>1. Spared(loc[q], disk') BY SparedStays DEF Inv, SparedInv
    <2> QED BY <1>2, <2>1 DEF Fits
  <1>7. AloneInv'
    <2> SUFFICES ASSUME NEW q \in Proc, Opens(loc'[q]), ~loc'[q].met
                 PROVE  Undisturbed(loc'[q], disk') /\ \A o \in Proc \ {q} : loc'[o] = Off
      BY DEF AloneInv, Alone
    <2>1. CASE q = p
      <3>1. Opens(loc[p]) /\ ~loc[p].met /\ Undisturbed(l, disk') BY <1>2, <2>1 DEF Fits
      <3>2. \A o \in Proc \ {p} : loc[o] = Off BY <3>1 DEF Inv, AloneInv, Alone
      <3> QED BY <1>2, <2>1, <3>1, <3>2
    <2>2. CASE q # p
      <3>1. loc[p] = Off BY <1>2, <2>2 DEF Inv, AloneInv, Alone
      <3> QED BY <3>1
    <2> QED BY <2>1, <2>2
  <1> QED BY <1>3, <1>4, <1>5, <1>6, <1>7 DEF Inv

(* What is known of the process that moves.                                *)
Fine(k, d) ==
  /\ LocType(k) /\ WellMade(d) /\ Ensured(k, d) /\ Counted(k, d) /\ Spared(k, d)
  /\ Opens(k) /\ ~k.met => Undisturbed(k, d)

LEMMA InvFine ==
  ASSUME Inv, NEW p \in Proc
  PROVE  Fine(loc[p], disk)
  BY DEF Inv, TypeInv, EnsuredInv, CountedInv, SparedInv, AloneInv, Fine

LEMMA OffFits ==
  ASSUME NEW k, NEW d
  PROVE  Fits(k, Off, d)
  BY DEF Fits, Off, LocType, Ensured, Counted, Spared, Opens, Early, Late

(* From one of the early places to another.                                *)
LEMMA EarlyMove ==
  ASSUME NEW k, LocType(k), k.pc \in Early, NEW v \in Early, NEW l, l = [k EXCEPT !.pc = v]
  PROVE  /\ LocType(l) /\ l.pc = v /\ l.met = k.met /\ Opens(k) /\ Opens(l)
         /\ v \notin {"rebuild", "leaves", "stored", "recheck", "off", "ready"} \cup Late
  <1>1. k \in [pc : Early, met : BOOLEAN] BY DEF LocType
  <1>2. l \in [pc : Early, met : BOOLEAN] /\ l.pc = v /\ l.met = k.met BY <1>1
  <1>3. \A x \in Early : x \notin {"rebuild", "leaves", "stored", "recheck", "off", "ready"} \cup Late
    BY DEF Early, Late
  <1> QED BY <1>2, <1>3 DEF LocType, Opens

LEMMA EarlyFits ==
  ASSUME NEW k, NEW d, LocType(k), k.pc \in Early, NEW v \in Early, NEW l, l = [k EXCEPT !.pc = v],
         Ensured(l, d), ~k.met => Undisturbed(l, d)
  PROVE  Fits(k, l, d)
  <1>1. /\ LocType(l) /\ l.pc = v /\ l.met = k.met /\ Opens(k) /\ Opens(l)
        /\ v \notin {"rebuild", "leaves", "stored", "recheck", "off", "ready"} \cup Late
    BY EarlyMove
  <1>2. Counted(l, d) BY <1>1 DEF Counted, Late
  <1>3. Spared(l, d) BY <1>1 DEF Spared
  <1> QED BY <1>1, <1>2, <1>3 DEF Fits
----------------------------------------------------------------------------
(***************************************************************************)
(* Creating, recognising and migrating.                                    *)
(***************************************************************************)

(* What a statement leaves alone.                                          *)
SameMarks(d, e) == e.ver = d.ver /\ e.marker = d.marker
SameSchema(d, e) == /\ e.tables = d.tables /\ e.columns = d.columns
                    /\ e.index = d.index /\ e.seqColumn = d.seqColumn
SameLog(d, e) == e.size = d.size /\ e.cached = d.cached /\ e.frontier = d.frontier
SameRows(d, e) == e.imports = d.imports /\ e.rows = d.rows

LEMMA VersionTables ==
  ASSUME NEW v \in {2, 3, 4}
  PROVE  /\ Version(v).tables \subseteq Tables /\ "idempotency" \in Version(v).tables
         /\ Version(4).tables = Tables
  <1>1. \A w : Version(w).tables =
          Tables \ ((IF w < 3 THEN {"boundaries", "merkle_frontier"} ELSE {})
                      \cup (IF w < 4 THEN {"upstream_high_water"} ELSE {}))
    BY DEF Version, NoFile
  <1>2. "idempotency" \in Tables BY DEF Tables
  <1> QED BY <1>1, <1>2

LEMMA TablesAre == Tables = ScriptTables \cup {"idempotency"}
  BY DEF Tables, ScriptTables

(* The places of p and the file before and after one of its statements.    *)
Goes(p) == Moves(disk, disk') /\ \E l : loc' = [loc EXCEPT ![p] = l] /\ Fits(loc[p], l, disk')

LEMMA RefuseGoes ==
  ASSUME Inv, NEW p \in Proc, NEW why, Refuse(p, why), disk' = disk
  PROVE  Goes(p)
  <1>1. Moves(disk, disk') BY StaysMoves DEF Inv, TypeInv
  <1> QED BY <1>1, OffFits DEF Goes, Refuse, Goto

LEMMA StepGoes ==
  ASSUME Inv, NEW p \in Proc, loc[p].pc \in Early, NEW v \in Early, Step(p, v),
         Moves(disk, disk'), NEW l, l = [loc[p] EXCEPT !.pc = v],
         Ensured(l, disk'), ~loc[p].met => Undisturbed(l, disk')
  PROVE  Goes(p)
  <1>1. LocType(loc[p]) BY DEF Inv, TypeInv
  <1>2. Fits(loc[p], l, disk') BY <1>1, EarlyFits
  <1> QED BY <1>2 DEF Goes, Step, Goto

(* What the early places demand of the file, one by one.                   *)
LEMMA EarlyEnsured ==
  ASSUME NEW k, LocType(k), k.pc \in Early, NEW v \in Early, NEW l, l = [k EXCEPT !.pc = v], NEW d,
         v \in {"imports", "alter", "resolve", "idempotency", "createIdempotency", "createIndex"} =>
           ScriptTables \subseteq d.tables,
         v \in {"resolve", "idempotency", "createIdempotency", "createIndex"} => d.seqColumn,
         v = "createIndex" => "idempotency" \in d.tables,
         v \in {"createIdempotency", "createIndex"} => d.columns = "current",
         v \in {"require2", "require3", "require4", "migrate2", "migrate3"} =>
           /\ "idempotency" \in d.tables /\ d.columns = "current" /\ d.seqColumn /\ d.index
           /\ \A i \in d.imports : i.known,
         v \in {"mark", "verify"} => Complete(d)
  PROVE  Ensured(l, d)
  <1>1. /\ l.pc = v /\ v \notin {"rebuild", "leaves", "stored", "recheck", "off", "ready"} \cup Late
    BY EarlyMove
  <1> QED BY <1>1 DEF Ensured

LEMMA CreateSteps ==
  ASSUME Inv, NEW p \in Proc,
         Wal(p) \/ ReadVersion(p) \/ RequireLegacy(p) \/ ScriptTable(p) \/ ReadColumns(p)
  PROVE  Goes(p)
  <1> DEFINE k == loc[p]
  <1>0. /\ LocType(k) /\ WellMade(disk) /\ Ensured(k, disk) /\ disk \in File
        /\ Opens(k) /\ ~k.met => Undisturbed(k, disk)
    BY InvFine DEF Fine, WellMade
  <1>e. \A v \in {"wal", "script", "version", "legacy", "imports", "alter", "resolve",
                  "require2", "require3", "require4"} : v \in Early
    BY DEF Early
  <1>s. Moves(disk, disk) BY <1>0, StaysMoves
  <1>1. CASE Wal(p)
    <2>1. disk' \in File /\ SameMarks(disk, disk') /\ SameSchema(disk, disk')
          /\ SameLog(disk, disk') /\ SameRows(disk, disk')
      BY <1>0, <1>1 DEF Wal, File, SameMarks, SameSchema, SameLog, SameRows
    <2>2. WellMade(disk') BY <1>0, <2>1 DEF WellMade, SameMarks, SameSchema, SameLog, SameRows
    <2>3. Moves(disk, disk')
      BY <1>s, <2>1, <2>2 DEF Moves, Gains, CacheMoves, RowsMove, Full,
                              SameMarks, SameSchema, SameLog, SameRows
    <2> DEFINE l == [k EXCEPT !.pc = "script"]
    <2>4. k.pc = "wal" /\ k.pc \in Early /\ "script" \in Early /\ Step(p, "script")
      BY <1>e, <1>1 DEF Wal
    <2>5. l.pc = "script" BY <1>0, <2>4, EarlyMove
    <2>6. Ensured(l, disk') BY <1>0, <2>4, EarlyEnsured
    <2>7. Undisturbed(l, disk') BY <2>5 DEF Undisturbed
    <2> QED BY <2>3, <2>4, <2>6, <2>7, StepGoes
  <1>2. CASE ReadVersion(p)
    <2> DEFINE v == CASE disk.ver = 0 -> "legacy" [] disk.ver = 2 -> "require2"
                      [] disk.ver = 3 -> "require3" [] disk.ver = 4 -> "require4"
               l == [k EXCEPT !.pc = v]
    <2>1. k.pc = "version" /\ k.pc \in Early /\ Step(p, v) /\ disk' = disk
      BY <1>e, <1>2 DEF ReadVersion
    <2>2. disk.ver \in {0, 2, 3, 4} BY <1>0 DEF File
    <2>3. /\ v \in {"legacy", "require2", "require3", "require4"}
          /\ (v = "legacy" <=> disk.ver = 0) /\ (v = "require2" <=> disk.ver = 2)
          /\ (v = "require3" <=> disk.ver = 3) /\ (v = "require4" <=> disk.ver = 4)
      <3>1. CASE disk.ver = 0 BY <3>1
      <3>2. CASE disk.ver = 2 BY <3>2
      <3>3. CASE disk.ver = 3 BY <3>3
      <3>4. CASE disk.ver = 4 BY <3>4
      <3> QED BY <2>2, <3>1, <3>2, <3>3, <3>4
    <2>a. v \in Early BY <1>e, <2>3
    <2> HIDE DEF v
    <2>4. disk.ver # 0 => /\ "idempotency" \in disk.tables /\ disk.columns = "current"
                          /\ disk.seqColumn /\ disk.index /\ \A i \in disk.imports : i.known
      BY <1>0, <2>2, VersionTables DEF WellMade
    <2>5. l.pc = v BY <1>0, <2>1, <2>a, EarlyMove
    <2>6. Ensured(l, disk) BY <1>0, <2>1, <2>2, <2>3, <2>a, <2>4, EarlyEnsured
    <2>7. Undisturbed(l, disk) BY <2>3, <2>5 DEF Undisturbed
    <2> QED BY <1>s, <2>1, <2>a, <2>6, <2>7, StepGoes
  <1>3. CASE RequireLegacy(p)
    <2> DEFINE l == [k EXCEPT !.pc = "script"]
    <2>1. disk' = disk /\ k.pc = "legacy" /\ k.pc \in Early /\ "script" \in Early
      BY <1>e, <1>3 DEF RequireLegacy
    <2>2. l.pc = "script" BY <1>0, <2>1, EarlyMove
    <2>3. Ensured(l, disk) BY <1>0, <2>1, EarlyEnsured
    <2>4. Undisturbed(l, disk) BY <2>2 DEF Undisturbed
    <2>5. CASE Step(p, "script") BY <1>s, <2>1, <2>3, <2>4, <2>5, StepGoes
    <2>6. CASE Refuse(p, "incomplete") \/ Refuse(p, "markers") BY <2>1, <2>6, RefuseGoes
    <2> QED BY <1>3, <2>5, <2>6 DEF RequireLegacy
  <1>4. CASE ScriptTable(p)
    <2>1. k.pc = "script" /\ k.pc \in Early /\ "imports" \in Early BY <1>e, <1>4 DEF ScriptTable
    <2>2. ASSUME NEW i \in Lacking, loc' = loc,
                 disk' = [disk EXCEPT !.tables = @ \cup {Script[i]},
                                      !.seqColumn = @ \/ Script[i] = "imported_records"]
          PROVE  Goes(p)
      <3>1. Script[i] \in Tables BY DEF Lacking, Tables
      <3>2. /\ disk' \in File /\ SameMarks(disk, disk') /\ SameLog(disk, disk') /\ SameRows(disk, disk')
            /\ disk'.columns = disk.columns /\ disk'.index = disk.index
            /\ disk'.tables = disk.tables \cup {Script[i]} /\ (disk.seqColumn => disk'.seqColumn)
        BY <1>0, <2>2, <3>1 DEF File, SameMarks, SameLog, SameRows
      <3>3. WellMade(disk') BY <1>0, <3>2 DEF WellMade, SameMarks, SameLog, SameRows
      <3>4. Moves(disk, disk')
        BY <1>s, <3>2, <3>3 DEF Moves, Gains, CacheMoves, RowsMove, Full, SameLog, SameRows
      <3>5. Ensured(k, disk') BY <1>0, <3>4, EnsuredStays
      <3>6. Counted(k, disk') /\ Spared(k, disk') /\ Undisturbed(k, disk')
        BY <2>1 DEF Counted, Spared, Undisturbed, Late
      <3>7. Fits(k, k, disk') BY <1>0, <3>5, <3>6 DEF Fits
      <3>8. loc' = [loc EXCEPT ![p] = k]
        <4>1. loc = [q \in Proc |-> loc[q]] BY DEF Inv, TypeInv
        <4> QED BY <2>2, <4>1
      <3> QED BY <3>4, <3>7, <3>8 DEF Goes
    <2>3. CASE Lacking = {} /\ Step(p, "imports") /\ UNCHANGED disk
      <3> DEFINE l == [k EXCEPT !.pc = "imports"]
      <3>1. ScriptTables \subseteq disk.tables BY <2>3 DEF Lacking, ScriptTables
      <3>2. l.pc = "imports" BY <1>0, <2>1, EarlyMove
      <3>3. Ensured(l, disk) BY <1>0, <2>1, <3>1, EarlyEnsured
      <3>4. Undisturbed(l, disk) BY <3>2 DEF Undisturbed
      <3> QED BY <1>s, <2>1, <2>3, <3>3, <3>4, StepGoes
    <2> QED BY <1>4, <2>2, <2>3 DEF ScriptTable
  <1>5. CASE ReadColumns(p)
    <2> DEFINE v == IF disk.seqColumn THEN "resolve" ELSE "alter"
               l == [k EXCEPT !.pc = v]
    <2>1. k.pc = "imports" /\ k.pc \in Early /\ v \in Early /\ Step(p, v) /\ disk' = disk
      BY <1>e, <1>5 DEF ReadColumns
    <2>2. v \in {"resolve", "alter"} /\ (v = "resolve" => disk.seqColumn)
          /\ (v = "alter" => ~disk.seqColumn)
      OBVIOUS
    <2> HIDE DEF v
    <2>3. l.pc = v BY <1>0, <2>1, EarlyMove
    <2>4. ScriptTables \subseteq disk.tables BY <1>0, <2>1 DEF Ensured
    <2>5. Ensured(l, disk) BY <1>0, <2>1, <2>2, <2>4, EarlyEnsured
    <2>6. Undisturbed(l, disk) BY <2>2, <2>3 DEF Undisturbed
    <2> QED BY <1>s, <2>1, <2>5, <2>6, StepGoes
  <1> QED BY <1>1, <1>2, <1>3, <1>4, <1>5

(* A statement of schema 0's migration: what stays of the file's shape.    *)
LEMMA LegacySteps ==
  ASSUME Inv, NEW p \in Proc, AddSeqColumn(p) \/ ResolveImports(p)
  PROVE  Goes(p)
  <1> DEFINE k == loc[p]
  <1>0. /\ LocType(k) /\ WellMade(disk) /\ Ensured(k, disk) /\ disk \in File
        /\ Opens(k) /\ ~k.met => Undisturbed(k, disk)
    BY InvFine DEF Fine, WellMade
  <1>e. \A v \in {"alter", "resolve", "idempotency"} : v \in Early BY DEF Early
  <1>s. Moves(disk, disk) BY <1>0, StaysMoves
  <1>1. CASE AddSeqColumn(p)
    <2> DEFINE l == [k EXCEPT !.pc = "resolve"]
    <2>1. k.pc = "alter" /\ k.pc \in Early /\ "resolve" \in Early BY <1>e, <1>1 DEF AddSeqColumn
    <2>2. CASE disk' = [disk EXCEPT !.seqColumn = TRUE] /\ Step(p, "resolve")
      <3>1. /\ disk' \in File /\ SameMarks(disk, disk') /\ SameLog(disk, disk')
            /\ SameRows(disk, disk') /\ disk'.columns = disk.columns
            /\ disk'.index = disk.index /\ disk'.tables = disk.tables /\ disk'.seqColumn
        BY <1>0, <2>2 DEF File, SameMarks, SameLog, SameRows
      <3>2. WellMade(disk') BY <1>0, <3>1 DEF WellMade, SameMarks, SameLog, SameRows
      <3>3. Moves(disk, disk')
        BY <1>s, <3>1, <3>2 DEF Moves, Gains, CacheMoves, RowsMove, Full, SameLog, SameRows
      <3>4. ScriptTables \subseteq disk'.tables BY <1>0, <2>1, <3>1 DEF Ensured
      <3>5. l.pc = "resolve" BY <1>0, <2>1, EarlyMove
      <3>6. Ensured(l, disk') BY <1>0, <2>1, <3>1, <3>4, EarlyEnsured
      <3>7. Undisturbed(l, disk') BY <3>5 DEF Undisturbed
      <3> QED BY <2>1, <2>2, <3>3, <3>6, <3>7, StepGoes
    <2>3. CASE Refuse(p, "exists") /\ disk' = disk BY <2>3, RefuseGoes
    <2> QED BY <1>1, <2>2, <2>3 DEF AddSeqColumn
  <1>2. CASE ResolveImports(p)
    <2> DEFINE l == [k EXCEPT !.pc = "idempotency"]
               I == {[i EXCEPT !.known = @ \/ i.at <= disk.size] : i \in disk.imports}
    <2>1. k.pc = "resolve" /\ k.pc \in Early /\ "idempotency" \in Early /\ Step(p, "idempotency")
      BY <1>e, <1>2 DEF ResolveImports
    <2>2. disk.imports \subseteq [at : Nat, known : BOOLEAN] /\ disk.size \in Nat BY <1>0 DEF File
    <2>3. /\ I \subseteq [at : Nat, known : BOOLEAN]
          /\ \A i \in I : i.at <= disk.size => i.known
          /\ (\A i \in disk.imports : i.known) => \A i \in I : i.known
      <3> SUFFICES ASSUME NEW j \in disk.imports, NEW i, i = [j EXCEPT !.known = @ \/ j.at <= disk.size]
                   PROVE  /\ i \in [at : Nat, known : BOOLEAN]
                          /\ i.at <= disk.size => i.known
                          /\ j.known => i.known
        OBVIOUS
      <3>1. j \in [at : Nat, known : BOOLEAN] BY <2>2
      <3>2. (j.at <= disk.size) \in BOOLEAN BY <2>2, <3>1
      <3>3. i.at = j.at /\ i.known = (j.known \/ j.at <= disk.size) BY <3>1
      <3> QED BY <3>1, <3>2, <3>3
    <2>4. disk' = [disk EXCEPT !.imports = I] BY <1>2 DEF ResolveImports
    <2> HIDE DEF I
    <2>5. /\ disk' \in File /\ SameMarks(disk, disk') /\ SameLog(disk, disk')
          /\ SameSchema(disk, disk') /\ disk'.rows = disk.rows /\ disk'.imports = I
      BY <1>0, <2>3, <2>4 DEF File, SameMarks, SameLog, SameSchema
    <2>6. WellMade(disk')
      BY <1>0, <2>3, <2>5 DEF WellMade, SameMarks, SameLog, SameSchema
    <2>7. Moves(disk, disk')
      BY <1>s, <2>3, <2>5, <2>6 DEF Moves, Gains, CacheMoves, RowsMove, Full, SameLog, SameSchema
    <2>8. ScriptTables \subseteq disk'.tables /\ disk'.seqColumn
      BY <1>0, <2>1, <2>5 DEF Ensured, SameSchema
    <2>9. l.pc = "idempotency" BY <1>0, <2>1, EarlyMove
    <2>10. Ensured(l, disk') BY <1>0, <2>1, <2>8, EarlyEnsured
    <2>11. Undisturbed(l, disk') BY <2>3, <2>5, <2>9 DEF Undisturbed, SameLog
    <2> QED BY <2>1, <2>7, <2>10, <2>11, StepGoes
  <1> QED BY <1>1, <1>2

LEMMA IdempotencySteps ==
  ASSUME Inv, NEW p \in Proc,
         ReadIdempotency(p) \/ CreateIdempotency(p) \/ CreateIndex(p) \/ RebuildIdempotency(p)
  PROVE  Goes(p)
  <1> DEFINE k == loc[p]
             m == [k EXCEPT !.pc = "mark"]
  <1>0. /\ LocType(k) /\ WellMade(disk) /\ Ensured(k, disk) /\ disk \in File
        /\ Opens(k) /\ ~k.met => Undisturbed(k, disk)
    BY InvFine DEF Fine, WellMade
  <1>e. \A v \in {"idempotency", "createIdempotency", "createIndex", "mark"} : v \in Early
    BY DEF Early
  <1>s. Moves(disk, disk) BY <1>0, StaysMoves
  <1>t. disk.tables \subseteq Tables BY <1>0 DEF File
  (* The index on the current table, and on to the version markers.        *)
  <1>i. ASSUME k.pc \in {"idempotency", "createIndex"}, "idempotency" \in disk.tables,
               disk.columns = "current", disk' = [disk EXCEPT !.index = TRUE], Step(p, "mark")
        PROVE  Goes(p)
    <2>1. k.pc \in Early /\ "mark" \in Early BY <1>e, <1>i
    <2>2. /\ disk' \in File /\ SameMarks(disk, disk') /\ SameLog(disk, disk') /\ SameRows(disk, disk')
          /\ disk'.tables = disk.tables /\ disk'.columns = disk.columns
          /\ disk'.seqColumn = disk.seqColumn /\ disk'.index
      BY <1>0, <1>i DEF File, SameMarks, SameLog, SameRows
    <2>3. WellMade(disk') BY <1>0, <1>i, <2>2 DEF WellMade, SameMarks, SameLog, SameRows
    <2>4. Moves(disk, disk')
      BY <1>s, <2>2, <2>3 DEF Moves, Gains, CacheMoves, RowsMove, Full, SameLog, SameRows
    <2>5. ScriptTables \subseteq disk.tables /\ disk.seqColumn BY <1>0, <1>i DEF Ensured
    <2>6. Complete(disk') BY <1>i, <1>t, <2>2, <2>5, TablesAre DEF Complete
    <2>7. m.pc = "mark" /\ Opens(k) BY <1>0, <2>1, EarlyMove DEF Opens, Early
    <2>8. Ensured(m, disk') BY <1>0, <2>1, <2>6, EarlyEnsured
    <2>9. ~k.met => Undisturbed(m, disk')
      BY <1>0, <1>i, <2>2, <2>7 DEF Undisturbed, SameLog, SameRows
    <2> QED BY <1>i, <2>1, <2>4, <2>8, <2>9, StepGoes
  <1>1. CASE ReadIdempotency(p)
    <2>1. k.pc = "idempotency" /\ k.pc \in Early /\ "createIdempotency" \in Early
      BY <1>e, <1>1 DEF ReadIdempotency
    <2>2. ScriptTables \subseteq disk.tables /\ disk.seqColumn BY <1>0, <2>1 DEF Ensured
    <2>3. CASE "idempotency" \notin disk.tables /\ Step(p, "createIdempotency") /\ disk' = disk
      <3> DEFINE l == [k EXCEPT !.pc = "createIdempotency"]
      <3>1. disk.columns = "current" BY <1>0, <2>3 DEF WellMade
      <3>2. l.pc = "createIdempotency" /\ Opens(k) BY <1>0, <2>1, EarlyMove DEF Opens, Early
      <3>3. Ensured(l, disk) BY <1>0, <2>1, <2>2, <3>1, EarlyEnsured
      <3>4. ~k.met => Undisturbed(l, disk) BY <1>0, <2>1, <2>3, <3>2 DEF Undisturbed
      <3> QED BY <1>s, <2>1, <2>3, <3>3, <3>4, StepGoes
    <2>4. CASE /\ "idempotency" \in disk.tables /\ disk.columns = "current"
               /\ disk' = [disk EXCEPT !.index = TRUE] /\ Step(p, "mark")
      BY <1>i, <2>1, <2>4
    <2>5. CASE Refuse(p, "unscoped") /\ disk' = disk BY <2>5, RefuseGoes
    <2>6. CASE /\ "idempotency" \in disk.tables /\ disk.columns # "current" /\ disk' = disk
               /\ Goto(p, [pc |-> "rebuild", met |-> loc[p].met, keep |-> Live(disk.rows)])
      <3> DEFINE l == [pc |-> "rebuild", met |-> k.met, keep |-> Live(disk.rows)]
      <3>1. Live(disk.rows) \subseteq [at : Nat, live : BOOLEAN] BY <1>0 DEF Live, File
      <3>2. k.met \in BOOLEAN /\ Opens(k) BY <1>0, <2>1 DEF LocType, Opens
      <3>3. l.pc = "rebuild" /\ l.met = k.met /\ l.keep = Live(disk.rows) OBVIOUS
      <3>4. LocType(l) BY <3>1, <3>2 DEF LocType, Early, Late
      <3>5. Ensured(l, disk) BY <2>2, <2>6, <3>3 DEF Ensured, Late
      <3>6. Counted(l, disk) BY <3>3 DEF Counted
      <3>7. Spared(l, disk) BY <3>3 DEF Spared
      <3>8. ~k.met => Undisturbed(l, disk) BY <1>0, <2>1, <2>6, <3>2, <3>3 DEF Undisturbed
      <3> HIDE DEF l
      <3>9. Fits(k, l, disk) BY <3>2, <3>3, <3>4, <3>5, <3>6, <3>7, <3>8 DEF Fits
      <3> QED BY <1>s, <2>6, <3>9 DEF Goes, Goto, l
    <2> QED BY <1>1, <2>3, <2>4, <2>5, <2>6 DEF ReadIdempotency
  <1>2. CASE CreateIdempotency(p)
    <2>1. k.pc = "createIdempotency" /\ k.pc \in Early /\ "createIndex" \in Early
      BY <1>e, <1>2 DEF CreateIdempotency
    <2>2. CASE Refuse(p, "exists") /\ disk' = disk BY <2>2, RefuseGoes
    <2>3. CASE /\ "idempotency" \notin disk.tables /\ Step(p, "createIndex")
               /\ disk' = [disk EXCEPT !.tables = @ \cup {"idempotency"}]
      <3> DEFINE l == [k EXCEPT !.pc = "createIndex"]
      <3>1. /\ disk' \in File /\ SameMarks(disk, disk') /\ SameLog(disk, disk') /\ SameRows(disk, disk')
            /\ disk'.tables = disk.tables \cup {"idempotency"} /\ disk'.columns = disk.columns
            /\ disk'.seqColumn = disk.seqColumn /\ disk'.index = disk.index
        BY <1>0, <2>3, TablesAre DEF File, SameMarks, SameLog, SameRows
      <3>2. WellMade(disk') BY <1>0, <3>1 DEF WellMade, SameMarks, SameLog, SameRows
      <3>3. Moves(disk, disk')
        BY <1>s, <3>1, <3>2 DEF Moves, Gains, CacheMoves, RowsMove, Full, SameLog, SameRows
      <3>4. ScriptTables \subseteq disk.tables /\ disk.seqColumn /\ disk.columns = "current"
        BY <1>0, <2>1 DEF Ensured
      <3>5. ~disk.index BY <1>0, <2>3 DEF WellMade
      <3>6. l.pc = "createIndex" /\ Opens(k) BY <1>0, <2>1, EarlyMove DEF Opens, Early
      <3>7. Ensured(l, disk') BY <1>0, <2>1, <3>1, <3>4, EarlyEnsured
      <3>8. ~k.met => Undisturbed(l, disk')
        BY <1>0, <2>1, <3>1, <3>5, <3>6 DEF Undisturbed, SameLog, SameRows
      <3> QED BY <2>1, <2>3, <3>3, <3>7, <3>8, StepGoes
    <2> QED BY <1>2, <2>2, <2>3 DEF CreateIdempotency
  <1>3. CASE CreateIndex(p)
    <2>1. k.pc = "createIndex" BY <1>3 DEF CreateIndex
    <2>2. "idempotency" \in disk.tables /\ disk.columns = "current" BY <1>0, <2>1 DEF Ensured
    <2>3. CASE Refuse(p, "exists") /\ disk' = disk BY <2>3, RefuseGoes
    <2>4. CASE disk' = [disk EXCEPT !.index = TRUE] /\ Step(p, "mark") BY <1>i, <2>1, <2>2, <2>4
    <2> QED BY <1>3, <2>3, <2>4 DEF CreateIndex
  <1>4. CASE RebuildIdempotency(p)
    <2>1. k.pc = "rebuild" BY <1>4 DEF RebuildIdempotency
    <2>2. CASE Refuse(p, "exists") /\ disk' = disk BY <2>2, RefuseGoes
    <2>3. CASE /\ disk' = [disk EXCEPT !.rows = loc[p].keep, !.columns = "current", !.index = TRUE]
               /\ Goto(p, [pc |-> "mark", met |-> loc[p].met])
      <3> DEFINE l == [pc |-> "mark", met |-> k.met]
      <3>1. /\ k.keep \in SUBSET [at : Nat, live : BOOLEAN] /\ k.met \in BOOLEAN /\ Opens(k)
        BY <1>0, <2>1 DEF LocType, Opens
      <3>2. /\ disk' \in File /\ SameMarks(disk, disk') /\ SameLog(disk, disk')
            /\ disk'.imports = disk.imports /\ disk'.tables = disk.tables
            /\ disk'.columns = "current" /\ disk'.seqColumn = disk.seqColumn /\ disk'.index
        BY <1>0, <2>3, <3>1 DEF File, SameMarks, SameLog
      <3>3. ScriptTables \subseteq disk.tables /\ disk.seqColumn /\ "idempotency" \in disk.tables
        BY <1>0, <2>1 DEF Ensured
      <3>4. WellMade(disk') BY <1>0, <3>2, <3>3 DEF WellMade, SameMarks, SameLog
      <3>5. Moves(disk, disk')
        BY <1>s, <3>2, <3>4 DEF Moves, Gains, CacheMoves, RowsMove, Full, SameLog
      <3>6. Complete(disk') BY <1>t, <3>2, <3>3, TablesAre DEF Complete
      <3>7. l.pc = "mark" /\ l.met = k.met OBVIOUS
      <3>8. LocType(l) BY <3>1 DEF LocType, Early, Late
      <3>9. Ensured(l, disk') BY <3>6, <3>7 DEF Ensured, Late
      <3>10. Counted(l, disk') /\ Spared(l, disk') BY <3>7 DEF Counted, Spared
      <3>11. ~k.met => Undisturbed(l, disk')
        BY <1>0, <2>1, <3>1, <3>2, <3>7 DEF Undisturbed, SameLog
      <3> HIDE DEF l
      <3>12. Fits(k, l, disk') BY <3>1, <3>7, <3>8, <3>9, <3>10, <3>11 DEF Fits
      <3> QED BY <2>3, <3>5, <3>12 DEF Goes, Goto, l
    <2> QED BY <1>4, <2>2, <2>3 DEF RebuildIdempotency
  <1> QED BY <1>1, <1>2, <1>3, <1>4

LEMMA RequireGoes ==
  ASSUME Inv, NEW p \in Proc, NEW v, NEW here, NEW next, Require(p, v, here, next),
         \/ v = 2 /\ here = "require2" /\ next = "migrate2"
         \/ v = 3 /\ here = "require3" /\ next = "migrate3"
         \/ v = 4 /\ here = "require4" /\ next = "verify"
  PROVE  Goes(p)
  <1> DEFINE k == loc[p]
             l == [k EXCEPT !.pc = next]
  <1>0. LocType(k) /\ WellMade(disk) /\ Ensured(k, disk) BY InvFine DEF Fine
  <1>1. /\ k.pc \in {"require2", "require3", "require4"} /\ k.pc \in Early
        /\ next \in {"migrate2", "migrate3", "verify"} /\ next \in Early /\ disk' = disk
    BY DEF Require, Early
  <1>2. Moves(disk, disk) BY <1>0, StaysMoves
  <1>3. CASE Refuse(p, "markers") BY <1>1, <1>3, RefuseGoes
  <1>4. CASE SchemaOf(v) /\ Step(p, next)
    <2>1. l.pc = next BY <1>0, <1>1, EarlyMove
    <2>2. /\ "idempotency" \in disk.tables /\ disk.columns = "current" /\ disk.seqColumn /\ disk.index
          /\ \A i \in disk.imports : i.known
      BY <1>0, <1>1 DEF Ensured
    <2>3. next = "verify" => v = 4 /\ disk.ver = 4 BY <1>0, <1>4 DEF SchemaOf, WellMade
    <2>4. next = "verify" => Complete(disk)
      BY <1>0, <1>4, <2>2, <2>3, VersionTables DEF SchemaOf, Complete, WellMade, File
    <2>5. Ensured(l, disk) BY <1>0, <1>1, <2>2, <2>4, EarlyEnsured
    <2>6. Undisturbed(l, disk) BY <1>1, <2>1, <2>3 DEF Undisturbed
    <2> QED BY <1>1, <1>2, <1>4, <2>5, <2>6, StepGoes
  <1> QED BY <1>3, <1>4 DEF Require

LEMMA MigrateGoes ==
  ASSUME Inv, NEW p \in Proc, NEW v, NEW here, NEW next, Migrate(p, v, here, next),
         \/ v = 3 /\ here = "migrate2" /\ next = "require3"
         \/ v = 4 /\ here = "migrate3" /\ next = "require4"
  PROVE  Goes(p)
  <1> DEFINE k == loc[p]
             l == [k EXCEPT !.pc = next]
  <1>0. LocType(k) /\ WellMade(disk) /\ disk \in File /\ Ensured(k, disk)
    BY InvFine DEF Fine, WellMade
  <1>1. /\ k.pc \in {"migrate2", "migrate3"} /\ k.pc \in Early /\ v \in {3, 4}
        /\ next \in {"require3", "require4"} /\ next \in Early /\ Step(p, next)
    BY DEF Migrate, Early
  <1>2. Version(v).tables \subseteq Tables BY <1>1, VersionTables
  <1>3. /\ disk' \in File /\ SameLog(disk, disk') /\ SameRows(disk, disk')
        /\ disk'.ver = v /\ disk'.marker = v
        /\ disk'.tables = disk.tables \cup Version(v).tables /\ disk'.columns = disk.columns
        /\ disk'.seqColumn = disk.seqColumn /\ disk'.index = disk.index
    BY <1>0, <1>1, <1>2 DEF Migrate, File, SameLog, SameRows
  <1>4. /\ "idempotency" \in disk.tables /\ disk.columns = "current" /\ disk.seqColumn /\ disk.index
        /\ \A i \in disk.imports : i.known
    BY <1>0, <1>1 DEF Ensured
  <1>5. WellMade(disk') BY <1>0, <1>3, <1>4 DEF WellMade, SameLog, SameRows
  <1>6. Moves(disk, disk')
    BY <1>0, <1>3, <1>5, StaysMoves DEF Moves, Gains, CacheMoves, RowsMove, Full, SameLog, SameRows
  <1>7. l.pc = next BY <1>0, <1>1, EarlyMove
  <1>8. Ensured(l, disk') BY <1>0, <1>1, <1>3, <1>4, EarlyEnsured DEF SameRows
  <1>9. Undisturbed(l, disk') BY <1>1, <1>3, <1>7 DEF Undisturbed
  <1> QED BY <1>1, <1>6, <1>8, <1>9, StepGoes

LEMMA MarkSteps ==
  ASSUME Inv, NEW p \in Proc, MarkCurrent(p) \/ Upgrade(p)
  PROVE  Goes(p)
  <1> DEFINE k == loc[p]
             l == [k EXCEPT !.pc = "verify"]
  <1>0. LocType(k) /\ WellMade(disk) /\ disk \in File /\ Ensured(k, disk)
    BY InvFine DEF Fine, WellMade
  <1>1. CASE MarkCurrent(p)
    <2>1. k.pc = "mark" /\ k.pc \in Early /\ "verify" \in Early BY <1>1 DEF MarkCurrent, Early
    <2>2. CASE LedgersOK /\ disk' = [disk EXCEPT !.marker = 4, !.ver = 4] /\ Step(p, "verify")
      <3>1. /\ disk' \in File /\ SameLog(disk, disk') /\ SameRows(disk, disk') /\ SameSchema(disk, disk')
            /\ disk'.ver = 4 /\ disk'.marker = 4
        BY <1>0, <2>2 DEF File, SameLog, SameRows, SameSchema
      <3>2. Complete(disk) /\ \A i \in disk.imports : i.known
        BY <1>0, <2>1, <2>2 DEF Ensured, LedgersOK
      <3>3. WellMade(disk')
        BY <1>0, <3>1, <3>2, VersionTables DEF WellMade, SameLog, SameRows, SameSchema, Complete
      <3>4. Moves(disk, disk')
        BY <1>0, <3>1, <3>3, StaysMoves
           DEF Moves, Gains, CacheMoves, RowsMove, Full, SameLog, SameRows, SameSchema
      <3>5. Complete(disk') BY <3>1, <3>2 DEF Complete, SameSchema
      <3>6. l.pc = "verify" BY <1>0, <2>1, EarlyMove
      <3>7. Ensured(l, disk') BY <1>0, <2>1, <3>5, EarlyEnsured
      <3>8. Undisturbed(l, disk') BY <3>1, <3>6 DEF Undisturbed
      <3> QED BY <2>1, <2>2, <3>4, <3>7, <3>8, StepGoes
    <2>3. CASE Refuse(p, "integrity") /\ disk' = disk BY <2>3, RefuseGoes
    <2> QED BY <1>1, <2>2, <2>3 DEF MarkCurrent
  <1>2. CASE Upgrade(p) BY <1>2, RequireGoes, MigrateGoes DEF Upgrade
  <1> QED BY <1>1, <1>2
----------------------------------------------------------------------------
(***************************************************************************)
(* Startup verification, appends and crashes.                              *)
(***************************************************************************)

(* A process that has recorded the size of the log, by where it goes.      *)
Looking(l, d) ==
  /\ Complete(d) /\ l.met \in BOOLEAN /\ l.try \in 1..Attempts /\ l.since \in Nat
  /\ l.leaves \in Nat /\ l.since + l.try <= l.leaves + 1 /\ l.leaves <= d.size

LEMMA LookingFacts ==
  ASSUME NEW k, NEW d, Fine(k, d), k.pc \in {"stored", "recheck"} \cup Late
  PROVE  Looking(k, d) /\ Opens(k)
  <1>1. LocType(k) /\ Ensured(k, d) BY DEF Fine
  <1>2. /\ k.met \in BOOLEAN /\ k.try \in 1..Attempts /\ k.since \in Nat /\ k.leaves \in Nat
    BY <1>1 DEF LocType
  <1>3. /\ Complete(d) /\ k.since + k.try <= k.leaves + 1 /\ k.leaves <= d.size BY <1>1 DEF Ensured
  <1> QED BY <1>2, <1>3 DEF Looking, Opens, Late

LEMMA RetryGoes ==
  ASSUME Inv, NEW p \in Proc, loc[p].pc \in {"recheck", "backfill"}, Retry(p),
         disk' = disk, disk.size # loc[p].leaves
  PROVE  Goes(p)
  <1> DEFINE k == loc[p]
             l == [pc |-> "leaves", met |-> k.met, try |-> k.try + 1, since |-> k.since]
  <1>0. Fine(k, disk) /\ WellMade(disk) BY InvFine DEF Fine
  <1>1. Moves(disk, disk) BY <1>0, StaysMoves
  <1>2. CASE k.try < Attempts /\ Goto(p, l)
    <2>1. Looking(k, disk) /\ Opens(k) BY <1>0, LookingFacts DEF Late
    <2>2. disk.size \in Nat BY <1>0 DEF WellMade, File
    <2>3. /\ k.try + 1 \in 1..Attempts /\ k.since + (k.try + 1) <= disk.size + 1
          /\ k.met \in BOOLEAN /\ k.since \in Nat /\ Complete(disk)
      BY <1>2, <2>1, <2>2, OpeningAssumption DEF Looking
    <2>4. LocType(l) BY <2>3 DEF LocType, Early, Late
    <2>5. l.pc = "leaves" /\ l.met = k.met /\ l.try = k.try + 1 /\ l.since = k.since OBVIOUS
    <2>6. Ensured(l, disk) BY <2>3, <2>5 DEF Ensured, Late
    <2>7. Counted(l, disk) /\ Spared(l, disk) /\ Undisturbed(l, disk)
      BY <2>5 DEF Counted, Spared, Undisturbed
    <2> HIDE DEF l
    <2>8. Fits(k, l, disk) BY <2>1, <2>4, <2>5, <2>6, <2>7 DEF Fits
    <2> QED BY <1>1, <1>2, <2>8 DEF Goes, Goto
  <1>3. CASE Goto(p, Off) BY <1>1, <1>3, OffFits DEF Goes, Goto
  <1> QED BY <1>2, <1>3 DEF Retry

LEMMA VerifySteps ==
  ASSUME Inv, NEW p \in Proc, Verify(p) \/ ReadLeaves(p) \/ RecheckHead(p)
  PROVE  Goes(p)
  <1> DEFINE k == loc[p]
  <1>0. Fine(k, disk) /\ WellMade(disk) /\ LocType(k) /\ Ensured(k, disk) /\ disk.size \in Nat
    BY InvFine DEF Fine, WellMade, File
  <1>s. Moves(disk, disk) BY <1>0, StaysMoves
  <1>1. CASE Verify(p)
    <2> DEFINE l == [pc |-> "leaves", met |-> k.met, try |-> 1, since |-> disk.size]
    <2>1. k.pc = "verify" /\ disk' = disk BY <1>1 DEF Verify
    <2>2. CASE Refuse(p, "integrity") BY <2>1, <2>2, RefuseGoes
    <2>3. CASE Goto(p, l)
      <3>1. k.met \in BOOLEAN /\ Opens(k) /\ Complete(disk)
        BY <1>0, <2>1 DEF LocType, Early, Opens, Ensured
      <3>2. 1 \in 1..Attempts /\ disk.size + 1 <= disk.size + 1 BY <1>0, OpeningAssumption
      <3>3. LocType(l) BY <1>0, <3>1, <3>2 DEF LocType, Early, Late
      <3>4. l.pc = "leaves" /\ l.met = k.met /\ l.try = 1 /\ l.since = disk.size OBVIOUS
      <3>5. Ensured(l, disk) BY <3>1, <3>2, <3>4 DEF Ensured, Late
      <3>6. Counted(l, disk) /\ Spared(l, disk) /\ Undisturbed(l, disk)
        BY <3>4 DEF Counted, Spared, Undisturbed
      <3> HIDE DEF l
      <3>7. Fits(k, l, disk) BY <3>1, <3>3, <3>4, <3>5, <3>6 DEF Fits
      <3> QED BY <1>s, <2>1, <2>3, <3>7 DEF Goes, Goto
    <2> QED BY <1>1, <2>2, <2>3 DEF Verify
  <1>2. CASE ReadLeaves(p)
    <2> DEFINE l == [pc |-> "stored", met |-> k.met, try |-> k.try, since |-> k.since,
                     leaves |-> disk.size]
    <2>1. k.pc = "leaves" /\ disk' = disk /\ Goto(p, l) BY <1>2 DEF ReadLeaves
    <2>2. /\ k.met \in BOOLEAN /\ k.try \in 1..Attempts /\ k.since \in Nat /\ Opens(k)
          /\ Complete(disk) /\ k.since + k.try <= disk.size + 1
      BY <1>0, <2>1 DEF LocType, Opens, Ensured
    <2>3. LocType(l) BY <1>0, <2>2 DEF LocType, Early, Late
    <2>4. /\ l.pc = "stored" /\ l.met = k.met /\ l.try = k.try /\ l.since = k.since
          /\ l.leaves = disk.size
      OBVIOUS
    <2>5. Ensured(l, disk) BY <1>0, <2>2, <2>4 DEF Ensured, Late
    <2>6. Counted(l, disk) /\ Spared(l, disk) /\ Undisturbed(l, disk)
      BY <2>4 DEF Counted, Spared, Undisturbed
    <2> HIDE DEF l
    <2>7. Fits(k, l, disk) BY <2>2, <2>3, <2>4, <2>5, <2>6 DEF Fits
    <2> QED BY <1>s, <2>1, <2>7 DEF Goes, Goto
  <1>3. CASE RecheckHead(p)
    <2>1. k.pc = "recheck" /\ disk' = disk BY <1>3 DEF RecheckHead
    <2>2. CASE disk.size # k.leaves /\ Retry(p) BY <2>1, <2>2, RetryGoes
    <2>3. CASE Refuse(p, "inconsistent") BY <2>1, <2>3, RefuseGoes
    <2> QED BY <1>3, <2>2, <2>3 DEF RecheckHead
  <1> QED BY <1>1, <1>2, <1>3

LEMMA CacheSteps ==
  ASSUME Inv, NEW p \in Proc, ReadStored(p) \/ ReadFrontier(p) \/ Backfill(p) \/ FirstVerdict(p)
  PROVE  Goes(p)
  <1> DEFINE k == loc[p]
  <1>0. /\ Fine(k, disk) /\ WellMade(disk) /\ LocType(k) /\ Ensured(k, disk) /\ Counted(k, disk)
        /\ disk \in File /\ disk.size \in Nat /\ disk.cached \subseteq Nat \ {0}
    BY InvFine DEF Fine, WellMade, File
  <1>s. Moves(disk, disk) BY <1>0, StaysMoves
  <1>1. CASE ReadStored(p)
    <2>1. k.pc = "stored" /\ disk' = disk BY <1>1 DEF ReadStored
    <2>2. Looking(k, disk) /\ Opens(k) BY <1>0, <2>1, LookingFacts
    <2>3. k \in [pc : {"stored", "recheck"}, met : BOOLEAN, try : 1..Attempts, since : Nat,
                 leaves : Nat]
      BY <1>0, <2>1 DEF LocType
    <2>4. CASE (\E n \in disk.cached : n > k.leaves) /\ Step(p, "recheck")
      <3> DEFINE l == [k EXCEPT !.pc = "recheck"]
      <3>1. /\ l \in [pc : {"stored", "recheck"}, met : BOOLEAN, try : 1..Attempts, since : Nat,
                      leaves : Nat]
            /\ l.pc = "recheck" /\ l.met = k.met /\ l.try = k.try /\ l.since = k.since
            /\ l.leaves = k.leaves
        BY <2>3
      <3> HIDE DEF l
      <3>2. LocType(l) BY <3>1 DEF LocType, Early, Late
      <3>3. Ensured(l, disk) BY <2>2, <2>4, <3>1 DEF Ensured, Late, Looking
      <3>4. Counted(l, disk) BY <1>0, <2>1, <3>1 DEF Counted
      <3>5. Spared(l, disk) /\ Undisturbed(l, disk) BY <3>1 DEF Spared, Undisturbed
      <3>6. Fits(k, l, disk) BY <2>2, <3>1, <3>2, <3>3, <3>4, <3>5 DEF Fits
      <3> QED BY <1>s, <2>1, <2>4, <3>6 DEF Goes, Goto, Step, l
    <2>5. CASE /\ \A n \in disk.cached : n <= k.leaves
               /\ Goto(p, [pc |-> "frontier", met |-> k.met, try |-> k.try, since |-> k.since,
                           leaves |-> k.leaves, missing |-> (1..k.leaves) \ disk.cached])
      <3> DEFINE l == [pc |-> "frontier", met |-> k.met, try |-> k.try, since |-> k.since,
                       leaves |-> k.leaves, missing |-> (1..k.leaves) \ disk.cached]
      <3>1. /\ l.pc = "frontier" /\ l.met = k.met /\ l.try = k.try /\ l.since = k.since
            /\ l.leaves = k.leaves /\ l.missing = (1..k.leaves) \ disk.cached
        OBVIOUS
      <3>2. LocType(l) BY <2>2 DEF LocType, Early, Late, Looking
      <3> HIDE DEF l
      <3>3. Ensured(l, disk) BY <2>2, <3>1 DEF Ensured, Late, Looking
      <3>4. Counted(l, disk)
        <4>1. Full(disk) \/ disk.size = k.leaves BY <1>0, <2>1 DEF Counted
        <4>2. disk.size = k.leaves => disk.cached \subseteq 1..disk.size BY <1>0, <2>5
        <4> QED BY <3>1, <4>1, <4>2 DEF Counted
      <3>5. Spared(l, disk) /\ Undisturbed(l, disk) BY <3>1 DEF Spared, Undisturbed
      <3>6. Fits(k, l, disk) BY <2>2, <3>1, <3>2, <3>3, <3>4, <3>5 DEF Fits
      <3> QED BY <1>s, <2>1, <2>5, <3>6 DEF Goes, Goto, l
    <2> QED BY <1>1, <2>4, <2>5 DEF ReadStored
  (* From one of the last places to the next.                              *)
  <1>l. ASSUME k.pc \in Late, NEW v \in Late, Step(p, v), Moves(disk, disk'),
               v = "head" => Full(disk'), v # "head" => k.pc = "frontier" /\ disk' = disk
        PROVE  Goes(p)
    <2> DEFINE l == [k EXCEPT !.pc = v]
    <2>1. Looking(k, disk) /\ Opens(k) BY <1>0, <1>l, LookingFacts
    <2>2. k \in [pc : Late, met : BOOLEAN, try : 1..Attempts, since : Nat, leaves : Nat,
                 missing : SUBSET Nat]
      BY <1>0, <1>l DEF LocType
    <2>3. /\ l \in [pc : Late, met : BOOLEAN, try : 1..Attempts, since : Nat, leaves : Nat,
                    missing : SUBSET Nat]
          /\ l.pc = v /\ l.met = k.met /\ l.try = k.try /\ l.since = k.since
          /\ l.leaves = k.leaves /\ l.missing = k.missing
      BY <1>l, <2>2
    <2> HIDE DEF l
    <2>4. LocType(l) BY <1>l, <2>3 DEF LocType, Early, Late
    <2>5. Ensured(k, disk') BY <1>0, <1>l, EnsuredStays
    <2>6. Ensured(l, disk') BY <1>l, <2>3, <2>5 DEF Ensured, Late
    <2>7. Counted(l, disk') BY <1>0, <1>l, <2>3 DEF Counted, Late
    <2>8. Spared(l, disk') /\ Undisturbed(l, disk') BY <1>l, <2>3 DEF Spared, Undisturbed, Late
    <2>9. Fits(k, l, disk') BY <2>1, <2>3, <2>4, <2>6, <2>7, <2>8 DEF Fits
    <2> QED BY <1>l, <2>9 DEF Goes, Goto, Step, l
  <1>2. CASE ReadFrontier(p)
    <2> DEFINE v == IF k.missing = {} /\ disk.frontier = k.leaves THEN "head" ELSE "backfill"
    <2>1. k.pc = "frontier" /\ disk' = disk /\ Step(p, v) BY <1>2 DEF ReadFrontier
    <2>2. v = "head" => Full(disk)
      <3> SUFFICES ASSUME k.missing = {}, disk.frontier = k.leaves, ~Full(disk) PROVE FALSE
        OBVIOUS
      <3>1. /\ disk.size = k.leaves /\ disk.cached \subseteq 1..disk.size
            /\ (1..k.leaves) \ disk.cached \subseteq {}
        BY <1>0, <2>1 DEF Counted
      <3>2. disk.cached = 1..disk.size BY <3>1
      <3> QED BY <3>1, <3>2 DEF Full
    <2>3. v \in Late /\ k.pc \in Late BY <2>1 DEF Late
    <2> HIDE DEF v
    <2> QED BY <1>l, <1>s, <2>1, <2>2, <2>3
  <1>3. CASE Backfill(p)
    <2>1. k.pc = "backfill" /\ k.pc \in Late /\ "head" \in Late BY <1>3 DEF Backfill, Late
    <2>2. CASE disk.size # k.leaves /\ Retry(p) /\ disk' = disk BY <2>1, <2>2, RetryGoes
    <2>3. CASE /\ disk.size = k.leaves /\ Step(p, "head")
               /\ disk' = [disk EXCEPT !.cached = @ \cup k.missing, !.frontier = k.leaves]
      <3>1. /\ k.missing \subseteq 1..k.leaves
            /\ Full(disk) \/ /\ disk.cached \subseteq 1..disk.size
                             /\ (1..k.leaves) \ disk.cached \subseteq k.missing
        BY <1>0, <2>1 DEF Counted
      <3>2. disk.cached \cup k.missing = 1..disk.size
        <4>1. CASE Full(disk) BY <2>3, <3>1, <4>1 DEF Full
        <4>2. CASE ~Full(disk) BY <2>3, <3>1, <4>2
        <4> QED BY <4>1, <4>2
      <3>3. 1..disk.size \subseteq Nat \ {0} BY <1>0
      <3>4. /\ disk' \in File /\ SameMarks(disk, disk') /\ SameSchema(disk, disk')
            /\ SameRows(disk, disk') /\ disk'.size = disk.size
            /\ disk'.cached = disk.cached \cup k.missing /\ disk'.frontier = disk.size
        BY <1>0, <2>3, <3>2, <3>3 DEF File, SameMarks, SameSchema, SameRows
      <3>5. Full(disk') BY <3>2, <3>4 DEF Full
      <3>6. WellMade(disk') BY <1>0, <3>4 DEF WellMade, SameMarks, SameSchema, SameRows
      <3>7. Moves(disk, disk')
        BY <1>0, <3>4, <3>5, <3>6 DEF Moves, Gains, CacheMoves, RowsMove, SameSchema, SameRows
      <3> QED BY <1>l, <2>1, <2>3, <3>5, <3>7
    <2> QED BY <1>3, <2>2, <2>3 DEF Backfill
  <1>4. CASE FirstVerdict(p)
    <2> DEFINE l == [pc |-> "ready"]
    <2>1. k.pc = "head" /\ disk' = disk /\ Goto(p, l) BY <1>4 DEF FirstVerdict
    <2>2. Complete(disk) /\ Full(disk) BY <1>0, <2>1 DEF Ensured, Counted, Late
    <2>3. l.pc = "ready" OBVIOUS
    <2> HIDE DEF l
    <2>4. LocType(l) BY <2>3 DEF LocType, Early, Late
    <2>5. Ensured(l, disk) /\ Counted(l, disk) BY <2>2, <2>3 DEF Ensured, Counted, Late
    <2>6. Spared(l, disk) /\ ~Opens(l) BY <2>3 DEF Spared, Opens
    <2>7. Fits(k, l, disk) BY <2>4, <2>5, <2>6 DEF Fits
    <2> QED BY <1>s, <2>1, <2>7 DEF Goes, Goto
  <1> QED BY <1>1, <1>2, <1>3, <1>4

LEMMA SubmitGoes ==
  ASSUME Inv, NEW p \in Proc, Submit(p)
  PROVE  Goes(p) /\ Live(disk.rows) \subseteq disk'.rows
  <1> DEFINE k == loc[p]
             r == [at |-> disk.size + 1, live |-> TRUE]
  <1>0. /\ Fine(k, disk) /\ WellMade(disk) /\ LocType(k) /\ Ensured(k, disk) /\ Counted(k, disk)
        /\ disk \in File /\ disk.size \in Nat
    BY InvFine DEF Fine, WellMade, File
  <1>1. /\ k.pc = "ready" /\ loc' = loc
        /\ disk' = [disk EXCEPT !.size = disk.size + 1, !.cached = disk.cached \cup {disk.size + 1},
                                !.frontier = disk.frontier + 1, !.rows = disk.rows \cup {r}]
    BY DEF Submit
  <1>2. Complete(disk) /\ Full(disk) BY <1>0, <1>1 DEF Ensured, Counted
  <1>3. r \in [at : Nat, live : BOOLEAN] /\ disk.size + 1 \in Nat \ {0} BY <1>0
  <1> HIDE DEF r
  <1>f. /\ disk.size + 1 \in Nat /\ disk.frontier + 1 \in Nat
        /\ disk.cached \cup {disk.size + 1} \in SUBSET (Nat \ {0})
        /\ disk.rows \cup {r} \in SUBSET [at : Nat, live : BOOLEAN]
    BY <1>0, <1>3 DEF File
  <1> HIDE DEF k
  <1>4. /\ disk' \in File /\ SameMarks(disk, disk') /\ SameSchema(disk, disk')
        /\ disk'.imports = disk.imports /\ disk'.rows = disk.rows \cup {r}
        /\ disk'.size = disk.size + 1 /\ disk'.cached = disk.cached \cup {disk.size + 1}
        /\ disk'.frontier = disk.frontier + 1
    BY <1>0, <1>1, <1>f DEF File, SameMarks, SameSchema
  <1>5. 1..(disk.size + 1) = (1..disk.size) \cup {disk.size + 1} BY <1>0
  <1>6. Full(disk') BY <1>2, <1>4, <1>5 DEF Full
  <1>7. {"log", "idempotency", "imported_records"} \subseteq Tables
    <2>1. Script[1] = "log" /\ Script[3] = "imported_records" /\ {1, 3} \subseteq DOMAIN Script
      BY DEF Script
    <2> QED BY <2>1 DEF Tables
  <1>8. WellMade(disk') BY <1>0, <1>2, <1>4, <1>7 DEF WellMade, Complete, SameMarks, SameSchema
  <1>9. disk'.index BY <1>2, <1>4 DEF Complete, SameSchema
  <1>10. Moves(disk, disk')
    BY <1>0, <1>4, <1>6, <1>8, <1>9 DEF Moves, Gains, CacheMoves, RowsMove, SameSchema
  <1>11. Ensured(k, disk') BY <1>0, <1>10, EnsuredStays
  <1>12. Counted(k, disk') /\ Spared(k, disk') /\ ~Opens(k)
    BY <1>1, <1>6 DEF Counted, Spared, Opens
  <1>13. Fits(k, k, disk') BY <1>0, <1>11, <1>12 DEF Fits
  <1>14. loc' = [loc EXCEPT ![p] = k]
    <2>1. loc = [q \in Proc |-> loc[q]] BY DEF Inv, TypeInv
    <2> QED BY <1>1, <2>1 DEF k
  <1> QED BY <1>4, <1>10, <1>13, <1>14 DEF Goes, Live, k

(***************************************************************************)
(* The steps that are not one process's own.                               *)
(***************************************************************************)

LEMMA OpenGoes ==
  ASSUME Inv, NEW p \in Proc, Open(p)
  PROVE  Goes(p)
  BY CreateSteps, LegacySteps, IdempotencySteps, MarkSteps, VerifySteps, CacheSteps DEF Open

LEMMA OpenRuns ==
  ASSUME NEW p \in Proc, Open(p) \/ Submit(p)
  PROVE  loc[p] # Off
  <1>1. loc[p].pc # "off"
    <2>1. CASE Submit(p) BY <2>1 DEF Submit
    <2>2. CASE Open(p)
      BY <2>2 DEF Open, Wal, ReadVersion, RequireLegacy, ScriptTable, ReadColumns, AddSeqColumn,
                  ResolveImports, ReadIdempotency, CreateIdempotency, CreateIndex,
                  RebuildIdempotency, MarkCurrent, Upgrade, Require, Migrate, Verify, ReadLeaves,
                  ReadStored, RecheckHead, ReadFrontier, Backfill, FirstVerdict
    <2> QED BY <2>1, <2>2
  <1> QED BY <1>1 DEF Off

LEMMA GoesKeeps ==
  ASSUME Inv, NEW p \in Proc, loc[p] # Off, Goes(p)
  PROVE  Inv'
  <1>1. PICK l : loc' = [loc EXCEPT ![p] = l] /\ Fits(loc[p], l, disk') BY DEF Goes
  <1>2. Moves(disk, disk') BY DEF Goes
  <1> QED BY <1>1, <1>2, MoveKeeps

(* Time passes: a row that is live was live, and it is where it was.       *)
LEMMA ExpireFacts ==
  ASSUME WellMade(disk), Expire
  PROVE  /\ disk' \in File /\ SameMarks(disk, disk') /\ SameSchema(disk, disk')
         /\ SameLog(disk, disk') /\ disk'.imports = disk.imports
         /\ \A r \in disk.rows : \E s \in disk'.rows : s.at = r.at
         /\ \A s \in Live(disk'.rows) : \E r \in Live(disk.rows) : r.at = s.at
  <1> DEFINE R == {[r EXCEPT !.live = r.live /\ r.at > 2] : r \in disk.rows}
  <1>1. disk' = [disk EXCEPT !.rows = R] BY DEF Expire
  <1>2. disk \in File /\ disk.rows \in SUBSET [at : Nat, live : BOOLEAN] BY DEF WellMade, File
  <1>3. ASSUME NEW r \in disk.rows, NEW s, s = [r EXCEPT !.live = r.live /\ r.at > 2]
        PROVE  s \in [at : Nat, live : BOOLEAN] /\ s.at = r.at /\ (s.live => r.live)
    <2>1. r \in [at : Nat, live : BOOLEAN] BY <1>2
    <2>2. (r.live /\ r.at > 2) \in BOOLEAN OBVIOUS
    <2>3. s.live = (r.live /\ r.at > 2) BY <1>3, <2>1
    <2> QED BY <1>3, <2>1, <2>2, <2>3
  <1>4. R \in SUBSET [at : Nat, live : BOOLEAN] BY <1>3
  <1>5. \A r \in disk.rows : \E s \in R : s.at = r.at BY <1>3
  <1>6. \A s \in Live(R) : \E r \in Live(disk.rows) : r.at = s.at BY <1>3 DEF Live
  <1> HIDE DEF R
  <1>7. /\ disk' \in File /\ SameMarks(disk, disk') /\ SameSchema(disk, disk')
        /\ SameLog(disk, disk') /\ disk'.imports = disk.imports /\ disk'.rows = R
    BY <1>1, <1>2, <1>4 DEF File, SameMarks, SameSchema, SameLog
  <1> QED BY <1>5, <1>6, <1>7

LEMMA ExpireKeeps ==
  ASSUME Inv, Expire
  PROVE  Inv'
  <1>1. loc' = loc BY DEF Expire
  <1>2. WellMade(disk) /\ \A q \in Proc : Fine(loc[q], disk) BY InvFine DEF Inv, TypeInv
  <1>3. /\ disk' \in File /\ SameMarks(disk, disk') /\ SameSchema(disk, disk')
        /\ SameLog(disk, disk') /\ disk'.imports = disk.imports
        /\ \A s \in Live(disk'.rows) : \E r \in Live(disk.rows) : r.at = s.at
    BY <1>2, ExpireFacts
  <1>4. WellMade(disk') BY <1>2, <1>3 DEF WellMade, SameMarks, SameSchema, SameLog
  <1>5. Moves(disk, disk')
    BY <1>2, <1>3, <1>4, StaysMoves
       DEF Moves, Gains, CacheMoves, RowsMove, Full, SameSchema, SameLog
  <1>6. TypeInv' BY <1>1, <1>4 DEF Inv, TypeInv
  <1>7. EnsuredInv' BY <1>1, <1>2, <1>5, EnsuredStays DEF EnsuredInv, Fine
  <1>8. CountedInv' BY <1>1, <1>2, <1>5, CountedStays DEF CountedInv, Fine
  <1>9. SparedInv' BY <1>1, <1>2, <1>5, SparedStays DEF SparedInv, Fine
  <1>10. \A q \in Proc : Undisturbed(loc[q], disk) => Undisturbed(loc[q], disk')
    BY <1>3 DEF Undisturbed, SameMarks, SameSchema, SameLog
  <1>11. AloneInv' BY <1>1, <1>10 DEF Inv, AloneInv, Alone
  <1> QED BY <1>6, <1>7, <1>8, <1>9, <1>11 DEF Inv

(* A process that learns of another is where it was.                       *)
LEMMA MeetingFits ==
  ASSUME NEW l, NEW d, Fine(l, d), Opens(l), NEW m, m = [l EXCEPT !.met = TRUE]
  PROVE  LocType(m) /\ Ensured(m, d) /\ Counted(m, d) /\ Spared(m, d) /\ m.met
  <1>0. LocType(l) /\ Ensured(l, d) /\ Counted(l, d) /\ Spared(l, d) BY DEF Fine
  <1>1. CASE l.pc \in Early
    <2>1. l \in [pc : Early, met : BOOLEAN] BY <1>0, <1>1 DEF LocType
    <2>2. m \in [pc : Early, met : BOOLEAN] /\ m.pc = l.pc /\ m.met BY <2>1
    <2>3. l.pc \notin {"rebuild", "leaves", "stored", "recheck", "off", "ready"} \cup Late
      BY <1>1 DEF Early, Late
    <2>4. LocType(m) BY <2>2, <2>3 DEF LocType
    <2>5. Ensured(m, d) BY <1>0, <2>2, <2>3 DEF Ensured
    <2>6. Counted(m, d) /\ Spared(m, d) BY <2>2, <2>3 DEF Counted, Spared, Late
    <2> QED BY <2>2, <2>4, <2>5, <2>6
  <1>2. CASE l.pc = "rebuild"
    <2>1. l \in [pc : {"rebuild"}, met : BOOLEAN, keep : SUBSET [at : Nat, live : BOOLEAN]]
      BY <1>0, <1>2 DEF LocType
    <2>2. /\ m \in [pc : {"rebuild"}, met : BOOLEAN, keep : SUBSET [at : Nat, live : BOOLEAN]]
          /\ m.pc = "rebuild" /\ m.met /\ m.keep = l.keep
      BY <2>1
    <2>3. LocType(m) BY <2>2 DEF LocType, Early, Late
    <2>4. Ensured(m, d) BY <1>0, <1>2, <2>2 DEF Ensured, Late
    <2>5. Counted(m, d) /\ Spared(m, d) BY <1>0, <1>2, <2>2 DEF Counted, Spared
    <2> QED BY <2>2, <2>3, <2>4, <2>5
  <1>3. CASE l.pc = "leaves"
    <2>1. l \in [pc : {"leaves"}, met : BOOLEAN, try : 1..Attempts, since : Nat]
      BY <1>0, <1>3 DEF LocType
    <2>2. /\ m \in [pc : {"leaves"}, met : BOOLEAN, try : 1..Attempts, since : Nat]
          /\ m.pc = "leaves" /\ m.met /\ m.try = l.try /\ m.since = l.since
      BY <2>1
    <2>3. LocType(m) BY <2>2 DEF LocType, Early, Late
    <2>4. Ensured(m, d) BY <1>0, <1>3, <2>2 DEF Ensured, Late
    <2>5. Counted(m, d) /\ Spared(m, d) BY <2>2 DEF Counted, Spared
    <2> QED BY <2>2, <2>3, <2>4, <2>5
  <1>4. CASE l.pc \in {"stored", "recheck"}
    <2>1. l \in [pc : {"stored", "recheck"}, met : BOOLEAN, try : 1..Attempts, since : Nat,
                 leaves : Nat]
      BY <1>0, <1>4 DEF LocType
    <2>2. /\ m \in [pc : {"stored", "recheck"}, met : BOOLEAN, try : 1..Attempts, since : Nat,
                    leaves : Nat]
          /\ m.pc = l.pc /\ m.met /\ m.try = l.try /\ m.since = l.since /\ m.leaves = l.leaves
      BY <2>1
    <2>3. LocType(m) BY <2>2 DEF LocType, Early, Late
    <2>4. Ensured(m, d) BY <1>0, <1>4, <2>2 DEF Ensured, Late
    <2>5. Counted(m, d) BY <1>0, <1>4, <2>2 DEF Counted
    <2>6. Spared(m, d) BY <1>4, <2>2 DEF Spared
    <2> QED BY <2>2, <2>3, <2>4, <2>5, <2>6
  <1>5. CASE l.pc \in Late
    <2>1. l \in [pc : Late, met : BOOLEAN, try : 1..Attempts, since : Nat, leaves : Nat,
                 missing : SUBSET Nat]
      BY <1>0, <1>5 DEF LocType
    <2>2. /\ m \in [pc : Late, met : BOOLEAN, try : 1..Attempts, since : Nat, leaves : Nat,
                    missing : SUBSET Nat]
          /\ m.pc = l.pc /\ m.met /\ m.try = l.try /\ m.since = l.since /\ m.leaves = l.leaves
          /\ m.missing = l.missing
      BY <2>1
    <2>3. LocType(m) BY <1>5, <2>2 DEF LocType, Early, Late
    <2>4. Ensured(m, d) BY <1>0, <1>5, <2>2 DEF Ensured, Late
    <2>5. Counted(m, d) BY <1>0, <1>5, <2>2 DEF Counted
    <2>6. Spared(m, d) BY <1>5, <2>2 DEF Spared, Late
    <2> QED BY <2>2, <2>3, <2>4, <2>5, <2>6
  <1> QED BY <1>0, <1>1, <1>2, <1>3, <1>4, <1>5 DEF LocType, Opens

LEMMA ProbeKeeps ==
  ASSUME Inv, NEW p \in Proc, Probe(p)
  PROVE  Inv'
  <1>1. disk' = disk /\ loc' = [q \in Proc |-> loc'[q]] /\ WellMade(disk)
    BY DEF Probe, Inv, TypeInv
  <1> DEFINE l == [pc |-> IF disk.bytes THEN "version" ELSE "wal", met |-> ~Alone(p)]
  <1>2. loc'[p] = l BY DEF Probe
  <1>3. /\ l.pc \in {"version", "wal"} /\ l.met = ~Alone(p)
        /\ l \in [pc : {"version", "wal"}, met : BOOLEAN]
    OBVIOUS
  <1> HIDE DEF l
  <1>4. LocType(l) BY <1>3 DEF LocType, Early, Late
  <1>5. Ensured(l, disk) /\ Counted(l, disk) /\ Spared(l, disk)
    BY <1>3 DEF Ensured, Counted, Spared, Late
  <1>6. Undisturbed(l, disk) BY <1>3 DEF Undisturbed
  <1>7. ASSUME NEW q \in Proc, q # p
        PROVE  /\ LocType(loc'[q]) /\ Ensured(loc'[q], disk) /\ Counted(loc'[q], disk)
               /\ Spared(loc'[q], disk)
               /\ Opens(loc'[q]) => loc'[q].met
               /\ loc[q] = Off => loc'[q] = Off
    <2>1. Fine(loc[q], disk) BY InvFine
    <2>2. CASE loc[q] # Off /\ loc[q].pc # "ready"
      <3>1. loc'[q] = [loc[q] EXCEPT !.met = TRUE] BY <1>7, <2>2 DEF Probe
      <3>2. Opens(loc[q]) BY <2>1, <2>2 DEF Opens, Fine, LocType
      <3> QED BY <2>1, <2>2, <3>1, <3>2, MeetingFits
    <2>3. CASE loc[q] = Off \/ loc[q].pc = "ready"
      <3>1. loc'[q] = loc[q] BY <1>7, <2>3 DEF Probe
      <3>2. ~Opens(loc[q]) BY <2>3 DEF Opens, Off
      <3> QED BY <2>1, <3>1, <3>2 DEF Fine
    <2> QED BY <2>2, <2>3
  <1>8. TypeInv' BY <1>1, <1>2, <1>4, <1>7 DEF TypeInv
  <1>9. EnsuredInv' BY <1>1, <1>2, <1>5, <1>7 DEF EnsuredInv
  <1>10. CountedInv' BY <1>1, <1>2, <1>5, <1>7 DEF CountedInv
  <1>11. SparedInv' BY <1>1, <1>2, <1>5, <1>7 DEF SparedInv
  <1>12. AloneInv'
    <2> SUFFICES ASSUME NEW q \in Proc, Opens(loc'[q]), ~loc'[q].met
                 PROVE  Undisturbed(loc'[q], disk') /\ \A o \in Proc \ {q} : loc'[o] = Off
      BY DEF AloneInv, Alone
    <2>1. q = p BY <1>7
    <2>2. \A o \in Proc \ {p} : loc[o] = Off BY <1>2, <1>3, <2>1 DEF Alone
    <2> QED BY <1>1, <1>2, <1>6, <1>7, <2>1, <2>2
  <1> QED BY <1>8, <1>9, <1>10, <1>11, <1>12 DEF Inv

LEMMA InitInv ==
  ASSUME Init
  PROVE  Inv
  <1>1. /\ WellMade(disk) /\ loc = [p \in Proc |-> Off] BY OldFilesAssumption DEF Init
  <1>2. \A p \in Proc : loc[p] = Off BY <1>1
  <1>3. LocType(Off) /\ Ensured(Off, disk) /\ Counted(Off, disk) /\ Spared(Off, disk)
    BY OffFits DEF Fits
  <1>4. ~Opens(Off) BY DEF Opens, Off
  <1>5. loc = [p \in Proc |-> loc[p]] BY <1>1
  <1> QED BY <1>1, <1>2, <1>3, <1>4, <1>5
          DEF Inv, TypeInv, EnsuredInv, CountedInv, SparedInv, AloneInv

LEMMA NextInv ==
  ASSUME Inv, [Next]_vars
  PROVE  Inv'
  <1>1. ASSUME NEW p \in Proc, Open(p) \/ Submit(p) PROVE Inv'
    <2>1. loc[p] # Off BY <1>1, OpenRuns
    <2>2. Goes(p) BY <1>1, OpenGoes, SubmitGoes
    <2> QED BY <2>1, <2>2, GoesKeeps
  <1>2. ASSUME NEW p \in Proc, Crash(p) PROVE Inv'
    <2>1. loc[p] # Off /\ disk' = disk /\ loc' = [loc EXCEPT ![p] = Off] BY <1>2 DEF Crash, Goto
    <2>2. Moves(disk, disk') BY <2>1, StaysMoves DEF Inv, TypeInv
    <2> QED BY <2>1, <2>2, OffFits, MoveKeeps
  <1>3. ASSUME NEW p \in Proc, Probe(p) PROVE Inv' BY <1>3, ProbeKeeps
  <1>4. CASE Expire BY <1>4, ExpireKeeps
  <1>5. CASE UNCHANGED vars
    BY <1>5 DEF vars, Inv, TypeInv, EnsuredInv, CountedInv, SparedInv, AloneInv, Alone
  <1> QED BY <1>1, <1>2, <1>3, <1>4, <1>5 DEF Next

(* What is known of the file and of every process holds from the start on: *)
(* Store.__init__ never leaves it, nor does a crash or a submission.       *)
THEOREM OpeningInv == Spec => []Inv
  <1>1. Init => Inv BY InitInv
  <1>2. Inv /\ [Next]_vars => Inv' BY NextInv
  <1> QED BY <1>1, <1>2, PTL DEF Spec

(***************************************************************************)
(* A process that is ready has every table in its current form and, for    *)
(* every entry, its boundary, whatever the file was, however many other    *)
(* processes open it, append to it and die (Store.__init__).               *)
(***************************************************************************)
THEOREM ReadyAlwaysComplete == Spec => []ReadyIsComplete
  <1>1. Inv => ReadyIsComplete
    <2> SUFFICES ASSUME Inv, NEW p \in Proc, loc[p].pc = "ready"
                 PROVE  Complete(disk) /\ Full(disk)
      BY DEF ReadyIsComplete, Complete, Full
    <2>1. Ensured(loc[p], disk) /\ Counted(loc[p], disk) BY DEF Inv, EnsuredInv, CountedInv
    <2> QED BY <2>1 DEF Ensured, Counted
  <1> QED BY <1>1, OpeningInv, PTL
----------------------------------------------------------------------------
(***************************************************************************)
(* The live rows.                                                          *)
(***************************************************************************)

RowsStay == \A r \in Live(disk.rows) : \E s \in disk'.rows : s.at = r.at

LEMMA OpenRows ==
  ASSUME Inv, NEW p \in Proc, Open(p)
  PROVE  RowsStay
  <1>0. Fine(loc[p], disk) /\ disk \in File BY InvFine DEF Fine, WellMade
  <1>1. CASE RebuildIdempotency(p)
    <2>1. CASE disk' = disk BY <2>1 DEF RowsStay, Live
    <2>2. CASE /\ ~disk.index
               /\ disk' = [disk EXCEPT !.rows = loc[p].keep, !.columns = "current", !.index = TRUE]
      <3>1. disk'.rows = loc[p].keep BY <1>0, <2>2 DEF File
      <3>2. loc[p].pc = "rebuild" BY <1>1 DEF RebuildIdempotency
      <3> QED BY <1>0, <2>2, <3>1, <3>2 DEF Fine, Spared, RowsStay
    <2> QED BY <1>1, <2>1, <2>2 DEF RebuildIdempotency
  <1>2. CASE disk'.rows = disk.rows BY <1>2 DEF RowsStay, Live
  <1>3. CASE Wal(p) \/ ScriptTable(p) \/ AddSeqColumn(p) \/ ResolveImports(p)
    BY <1>0, <1>2, <1>3 DEF Wal, ScriptTable, AddSeqColumn, ResolveImports, File
  <1>4. CASE ReadIdempotency(p) \/ CreateIdempotency(p) \/ CreateIndex(p) \/ MarkCurrent(p)
    BY <1>0, <1>2, <1>4 DEF ReadIdempotency, CreateIdempotency, CreateIndex, MarkCurrent, File
  <1>5. CASE Upgrade(p) \/ Backfill(p)
    BY <1>0, <1>2, <1>5 DEF Upgrade, Require, Migrate, Backfill, File
  <1>6. CASE \/ ReadVersion(p) \/ RequireLegacy(p) \/ ReadColumns(p) \/ Verify(p) \/ ReadLeaves(p)
             \/ ReadStored(p) \/ RecheckHead(p) \/ ReadFrontier(p) \/ FirstVerdict(p)
    BY <1>2, <1>6 DEF ReadVersion, RequireLegacy, ReadColumns, Verify, ReadLeaves, ReadStored,
                      RecheckHead, ReadFrontier, FirstVerdict
  <1> QED BY <1>1, <1>3, <1>4, <1>5, <1>6 DEF Open

(***************************************************************************)
(* No migration, interrupted or run by two processes at once, loses a row  *)
(* of the idempotency table that is still live (_migrate_idempotency).     *)
(***************************************************************************)
THEOREM MigrationKeepsLiveRows == Spec => LiveRowsKept
  <1>1. Inv /\ [Next]_vars => [RowsStay]_disk
    <2> SUFFICES ASSUME Inv, Next, disk' # disk PROVE RowsStay BY DEF vars
    <2>1. ASSUME NEW p \in Proc, Open(p) PROVE RowsStay BY <2>1, OpenRows
    <2>2. ASSUME NEW p \in Proc, Submit(p) PROVE RowsStay BY <2>2, SubmitGoes DEF RowsStay
    <2>3. CASE Expire BY <2>3, ExpireFacts DEF Inv, TypeInv, RowsStay, Live
    <2>4. ASSUME NEW p \in Proc, Probe(p) \/ Crash(p) PROVE FALSE BY <2>4 DEF Probe, Crash
    <2> QED BY <2>1, <2>2, <2>3, <2>4 DEF Next
  <1>2. (Spec => []Inv) BY OpeningInv
  <1> QED BY <1>1, <1>2, PTL DEF Spec, LiveRowsKept, RowsStay
----------------------------------------------------------------------------
(***************************************************************************)
(* Refusals.                                                               *)
(***************************************************************************)

(* What the record of a refusal must say.                                  *)
Cause(r) ==
  r.why # "none" =>
    /\ r.why = "incomplete" => r.empty
    /\ r.why \in {"markers", "exists"} => r.met
    /\ r.why = "integrity" => r.met \/ ~r.sound
    /\ r.why = "inconsistent" => ~r.sound
    /\ r.why = "changed" => r.grown >= Attempts
RefusalInv == refusal = [p \in Proc |-> refusal[p]] /\ \A p \in Proc : Cause(refusal[p])

LEMMA CauseKept ==
  ASSUME RefusalInv, NEW p \in Proc, NEW r, Cause(r), refusal' = [refusal EXCEPT ![p] = r]
  PROVE  RefusalInv'
  BY DEF RefusalInv

LEMMA RefuseCause ==
  ASSUME RefusalInv, NEW p \in Proc, NEW why, Refuse(p, why), why # "changed",
         why = "incomplete" => disk.size = 0,
         why \in {"markers", "exists"} => loc[p].met,
         why = "integrity" => loc[p].met \/ ~Sound,
         why = "inconsistent" => ~Sound
  PROVE  RefusalInv'
  <1> DEFINE r == [why |-> why, met |-> loc[p].met, empty |-> disk.size = 0, sound |-> Sound]
  <1>1. r.why = why /\ r.met = loc[p].met /\ r.empty = (disk.size = 0) /\ r.sound = Sound OBVIOUS
  <1>2. refusal' = [refusal EXCEPT ![p] = r] BY DEF Refuse
  <1> HIDE DEF r
  <1>3. Cause(r) BY <1>1 DEF Cause
  <1> QED BY <1>2, <1>3, CauseKept

(* Giving up: every attempt but the first followed an append, and so does  *)
(* this one.                                                               *)
LEMMA RetryCause ==
  ASSUME Inv, RefusalInv, NEW p \in Proc, loc[p].pc \in {"recheck", "backfill"}, Retry(p),
         disk.size # loc[p].leaves
  PROVE  RefusalInv'
  <1> DEFINE r == [why |-> "changed", grown |-> disk.size - loc[p].since]
  <1>1. CASE UNCHANGED refusal BY <1>1 DEF RefusalInv
  <1>2. CASE loc[p].try = Attempts /\ refusal' = [refusal EXCEPT ![p] = r]
    <2>1. Fine(loc[p], disk) /\ disk.size \in Nat BY InvFine DEF Fine, WellMade, File
    <2>2. Looking(loc[p], disk) BY <2>1, LookingFacts DEF Late
    <2>3. disk.size - loc[p].since >= Attempts
      BY <1>2, <2>1, <2>2, OpeningAssumption DEF Looking
    <2>4. r.why = "changed" /\ r.grown = disk.size - loc[p].since OBVIOUS
    <2> HIDE DEF r
    <2>5. Cause(r) BY <2>3, <2>4 DEF Cause
    <2> QED BY <1>2, <2>5, CauseKept
  <1> QED BY <1>1, <1>2 DEF Retry

LEMMA OpenCause ==
  ASSUME Inv, RefusalInv, NEW p \in Proc, Open(p)
  PROVE  RefusalInv'
  <1> DEFINE k == loc[p]
  <1>0. /\ Fine(k, disk) /\ WellMade(disk) /\ disk \in File /\ Ensured(k, disk)
        /\ Opens(k) /\ ~k.met => Undisturbed(k, disk)
    BY InvFine DEF Fine, WellMade
  <1>n. disk.size \in Nat /\ disk.imports \subseteq [at : Nat, known : BOOLEAN]
        /\ disk.rows \subseteq [at : Nat, live : BOOLEAN]
    BY <1>0 DEF File
  <1>u. CASE UNCHANGED refusal BY <1>u DEF RefusalInv
  <1>1. CASE RequireLegacy(p)
    <2>1. k.pc = "legacy" /\ Opens(k) BY <1>1 DEF RequireLegacy, Opens
    <2>2. CASE /\ ~({"log", "idempotency", "imported_records"} \subseteq disk.tables)
               /\ Refuse(p, "incomplete")
      <3>1. disk.size = 0 BY <1>0, <1>n, <2>2 DEF WellMade
      <3> QED BY <2>2, <3>1, RefuseCause
    <2>3. CASE disk.marker # 0 /\ Refuse(p, "markers")
      <3>1. k.met BY <1>0, <2>1, <2>3 DEF Undisturbed, WellMade
      <3> QED BY <2>3, <3>1, RefuseCause
    <2> QED BY <1>1, <1>u, <2>2, <2>3 DEF RequireLegacy
  <1>2. CASE AddSeqColumn(p)
    <2>1. k.pc = "alter" /\ Opens(k) BY <1>2 DEF AddSeqColumn, Opens
    <2>2. CASE disk.seqColumn /\ Refuse(p, "exists")
      <3>1. k.met BY <1>0, <2>1, <2>2 DEF Undisturbed
      <3> QED BY <2>2, <3>1, RefuseCause
    <2> QED BY <1>2, <1>u, <2>2 DEF AddSeqColumn
  <1>3. CASE ReadIdempotency(p)
    <2>1. CASE Refuse(p, "unscoped") BY <2>1, RefuseCause
    <2> QED BY <1>3, <1>u, <2>1 DEF ReadIdempotency
  <1>4. CASE CreateIdempotency(p)
    <2>1. k.pc = "createIdempotency" /\ Opens(k) BY <1>4 DEF CreateIdempotency, Opens
    <2>2. CASE "idempotency" \in disk.tables /\ Refuse(p, "exists")
      <3>1. k.met BY <1>0, <2>1, <2>2 DEF Undisturbed
      <3> QED BY <2>2, <3>1, RefuseCause
    <2> QED BY <1>4, <1>u, <2>2 DEF CreateIdempotency
  <1>5. CASE CreateIndex(p) \/ RebuildIdempotency(p)
    <2>1. k.pc \in {"createIndex", "rebuild"} /\ Opens(k)
      BY <1>5 DEF CreateIndex, RebuildIdempotency, Opens
    <2>2. CASE disk.index /\ Refuse(p, "exists")
      <3>1. k.met BY <1>0, <2>1, <2>2 DEF Undisturbed, WellMade
      <3> QED BY <2>2, <3>1, RefuseCause
    <2> QED BY <1>5, <1>u, <2>2 DEF CreateIndex, RebuildIdempotency
  <1>6. CASE MarkCurrent(p)
    <2>1. k.pc = "mark" /\ Opens(k) BY <1>6 DEF MarkCurrent, Opens
    <2>2. CASE ~LedgersOK /\ Refuse(p, "integrity")
      <3>1. k.met \/ ~Sound BY <1>0, <2>1, <2>2 DEF Undisturbed, Sound, LedgersOK
      <3> QED BY <2>2, <3>1, RefuseCause
    <2> QED BY <1>6, <1>u, <2>2 DEF MarkCurrent
  <1>7. ASSUME NEW v, NEW here, NEW next, Require(p, v, here, next),
               \/ v = 2 /\ here = "require2"
               \/ v = 3 /\ here = "require3"
               \/ v = 4 /\ here = "require4"
        PROVE  RefusalInv'
    <2>1. k.pc = here /\ Opens(k) BY <1>7 DEF Require, Opens
    <2>2. CASE ~SchemaOf(v) /\ Refuse(p, "markers")
      <3>1. ~k.met => disk.ver = v /\ v # 0 BY <1>0, <1>7, <2>1 DEF Undisturbed
      <3>2. k.met BY <1>0, <2>2, <3>1 DEF WellMade, SchemaOf
      <3> QED BY <2>2, <3>2, RefuseCause
    <2> QED BY <1>7, <1>u, <2>2 DEF Require
  <1>8. CASE Upgrade(p)
    <2>1. CASE Migrate(p, 3, "migrate2", "require3") \/ Migrate(p, 4, "migrate3", "require4")
      BY <1>u, <2>1 DEF Migrate
    <2>2. CASE Require(p, 2, "require2", "migrate2") BY <1>7, <2>2
    <2>3. CASE Require(p, 3, "require3", "migrate3") BY <1>7, <2>3
    <2>4. CASE Require(p, 4, "require4", "verify") BY <1>7, <2>4
    <2> QED BY <1>8, <2>1, <2>2, <2>3, <2>4 DEF Upgrade
  <1>9. CASE Verify(p)
    <2>1. k.pc = "verify" /\ Opens(k) BY <1>9 DEF Verify, Opens
    <2>2. CASE ~(disk.marker = 4 /\ LedgersOK) /\ Refuse(p, "integrity")
      <3>1. ~k.met => disk.marker = 4 /\ \A i \in disk.imports : i.known
        BY <1>0, <2>1 DEF Undisturbed, WellMade
      <3>2. k.met \/ ~Sound BY <2>2, <3>1 DEF Sound, LedgersOK
      <3> QED BY <2>2, <3>2, RefuseCause
    <2> QED BY <1>9, <1>u, <2>2 DEF Verify
  <1>10. CASE RecheckHead(p)
    <2>1. k.pc = "recheck" BY <1>10 DEF RecheckHead
    <2>2. CASE disk.size # k.leaves /\ Retry(p) BY <2>1, <2>2, RetryCause
    <2>3. CASE disk.size = k.leaves /\ Refuse(p, "inconsistent")
      <3>1. PICK n \in disk.cached : n > k.leaves BY <1>0, <2>1 DEF Ensured
      <3>2. k.leaves \in Nat /\ n \in Nat
        BY <1>0, <2>1, <3>1, LookingFacts DEF Looking, File
      <3>4. n \notin 1..disk.size BY <2>3, <3>1, <3>2
      <3>3. ~Sound BY <3>1, <3>4 DEF Sound
      <3> QED BY <2>3, <3>3, RefuseCause
    <2> QED BY <1>10, <2>2, <2>3 DEF RecheckHead
  <1>11. CASE Backfill(p)
    <2>1. k.pc = "backfill" BY <1>11 DEF Backfill
    <2>2. CASE disk.size # k.leaves /\ Retry(p) BY <2>1, <2>2, RetryCause
    <2> QED BY <1>11, <1>u, <2>2 DEF Backfill
  <1>12. CASE FirstVerdict(p)
    <2>1. Cause(Cleared) BY DEF Cause, Cleared
    <2> QED BY <1>12, <2>1, CauseKept DEF FirstVerdict
  <1>13. CASE \/ Wal(p) \/ ReadVersion(p) \/ ScriptTable(p) \/ ReadColumns(p) \/ ResolveImports(p)
              \/ ReadLeaves(p) \/ ReadStored(p) \/ ReadFrontier(p)
    BY <1>13, <1>u DEF Wal, ReadVersion, ScriptTable, ReadColumns, ResolveImports, ReadLeaves,
                       ReadStored, ReadFrontier
  <1> QED BY <1>1, <1>2, <1>3, <1>4, <1>5, <1>6, <1>8, <1>9, <1>10, <1>11, <1>12, <1>13 DEF Open

(***************************************************************************)
(* No opening is refused without its cause: never because a process died   *)
(* half way, never because of appends that go on meanwhile unless there    *)
(* were as many as attempts (Store.__init__, _ensure_boundaries).          *)
(***************************************************************************)
THEOREM RefusalsHaveCause == Spec => []RefusedForCause
  <1>1. Init => RefusalInv
    <2>1. Cause(Cleared) BY DEF Cause, Cleared
    <2> QED BY <2>1 DEF Init, RefusalInv
  <1>2. Inv /\ RefusalInv /\ [Next]_vars => RefusalInv'
    <2> SUFFICES ASSUME Inv, RefusalInv, [Next]_vars PROVE RefusalInv' OBVIOUS
    <2>1. ASSUME NEW p \in Proc, Open(p) PROVE RefusalInv' BY <2>1, OpenCause
    <2>2. CASE UNCHANGED refusal BY <2>2 DEF RefusalInv
    <2> QED BY <2>1, <2>2 DEF Next, vars, Probe, Submit, Crash, Expire
  <1>3. RefusalInv => RefusedForCause BY DEF RefusalInv, Cause, RefusedForCause
  <1> QED BY <1>1, <1>2, <1>3, OpeningInv, PTL DEF Spec
=============================================================================
