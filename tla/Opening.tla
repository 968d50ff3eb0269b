------------------------------ MODULE Opening ------------------------------
(***************************************************************************)
(* Store.__init__ statement by statement: creating the database, bringing  *)
(* one of an older release up to schema version 4, and checking the cached *)
(* boundaries, while the process may die after any statement and another   *)
(* process opens the same file or, already open, appends to it.            *)
(*                                                                         *)
(* Outside a transaction every statement commits by itself.  What the      *)
(* database holds is the size of the log, the entries the ledgers refer    *)
(* to, the sizes that have a boundary row and the length of the frontier:  *)
(* what the rows say is the business of Store.                             *)
(***************************************************************************)
EXTENDS Naturals, Sequences, FiniteSets

CONSTANTS Proc,        \* processes that open the database
          OldFiles,    \* databases of earlier releases, and the missing file
          Attempts,    \* attempts of _ensure_boundaries: 4
          MaxLog,      \* bound on the log
          MaxCrashes   \* bound on crashes

ASSUME OpeningAssumption ==
  Attempts \in Nat \ {0} /\ MaxLog \in Nat /\ MaxCrashes \in Nat

VARIABLES disk,      \* the file
          loc,       \* per process: where it is in __init__, and its locals
          refusal,   \* per process: why its last opening was refused
          crashes

vars == <<disk, loc, refusal, crashes>>

(* _SCHEMA's tables in the order of the script; idempotency comes later.   *)
Script == <<"log", "metadata", "imported_records", "boundaries",
            "merkle_frontier", "upstream_high_water">>
Tables == {Script[i] : i \in DOMAIN Script} \cup {"idempotency"}

(* Files: nothing; schema 0, with or without auditors in the idempotency   *)
(* table; schemas 2 to 4.  An import row carries the sequence number of    *)
(* the record with its fingerprint, and whether its seq column says so; an *)
(* idempotency row the entry it answers for and whether it has expired.    *)
NoFile == [bytes |-> FALSE, ver |-> 0, marker |-> 0, tables |-> {},
           columns |-> "current", index |-> FALSE, seqColumn |-> FALSE,
           size |-> 0, imports |-> {}, rows |-> {}, cached |-> {}, frontier |-> 0]
Legacy(columns, live) ==
  [NoFile EXCEPT !.bytes = TRUE, !.columns = columns, !.size = 2,
     !.tables = {"log", "imported_records", "idempotency"},
     !.imports = {[at |-> 1, known |-> FALSE]}, !.rows = {[at |-> 2, live |-> live]}]
Version(v) ==
  [NoFile EXCEPT !.bytes = TRUE, !.ver = v, !.marker = v, !.size = 2,
     !.tables = Tables \ ((IF v < 3 THEN {"boundaries", "merkle_frontier"} ELSE {})
                            \cup (IF v < 4 THEN {"upstream_high_water"} ELSE {})),
     !.index = TRUE, !.seqColumn = TRUE,
     !.imports = {[at |-> 1, known |-> TRUE]}, !.rows = {[at |-> 2, live |-> TRUE]},
     !.cached = IF v < 3 THEN {} ELSE {1, 2}, !.frontier = IF v < 3 THEN 0 ELSE 2]

(* The version 4 file spoilt: with a boundary beyond the log, or with      *)
(* ledger rows for an entry that is not there.                             *)
Spoilt == {[Version(4) EXCEPT !.cached = 1..3],
           [Version(4) EXCEPT !.rows = {[at |-> 3, live |-> TRUE]}],
           [Legacy("scoped", TRUE) EXCEPT !.imports = {[at |-> 3, known |-> FALSE]}]}

(* What all of them have in common: whoever wrote the version marker had   *)
(* brought the tables to that version before, and only a log that has its  *)
(* tables has entries.                                                     *)
File ==
  [bytes : BOOLEAN, ver : {0, 2, 3, 4}, marker : {0, 2, 3, 4}, tables : SUBSET Tables,
   columns : {"current", "scoped", "unscoped"}, index : BOOLEAN, seqColumn : BOOLEAN,
   size : Nat, imports : SUBSET [at : Nat, known : BOOLEAN],
   rows : SUBSET [at : Nat, live : BOOLEAN], cached : SUBSET (Nat \ {0}), frontier : Nat]

WellMade(f) ==
  /\ f \in File /\ f.marker = f.ver
  /\ f.ver # 0 => /\ Version(f.ver).tables \subseteq f.tables
                  /\ f.columns = "current" /\ f.seqColumn /\ f.index
                  /\ \A i \in f.imports : i.known
  /\ f.index => "idempotency" \in f.tables /\ f.columns = "current"
  /\ f.columns # "current" => "idempotency" \in f.tables
  /\ f.size > 0 => {"log", "idempotency", "imported_records"} \subseteq f.tables

ASSUME OldFilesAssumption == \A f \in OldFiles : WellMade(f)

Off == [pc |-> "off"]
Cleared == [why |-> "none"]
Init ==
  /\ disk \in OldFiles
  /\ loc = [p \in Proc |-> Off]
  /\ refusal = [p \in Proc |-> Cleared]
  /\ crashes = 0

(* Another process has been at work since this one began to open.          *)
Alone(p) == \A q \in Proc \ {p} : loc[q] = Off
Goto(p, l) == loc' = [loc EXCEPT ![p] = l]
Step(p, pc) == Goto(p, [loc[p] EXCEPT !.pc = pc])

(* What the rows refer to is in the log.                                   *)
Sound == /\ disk.cached \subseteq 1..disk.size
         /\ \A r \in disk.rows \cup disk.imports : r.at <= disk.size

(* StoreIntegrityError, after close(): recorded with what was then so.     *)
Refuse(p, why) ==
  /\ refusal' = [refusal EXCEPT ![p] =
       [why |-> why, met |-> loc[p].met, empty |-> disk.size = 0, sound |-> Sound]]
  /\ Goto(p, Off)
----------------------------------------------------------------------------
(***************************************************************************)
(* Creating and recognising.                                               *)
(***************************************************************************)

(* database_existed is decided by the size of the file ...                 *)
Probe(p) ==
  /\ loc[p] = Off
  /\ loc' = [q \in Proc |->
       IF q = p THEN [pc |-> IF disk.bytes THEN "version" ELSE "wal", met |-> ~Alone(p)]
       ELSE IF loc[q] # Off /\ loc[q].pc # "ready" THEN [loc[q] EXCEPT !.met = TRUE]
       ELSE loc[q]]
  /\ UNCHANGED <<disk, refusal, crashes>>

(* ... and journal_mode=WAL writes its first page.                         *)
Wal(p) ==
  /\ loc[p].pc = "wal"
  /\ disk' = [disk EXCEPT !.bytes = TRUE]
  /\ Step(p, "script")
  /\ UNCHANGED <<refusal, crashes>>

ReadVersion(p) ==
  /\ loc[p].pc = "version"
  /\ Step(p, CASE disk.ver = 0 -> "legacy" [] disk.ver = 2 -> "require2"
               [] disk.ver = 3 -> "require3" [] disk.ver = 4 -> "require4")
  /\ UNCHANGED <<disk, refusal, crashes>>

(* _require_legacy_schema: the three tables of old, and no version marker. *)
RequireLegacy(p) ==
  /\ loc[p].pc = "legacy"
  /\ \/ /\ ~({"log", "idempotency", "imported_records"} \subseteq disk.tables)
        /\ Refuse(p, "incomplete")
     \/ /\ {"log", "idempotency", "imported_records"} \subseteq disk.tables
        /\ disk.marker # 0
        /\ Refuse(p, "markers")
     \/ /\ {"log", "idempotency", "imported_records"} \subseteq disk.tables
        /\ disk.marker = 0
        /\ Step(p, "script") /\ UNCHANGED refusal
  /\ UNCHANGED <<disk, crashes>>

Lacking == {i \in DOMAIN Script : Script[i] \notin disk.tables}

(* executescript(_SCHEMA): one CREATE TABLE IF NOT EXISTS after another.   *)
ScriptTable(p) ==
  /\ loc[p].pc = "script"
  /\ \/ \E i \in Lacking :
          /\ \A j \in Lacking : i <= j
          /\ disk' = [disk EXCEPT !.tables = @ \cup {Script[i]},
                                  !.seqColumn = @ \/ Script[i] = "imported_records"]
          /\ UNCHANGED loc
     \/ Lacking = {} /\ Step(p, "imports") /\ UNCHANGED disk
  /\ UNCHANGED <<refusal, crashes>>
----------------------------------------------------------------------------
(***************************************************************************)
(* Migrating schema 0.                                                     *)
(***************************************************************************)

(* _migrate_imported_records: the column is looked for, then added ...     *)
ReadColumns(p) ==
  /\ loc[p].pc = "imports"
  /\ Step(p, IF disk.seqColumn THEN "resolve" ELSE "alter")
  /\ UNCHANGED <<disk, refusal, crashes>>

AddSeqColumn(p) ==
  /\ loc[p].pc = "alter"
  /\ \/ disk.seqColumn /\ Refuse(p, "exists") /\ UNCHANGED disk
     \/ /\ ~disk.seqColumn
        /\ disk' = [disk EXCEPT !.seqColumn = TRUE]
        /\ Step(p, "resolve") /\ UNCHANGED refusal
  /\ UNCHANGED crashes

(* ... and filled where a record of the log has the fingerprint, in one    *)
(* transaction.                                                            *)
ResolveImports(p) ==
  /\ loc[p].pc = "resolve"
  /\ disk' = [disk EXCEPT !.imports =
                {[i EXCEPT !.known = @ \/ i.at <= disk.size] : i \in @}]
  /\ Step(p, "idempotency")
  /\ UNCHANGED <<refusal, crashes>>

Live(rows) == {r \in rows : r.live}

(* _migrate_idempotency looks at the table and reads the rows to keep.     *)
ReadIdempotency(p) ==
  /\ loc[p].pc = "idempotency"
  /\ \/ /\ "idempotency" \notin disk.tables
        /\ Step(p, "createIdempotency")
        /\ UNCHANGED <<disk, refusal>>
     \/ /\ "idempotency" \in disk.tables /\ disk.columns = "current"
        /\ disk' = [disk EXCEPT !.index = TRUE]
        /\ Step(p, "mark") /\ UNCHANGED refusal
     \/ /\ "idempotency" \in disk.tables /\ disk.columns = "unscoped"
        /\ Live(disk.rows) # {}
        /\ Refuse(p, "unscoped") /\ UNCHANGED disk
     \/ /\ "idempotency" \in disk.tables /\ disk.columns # "current"
        /\ disk.columns = "unscoped" => Live(disk.rows) = {}
        /\ Goto(p, [pc |-> "rebuild", met |-> loc[p].met, keep |-> Live(disk.rows)])
        /\ UNCHANGED <<disk, refusal>>
  /\ UNCHANGED crashes

(* executescript(_IDEMPOTENCY_SCHEMA), two statements without IF NOT       *)
(* EXISTS: another process may have been faster.                           *)
CreateIdempotency(p) ==
  /\ loc[p].pc = "createIdempotency"
  /\ \/ "idempotency" \in disk.tables /\ Refuse(p, "exists") /\ UNCHANGED disk
     \/ /\ "idempotency" \notin disk.tables
        /\ disk' = [disk EXCEPT !.tables = @ \cup {"idempotency"}]
        /\ Step(p, "createIndex") /\ UNCHANGED refusal
  /\ UNCHANGED crashes

CreateIndex(p) ==
  /\ loc[p].pc = "createIndex"
  /\ \/ disk.index /\ Refuse(p, "exists") /\ UNCHANGED disk
     \/ /\ ~disk.index
        /\ disk' = [disk EXCEPT !.index = TRUE]
        /\ Step(p, "mark") /\ UNCHANGED refusal
  /\ UNCHANGED crashes

(* Slip: CREATE INDEX IF NOT EXISTS, so that a table another process       *)
(* rebuilt, and may have written to, is rebuilt from the rows read before. *)
RebuildAgain(p) ==
  /\ loc[p].pc = "rebuild"
  /\ disk' = [disk EXCEPT !.rows = loc[p].keep, !.columns = "current", !.index = TRUE]
  /\ Goto(p, [pc |-> "mark", met |-> loc[p].met])
  /\ UNCHANGED <<refusal, crashes>>

(* The table is renamed, created anew with its index, filled with the rows *)
(* read before, and the old one dropped, in one transaction.  The index    *)
(* still exists if another process has done it: CREATE INDEX fails.        *)
RebuildIdempotency(p) ==
  /\ loc[p].pc = "rebuild"
  /\ \/ disk.index /\ Refuse(p, "exists") /\ UNCHANGED disk
     \/ /\ ~disk.index
        /\ disk' = [disk EXCEPT !.rows = loc[p].keep, !.columns = "current",
                                !.index = TRUE]
        /\ Goto(p, [pc |-> "mark", met |-> loc[p].met]) /\ UNCHANGED refusal
  /\ UNCHANGED crashes
----------------------------------------------------------------------------
(***************************************************************************)
(* Version markers.                                                        *)
(***************************************************************************)

(* Slip: the marker row and user_version are not written together.         *)
MarkSplit(p) ==
  /\ loc[p].pc \in {"mark", "markVersion"}
  /\ IF loc[p].pc = "mark"
     THEN disk' = [disk EXCEPT !.marker = 4] /\ Step(p, "markVersion")
     ELSE disk' = [disk EXCEPT !.ver = 4] /\ Step(p, "verify")
  /\ UNCHANGED <<refusal, crashes>>

(* What integrity_errors says of the ledgers: rows for entries beyond the  *)
(* ones walked are looked up live.                                         *)
LedgersOK == /\ \A i \in disk.imports : i.known /\ i.at <= disk.size
             /\ \A r \in disk.rows : r.at <= disk.size

(* _mark_current_schema, one transaction that checks the ledgers too.      *)
MarkCurrent(p) ==
  /\ loc[p].pc = "mark"
  /\ \/ /\ LedgersOK
        /\ disk' = [disk EXCEPT !.marker = 4, !.ver = 4]
        /\ Step(p, "verify") /\ UNCHANGED refusal
     \/ ~LedgersOK /\ Refuse(p, "integrity") /\ UNCHANGED disk
  /\ UNCHANGED crashes

(* _require_v2_schema, _require_v3_schema, _require_current_schema.        *)
SchemaOf(v) == /\ Version(v).tables \subseteq disk.tables
               /\ disk.columns = "current" /\ disk.seqColumn
               /\ disk.marker = v
               /\ v = 4 => disk.index
Require(p, v, here, next) ==
  /\ loc[p].pc = here
  /\ \/ SchemaOf(v) /\ Step(p, next) /\ UNCHANGED refusal
     \/ ~SchemaOf(v) /\ Refuse(p, "markers")
  /\ UNCHANGED <<disk, crashes>>

(* _migrate_v2_to_v3 and _migrate_v3_to_v4, one transaction each: tables,  *)
(* marker row and user_version, whatever they were: of two processes at it *)
(* the slower turns the marker of a ready database back for a moment.      *)
Migrate(p, v, here, next) ==
  /\ loc[p].pc = here
  /\ disk' = [disk EXCEPT !.tables = @ \cup Version(v).tables, !.marker = v, !.ver = v]
  /\ Step(p, next)
  /\ UNCHANGED <<refusal, crashes>>

Upgrade(p) ==
  \/ Require(p, 2, "require2", "migrate2") \/ Migrate(p, 3, "migrate2", "require3")
  \/ Require(p, 3, "require3", "migrate3") \/ Migrate(p, 4, "migrate3", "require4")
  \/ Require(p, 4, "require4", "verify")
----------------------------------------------------------------------------
(***************************************************************************)
(* Startup verification.                                                   *)
(***************************************************************************)

(* integrity_errors: the marker row and the ledgers.                       *)
Verify(p) ==
  /\ loc[p].pc = "verify"
  /\ \/ /\ disk.marker = 4 /\ LedgersOK
        /\ Goto(p, [pc |-> "leaves", met |-> loc[p].met, try |-> 1, since |-> disk.size])
        /\ UNCHANGED refusal
     \/ ~(disk.marker = 4 /\ LedgersOK) /\ Refuse(p, "integrity")
  /\ UNCHANGED <<disk, crashes>>

(* _ensure_boundaries: the leaves ...                                      *)
ReadLeaves(p) ==
  /\ loc[p].pc = "leaves"
  /\ Goto(p, [pc |-> "stored", met |-> loc[p].met, try |-> loc[p].try,
              since |-> loc[p].since, leaves |-> disk.size])
  /\ UNCHANGED <<disk, refusal, crashes>>

Retry(p) ==
  \/ /\ loc[p].try < Attempts
     /\ Goto(p, [pc |-> "leaves", met |-> loc[p].met, try |-> loc[p].try + 1,
                 since |-> loc[p].since])
     /\ UNCHANGED refusal
  \/ /\ loc[p].try = Attempts
     /\ refusal' = [refusal EXCEPT ![p] =
          [why |-> "changed", grown |-> disk.size - loc[p].since]]
     /\ Goto(p, Off)

(* ... the boundary rows, among which there may be rows of later appends,  *)
(* so that the head is looked at once more ...                             *)
ReadStored(p) ==
  LET l == loc[p] IN
  /\ l.pc = "stored"
  /\ \/ /\ \E n \in disk.cached : n > l.leaves
        /\ Step(p, "recheck")
     \/ /\ \A n \in disk.cached : n <= l.leaves
        /\ Goto(p, [pc |-> "frontier", met |-> l.met, try |-> l.try,
                    since |-> l.since, leaves |-> l.leaves,
                    missing |-> (1..l.leaves) \ disk.cached])
  /\ UNCHANGED <<disk, refusal, crashes>>

(* Slip: rows beyond the leaves are an error whatever the head is now.     *)
RecheckHasty(p) ==
  /\ loc[p].pc = "recheck"
  /\ Refuse(p, "inconsistent")
  /\ UNCHANGED <<disk, crashes>>

RecheckHead(p) ==
  /\ loc[p].pc = "recheck"
  /\ \/ disk.size # loc[p].leaves /\ Retry(p)
     \/ disk.size = loc[p].leaves /\ Refuse(p, "inconsistent")
  /\ UNCHANGED <<disk, crashes>>

(* ... the frontier ...                                                    *)
ReadFrontier(p) ==
  LET l == loc[p] IN
  /\ l.pc = "frontier"
  /\ Step(p, IF l.missing = {} /\ disk.frontier = l.leaves THEN "head" ELSE "backfill")
  /\ UNCHANGED <<disk, refusal, crashes>>

(* Slip: the log is not looked at again under the write lock.              *)
BackfillBlind(p) ==
  LET l == loc[p] IN
  /\ l.pc = "backfill"
  /\ disk' = [disk EXCEPT !.cached = @ \cup l.missing, !.frontier = l.leaves]
  /\ Step(p, "head")
  /\ UNCHANGED <<refusal, crashes>>

(* ... and, if anything is missing and no entry was appended meanwhile, a  *)
(* transaction that adds the missing rows and saves the frontier.          *)
Backfill(p) ==
  LET l == loc[p] IN
  /\ l.pc = "backfill"
  /\ \/ disk.size # l.leaves /\ Retry(p) /\ UNCHANGED disk
     \/ /\ disk.size = l.leaves
        /\ disk' = [disk EXCEPT !.cached = @ \cup l.missing, !.frontier = l.leaves]
        /\ Step(p, "head") /\ UNCHANGED refusal
  /\ UNCHANGED crashes

(* The first verdict, from the boundary row of the head.                   *)
FirstVerdict(p) ==
  /\ loc[p].pc = "head"
  /\ disk.size > 0 => disk.size \in disk.cached
  /\ Goto(p, [pc |-> "ready"])
  /\ refusal' = [refusal EXCEPT ![p] = Cleared]
  /\ UNCHANGED <<disk, crashes>>
----------------------------------------------------------------------------
(* A submission to a process that is ready: entry, boundary, frontier and  *)
(* idempotency row in one transaction, if the frontier is that of the log. *)
Submit(p) ==
  /\ loc[p].pc = "ready" /\ disk.size < MaxLog
  /\ disk.frontier = disk.size
  /\ disk' = [disk EXCEPT !.size = @ + 1, !.cached = @ \cup {disk.size + 1},
                          !.frontier = @ + 1,
                          !.rows = @ \cup {[at |-> disk.size + 1, live |-> TRUE]}]
  /\ UNCHANGED <<loc, refusal, crashes>>

(* Time passes: the rows an earlier release left expire.                   *)
Expire ==
  /\ \E r \in disk.rows : r.live /\ r.at <= 2
  /\ disk' = [disk EXCEPT !.rows = {[r EXCEPT !.live = @ /\ r.at > 2] : r \in disk.rows}]
  /\ UNCHANGED <<loc, refusal, crashes>>

Crash(p) ==
  /\ loc[p] # Off /\ crashes < MaxCrashes
  /\ crashes' = crashes + 1
  /\ Goto(p, Off)
  /\ UNCHANGED <<disk, refusal>>

Open(p) ==
  \/ Wal(p) \/ ReadVersion(p) \/ RequireLegacy(p) \/ ScriptTable(p)
  \/ ReadColumns(p) \/ AddSeqColumn(p) \/ ResolveImports(p)
  \/ ReadIdempotency(p) \/ CreateIdempotency(p) \/ CreateIndex(p)
  \/ RebuildIdempotency(p) \/ MarkCurrent(p) \/ Upgrade(p)
  \/ Verify(p) \/ ReadLeaves(p) \/ ReadStored(p) \/ RecheckHead(p)
  \/ ReadFrontier(p) \/ Backfill(p) \/ FirstVerdict(p)

Next ==
  \/ \E p \in Proc : Probe(p) \/ Open(p) \/ Submit(p) \/ Crash(p)
  \/ Expire

(* A process that began to open goes on, one that ended is started again,  *)
(* and time passes.                                                        *)
Spec == /\ Init /\ [][Next]_vars
        /\ \A p \in Proc : WF_vars(Probe(p)) /\ WF_vars(Open(p))
        /\ WF_vars(Expire)
----------------------------------------------------------------------------
(***************************************************************************)
(* Properties.                                                             *)
(***************************************************************************)

(* The file has its shape.                                                 *)
TypeOK ==
  /\ disk.ver \in {0, 2, 3, 4} /\ disk.marker \in {0, 2, 3, 4}
  /\ disk.tables \subseteq Tables
  /\ disk.size \in 0..MaxLog
  /\ disk.cached \subseteq 1..MaxLog /\ disk.frontier \in 0..disk.size

(* Why an opening is refused (Store.__init__).  A file said to be half     *)
(* made holds no entry.  Markers that disagree or a table that is already  *)
(* there mean that another process was opening the file at the same time,  *)
(* never that one died.  A failed integrity check means that, or rows that *)
(* refer to nothing; a boundary cache called inconsistent is so, and never *)
(* because of appends that went on meanwhile.  Giving up took as many of   *)
(* them as there are attempts.                                             *)
RefusedForCause ==
  \A p \in Proc : refusal[p].why # "none" =>
    LET r == refusal[p] IN
    /\ r.why = "incomplete" => r.empty
    /\ r.why \in {"markers", "exists"} => r.met
    /\ r.why = "integrity" => r.met \/ ~r.sound
    /\ r.why = "inconsistent" => ~r.sound
    /\ r.why = "changed" => r.grown >= Attempts

(* What a ready process relies on is there: all tables in their current    *)
(* form and, for every entry, its boundary, whatever release made the file *)
(* and whatever other processes are doing to it.                           *)
ReadyIsComplete ==
  (\E p \in Proc : loc[p].pc = "ready") =>
    /\ disk.tables = Tables /\ disk.columns = "current"
    /\ disk.seqColumn /\ disk.index
    /\ disk.cached = 1..disk.size
    /\ disk.frontier = disk.size

(* The rows of the idempotency table that are still live are in it after   *)
(* every migration: no step but time removes one (_migrate_idempotency).   *)
LiveRowsKept ==
  [][ \A r \in Live(disk.rows) : \E s \in disk'.rows : s.at = r.at ]_disk

(* An undamaged database of an earlier release is ready in the end,        *)
(* however often its opening was cut short; so is a new one, unless its    *)
(* creation died before the idempotency table: every later start takes     *)
(* such a file for an old release's and refuses it.                        *)
HalfMade == disk.bytes /\ disk.ver = 0 /\ "idempotency" \notin disk.tables
EventuallyReady ==
  <>[](\/ \A p \in Proc : loc[p].pc = "ready"
       \/ disk.size = 0 /\ HalfMade
       \/ ~Sound)
=============================================================================
