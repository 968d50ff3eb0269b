----------------------------- MODULE Federation -----------------------------
(***************************************************************************)
(* Registries that feed each other, and their way back from a backup.  A   *)
(* registry's log travels as a bundle, a file that export-bundle writes    *)
(* and import-bundle reads, any number of times, in any order and long     *)
(* after.  Each registry also has a backup, and a checkpoint its operator  *)
(* keeps outside, which the service compares with the log when it starts.  *)
(*                                                                         *)
(* A record is its content and the signers of its "upstream-import"        *)
(* endorsements, the last of them the registry whose log it is in: each    *)
(* importer adds the signature it found as such an endorsement and signs   *)
(* the result, so a signature is the record's content with the signers up  *)
(* to it.  A submission may bring one along, or get one by an auditor's    *)
(* name; its signer is taken to be none of the registries, as only its     *)
(* being there matters.  (Endorsements under other names, which nothing    *)
(* looks at, are part of the content.)  A hash commits to what it hashes:  *)
(* the head at a size is the sequence of records up to it.  created_at is  *)
(* part of a boundary and of no hash; an entry carries the number of       *)
(* restores before it, which is all that tells two appends of one record   *)
(* at one place apart.                                                     *)
(***************************************************************************)
EXTENDS Naturals, Sequences, FiniteSets, SequencesExt, Functions

CONSTANTS Registry,
          Feeds,        \* pairs <<u, d>>: d imports the bundles of u
          Guarded,      \* registries that take backups and may be restored
          Item,         \* contents that are submitted, per registry
          Endorser,     \* signers of "upstream-import" endorsements that
                        \* submissions bring along, per content
          NoLog,        \* no export, no backup, no checkpoint
          EndorsedUntil, \* bound: after more restores no submission does
          MaxTorn,      \* bound: torn bundles of a registry that are kept
          MaxRestores   \* bound on restores

ASSUME FeedsAssumption ==
  /\ Feeds \subseteq Registry \X Registry
  /\ Guarded \subseteq Registry /\ DOMAIN Item = Registry
  /\ DOMAIN Endorser = UNION Range(Item)
  /\ \A x \in DOMAIN Endorser : Endorser[x] \cap Registry = {}
  /\ EndorsedUntil \in Nat /\ MaxTorn \in Nat /\ MaxRestores \in Nat

VARIABLES db,          \* per registry: log, import ledger, high-waters
          exporting,   \* per registry: the entries an export has read
          bundles,     \* every bundle ever written
          status,      \* per registry: the service is down, ready or refused
          backup,      \* per registry: the backup and its own checkpoint
          checkpoint,  \* per registry: the checkpoint the operator keeps
          restores     \* restores so far

vars == <<db, exporting, bundles, status, backup, checkpoint, restores>>

Signer == Registry \cup UNION Range(Endorser)
Record == [item : UNION Range(Item), signers : Seq(Signer)]
Entry == [rec : Record, at : 0..MaxRestores]

(* A boundary: version and log_size are the length, head and Merkle root   *)
(* the records, created_at the stamp of the last entry.                    *)
Boundary == [head : Seq(Record), at : 0..MaxRestores]
BoundaryOf(log) == [head |-> [i \in DOMAIN log |-> log[i].rec],
                    at |-> IF log = <<>> THEN 0 ELSE Last(log).at]
Prefix(log, n) == SubSeq(log, 1, n)

EmptyDb == [log |-> <<>>, imported |-> {}, hw |-> [u \in Registry |-> NoLog]]
NoBackup == [db |-> NoLog, cp |-> NoLog]

Init ==
  /\ db = [r \in Registry |-> EmptyDb]
  /\ exporting = [r \in Registry |-> NoLog]
  /\ bundles = {}
  /\ status = [r \in Registry |-> "ready"]
  /\ backup = [r \in Registry |-> NoBackup]
  /\ checkpoint = [r \in Registry |-> NoLog]
  /\ restores = 0
----------------------------------------------------------------------------
(***************************************************************************)
(* The import ledger.                                                      *)
(***************************************************************************)

(* The fingerprint under which an import enters a record: its content and  *)
(* the signature it came with.                                             *)
Fingerprint(rec) == [item |-> rec.item, sig |-> rec.signers]

(* Slip: the signature found is replaced.                                  *)
CountersignOver(rec, r) == [rec EXCEPT !.signers = <<r>>]

(* _countersign_imports: the signature found becomes one more endorsement. *)
Countersign(rec, r) == [rec EXCEPT !.signers = Append(@, r)]

(* _import_fingerprint: the first "upstream-import" endorsement of a       *)
(* stored record is taken for the signature it was imported with: an       *)
(* earlier importer's, or what a submission brought, if the record bears   *)
(* more than one, and none if it was submitted here without any.           *)
ImportFingerprint(rec) ==
  [item |-> rec.item, sig |-> IF Len(rec.signers) < 2 THEN <<>>
                              ELSE <<Head(rec.signers)>>]

(* integrity_errors, as far as the imports go: every ledger row names an   *)
(* entry of the log that bears its fingerprint.                            *)
RowOK(d, row) ==
  /\ row.seq \in DOMAIN d.log
  /\ ImportFingerprint(d.log[row.seq].rec) = row.fp
IntegrityOK(d) == \A row \in d.imported : RowOK(d, row)
----------------------------------------------------------------------------
(***************************************************************************)
(* Export and import.  Every command opens the store, which verifies it.   *)
(***************************************************************************)

(* export_bundle reads the entries under the store's lock ...              *)
ExportRead(r) ==
  /\ exporting[r] = NoLog
  /\ \E f \in Feeds : f[1] = r
  /\ IntegrityOK(db[r])
  /\ exporting' = [exporting EXCEPT ![r] = BoundaryOf(db[r].log).head]
  /\ UNCHANGED <<db, bundles, status, backup, checkpoint, restores>>

Torn(r) == {b \in bundles : b.from = r /\ b.records # b.snapshot}

(* Slip: the entries read are kept for the next export.                    *)
ExportSignCached(r) ==
  /\ exporting[r] # NoLog
  /\ LET b == [from |-> r, records |-> exporting[r],
               snapshot |-> BoundaryOf(db[r].log).head]
     IN bundles' = IF b.records # b.snapshot /\ Cardinality(Torn(r)) >= MaxTorn
                   THEN bundles ELSE bundles \cup {b}
  /\ UNCHANGED <<db, exporting, status, backup, checkpoint, restores>>

(* ... and builds the signed snapshot under it a second time.              *)
ExportSign(r) ==
  /\ exporting[r] # NoLog
  /\ LET b == [from |-> r, records |-> exporting[r],
               snapshot |-> BoundaryOf(db[r].log).head]
     IN bundles' = IF b.records # b.snapshot /\ Cardinality(Torn(r)) >= MaxTorn
                   THEN bundles ELSE bundles \cup {b}
  /\ exporting' = [exporting EXCEPT ![r] = NoLog]
  /\ UNCHANGED <<db, status, backup, checkpoint, restores>>

(* Slip: only the signatures are checked.                                  *)
VerifiedBySignature(b) == \A i \in DOMAIN b.records : Last(b.records[i].signers) = b.from

(* import_bundle: every record signed by the pinned key, and the records'  *)
(* size, chain and Merkle root those of the snapshot.                      *)
Verified(b) ==
  /\ \A i \in DOMAIN b.records : Last(b.records[i].signers) = b.from
  /\ Len(b.records) = Len(b.snapshot)
  /\ b.records = b.snapshot

(* _upstream_offer_diagnostic and what append_upstream_import makes of it: *)
(* a newer or the same boundary is let in, an older one if the operator    *)
(* says --accept-older-upstream, another one of the same version never.    *)
Advances(hw, b) == hw # NoLog => Len(b.snapshot) > Len(hw)
Acceptable(hw, b) == hw # NoLog => (Len(b.snapshot) = Len(hw) => b.snapshot = hw)

(* The places of the records whose fingerprint is new, each record once.   *)
Fresh(d, b) ==
  {i \in DOMAIN b.records :
     /\ Fingerprint(b.records[i]) \notin {row.fp : row \in d.imported}
     /\ b.records[i] \notin Range(SubSeq(b.records, 1, i - 1))}

(* The order of the loop over them.                                        *)
InOrder(S) ==
  CHOOSE s \in [1..Cardinality(S) -> S] : \A i, j \in DOMAIN s : i < j => s[i] < s[j]

(* The loop over the bundle's records: entry and ledger row of each.       *)
AppendImports(d, b, r) ==
  LET new == InOrder(Fresh(d, b))
  IN [d EXCEPT
        !.log = @ \o [n \in DOMAIN new |->
          [rec |-> Countersign(b.records[new[n]], r), at |-> restores]],
        !.imported = @ \cup {[fp |-> Fingerprint(b.records[new[n]]),
                             seq |-> Len(d.log) + n] : n \in DOMAIN new}]

(* The high-water row, written with the records.                           *)
MarkHighWater(d, b) ==
  IF Advances(d.hw[b.from], b) THEN [d EXCEPT !.hw[b.from] = b.snapshot] ELSE d

Import(r, b) ==
  /\ <<b.from, r>> \in Feeds
  /\ IntegrityOK(db[r])
  /\ Verified(b)
  /\ Acceptable(db[r].hw[b.from], b)
  /\ db' = [db EXCEPT ![r] = MarkHighWater(AppendImports(@, b, r), b)]
  /\ UNCHANGED <<exporting, bundles, status, backup, checkpoint, restores>>
----------------------------------------------------------------------------
(***************************************************************************)
(* The service, its backup and its checkpoint.                             *)
(***************************************************************************)

(* Store.checkpoint_matches, the heart of verify-backup: the boundary at   *)
(* the checkpoint's size is the checkpoint, created_at included.           *)
CheckpointMatches(d, cp) ==
  /\ Len(cp.head) <= Len(d.log)
  /\ BoundaryOf(Prefix(d.log, Len(cp.head))) = cp

(* Slip: a log above the checkpoint is taken for an extension of it.       *)
CompareCheckpointByVersion(d, cp) ==
  LET live == BoundaryOf(d.log) IN
  /\ Len(live.head) >= Len(cp.head)
  /\ Len(live.head) = Len(cp.head) => live.head = cp.head

(* compare_checkpoint: below is refused; at the same version the head must *)
(* be the same; above, the head at the checkpoint's size must be.          *)
CompareCheckpoint(d, cp) ==
  LET live == BoundaryOf(d.log) IN
  /\ Len(live.head) >= Len(cp.head)
  /\ Len(live.head) = Len(cp.head) => live.head = cp.head
  /\ Len(live.head) > Len(cp.head) =>
       BoundaryOf(Prefix(d.log, Len(cp.head))).head = cp.head

(* app_from_env: the store verifies or the process does not come up; a     *)
(* configured checkpoint decides whether it is ready or stays refused.     *)
Start(r) ==
  /\ status[r] = "down"
  /\ IntegrityOK(db[r])
  /\ status' = [status EXCEPT ![r] =
       IF checkpoint[r] = NoLog \/ CompareCheckpoint(db[r], checkpoint[r])
       THEN "ready" ELSE "refused"]
  /\ UNCHANGED <<db, exporting, bundles, backup, checkpoint, restores>>

(* A service that has no backup to come back from is not stopped: nothing  *)
(* would follow.                                                           *)
Stop(r) ==
  /\ backup[r].cp # NoLog /\ status[r] # "down"
  /\ status' = [status EXCEPT ![r] = "down"]
  /\ UNCHANGED <<db, exporting, bundles, backup, checkpoint, restores>>

(* POST /v1/records: validate_audit_record lets an endorsement have any    *)
(* name, _countersign keeps those it finds and adds one in the auditor's   *)
(* name, which may be "upstream-import" as well (auth.py reserves none).   *)
(* So there is no such endorsement or some, of which the first is all that *)
(* matters later.  (Bound: a content is submitted once to a log.)          *)
Submitted(rec) == Len(rec.signers) = 1 \/ Head(rec.signers) \in Endorser[rec.item]

Submit(r, x) ==
  /\ status[r] = "ready"
  /\ \A i \in DOMAIN db[r].log :
       ~(db[r].log[i].rec.item = x /\ Submitted(db[r].log[i].rec))
  /\ \E brought \in {<<>>} \cup {<<e>> : e \in Endorser[x]} :
       /\ brought # <<>> => restores <= EndorsedUntil
       /\ LET rec == [item |-> x, signers |-> Append(brought, r)]
          IN db' = [db EXCEPT ![r].log = Append(@, [rec |-> rec, at |-> restores])]
  /\ UNCHANGED <<exporting, bundles, status, backup, checkpoint, restores>>

(* Of two checkpoints the operator keeps the later one.                    *)
Keep(r, cp) ==
  checkpoint' = [checkpoint EXCEPT ![r] =
    IF @ # NoLog /\ Len(@.head) > Len(cp.head) THEN @ ELSE cp]

(* _cmd_backup: the copy, whose boundary backup_to returns ...  (Bound:    *)
(* one backup is taken in a behaviour.)                                    *)
BackupCopy(r) ==
  /\ r \in Guarded /\ status[r] = "ready"
  /\ \A q \in Registry : backup[q] = NoBackup
  /\ IntegrityOK(db[r])
  /\ backup' = [backup EXCEPT ![r] = [db |-> db[r], cp |-> NoLog]]
  /\ UNCHANGED <<db, exporting, bundles, status, checkpoint, restores>>

(* Slip: the checkpoint is signed for the live log.                        *)
BackupSignLive(r) ==
  /\ backup[r].db # NoLog /\ backup[r].cp = NoLog
  /\ LET cp == BoundaryOf(db[r].log)
     IN backup' = [backup EXCEPT ![r].cp = cp] /\ Keep(r, cp)
  /\ UNCHANGED <<db, exporting, bundles, status, restores>>

(* ... and the checkpoint signed for that boundary.                        *)
BackupSign(r) ==
  /\ backup[r].db # NoLog /\ backup[r].cp = NoLog
  /\ LET cp == BoundaryOf(backup[r].db.log)
     IN backup' = [backup EXCEPT ![r].cp = cp] /\ Keep(r, cp)
  /\ UNCHANGED <<db, exporting, bundles, status, restores>>

(* export-snapshot, kept as the newer checkpoint of a ready service.       *)
ExportCheckpoint(r) ==
  /\ status[r] = "ready" /\ checkpoint[r] # NoLog
  /\ IntegrityOK(db[r])
  /\ Keep(r, BoundaryOf(db[r].log))
  /\ UNCHANGED <<db, exporting, bundles, status, backup, restores>>

(* The operator stops the service, lets no command run and puts the backup *)
(* in place of the database.                                               *)
Restore(r) ==
  /\ restores < MaxRestores
  /\ status[r] = "down" /\ exporting[r] = NoLog
  /\ backup[r].cp # NoLog
  /\ db' = [db EXCEPT ![r] = backup[r].db]
  /\ restores' = restores + 1
  /\ UNCHANGED <<exporting, bundles, status, backup, checkpoint>>
----------------------------------------------------------------------------
Next ==
  \E r \in Registry :
    \/ ExportRead(r) \/ ExportSign(r)
    \/ \E b \in bundles : Import(r, b)
    \/ Start(r) \/ Stop(r)
    \/ \E x \in Item[r] : Submit(r, x)
    \/ BackupCopy(r) \/ BackupSign(r) \/ ExportCheckpoint(r)
    \/ Restore(r)

Spec == Init /\ [][Next]_vars

(* The operators go on exporting, and importing bundles that are ahead.    *)
ImportNewer(r) ==
  \E b \in bundles : Advances(db[r].hw[b.from], b) /\ Import(r, b)

FairSpec ==
  /\ Spec
  /\ \A f \in Feeds : /\ WF_vars(ExportRead(f[1]) \/ ExportSign(f[1]))
                      /\ WF_vars(ImportNewer(f[2]))
----------------------------------------------------------------------------
(***************************************************************************)
(* Properties.                                                             *)
(***************************************************************************)

(* The state has its shape; every entry ends with its registry's own       *)
(* signature, which is what a pinned key is checked against.               *)
TypeOK ==
  /\ \A r \in Registry :
       /\ \A i \in DOMAIN db[r].log : Last(db[r].log[i].rec.signers) = r
       /\ \A row \in db[r].imported : row.seq \in Nat
       /\ status[r] \in {"down", "ready", "refused"}
  /\ restores \in 0..MaxRestores

(* A high-water is a promise: everything its upstream had logged up to it  *)
(* is here, countersigned, whatever torn, replayed, older or reordered     *)
(* bundles were offered and whatever backup this registry came back from   *)
(* (import_bundle, append_upstream_import).                                *)
HighWaterCovered ==
  \A r, u \in Registry : db[r].hw[u] # NoLog =>
    \A i \in DOMAIN db[r].hw[u] :
      \E n \in DOMAIN db[r].log :
        db[r].log[n].rec = Countersign(db[r].hw[u][i], r)

(* What came without an "upstream-import" endorsement of its own, an       *)
(* upstream's plain submissions, passes the integrity check for ever,      *)
(* whatever else was imported before, with it or since, from torn,         *)
(* replayed or reordered bundles, and whatever backup is put in place      *)
(* (_countersign_imports and append_upstream_import against                *)
(* integrity_errors).                                                      *)
Plain(row) == Len(row.fp.sig) = 1
PlainImportsVerify ==
  \A r \in Registry : \A row \in db[r].imported : Plain(row) => RowOK(db[r], row)

(* README and import_bundle: a registry whose storage nobody damaged       *)
(* passes its own verification, whatever it imported.                      *)
ImportsVerify == \A r \in Registry : IntegrityOK(db[r])

(* A ready service holds everything the checkpoint its operator kept       *)
(* commits to, even if the database was replaced by an older backup and    *)
(* commands, which no checkpoint stops, then made it grow past the         *)
(* checkpoint (apply_startup_checkpoint).                                  *)
ReadyCoversCheckpoint ==
  \A r \in Registry : status[r] = "ready" /\ checkpoint[r] # NoLog =>
    IsPrefix(checkpoint[r].head, BoundaryOf(db[r].log).head)

(* Only a loss is refused.  A service stays refused only if it was put     *)
(* back to a backup older than the checkpoint its operator keeps, one that *)
(* verify-backup refuses too: what verify-backup accepts, starts, and so   *)
(* does a backup with the checkpoint written with it, though records were  *)
(* appended while it was taken and commands made the log grow again after  *)
(* it was put back (_cmd_backup, checkpoint_matches, compare_checkpoint).  *)
OnlyLossIsRefused ==
  \A r \in Registry : status[r] = "refused" =>
    /\ restores > 0
    /\ Len(checkpoint[r].head) > Len(backup[r].cp.head)
    /\ ~CheckpointMatches(backup[r].db, checkpoint[r])

(* If submissions stop and the operators go on exporting and importing,    *)
(* torn bundles only delay: a downstream ends up with its upstream's whole *)
(* log, unless the upstream lost or rewrote what was imported before, or   *)
(* one of the two no longer passes its own verification (see               *)
(* PlainImportsVerify): no command opens it then.                          *)
CaughtUp(u, r) == db[r].hw[u] = BoundaryOf(db[u].log).head
Diverged(u, r) ==
  db[r].hw[u] # NoLog /\ ~IsPrefix(db[r].hw[u], BoundaryOf(db[u].log).head)

CatchUp ==
  \A f \in Feeds :
    <>[](\/ CaughtUp(f[1], f[2]) \/ Diverged(f[1], f[2])
         \/ ~IntegrityOK(db[f[1]]) \/ ~IntegrityOK(db[f[2]]))
=============================================================================
