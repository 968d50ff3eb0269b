# curator-skill-registry: a TLA+ verification project

The registry is a signed, append-only transparency log of skill audit records,
kept in one SQLite database (`registry.db`) and served over HTTP by one
process; CLI commands open the same database, and registries federate by
signed bundles. This directory models the parts of it where order, failure and
time matter, checks them with TLC on small instances and proves their
safety properties with TLAPS for every value of the constants.

Source paths are relative to `src/src/csk_registry/`.

## 1. Inventory

| Component | State | Operations | Module |
|---|---|---|---|
| log store (`store.py`) | tables `log`, `boundaries`, `merkle_frontier`, `idempotency`, `imported_records`, `upstream_high_water`; per instance a lock | `append`, `append_idempotent`, `append_upstream_import`, `__init__`, `close` | `StoreDb`, `Store` |
| Merkle tree and frontier (`store.py`) | frontier levels: length and last one or two nodes | `_frontier_append`, `_merkle_root`, `_validate_append_anchors_locked` | `Merkle`, `Frontier` |
| health verdict and verifier thread (`store.py`) | status, verified size and head, time of last refresh, latch | `health_verdict`, `refresh_health_verdict`, `_health_verifier_loop`, `start/stop_health_verifier` | `Store`, `Service` |
| signed snapshots (`snapshot.py`) | none | `build_snapshot` | `Store`, `TransparencyLog` |
| submission endpoint (`app.py`) | none of its own | `submit`, `_read_request_body` | `Store`, `Service` |
| paged reads and cursors (`app.py`, `store.py`) | none in the service; the client holds a cursor | `records`, `log`, `_encode_cursor`, `_cursor_state`, `records_page`, `log_page` | `Pages` |
| signing keys and rotation (`keys.py`, `cli.py`, `app.py`) | `signing-key.pem`, `next-signing-key.pem`, `signing-keyring.json`; the copy a process loaded | `genkey`, `prepare/activate/cancel-key-rotation`, `retire-key`, `app_from_env` | `Keys` |
| federation (`bundle.py`) | high-water per upstream, import fingerprints; bundle files | `export_bundle`, `import_bundle` | `Federation`, the transaction in `Store` |
| checkpoints, backup, restore (`checkpoint.py`, `store.py`, `cli.py`, `app.py`) | checkpoint file, copy of the database | `backup`, `export-snapshot`, `verify-backup`, startup comparison | `Federation` |
| opening, creation and migration (`store.py`) | the file, its tables, the two version markers | `__init__`, migrations, `_ensure_boundaries` | `Opening` |
| rate limits and admission (`limits.py`, `app.py`) | windows per key, semaphore | `allow`, `resource_controls` | `Limiter`, `Service` |
| authentication, protocol parsing, canonical JSON, signatures, permissions | none | pure functions, OS calls | not modelled |

**How they interact.** The service and every CLI command hold a `Store`
instance each. Instances share only the database: SQLite's write lock
serialises their transactions, WAL gives their readers a committed view. Inside
an instance a lock serialises calls with each other and with the publication
of the verifier thread's verdict. `submit` is an `async` handler that calls the
store without awaiting, so one process handles one submission at a time. Read
handlers run on threads and take the instance's lock once or twice per request.
Key commands reach a running service only through files that it reads at start.
Registries meet only through bundle files that operators carry, a registry and
its past only through a backup and a checkpoint kept outside. All requests pass
one middleware on one event loop; the verifier is the only other thread.

**What is hard.** Two processes write one log. A verification pass walks
the log while it grows, on a second connection, and publishes afterwards. A process may die
between any two statements and a command between any two file operations.
Storage may be damaged under a running service. The time that expires an
idempotency row is read before the lock is waited for. Clients keep cursors
across appends, restarts, restores and key rotations. Bundles are read in two
steps, and imported late, twice and out of order. Two processes may open, create
or migrate one file at once. `PROJECT.json` lists the
hazards at their lines, with the properties that would show them going wrong.

**What makes each part correct.**
- Log store: committed entries never change; every transaction is all or
  nothing; what is committed always passes the startup verification; one
  commit per idempotency key and retention period; answers stay true; an
  upstream's high-water never goes back and stands for a complete import.
- Frontier: its O(log n) update yields the tree of a full recomputation, and
  damage is refused rather than extended.
- Verdict: no false alarm, no lost alarm, a latch only a restart clears, no
  endless staleness.
- Snapshots: no two ever contradict each other.
- Pages: a walk is exactly the answer at one boundary, or it is refused for a
  reason.
- Federation: a high-water stands for everything the upstream had; importing an
  upstream's own records never makes a registry unverifiable; operators who go
  on end up caught up.
- Checkpoints: a ready service holds everything its checkpoint commits to; one
  that stays refused was put back to a backup that ends before the checkpoint
  and that `verify-backup` refuses too.
- Opening: a refusal means what it says, a ready process finds everything in
  place, an interrupted migration is finished by a later start.
- Admission: the rate is bounded wherever windows begin, Retry-After is honest,
  no slot is lost, every request ends, one verifier per service.
- Keys: every signer stays verifiable until retired (or replaced by force), no
  unannounced signer, no stuck rotation.

## 2. Modules

- `StoreDb` has the durable state as a record and, as operators, what `store.py`
  computes from it: `AppendRow` (`_append_locked`), `AnchorsHold`
  (`_validate_append_anchors_locked`), `IntegrityOK` (`_integrity_errors_on`),
  `CacheOK`, `CacheAgrees`, `EnsureBoundaries` (`_boundary_cache_errors`,
  `_ensure_boundaries`), `SnapshotBoundary`. A hash is the sequence of records
  it commits to: SHA-256 is taken to be collision free. The Merkle root is a
  parameter `Root`.
- `Store` puts instances over that database. `writer` holds the write lock and
  `work` is its uncommitted view, `db` what readers see. A write is a Begin
  action (the checks and, for single-record writes, the body), for imports one
  `ImportRow` per record and `ImportMark`, then `Commit`, `Rollback` or `Crash`.
  `Submit` reads the clock, `SubmitBegin` gets the lock later. `PassBegin` takes
  the snapshot a verification pass reads, `PassEnd` compares and publishes,
  `PassFail` is a pass that raised. `Corrupt` is storage damage, external to the
  code. `Open` is one step here; `Opening` takes it apart.
- `TransparencyLog` is the abstract specification: one append-only sequence and
  signed statements, each of the whole sequence at one moment.
  `Store!ImplementsLog` maps a store to it: a whole import is one step, a rolled
  back transaction none.
- `Merkle` has `_merkle_root` and the incremental frontier as operators, each
  loop a recursive function over its rounds; `Frontier` appends leaf after leaf
  over a stored frontier of which levels may be damaged at any moment. The
  code's limit of 64 levels is left out.
- `Keys` has one action per file operation of each key command (a file write is
  temp file, fsync, rename, hence atomic), `CommandDies` between any two, and a
  service that reads the three files one after the other, and may start, sign and
  stop between any two operations of any command, `genkey --force` included.
  Commands run one at a time; nothing in the code enforces that. `pins` is the
  operator's: `activate-key-rotation` sees only a flag, and `PinsConfirmed` takes
  the operator who sets it at their word. `retired` and `dropped` remember the
  keys that left the keyring for good, by `retire-key` and by `genkey --force`.
- `Pages` follows one client's walk; reads change nothing, so one stands for
  many. Each request is two steps, one per acquisition of the store's lock.
  `name` abstracts everything that tells records of one subject apart
  (name, identity, commit, hash version, content); a subject is what the query
  selects by. A boundary is the sequence of entries it commits to, and every
  entry has a unique number, so a log regrown after a restore differs.
- `Federation` has registries with logs, ledgers and high-waters, every bundle
  ever written (an export is `ExportRead`, then `ExportSign` of a snapshot that
  may be newer), one backup and the checkpoint the operator keeps. A record is
  its content and the signers of its "upstream-import" endorsements, its own last;
  a submission may bring such an endorsement, or get one by an auditor of that
  name (`_countersign` keeps what it finds, no name is reserved). A head is the
  sequence of records it commits to; `created_at` is in boundaries but in no
  hash, as in the code.
  Imports of a whole bundle are one step: their transaction is `Store`'s.
- `Opening` is `Store.__init__` with one action per statement that commits by
  itself, for two processes that start from a missing file, a file of schema 0
  (with and without auditors in its idempotency table), 2, 3 or 4, or a damaged
  one. Rows are abstracted to the entries they refer to.
- `Limiter` is `FixedWindowLimiter` as operators on a table, with ages instead
  of instants, which keeps the state finite though time never ends. `Service`
  is the process around the store: middleware with the semaphore, body deadline,
  auditor limiter, lifespan and verifier thread. The semaphore is asyncio's as
  of Python 3.11, hence external: a release wakes the first waiter, which holds
  its slot from then on although it has not run yet.
  `recent` and `due` follow one client for the properties: the ages of its last
  `2 * NetworkRequests` admissions, forgotten when a full table forgets its
  window, and the ticks until it was told to come again.
- `MCFederation` and `MCOpening` name the feeds, submissions and files of their
  runs. `MCStore` instantiates `Store` with `Merkle` for the root. Each of its
  specifications is `Store`'s with the operations one question needs.
- `StoreProofs`, `TransparencyLogProofs`, `FrontierProofs` (with `Merkle`),
  `KeysProofs`, `PagesProofs`, `FederationProofs`, `OpeningProofs` and
  `ServiceProofs` (with `Limiter`) hold the theorems about the module they are
  named after (section 4).

The `TypeOK` of a module states the shape of its variables. `Store`'s is checked
and proved, `Service`'s is proved, `Keys`' is part of a proved invariant; the
others are there for the reader, and no run is spent on them.

Definitions introduced by a comment "Slip:" are plausible mistakes in the
definition that follows them. They are used by nothing: replacing the
definition by its slip makes the property that `PROJECT.json` pairs it with fail,
which shows that the property depends on the code it is about.

## 3. Runs

| Run | Shows | Distinct states |
|---|---|---|
| `submit` | two instances race submissions of two bodies under one idempotency key through waiting, expiry, crashes, rollbacks, latches and one fault: `RetentionHolds`, `AnswersDurable` | 10^6 |
| `import` | imports of an upstream that grows and one that equivocates, against direct appends: `IntactStoreVerifies`, `VerdictOnDurablePrefix`, `HighWaterImpliesImported`, `ImportedOnce`, `AppendOnly`, `HighWaterNeverLowered`, `ImplementsLog` | 34 k |
| `health` | appends and imports against verification passes and one fault of eight kinds: `NoFalseAlarm`, `LatchSticks`, `LatchedNeverCommits`, `AppendsAttestTheirHead` | 855 k |
| `live` | two faults of seven kinds, with restarts and snapshots before and after: `SnapshotsConsistent`; fair verifier: `DamageIsNoticed`, `StaleVerdictRecovers` | 91 k |
| `frontier` | up to nine leaves, any nodes in a damaged level, twice and at any time: `FrontierIsExact`, `AttestedRootIsExact` | 352 k |
| `keys` | key commands with failures between any two file operations, against a service that starts and stops anywhere: `SignersVerifiable`, `CursorsSurvive`, `NoUnannouncedSigner`; however a rotation was interrupted, it can still be ended: `RotationEnds` | 116 k |
| `pages` | a walk while the log grows, shrinks, is restored and keys rotate: `WalkExact`, `RefusalJustified` | 2.4 M |
| `federation` | one registry feeds another; torn, replayed, reordered bundles; one record may be submitted with an endorsement of its own; either is backed up, put back and grows again: `PlainImportsVerify`, `HighWaterCovered`, `ReadyCoversCheckpoint`, `OnlyLossIsRefused`; fair operators: `CatchUp` | 505 k |
| `opening` | two processes open one of nine files, statement by statement, with a crash and submissions: `RefusedForCause`, `ReadyIsComplete`, `LiveRowsKept`; processes are started again: `EventuallyReady` | 165 k |
| `service` | two requests at a time over one slot, two clients over a table of one key, bodies that never come, two lifespans: `RateHeld`, `RetryAfterHonest`, `SlotsAccounted`, `OneVerifier`, `ServiceIsVerified`, `EveryRequestEnds` | 80 k |
| `keys_cancelled`, `federation_hops` | violations; see section 6 | |

**Bounds, and why they suffice.** Two instances are enough for every race over
the one write lock: only one writes, the other waits, reads or verifies. Logs of
two or three entries contain an empty log, a head with and without a
predecessor, and a lost tail with something left. Nine leaves reach four
levels above the leaves, odd and even lengths and every new top on the way; two
damages hit two levels before an append, or one level before and after it. In
`submit`, TTL 3, promised retention 2 and waiting 1 keep the order of the code's
26 h lifetime, 24 h promise and its bounded wait, and clock 5 passes one expiry
with a second commit after it. Three keys allow a rotation after a rotation, or
after a forced replacement; two crashes interrupt a command and the one that
cleans up. In `pages`, two page sizes, three entries, two names and two
subjects give walks of up to three pages, replaced and foreign records, and a
restore with different growth to the same size. In `federation`, two contents at
the upstream and one of them also at the downstream give torn bundles, equal
records from two sources and, with one restore, a log regrown differently to
the same size; one backup is taken, of either registry, and one torn bundle
kept. One of the two contents may come endorsed, but not after the restore. A
chain of registries is in the theorem `PlainImportsAlwaysVerify`, and in
`federation_hops`, which needs three registries and one record. In `opening`, two
attempts stand for the code's four (what matters is that each failed one took an
append), and logs grow from two entries to four. In `service`, a window of four
half seconds has whole and broken seconds left, and two requests a window put
three into a stretch as long as one. Every bound is a constant in
the guards: `MaxLog`, `MaxClock`, `MaxFaults`, `MaxWait`, `MaxKeys`,
`MaxCrashes`, `MaxBorn`, `MaxLeaves`, `MaxDamages`, `MaxTorn`, `MaxRestores`,
`EndorsedUntil`, `Attempts`, `MaxLives`.

`CHECK_DEADLOCK FALSE` is used where a bounded run really ends: a latched
`Frontier`, finished `pages`, registries that have exchanged everything, a
database that is open or refused, a process after its last lifespan.

**Fairness.** `live`: the verifier thread runs until the process stops, and its
loop starts a pass, waits for it and starts the next
(`_health_verifier_loop`); an open transaction commits or rolls back because
every operation has a deadline (`_operation_deadline`). `keys`: a running
command goes on, and an operator who finds a rotation staged finally activates
or cancels it (strong, because other commands come in between); failures are
finitely many. `federation`: operators go on exporting, and importing bundles
that are ahead of what they have; nobody need submit, stop or restore.
`opening`: a process that began goes on, one that ended is started again
(a supervisor), rows expire; submissions and crashes are not fair. `service`:
timers fire and coroutines and the thread run on; clients need not send
anything, so only the deadline ends a body.

## 4. What is proved

For any sets of instances, records, keys, registries, requests and files, any
log size, any number of faults and crashes:

| Module | Theorem | Statement |
|---|---|---|
| `StoreProofs` | `TypeCorrect` | `Spec => []TypeOK` |
| | `StoreInvariant` | `Spec => []StoreInv` |
| | `IntactStoreAlwaysVerifies` | `Spec => []IntactStoreVerifies` |
| | `NeverAFalseAlarm` | `Spec => []NoFalseAlarm` |
| | `VerdictIsDurable` | `Spec => []VerdictOnDurablePrefix` |
| | `LogIsAppendOnly` | `Spec => AppendOnly` |
| | `LatchOnlyClearedByRestart` | `Spec => LatchSticks` |
| | `NoCommitWhileLatched` | `Spec => LatchedNeverCommits` |
| | `RetentionAlwaysHolds` | `Spec => []RetentionHolds` |
| | `AnswersAreDurable` | `Spec => []AnswersDurable` |
| | `HighWaterAlwaysImported` | `Spec => []HighWaterImpliesImported` |
| | `HighWaterOnlyRises` | `Spec => HighWaterNeverLowered` |
| | `UpstreamRecordsOnce` | `Spec => []ImportedOnce` |
| | `StoreImplementsLog` | `Spec => ImplementsLog`, if `MaxFaults = 0` |
| | `ServedHeadsAgree` | `Spec => []SnapshotsConsistent`, if no fault rewrites hashes |
| | `AppendsAlwaysAttestTheirHead` | `Spec => AppendsAttestTheirHead`, if `RootCommits` |
| `TransparencyLogProofs` | `SignedStatementsAgree` | any two signed statements of the abstract log agree |
| `FrontierProofs` | `FrontierAlwaysExact` | `Spec => []FrontierIsExact` |
| | `AttestedRootsAreExact` | `Spec => []AttestedRootIsExact`, if `DamageLengths = FALSE` |
| | `MerkleRootCommits` | `RootCommits` for `_merkle_root` |
| `KeysProofs` | `SignersStayVerifiable` | `Spec => []SignersVerifiable` |
| | `CursorsAlwaysSurvive` | `Spec => []CursorsSurvive` |
| | `SignersAlwaysAnnounced` | `Spec => []NoUnannouncedSigner` |
| `PagesProofs` | `WalksAreExact` | `Spec => []WalkExact` |
| | `RefusalsJustified` | `Spec => []RefusalJustified` |
| `FederationProofs` | `HighWaterAlwaysCovered` | `Spec => []HighWaterCovered` |
| | `PlainImportsAlwaysVerify` | `Spec => []PlainImportsVerify` |
| | `ReadyAlwaysCovers` | `Spec => []ReadyCoversCheckpoint` |
| | `OnlyLossAlwaysRefused` | `Spec => []OnlyLossIsRefused` |
| `OpeningProofs` | `ReadyAlwaysComplete` | `Spec => []ReadyIsComplete` |
| | `RefusalsHaveCause` | `Spec => []RefusedForCause` |
| | `MigrationKeepsLiveRows` | `Spec => LiveRowsKept` |
| `ServiceProofs` | `NeverTwoVerifiers` | `Spec => []OneVerifier` |
| | `ServiceAlwaysVerified` | `Spec => []ServiceIsVerified` |
| | `SlotsAlwaysAccounted` | `Spec => []SlotsAccounted` |
| | `RateAlwaysHeld` | `Spec => []RateHeld` |
| | `RetryAfterAlwaysHonest` | `Spec => []RetryAfterHonest` |
| | `TablesStayBounded` | `Spec => []TypeOK`, which bounds both limiters' tables by `MaxKeys` |

What the theorems add to the runs is size. The run `service` has one slot, a
table of one key and one window and rate; `frontier` has nine leaves and two
damages, where the theorems have logs and damage without bound.

**Assumptions on the constants**, all evaluated by TLC: bounds and times are
numbers; `TimingAssumption` (the lifetime of an idempotency row covers promise
and waiting); `NobodyAssumption`; `RecAssumption` (bodies and bundles consist of
records); `OfferAssumption` (a verified boundary commits to its records: the same
boundary never comes with two batches, which the import checks before);
`FeedsAssumption` (feeds are between registries, and endorsers none of them);
`ServiceAssumption` (finitely many requests, at least one
slot); `LimiterAssumption` (a window is some whole seconds, a table holds a key);
`FrontierAssumption`; `PagesAssumption` (names are ordered, pages hold something);
`OldFilesAssumption` (whoever wrote a file's version marker had brought the
tables to that version, and only a log that has its tables has entries; what the
rows say may be wrong).

**Hypotheses of single theorems**, and why they are there:
- `StoreImplementsLog` needs intact storage: a fault that loses the tail is no
  step of an append-only log. What readers are promised in spite of faults is
  `ServedHeadsAgree`.
- `ServedHeadsAgree` excludes the fault that rewrites a stored hash. Together
  with a damaged record and a lost boundary such a fault forges a head that
  starts up cleanly, which no check inside the registry can tell from the truth.
- `RootCommits`: equal Merkle roots of equally many leaves mean equal leaves, and
  no such root is the empty log's. `Store` takes the root as a parameter; for
  the code's `_merkle_root` the hypothesis is the theorem `MerkleRootCommits`.
- `DamageLengths = FALSE`: damage changes nodes of the stored frontier, not the
  length of a level (section 6, 3).

The theorems about keys and federation have none. `SignersVerifiable` and
`CursorsSurvive` speak of keys that were neither retired nor overwritten by
`genkey --force`, which section 6, 4 says may happen to a key that has signed.
`PlainImportsVerify` speaks of what came without an "upstream-import"
endorsement of its own; for the rest, section 6, 1.

**The invariants, and why they are needed.** None of the properties is inductive
alone.

*Store.* `IntactStoreVerifies` says that `db` verifies, but `Commit` replaces
`db` by `work`: so `work` has to verify all the time. That an append keeps a
database verifiable needs that the AUTOINCREMENT counter equals the log size
(else the new row's number leaves a gap), hence `Sound`. `NoFalseAlarm` also
depends on what a pass in flight reads: that snapshot was committed, so it
verifies (`IntactInv`), and the live boundary it then looks up is there.
`VerdictOnDurablePrefix` survives a commit because `work` extends `db`
(`TransactionInv`). `StoreInv` is the conjunction with `TypeOK`.

*Ledgers.* `SessionInv` ties an open transaction to a ready instance and a
submission's transaction to a call that has waited at most `MaxWait`.
`RetainInv`: every accepted submission is covered by a row that outlives its
retention, in `db` and in `work`, or its retention is over; a row expires `TTL`
after the time *read before* the lock was waited for, and this is where `TTL >=
MinRetention + MaxWait` is used. `AnswerInv`: every idempotency row stands for an
answer given or the one being prepared, and that is in the log. `HighWaterInv`:
an import under way has not touched the high-water, its decision to advance
still is the committed row's, and what it has not entered is still in `todo`.
`OnceInv`: every upstream record in the log has its ledger row, which names it.

*Readers.* The refinement maps a commit to `Extend` or a stutter and a snapshot
to a statement. `HistoryInv` says that there is one history, as long as the
AUTOINCREMENT counter, of which the log that is left, the open transaction and
everything ever served are beginnings: SQLite never issues a number twice, so a
log that lost its tail cannot grow another one. `AttestInv`: every boundary row
attests its own head or was blanked, and the rows a transaction adds do; with
`RootCommits` the anchors of an append, two leaves and one root, then pin the
whole stored frontier.

*Frontier.* `Holds(f, L, exact)` says that a frontier has a level for each level
of the tree of `L` up to its root, with the right length and last node (`Sits`);
exact, with the last two nodes, otherwise with the second to last only where the
length is even, which is where `_frontier_append` reads it. An append keeps
both forms (`AppendHolds`), round by round: `LevelsAlmost` says that appending a
leaf changes at most the last node of a level or adds one. `ExactInv` is the exact
form while nothing is damaged. `RootInv` keeps no node at all, only the lengths:
`AnchorsPin` shows that what passes the anchors satisfies the other form,
because from the boundary's root down each parent pins the nodes it was
hashed from. Roots commit to leaves along the same descent (`RootPins`).
`Merkle` has its loops as functions on the numbers; that these are what their
equations say, and induction over the rounds, is derived from well-foundedness
(`TracesExist`, `TracesAgree`, `LoopsRun`, `Induction`).

*Keys.* `FilesInv` says how far a command has got and what the files then hold
(an activation at its second write finds both keys in the keyring; a rotated
key was pinned before it became active). `SignInv`: a staged key has signed
nothing, what may sign is published, and a starting service, which reads three
files one after the other while commands change them, has accepted what it has
passed and still finds what it has not. Both make exception of the keys that were
retired or overwritten (`Excused`): after a forced replacement, what the service
signs with need not be published any more.

*Pages.* `Inv`: what was returned is the beginning of the rows of the boundary
the cursor carries, and the cursor stands behind it; entries of a boundary were
born before now, so a refused boundary never fits again as the log grows; a
first request finds its boundary or a log that lost its tail, and in the latter
case the size check refuses it; nobody signs with the new key before it is
active. That the rows of a query are sorted, complete and the newest of
their name rests on lemmas about ordering a finite set (`Ranked`,
`EachHasAPlace`, `Greatest`).

*Federation.* `FedInv`: a ledger row names the entry that was written for it
(`Rooted`), every high-water is covered, in the live database and in the backup
alike, because a restore swaps them; a backup without its checkpoint is still a
beginning of the live log. A row of a plain record then verifies because the
endorsement the import added is the only one (`PlainRowsVerify`). `ReadyInv`
carries the startup comparison on through imports. `LossInv` (`Kept`): the live
log keeps beginning with the backup, through a restore too, the kept checkpoint
is the backup's own or a larger one, and before any restore the log holds all of
it; so what the comparison refuses is larger than the backup.

*Opening.* `Inv` says for each statement of `__init__` what its process has made
sure of and nobody undoes (`EnsuredInv`), what of the boundary cache is still
missing unless somebody was faster (`CountedInv`), that nobody writes to a table
still to be rebuilt (`SparedInv`), and what a process that met no other finds as
it left it (`AloneInv`); `RefusalInv` reads the causes off these.

*Service.* `VerifierInv`: the one thread that may be alive is the one the store
remembers. `SlotInv`: free slots and holders, waiters woken but not yet run
included, add up, and a free slot is never waited for by sleepers alone.
`LimitInv`: a table has one entry per key and at most `MaxKeys`; the watched
client's present window is as old as the first of as many last admissions as
its count says, and the admission `NetworkRequests` before that one is a whole
window old (`Tracks`); a window that is full ends when the client was told to
come again, or before (`Told`).

## 5. What is only model-checked

- Liveness, which TLAPS does not do: `DamageIsNoticed`, `StaleVerdictRecovers`,
  `RotationEnds`, `CatchUp`, `EventuallyReady`, `EveryRequestEnds`.
- That damage leaves the frontier's lengths alone is a hypothesis, not a theorem;
  with it dropped the property fails (section 6, 3).

Every invariant and every action property that a run checks is stated by a
theorem (the violation runs' excepted). Where the theorem has a hypothesis, the
run's constants satisfy it, but for `SnapshotsConsistent`: the run `live` also
rewrites hashes, with two faults, too few to forge a head.

## 6. Disagreements with the documentation

With a run that finds them:

1. `federation_hops`: the import enters a record in the ledger under the
   signature it came with (`bundle.py:231`), the verification derives the
   fingerprint from the first "upstream-import" endorsement (`store.py:2320`).
   They differ for a record that passed through an intermediate registry (the
   run) and, after a single import, for one that was submitted with such an
   endorsement (`app.py:491` keeps it, `protocol.py:211` lets it have any name) or
   by an auditor of that name. The import commits; then the verifier latches, and
   no start or command opens the database again, although nothing was damaged.
   `CatchUp` makes this exception, and `PlainImportsVerify` says where it ends.
2. `keys_cancelled`: an activation that dies between storing the active key and
   unlinking the staged one (`keys.py:223`) leaves a rotation that took effect
   and still looks staged; `cancel-key-rotation` then reports the active
   signer as cancelled.

Met while modelling, and kept out of the runs by a constant or an abstraction, or
made an exception of a property:

3. The append anchors compare the nodes of every frontier level but the length
   of level 0 only (`store.py:989`). With `DamageLengths = TRUE`, a wrong length
   above passes and the next append attests a root that is not the log's, where
   the docstring (`store.py:951`) promises a latch. The next full pass notices.
4. `genkey --force` checks the log and writes the key afterwards (`cli.py:60`);
   a running service may log its first record in between, and the key that
   signed it is overwritten and dropped from the keyring, where the README
   (line 190) says that the signer of a non-empty registry is not replaced.
   `SignersVerifiable` and `CursorsSurvive` make this exception (`dropped`).
5. The service loads its keys once (`app.py:791`): after
   `activate-key-rotation` it signs with the old key until it is restarted,
   which the rotation procedure (README, step 3) does not mention.
6. A creation that dies before the idempotency table exists leaves a file that
   every later start takes for an incomplete old one and refuses
   (`store.py:340`, `store.py:454`). It holds no entry and can be deleted;
   `EventuallyReady` makes this exception.
7. Of two processes that migrate one database, the slower sets the version
   markers back for a moment (`store.py:671`); a third that verifies just then
   is refused, and the verifier of one that is ready would latch.
   `RefusedForCause` allows the refusal when processes met.
8. Two processes that create one database may both write `created_at`
   (`store.py:418`), the later over one that was already served.
9. An import compares versions, not prefixes: an upstream that was restored,
   regrown differently and is larger than the high-water is accepted.
   `CatchUp` makes this exception.
10. Every record of a bundle is checked against the one pinned key
    (`bundle.py:153`), so no bundle of an upstream that rotated its key is
    accepted.
11. Commands (`import-bundle`, `backup`, ...) are not held back by the startup
    checkpoint, which only the service reads: a restored database that the
    service refuses still imports.
12. A start that meets a verifier thread still draining does nothing, as its
    docstring says, and the lifespan does not call it again (`app.py:112`): such
    a service has no verifier, and refuses writes once its verdict is stale.
    `ServiceIsVerified` makes this exception.

A remark on `RefusalJustified`: each page renews the cursor's hour, but the
carried boundary keeps its first signature. A walk that goes on for longer than
the overlap is refused when the old key is retired, with an unexpired cursor, as
the docstring of `_cursor_state` says.

## 7. Not modelled, and simplifications

- `Store` opens in one step and `Federation` imports in one; `Opening` and
  `Store` have the statements. `Federation` gives a registry one key for good.
- The `created_at` row and the log's own indexes in `Opening`; an unreadable or
  badly signed checkpoint (the process stops, or stays refused).
- `issue-token`: one file, read once by the service. Two such commands at once
  may lose one of the tokens.
- Mutual feeds: two registries that import each other sign and import the same
  record without end, each time under a new fingerprint.
- Snapshots of an empty log do not count as signatures in `Keys`; passphrase
  encryption changes how a key file is written, not which key is in it.
- HTTP caching of pages, validation of requests, content of records, formatting.
- Authentication, parsing, canonical JSON, signatures, file permissions: pure
  functions or operating-system calls without protocol state. The models use
  what they provide.
- `append_imports`, which only tests call.

## 8. Plan

Built, in this order: `StoreDb`, `Store` with `TransparencyLog`, `Merkle` and
`Frontier`, `StoreProofs`, `Keys`, `Pages`, `Federation`, `Opening`, `Limiter`
with `Service`, then the proofs of section 4, those of the limiter and of the
frontier last. What is left is the `TypeOK` of `Pages`, `Federation` and
`Opening` as they stand; the invariants proved about these modules contain the
parts of it that the proofs use.
