------------------------------- MODULE Store -------------------------------
(***************************************************************************)
(* The log store as a running system: several Store instances (the served  *)
(* process and the CLI commands that open the same registry.db), each with *)
(* its own lock, cached health verdict and verifier thread, over one       *)
(* SQLite database in WAL mode.                                            *)
(*                                                                         *)
(* A write is BEGIN IMMEDIATE, the body, COMMIT: `writer' holds SQLite's   *)
(* write lock and `work' is what its transaction has written.  Readers see *)
(* `db', the committed state, until Commit.  The instance's own lock is    *)
(* held for the whole write, so its verdict cannot be published meanwhile. *)
(***************************************************************************)
EXTENDS StoreDb

CONSTANTS Proc,           \* Store instances
          Nobody,         \* no writer
          Scope,          \* (auditor_id, idempotency key) pairs
          Body,           \* records that are submitted or appended directly
          Offers,         \* verified upstream bundles an import may offer
          NoPass,         \* no verification pass in flight
          TTL,            \* IDEMPOTENCY_TTL_SECONDS, in ticks
          MinRetention,   \* the retention the API promises, in ticks
          MaxWait,        \* bound: a call waits and runs at most this long
          Interval,       \* health_verify_interval, in ticks
          MaxLog,         \* bound on the log
          MaxClock,       \* bound on the wall clock (it saturates)
          MaxFaults,      \* bound on storage faults
          FaultKinds      \* the kinds of storage fault considered

VARIABLES db,         \* committed database
          writer,     \* the instance in a write transaction, or Nobody
          work,       \* the database as the open transaction sees it
          todo,       \* import records the transaction has still to look at
          outcome,    \* what the transaction is doing and will answer
          status,     \* per instance: "down", "ready" or "failed" (latched)
          verified,   \* per instance: _health_verified_log_size and _head
          age,        \* per instance: time since the last refresh
          pass,       \* per instance: snapshot a verification pass reads
          call,       \* per instance: the submission being handled, if any
          clock,      \* wall clock
          accepted,   \* history: submissions committed to the log
          replayed,   \* history: answers given from the idempotency table
          served,     \* history: boundaries signed and served
          faults      \* number of storage faults so far

storage == <<db, writer, work, todo, outcome>>
memory == <<status, verified, age, pass, call>>
history == <<accepted, replayed, served>>
vars == <<storage, memory, clock, history, faults>>

NoCall == [scope |-> Nobody, rec |-> Nobody, now |-> 0]
Idle == [kind |-> "idle"]
StaleAfter == 2 * Interval

ASSUME TimingAssumption ==
  /\ TTL \in Nat /\ MinRetention \in Nat /\ MaxWait \in Nat
  /\ TTL >= MinRetention + MaxWait
  /\ Interval \in Nat \ {0} /\ MaxClock \in Nat /\ MaxFaults \in Nat
ASSUME NobodyAssumption == Nobody \notin Proc
ASSUME RecAssumption ==
  /\ Body \subseteq Rec
  /\ \A o \in Offers : o.batch \in Seq(Rec) /\ o.ver \in Nat

(* A verified bundle's boundary commits to its records: the entries hash   *)
(* up to the head and the root it names.                                   *)
ASSUME OfferAssumption ==
  \A o, q \in Offers :
     o.key = q.key /\ o.ver = q.ver /\ o.body = q.body => o.batch = q.batch

Init ==
  /\ db = EmptyDb
  /\ writer = Nobody /\ work = EmptyDb /\ todo = <<>> /\ outcome = Idle
  /\ status = [p \in Proc |-> "down"]
  /\ verified = [p \in Proc |-> [size |-> 0, head |-> Genesis]]
  /\ age = [p \in Proc |-> 0]
  /\ pass = [p \in Proc |-> NoPass]
  /\ call = [p \in Proc |-> NoCall]
  /\ clock = 0
  /\ accepted = {} /\ replayed = {} /\ served = {}
  /\ faults = 0
----------------------------------------------------------------------------
(***************************************************************************)
(* Start and stop of an instance.                                          *)
(***************************************************************************)

Publish(p, d) == verified' = [verified EXCEPT ![p] = [size |-> Size(d),
                                                      head |-> HeadHash(d)]]

(* Store.__init__ on an existing database: integrity_errors, then          *)
(* _ensure_boundaries, then the first cached verdict.  An instance that    *)
(* finds an error does not start.                                          *)
Open(p) ==
  /\ status[p] = "down"
  /\ IntegrityOK(db)
  /\ CacheAgrees(db)
  /\ \/ CacheOK(db) /\ UNCHANGED storage
     \/ /\ ~CacheOK(db)
        /\ writer = Nobody
        /\ db' = EnsureBoundaries(db)
        /\ work' = db'
        /\ UNCHANGED <<writer, todo, outcome>>
  /\ status' = [status EXCEPT ![p] = "ready"]
  /\ age' = [age EXCEPT ![p] = 0]
  /\ Publish(p, db)
  /\ UNCHANGED <<pass, call, clock, history, faults>>

(* The transaction is gone: ROLLBACK, or the WAL ignored after a crash.    *)
Discard == writer' = Nobody /\ work' = db /\ todo' = <<>> /\ outcome' = Idle

(* The process dies, or Store.close runs: nothing but the database stays.  *)
Crash(p) ==
  /\ status[p] # "down"
  /\ status' = [status EXCEPT ![p] = "down"]
  /\ verified' = [verified EXCEPT ![p] = [size |-> 0, head |-> Genesis]]
  /\ age' = [age EXCEPT ![p] = 0]
  /\ pass' = [pass EXCEPT ![p] = NoPass]
  /\ call' = [call EXCEPT ![p] = NoCall]
  /\ IF writer = p THEN Discard ELSE UNCHANGED <<writer, work, todo, outcome>>
  /\ UNCHANGED <<db, clock, history, faults>>
----------------------------------------------------------------------------
(***************************************************************************)
(* Writing.                                                                *)
(***************************************************************************)

(* Slip: a latched instance is taken for a ready one.                      *)
WritesAllowedIfUp(p) == status[p] # "down" /\ age[p] <= StaleAfter

(* _require_writes_allowed, _health_stale_locked.                          *)
WritesAllowed(p) == status[p] = "ready" /\ age[p] <= StaleAfter

(* Slip: the failure is noted as a refresh.                                *)
LatchForgets(p) == age' = [age EXCEPT ![p] = 0] /\ UNCHANGED status

(* _latch_integrity_failure_locked.                                        *)
Latch(p) ==
  /\ status' = [status EXCEPT ![p] = "failed"]
  /\ age' = [age EXCEPT ![p] = 0]

Begin(p, d, batch, o) == writer' = p /\ work' = d /\ todo' = batch /\ outcome' = o

(* Store.append: the body of its transaction, or the latch of              *)
(* _fail_append_locked and ROLLBACK.                                       *)
AppendBegin(p, r) ==
  /\ writer = Nobody /\ call[p] = NoCall
  /\ WritesAllowed(p)
  /\ Size(db) < MaxLog
  /\ \/ /\ AppendFits(db)
        /\ Begin(p, AppendRow(db, r), <<>>, [kind |-> "append"])
        /\ UNCHANGED <<status, age>>
     \/ /\ ~AppendFits(db)
        /\ Latch(p)
        /\ UNCHANGED <<writer, work, todo, outcome>>
  /\ UNCHANGED <<db, verified, pass, call, clock, history, faults>>

(* submit in app.py: the wall clock is read before the store lock is       *)
(* taken.                                                                  *)
Submit(p, k, r) ==
  /\ status[p] # "down" /\ writer # p
  /\ call[p] = NoCall
  /\ call' = [call EXCEPT ![p] = [scope |-> k, rec |-> r, now |-> clock]]
  /\ UNCHANGED <<storage, status, verified, age, pass, clock, history, faults>>

(* DELETE FROM idempotency WHERE expires_at <= now.                        *)
Prune(d, now) ==
  [d EXCEPT !.idem = Keep(@, {k \in DOMAIN @ : @[k].expires > now})]

(* Slips: no margin for the wait; the answer's hash is not kept; the row   *)
(* names the entry before.                                                 *)
AppendKeyedNoMargin(d, k, r, now) ==
  LET a == AppendRow(d, r)
  IN [a EXCEPT !.idem = Put(@, k, [body |-> r, seq |-> Size(a),
                                   hash |-> HeadHash(a),
                                   expires |-> now + MinRetention])]

AppendKeyedNoHash(d, k, r, now) ==
  LET a == AppendRow(d, r)
  IN [a EXCEPT !.idem = Put(@, k, [body |-> r, seq |-> Size(a),
                                   expires |-> now + TTL])]

AppendKeyedBefore(d, k, r, now) ==
  LET a == AppendRow(d, r)
  IN [a EXCEPT !.idem = Put(@, k, [body |-> r, seq |-> Size(d),
                                   hash |-> HeadHash(d),
                                   expires |-> now + TTL])]

AppendKeyed(d, k, r, now) ==
  LET a == AppendRow(d, r)
  IN [a EXCEPT !.idem = Put(@, k, [body |-> r, seq |-> Size(a),
                                   hash |-> HeadHash(a),
                                   expires |-> now + TTL])]

Answer(kind, c, seq, hash) ==
  [kind |-> kind, scope |-> c.scope, rec |-> c.rec, seq |-> seq, hash |-> hash]

(* Store.append_idempotent: the transaction body when the key is new, when *)
(* it replays (the expired rows it deleted are committed with the answer). *)
SubmitBegin(p) ==
  LET c == call[p]
      d == Prune(db, c.now)
  IN /\ writer = Nobody /\ c # NoCall
     /\ WritesAllowed(p)
     /\ \/ /\ c.scope \notin DOMAIN d.idem
           /\ Size(db) < MaxLog
           /\ AppendFits(d)
           /\ LET a == AppendKeyed(d, c.scope, c.rec, c.now)
              IN Begin(p, a, <<>>, Answer("accept", c, Size(a), HeadHash(a)))
        \/ /\ c.scope \in DOMAIN d.idem
           /\ d.idem[c.scope].body = c.rec
           /\ Begin(p, d, <<>>, Answer("replay", c, d.idem[c.scope].seq,
                                       d.idem[c.scope].hash))
     /\ UNCHANGED <<db, memory, clock, history, faults>>

(* Its refusals: writes disabled, the key used for another body, or an     *)
(* integrity mismatch that latches.  Each rolls back.                      *)
SubmitRefused(p) ==
  LET c == call[p]
      d == Prune(db, c.now)
  IN /\ writer = Nobody /\ c # NoCall
     /\ \/ ~WritesAllowed(p) /\ UNCHANGED <<status, age>>
        \/ /\ WritesAllowed(p)
           /\ c.scope \in DOMAIN d.idem /\ d.idem[c.scope].body # c.rec
           /\ UNCHANGED <<status, age>>
        \/ /\ WritesAllowed(p)
           /\ c.scope \notin DOMAIN d.idem /\ ~AppendFits(d)
           /\ Latch(p)
     /\ call' = [call EXCEPT ![p] = NoCall]
     /\ UNCHANGED <<storage, verified, pass, clock, history, faults>>

(* Slip: an older bundle that was let in also moves the high-water.        *)
AdvancesAlways(d, o) == TRUE

(* _upstream_offer_diagnostic and the policy of append_upstream_import.    *)
Advances(d, o) == o.key \in DOMAIN d.hw => o.ver > d.hw[o.key].ver
Acceptable(d, o, older) ==
  o.key \in DOMAIN d.hw =>
    \/ o.ver > d.hw[o.key].ver
    \/ o.ver = d.hw[o.key].ver /\ o.body = d.hw[o.key].body
    \/ o.ver < d.hw[o.key].ver /\ older

(* Store.append_upstream_import up to its loop; a refusal changes nothing. *)
ImportBegin(p, o, older) ==
  /\ writer = Nobody /\ call[p] = NoCall
  /\ WritesAllowed(p)
  /\ Acceptable(db, o, older)
  /\ Begin(p, db, o.batch, [kind |-> "import", offer |-> o,
                            advance |-> Advances(db, o)])
  /\ UNCHANGED <<db, memory, clock, history, faults>>

(* Slip: the fingerprint is not recorded.                                  *)
AppendImportUnmarked(d, r) == AppendRow(d, r)

AppendImport(d, r) ==
  LET a == AppendRow(d, r)
  IN [a EXCEPT !.imported = Put(@, r, Size(a))]

(* One iteration of the loop: skip a known fingerprint, or append.         *)
ImportRow(p) ==
  /\ writer = p /\ outcome.kind = "import" /\ todo # <<>>
  /\ \/ /\ Head(todo) \in DOMAIN work.imported
        /\ UNCHANGED work
     \/ /\ Head(todo) \notin DOMAIN work.imported
        /\ Size(work) < MaxLog
        /\ AppendFits(work)
        /\ work' = AppendImport(work, Head(todo))
  /\ todo' = Tail(todo)
  /\ UNCHANGED <<db, writer, outcome, memory, clock, history, faults>>

(* An anchor mismatch inside the loop latches and rolls the batch back.    *)
ImportLatch(p) ==
  /\ writer = p /\ outcome.kind = "import" /\ todo # <<>>
  /\ Head(todo) \notin DOMAIN work.imported
  /\ ~AppendFits(work)
  /\ Latch(p)
  /\ Discard
  /\ UNCHANGED <<db, verified, pass, call, clock, history, faults>>

(* Slip: the high-water row is written before the records.                 *)
ImportMarkFirst(p) ==
  /\ writer = p /\ outcome.kind = "import"
  /\ work' = [work EXCEPT !.hw = Put(@, outcome.offer.key,
                                     [ver |-> outcome.offer.ver,
                                      body |-> outcome.offer.body])]
  /\ outcome' = [outcome EXCEPT !.kind = "imported"]
  /\ UNCHANGED <<db, writer, todo, memory, clock, history, faults>>

(* After the loop: the high-water row, in the same transaction.            *)
ImportMark(p) ==
  /\ writer = p /\ outcome.kind = "import" /\ todo = <<>>
  /\ work' = IF outcome.advance
             THEN [work EXCEPT !.hw = Put(@, outcome.offer.key,
                                          [ver |-> outcome.offer.ver,
                                           body |-> outcome.offer.body])]
             ELSE work
  /\ outcome' = [outcome EXCEPT !.kind = "imported"]
  /\ UNCHANGED <<db, writer, todo, memory, clock, history, faults>>

(* COMMIT, then (the lock still held) the verdict moves to the last entry  *)
(* appended, and the answer is returned.                                   *)
Commit(p) ==
  /\ writer = p /\ outcome.kind # "import"
  /\ db' = work
  /\ writer' = Nobody /\ todo' = <<>> /\ outcome' = Idle
  /\ IF Size(work) > Size(db) THEN Publish(p, work) ELSE UNCHANGED verified
  /\ call' = [call EXCEPT ![p] = NoCall]
  /\ accepted' = IF outcome.kind = "accept"
                 THEN accepted \cup {[scope |-> outcome.scope, rec |-> outcome.rec,
                                      seq |-> outcome.seq, hash |-> outcome.hash,
                                      at |-> clock]}
                 ELSE accepted
  /\ replayed' = IF outcome.kind = "replay"
                 THEN replayed \cup {[scope |-> outcome.scope, rec |-> outcome.rec,
                                      seq |-> outcome.seq, hash |-> outcome.hash]}
                 ELSE replayed
  /\ UNCHANGED <<work, status, age, pass, clock, served, faults>>

(* Slip: the verdict was moved before COMMIT failed.                       *)
RollbackPublished(p) ==
  /\ writer = p
  /\ Discard
  /\ Publish(p, work)
  /\ call' = [call EXCEPT ![p] = NoCall]
  /\ UNCHANGED <<db, status, age, pass, clock, history, faults>>

(* A statement or COMMIT itself fails: ROLLBACK and an error answer.       *)
Rollback(p) ==
  /\ writer = p
  /\ Discard
  /\ call' = [call EXCEPT ![p] = NoCall]
  /\ UNCHANGED <<db, status, verified, age, pass, clock, history, faults>>
----------------------------------------------------------------------------
(***************************************************************************)
(* Reading, and the background verifier.                                   *)
(***************************************************************************)

(* build_snapshot: the live boundary, under the instance's lock.  Reads do *)
(* not consult the verdict.                                                *)
ServeSnapshot(p) ==
  /\ status[p] # "down" /\ writer # p
  /\ BoundaryAvailable(db)
  /\ served' = served \cup {SnapshotBoundary(db)}
  /\ UNCHANGED <<storage, memory, clock, accepted, replayed, faults>>

(* Slip: the verifier only starts at the exact moment.                     *)
PassBeginOnTime(p) ==
  /\ status[p] = "ready" /\ pass[p] = NoPass
  /\ age[p] = Interval
  /\ pass' = [pass EXCEPT ![p] = db]
  /\ UNCHANGED <<storage, status, verified, age, call, clock, history, faults>>

(* refresh_health_verdict, first half: one BEGIN on its own connection     *)
(* fixes the snapshot everything is read from; no store lock is held.      *)
PassBegin(p) ==
  /\ status[p] = "ready" /\ pass[p] = NoPass
  /\ age[p] >= Interval
  /\ pass' = [pass EXCEPT ![p] = db]
  /\ UNCHANGED <<storage, status, verified, age, call, clock, history, faults>>

(* Slip: the snapshot is expected to be the live log.                      *)
PassCleanIfCurrent(p) ==
  VerifiesClean(pass[p]) /\ BoundaryAvailable(db) /\ Size(pass[p]) = Size(db)

(* The walk of the snapshot found nothing, and the live boundary, read     *)
(* under the lock, is there.                                               *)
PassClean(p) == VerifiesClean(pass[p]) /\ BoundaryAvailable(db)

(* Slip: the verdict is published without looking at the latch.            *)
PassEndBlind(p) ==
  /\ pass[p] # NoPass /\ writer # p
  /\ pass' = [pass EXCEPT ![p] = NoPass]
  /\ \/ ~PassClean(p) /\ Latch(p) /\ UNCHANGED verified
     \/ /\ PassClean(p)
        /\ Publish(p, db)
        /\ status' = [status EXCEPT ![p] = "ready"]
        /\ age' = [age EXCEPT ![p] = 0]
  /\ UNCHANGED <<storage, call, clock, history, faults>>

(* Second half, under the lock: a latched instance stays latched; errors   *)
(* in the snapshot or an unavailable live boundary latch; otherwise the    *)
(* live head is published.                                                 *)
PassEnd(p) ==
  /\ pass[p] # NoPass /\ writer # p
  /\ pass' = [pass EXCEPT ![p] = NoPass]
  /\ \/ /\ status[p] = "failed"
        /\ UNCHANGED <<status, verified, age>>
     \/ /\ status[p] = "ready"
        /\ ~PassClean(p)
        /\ Latch(p)
        /\ UNCHANGED verified
     \/ /\ status[p] = "ready"
        /\ PassClean(p)
        /\ Publish(p, db)
        /\ age' = [age EXCEPT ![p] = 0]
        /\ UNCHANGED status
  /\ UNCHANGED <<storage, call, clock, history, faults>>

(* The walk itself raises (an I/O error): any failed pass latches.         *)
PassFail(p) ==
  /\ pass[p] # NoPass /\ writer # p
  /\ faults < MaxFaults /\ "walk" \in FaultKinds
  /\ faults' = faults + 1
  /\ pass' = [pass EXCEPT ![p] = NoPass]
  /\ IF status[p] = "ready" THEN Latch(p) ELSE UNCHANGED <<status, age>>
  /\ UNCHANGED <<storage, verified, call, clock, history>>
----------------------------------------------------------------------------
(***************************************************************************)
(* Time and storage faults.                                                *)
(***************************************************************************)

(* Time passes.  A call that has waited MaxWait must finish first.         *)
Tick ==
  /\ \A p \in Proc : call[p] # NoCall => clock - call[p].now < MaxWait
  /\ clock' = IF clock < MaxClock THEN clock + 1 ELSE clock
  /\ age' = [p \in Proc |-> IF status[p] = "ready" /\ age[p] <= StaleAfter
                            THEN age[p] + 1 ELSE age[p]]
  /\ UNCHANGED <<storage, status, verified, pass, call, history, faults>>

OtherHash(d, i) == {EntryHash(d.log[i].prev, r) : r \in Body} \ {d.log[i].hash}

(* The databases one storage fault of each kind can leave.                 *)
Damaged(d, kind) ==
  CASE kind = "truncate" /\ Size(d) > 0 ->
         {[d EXCEPT !.log = SubSeq(@, 1, Size(d) - 1)]}
    [] kind = "prune" ->
         {[d EXCEPT !.log[i].live = FALSE] : i \in 1..(Size(d) - 1)}
    [] kind = "record" ->
         UNION {{[d EXCEPT !.log[i].rec = r] : r \in Body \ {d.log[i].rec}}
                  : i \in 1..Size(d)}
    [] kind = "hash" ->
         UNION {{[d EXCEPT !.log[i].hash = h] : h \in OtherHash(d, i)}
                  : i \in 1..Size(d)}
    [] kind = "dropBoundary" ->
         {[d EXCEPT !.bounds = Keep(@, DOMAIN @ \ {n})] : n \in DOMAIN d.bounds}
    [] kind = "root" ->
         {[d EXCEPT !.bounds[n].root = Genesis] : n \in DOMAIN d.bounds}
    [] kind = "frontier" ->
         UNION {{[d EXCEPT !.frontier[i] = h] : h \in OtherHash(d, i)}
                  : i \in 1..Len(d.frontier) \cap 1..Size(d)}
    [] kind = "answer" ->
         {[d EXCEPT !.idem[k].hash = Genesis] : k \in DOMAIN d.idem}
    [] OTHER -> {}

Corrupt(kind) ==
  /\ faults < MaxFaults /\ writer = Nobody
  /\ faults' = faults + 1
  /\ db' \in Damaged(db, kind)
  /\ work' = db'
  /\ UNCHANGED <<writer, todo, outcome, memory, clock, history>>
----------------------------------------------------------------------------
Step(p) ==
  \/ Open(p) \/ Crash(p)
  \/ \E r \in Body : AppendBegin(p, r)
  \/ \E k \in Scope, r \in Body : Submit(p, k, r)
  \/ SubmitBegin(p) \/ SubmitRefused(p)
  \/ \E o \in Offers, older \in BOOLEAN : ImportBegin(p, o, older)
  \/ ImportRow(p) \/ ImportLatch(p) \/ ImportMark(p)
  \/ Commit(p) \/ Rollback(p)
  \/ ServeSnapshot(p) \/ PassBegin(p) \/ PassEnd(p) \/ PassFail(p)

Next == \/ \E p \in Proc : Step(p)
        \/ Tick
        \/ \E kind \in FaultKinds : Corrupt(kind)

Spec == Init /\ [][Next]_vars

(* The scheduling liveness needs: time passes, the verifier thread runs    *)
(* and gets the store lock sooner or later (SF: other calls of the same    *)
(* process keep taking it), and a transaction ends, since every operation  *)
(* has a deadline.                                                         *)
Fairness ==
  /\ WF_vars(Tick)
  /\ \A p \in Proc : /\ WF_vars(PassBegin(p))
                     /\ SF_vars(PassEnd(p))
                     /\ WF_vars(Commit(p) \/ Rollback(p))

FairSpec == Spec /\ Fairness
----------------------------------------------------------------------------
(***************************************************************************)
(* Properties.                                                             *)
(***************************************************************************)
IsDb(d) ==
  /\ DOMAIN d = {"log", "autoinc", "bounds", "frontier", "idem", "imported", "hw"}
  /\ d.log \in Seq([rec : Rec, prev : Hash, hash : Hash, live : BOOLEAN])
  /\ d.autoinc \in Nat
  /\ d.frontier \in Seq(Hash)
  /\ DOMAIN d.bounds \subseteq Nat
  /\ \A n \in DOMAIN d.bounds : DOMAIN d.bounds[n] = {"head", "root"}
  /\ DOMAIN d.idem \subseteq Scope
  /\ \A k \in DOMAIN d.idem :
        d.idem[k] \in [body : Rec, seq : Nat, hash : Hash, expires : Nat]
  /\ DOMAIN d.imported \subseteq Rec
  /\ \A r \in DOMAIN d.imported : d.imported[r] \in Nat

(* Every variable keeps its type: what the columns, the locks and the      *)
(* cached verdict may hold.                                                *)
TypeOK ==
  /\ IsDb(db) /\ IsDb(work)
  /\ writer \in Proc \cup {Nobody}
  /\ todo \in Seq(Rec)
  /\ "kind" \in DOMAIN outcome
  /\ outcome.kind \in {"idle", "append", "accept", "replay", "import", "imported"}
  /\ status \in [Proc -> {"down", "ready", "failed"}]
  /\ verified \in [Proc -> [size : Nat, head : Hash]]
  /\ age \in [Proc -> 0..(StaleAfter + 1)]
  /\ clock \in 0..MaxClock /\ faults \in 0..MaxFaults
  /\ DOMAIN pass = Proc /\ DOMAIN call = Proc
  /\ \A p \in Proc : pass[p] # NoPass => IsDb(pass[p])
  /\ \A p \in Proc : call[p] # NoCall =>
        call[p] \in [scope : Scope, rec : Body, now : Nat]

(* Whatever writers, crashes and rollbacks of several processes leave in   *)
(* the database, the startup verification accepts it: a registry whose     *)
(* storage is intact always restarts, with nothing to rebuild.             *)
IntactStoreVerifies == faults = 0 => VerifiesClean(db)

(* An intact registry is never latched: neither an append's anchor check   *)
(* nor a verification pass that raced appends of this or another process   *)
(* reports corruption.                                                     *)
NoFalseAlarm == faults = 0 => \A p \in Proc : status[p] # "failed"

(* The cached verdict names an entry of the committed log, never one of a  *)
(* transaction that was or may be rolled back.                             *)
VerdictOnDurablePrefix ==
  faults = 0 => \A p \in Proc : /\ verified[p].size <= Size(db)
                                /\ verified[p].head = HashAt(db, verified[p].size)

(* Committed entries are never changed or removed by any operation.        *)
Extends(d, e) == /\ Size(d) <= Size(e)
                 /\ \A i \in 1..Size(d) : e.log[i] = d.log[i]
AppendOnly == [][faults' = faults => Extends(db, db')]_vars

(* Two commits under one idempotency key are at least the promised         *)
(* retention apart, whatever instances handled them, however long the      *)
(* calls waited for the lock, and whichever of them crashed and was        *)
(* retried.                                                                *)
RetentionHolds ==
  \A a, b \in accepted :
     a.scope = b.scope /\ a.seq < b.seq => b.at >= a.at + MinRetention

(* Every answer given names an entry that is and stays in the log and      *)
(* holds the submitted record; a replay repeats an answer given for that   *)
(* key and body.                                                           *)
AnswersDurable ==
  faults = 0 =>
    /\ \A a \in accepted : /\ a.seq \in 1..Size(db)
                           /\ db.log[a.seq].rec = a.rec
                           /\ db.log[a.seq].hash = a.hash
    /\ \A b \in replayed : \E a \in accepted :
          a.scope = b.scope /\ a.rec = b.rec /\ a.seq = b.seq /\ a.hash = b.hash

(* Only a restart clears a latch: a pass that began before it and ends     *)
(* clean after it does not.                                                *)
LatchSticks ==
  [][\A p \in Proc : status[p] = "failed" => status'[p] \in {"failed", "down"}]_vars

(* A latched instance commits nothing.                                     *)
LatchedNeverCommits ==
  [][\A p \in Proc : status[p] = "failed" => writer' # p /\ (writer = p => db' = db)]_vars

(* Even over damaged storage, the root an append attests commits to        *)
(* exactly the entries its own head commits to: a damaged frontier, head   *)
(* or boundary is refused, not extended.                                   *)
AttestedFrom(head) == [i \in 1..Len(head) |-> SubSeq(head, 1, i)]
AppendsAttestTheirHead ==
  [][faults' = faults /\ Size(db') > Size(db) =>
       \A n \in (Size(db) + 1)..Size(db') :
          db'.bounds[n].root = Root(AttestedFrom(db'.bounds[n].head))]_vars

(* No two heads the registry ever served contradict each other: at one     *)
(* size they are the same, and a later one extends an earlier one.  Log    *)
(* truncation included: a sequence number once issued is not issued again. *)
SnapshotsConsistent ==
  \A s, t \in served : s.size <= t.size => s.head = SubSeq(t.head, 1, s.size)

(* The high-water of an upstream never goes back, and at one version never *)
(* changes its boundary.                                                   *)
HighWaterNeverLowered ==
  [][\A u \in DOMAIN db.hw :
       /\ u \in DOMAIN db'.hw
       /\ db'.hw[u].ver >= db.hw[u].ver
       /\ db'.hw[u].ver = db.hw[u].ver => db'.hw[u] = db.hw[u]]_vars

(* A high-water row is committed only together with every record of the    *)
(* bundle it stands for.                                                   *)
HighWaterImpliesImported ==
  \A o \in Offers :
     o.key \in DOMAIN db.hw /\ db.hw[o.key] = [ver |-> o.ver, body |-> o.body]
       => \A i \in 1..Len(o.batch) : o.batch[i] \in DOMAIN db.imported

(* An upstream record enters the log at most once, however many bundles    *)
(* carry it and however imports race, repeat or fail half-way.             *)
ImportedOnce ==
  faults = 0 =>
    \A i, j \in 1..Size(db) :
       db.log[i].rec = db.log[j].rec /\ db.log[i].rec \notin Body => i = j

(* Damage a full verification would find does not stay unnoticed: an       *)
(* instance that is ready over it ends up latched (or stops, or the next   *)
(* start rebuilds the cache).                                              *)
DamageIsNoticed ==
  \A p \in Proc :
     (status[p] = "ready" /\ ~VerifiesClean(db))
        ~> (status[p] # "ready" \/ VerifiesClean(db))

(* A stale verdict does not last: writes come back, or the instance stops  *)
(* or latches.                                                             *)
StaleVerdictRecovers ==
  \A p \in Proc : (status[p] = "ready" /\ age[p] > StaleAfter)
                    ~> (status[p] # "ready" \/ age[p] <= StaleAfter)

(* What makes the safety invariants inductive: an open transaction only    *)
(* extends the committed log, what it has written would verify, and every  *)
(* snapshot a pass reads was committed.                                    *)
Sound(d) == VerifiesClean(d) /\ d.autoinc = Size(d)

TransactionInv ==
  /\ writer = Nobody => work = db
  /\ Extends(db, work)

IntactInv ==
  faults = 0 =>
    /\ Sound(db) /\ Sound(work)
    /\ \A p \in Proc : pass[p] # NoPass => VerifiesClean(pass[p])

StoreInv == TypeOK /\ TransactionInv /\ IntactInv /\ NoFalseAlarm /\ VerdictOnDurablePrefix

(* The records of the committed log, and what the served heads commit to:  *)
(* with intact storage the store implements the abstract log, so an import *)
(* is one step of it, a rolled back transaction none, and every snapshot   *)
(* names a state the log was really in.                                    *)
Contents(d) == [i \in 1..Size(d) |-> d.log[i].rec]
Log == INSTANCE TransparencyLog
         WITH Record <- Rec, entries <- Contents(db),
              signed <- {s.head : s \in served}
ImplementsLog == Log!Spec
=============================================================================
