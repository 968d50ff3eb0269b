------------------------------ MODULE StoreDb ------------------------------
(***************************************************************************)
(* The durable state of one registry (registry.db) and what the functions  *)
(* of store.py compute from it, without any process or time.               *)
(*                                                                         *)
(* A database is a record                                                  *)
(*   log       the rows of table log in sequence order; `live' is FALSE    *)
(*             for a row that was deleted from under its successors        *)
(*   autoinc   the AUTOINCREMENT high-water of log.seq (sqlite_sequence)   *)
(*   bounds    table boundaries: log_size -> memoized head and Merkle root *)
(*   frontier  table merkle_frontier, as the leaves it has accumulated     *)
(*             (module Merkle checks that representation)                  *)
(*   idem      table idempotency: (auditor, key) -> row                    *)
(*   imported  table imported_records: fingerprint -> log sequence         *)
(*   hw        table upstream_high_water: key id -> boundary               *)
(*                                                                         *)
(* SHA-256 is taken to be collision free: an entry hash is the sequence of *)
(* records it commits to, so equal hashes mean equal histories.            *)
(***************************************************************************)
EXTENDS Naturals, Sequences

CONSTANTS Rec,        \* records, as they are committed to the log
          Root(_)     \* _merkle_root of a sequence of entry hashes

Hash == Seq(Rec)
Genesis == <<>>
EntryHash(prev, r) == Append(prev, r)

Size(d) == Len(d.log)
HashAt(d, i) == IF i = 0 THEN Genesis ELSE d.log[i].hash
HeadHash(d) == HashAt(d, Size(d))
Leaves(d) == [i \in 1..Size(d) |-> d.log[i].hash]
LeavesTo(d, n) == [i \in 1..n |-> d.log[i].hash]

EmptyDb == [log |-> <<>>, autoinc |-> 0, bounds |-> <<>>, frontier |-> <<>>,
            idem |-> [k \in {} |-> 0], imported |-> [r \in {} |-> 0],
            hw |-> [u \in {} |-> 0]]

(* A partial function with x bound to y, whether x was bound or not.       *)
Put(f, x, y) == [z \in DOMAIN f \cup {x} |-> IF z = x THEN y ELSE f[z]]
Keep(f, S) == [z \in DOMAIN f \cap S |-> f[z]]
----------------------------------------------------------------------------
(***************************************************************************)
(* Appending.                                                              *)
(***************************************************************************)

(* Slip: only the head is compared with its boundary row.                  *)
HeadAnchorOnly(d) ==
  Size(d) > 0 => /\ Size(d) \in DOMAIN d.bounds
                 /\ d.bounds[Size(d)].head = HeadHash(d)

(* _validate_append_anchors_locked: the head, the last boundary, the last  *)
(* two leaves and the root must agree before they are extended.            *)
AnchorsHold(d) ==
  /\ Len(d.frontier) = Size(d)
  /\ Size(d) > 0 =>
       /\ Size(d) \in DOMAIN d.bounds
       /\ d.bounds[Size(d)].head = HeadHash(d)
       /\ d.frontier[Size(d)] = HeadHash(d)
       /\ Size(d) > 1 => /\ d.log[Size(d) - 1].live
                         /\ d.frontier[Size(d) - 1] = HashAt(d, Size(d) - 1)
       /\ Root(d.frontier) = d.bounds[Size(d)].root

(* Slip: the sequence number follows the rows that are left.               *)
AppendFitsReusing(d) == AnchorsHold(d) /\ Size(d) + 1 \notin DOMAIN d.bounds

(* What _append_locked needs to get to its end: the anchors, the sequence  *)
(* SQLite assigns, and no boundary row for the new size yet.               *)
AppendFits(d) ==
  /\ AnchorsHold(d)
  /\ d.autoinc = Size(d)
  /\ Size(d) + 1 \notin DOMAIN d.bounds

(* Slips: the boundary is computed before the frontier grows; the entry    *)
(* takes the head's sequence number, not the next one.                     *)
AppendRowOldRoot(d, r) ==
  LET hash == EntryHash(HeadHash(d), r)
  IN [d EXCEPT !.log = Append(@, [rec |-> r, prev |-> HeadHash(d),
                                  hash |-> hash, live |-> TRUE]),
               !.autoinc = @ + 1,
               !.frontier = Append(@, hash),
               !.bounds = Put(@, Size(d) + 1,
                              [head |-> hash, root |-> Root(d.frontier)])]

AppendRowOverHead(d, r) ==
  LET n == IF Size(d) = 0 THEN 1 ELSE Size(d)
      hash == EntryHash(HashAt(d, n - 1), r)
      front == Append(SubSeq(d.frontier, 1, n - 1), hash)
  IN [d EXCEPT !.log = Append(SubSeq(@, 1, n - 1),
                              [rec |-> r, prev |-> HashAt(d, n - 1),
                               hash |-> hash, live |-> TRUE]),
               !.autoinc = n,
               !.frontier = front,
               !.bounds = Put(@, n, [head |-> hash, root |-> Root(front)])]

(* The rows _append_locked writes: the log entry, the frontier, the        *)
(* boundary.                                                               *)
AppendRow(d, r) ==
  LET hash == EntryHash(HeadHash(d), r)
      front == Append(d.frontier, hash)
  IN [d EXCEPT !.log = Append(@, [rec |-> r, prev |-> HeadHash(d),
                                  hash |-> hash, live |-> TRUE]),
               !.autoinc = @ + 1,
               !.frontier = front,
               !.bounds = Put(@, Size(d) + 1,
                              [head |-> hash, root |-> Root(front)])]
----------------------------------------------------------------------------
(***************************************************************************)
(* Verification.                                                           *)
(***************************************************************************)

(* The chain walk of _integrity_errors_on.                                 *)
ChainOK(d) ==
  \A i \in 1..Size(d) :
     /\ d.log[i].live
     /\ d.log[i].prev = HashAt(d, i - 1)
     /\ d.log[i].hash = EntryHash(HashAt(d, i - 1), d.log[i].rec)

(* Its checks of the two ledgers.                                          *)
IdemOK(d) ==
  \A k \in DOMAIN d.idem :
     /\ d.idem[k].seq \in 1..Size(d)
     /\ d.idem[k].hash = HashAt(d, d.idem[k].seq)

ImportsOK(d) ==
  \A r \in DOMAIN d.imported :
     /\ d.imported[r] \in 1..Size(d)
     /\ d.log[d.imported[r]].rec = r

IntegrityOK(d) == ChainOK(d) /\ IdemOK(d) /\ ImportsOK(d)

(* One prefix boundary of _recompute_prefix.                               *)
BoundaryAt(d, n) == [head |-> HashAt(d, n), root |-> Root(LeavesTo(d, n))]

(* _boundary_cache_errors on one snapshot (walked size = live size).       *)
CacheOK(d) ==
  /\ DOMAIN d.bounds = 1..Size(d)
  /\ \A n \in 1..Size(d) : d.bounds[n] = BoundaryAt(d, n)
  /\ d.frontier = Leaves(d)

VerifiesClean(d) == IntegrityOK(d) /\ CacheOK(d)

(* _ensure_boundaries: which caches it accepts, and what it leaves.        *)
CacheAgrees(d) ==
  /\ DOMAIN d.bounds \subseteq 1..Size(d)
  /\ \A n \in DOMAIN d.bounds : d.bounds[n] = BoundaryAt(d, n)

EnsureBoundaries(d) ==
  [d EXCEPT !.bounds = [n \in 1..Size(d) |-> BoundaryAt(d, n)],
            !.frontier = Leaves(d)]

(* _snapshot_boundary_locked(None): whether the live boundary can be       *)
(* served, and its value.  The root is read, never recomputed.             *)
BoundaryAvailable(d) ==
  Size(d) > 0 => /\ Size(d) \in DOMAIN d.bounds
                 /\ d.bounds[Size(d)].head = HeadHash(d)
                 /\ d.log[1].live

(* Slip: the size is read after the head.                                  *)
SnapshotBoundaryTorn(d) ==
  [size |-> Size(d),
   head |-> IF Size(d) = 0 THEN Genesis ELSE HashAt(d, Size(d) - 1),
   root |-> IF Size(d) = 0 THEN Root(<<>>) ELSE d.bounds[Size(d)].root]

SnapshotBoundary(d) ==
  [size |-> Size(d),
   head |-> HeadHash(d),
   root |-> IF Size(d) = 0 THEN Root(<<>>) ELSE d.bounds[Size(d)].root]
=============================================================================
