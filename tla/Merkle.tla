------------------------------- MODULE Merkle -------------------------------
(***************************************************************************)
(* The Merkle tree of store.py: the reference root (_merkle_root) and the  *)
(* frontier that appends maintain, per tree level its length and its last  *)
(* one or two nodes.  SHA-256 of a pair is the tagged pair itself, so      *)
(* equal hashes mean equal subtrees.                                       *)
(***************************************************************************)
EXTENDS Naturals, Sequences

CONSTANT NodeTag    \* tells an inner node from a leaf

EmptyRoot == <<>>
PairHash(left, right) == <<NodeTag, left, right>>

(* One round of _merkle_root's loop; the last node of an odd level is      *)
(* paired with itself.                                                     *)
NextLevel(level) ==
  [i \in 1..((Len(level) + 1) \div 2) |->
     PairHash(level[2 * i - 1],
              IF 2 * i <= Len(level) THEN level[2 * i] ELSE level[2 * i - 1])]

(* The level after k rounds, and the number of rounds until one node is    *)
(* left.                                                                   *)
TreeLevel(leaves, k) ==
  LET level[i \in Nat] == IF i = 0 THEN leaves ELSE NextLevel(level[i - 1])
  IN  level[k]

Height(leaves) ==
  CHOOSE k \in 0..Len(leaves) : /\ Len(TreeLevel(leaves, k)) = 1
                                /\ \A j \in 0..(k - 1) : Len(TreeLevel(leaves, j)) # 1

MerkleRoot(leaves) ==
  IF leaves = <<>> THEN EmptyRoot ELSE TreeLevel(leaves, Height(leaves))[1]
----------------------------------------------------------------------------
End(s) == s[Len(s)]
Level(n, tail) == [len |-> n, tail |-> tail]
Inconsistent == <<Level(0, <<>>)>>   \* StoreIntegrityError

(* The node above the last one or two nodes of a level.                    *)
ParentOfLast(low) ==
  IF low.len % 2 = 1 THEN PairHash(End(low.tail), End(low.tail))
                     ELSE PairHash(low.tail[Len(low.tail) - 1], End(low.tail))

(* Slip: a growing level keeps its older node, not its last.               *)
RegrownFromFirst(old, n, last) ==
  Level(n, IF n = 1 THEN <<last>> ELSE <<old.tail[1], last>>)

(* The new state of a level whose last node is replaced (its length is     *)
(* unchanged) or which grows by one node.                                  *)
Regrown(old, n, last) ==
  Level(n, IF n = 1 THEN <<last>>
           ELSE IF n = old.len THEN <<old.tail[Len(old.tail) - 1], last>>
           ELSE <<End(old.tail), last>>)

(* One round of _frontier_append's loop over the stored levels f; new are  *)
(* the levels done, up to one with a single node.  The limit of 64 levels  *)
(* is left out: no log has 2^64 entries.                                   *)
Raise(f, new) ==
  LET low == End(new)
      i == Len(new) + 1
      n == (low.len + 1) \div 2
  IN  IF low.len <= 1 THEN new
      ELSE IF i > Len(f)
      THEN IF n = 1 THEN Append(new, Level(1, <<ParentOfLast(low)>>)) ELSE Inconsistent
      ELSE IF \/ f[i].len >= 2 /\ Len(f[i].tail) # 2
              \/ n \notin {f[i].len, f[i].len + 1}
      THEN Inconsistent
      ELSE Append(new, Regrown(f[i], n, ParentOfLast(low)))

(* The last round makes a new top or finds one: a level per stored one.    *)
FrontierAppend(f, leaf) ==
  LET first == Level(f[1].len + 1, <<End(f[1].tail), leaf>>)
      new[i \in Nat] == IF i = 0 THEN <<first>> ELSE Raise(f, new[i - 1])
  IN  IF f = <<>> THEN <<Level(1, <<leaf>>)>> ELSE new[Len(f)]

FrontierRoot(f) == IF f = <<>> THEN EmptyRoot ELSE End(End(f).tail)

(* _recompute_prefix: the frontier of a sequence of leaves.                *)
FrontierOf(leaves) ==
  LET of[n \in Nat] == IF n = 0 THEN <<>> ELSE FrontierAppend(of[n - 1], leaves[n])
  IN  of[Len(leaves)]
----------------------------------------------------------------------------
(* _load_frontier's checks of the stored rows.                             *)
Loadable(f) ==
  \A i \in DOMAIN f : Len(f[i].tail) \in 1..2 /\ f[i].len >= Len(f[i].tail)

(* _validate_append_anchors_locked, on the real frontier: leaves are the   *)
(* entry hashes of the log, root the last boundary row's.                  *)
LevelZeroAnchored(f, leaves) ==
  f[1].tail = SubSeq(leaves, IF Len(leaves) = 1 THEN 1 ELSE Len(leaves) - 1, Len(leaves))

(* Slip: the levels are not compared with each other.                      *)
LevelsTrusted(f) == TRUE

LevelsLinked(f) ==
  \A i \in 1..(Len(f) - 1) :
     /\ f[i].len >= 2 => Len(f[i].tail) = 2
     /\ End(f[i + 1].tail) = ParentOfLast(f[i])

FrontierAnchored(f, leaves, root) ==
  /\ (IF f = <<>> THEN 0 ELSE f[1].len) = Len(leaves)
  /\ leaves # <<>> => /\ LevelZeroAnchored(f, leaves)
                      /\ LevelsLinked(f)
                      /\ FrontierRoot(f) = root
=============================================================================
