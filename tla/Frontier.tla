------------------------------ MODULE Frontier ------------------------------
(***************************************************************************)
(* Appends over the stored frontier (table merkle_frontier), with storage  *)
(* damage to levels of it at any moment.  Entry hashes chain, so leaves    *)
(* are all different.                                                      *)
(***************************************************************************)
EXTENDS Merkle

CONSTANTS MaxLeaves,       \* bound on the log
          MaxDamages,      \* bound on damage
          DamageLengths    \* whether damage may change a level's length too

ASSUME FrontierAssumption == MaxLeaves \in Nat /\ MaxDamages \in Nat

VARIABLES leaves,     \* entry hashes of the committed log
          frontier,   \* table merkle_frontier
          root,       \* Merkle root of the newest boundary row
          damages,    \* how often the frontier was damaged
          latched     \* an append found a mismatch

vars == <<leaves, frontier, root, damages, latched>>

NewLeaf == <<Len(leaves) + 1>>

Init ==
  /\ leaves = <<>> /\ frontier = <<>> /\ root = EmptyRoot
  /\ damages = 0 /\ latched = FALSE

Trusted ==
  /\ Loadable(frontier)
  /\ FrontierAnchored(frontier, leaves, root)
  /\ FrontierAppend(frontier, NewLeaf) # Inconsistent

(* _append_locked, as far as the frontier is concerned.                    *)
AppendLeaf ==
  /\ ~latched /\ Len(leaves) < MaxLeaves
  /\ Trusted
  /\ leaves' = Append(leaves, NewLeaf)
  /\ frontier' = FrontierAppend(frontier, NewLeaf)
  /\ root' = FrontierRoot(frontier')
  /\ UNCHANGED <<damages, latched>>

RefuseAppend ==
  /\ ~latched /\ Len(leaves) < MaxLeaves
  /\ ~Trusted
  /\ latched' = TRUE
  /\ UNCHANGED <<leaves, frontier, root, damages>>

(* Nodes a damaged row may hold: any that occur in the frontier, or a      *)
(* foreign one.                                                            *)
Nodes == UNION {{frontier[i].tail[j] : j \in DOMAIN frontier[i].tail}
                  : i \in DOMAIN frontier} \cup {<<0>>}

Damage ==
  /\ damages < MaxDamages /\ frontier # <<>>
  /\ \E i \in DOMAIN frontier :
     \E n \in IF DamageLengths THEN 1..(MaxLeaves + 1) ELSE {frontier[i].len},
        tail \in UNION {[1..k -> Nodes] : k \in 1..2} :
          frontier' = [frontier EXCEPT ![i] = Level(n, tail)]
  /\ frontier' # frontier
  /\ damages' = damages + 1
  /\ UNCHANGED <<leaves, root, latched>>

Next == AppendLeaf \/ RefuseAppend \/ Damage
Spec == Init /\ [][Next]_vars
----------------------------------------------------------------------------
(* The incremental frontier and the root it yields are those of the full   *)
(* recomputation, at every size.                                           *)
FrontierIsExact ==
  damages = 0 => /\ FrontierRoot(frontier) = MerkleRoot(leaves)
                 /\ frontier = FrontierOf(leaves)
                 /\ Trusted

(* Every root an append attests is the Merkle root of the log, even when   *)
(* nodes of the stored frontier were damaged before the append.  Nothing   *)
(* is claimed of a damaged level length above the leaves, which            *)
(* _validate_append_anchors_locked lets through (DamageLengths).           *)
AttestedRootIsExact == root = MerkleRoot(leaves)
=============================================================================
