------------------------------ MODULE MCStore ------------------------------
(***************************************************************************)
(* Runs of module Store.  Each specification below is Store's with the     *)
(* operations that one question needs, so that its bounds can be larger.   *)
(* Merkle supplies the root.                                               *)
(***************************************************************************)
EXTENDS Store, TLC
CONSTANTS b1, b2, u1, u2, u3, up, p1, p2, NodeTag
M == INSTANCE Merkle

MCRoot(leaves) == M!MerkleRoot(leaves)

(* An upstream that grew, plus an equivocating bundle at its version 2.    *)
MCOffers ==
  {[key |-> up, ver |-> 1, body |-> u1, batch |-> <<u1>>],
   [key |-> up, ver |-> 2, body |-> u2, batch |-> <<u1, u2>>],
   [key |-> up, ver |-> 2, body |-> u3, batch |-> <<u1, u3>>]}

MCOneOffer == {[key |-> up, ver |-> 1, body |-> u1, batch |-> <<u1, u2>>]}

Interchangeable == Permutations(Proc) \cup Permutations(Body)

Lifecycle(p) == Open(p) \/ Crash(p) \/ Commit(p) \/ Rollback(p)

(* Keyed submissions through two instances.                                *)
SubmitNext ==
  \/ \E p \in Proc :
       \/ Lifecycle(p)
       \/ \E k \in Scope, r \in Body : Submit(p, k, r)
       \/ SubmitBegin(p) \/ SubmitRefused(p)
  \/ Tick
  \/ \E kind \in FaultKinds : Corrupt(kind)
SubmitSpec == Init /\ [][SubmitNext]_vars

(* Imports and direct appends through two instances.                       *)
ImportNext ==
  \E p \in Proc :
       \/ Lifecycle(p)
       \/ \E r \in Body : AppendBegin(p, r)
       \/ \E o \in Offers, older \in BOOLEAN : ImportBegin(p, o, older)
       \/ ImportRow(p) \/ ImportMark(p)
       \/ ServeSnapshot(p)
ImportSpec == Init /\ [][ImportNext]_vars

(* Appends, verification passes, latches and storage faults.               *)
HealthNext ==
  \/ \E p \in Proc :
       \/ Lifecycle(p)
       \/ \E r \in Body : AppendBegin(p, r)
       \/ \E o \in Offers : ImportBegin(p, o, FALSE)
       \/ ImportRow(p) \/ ImportLatch(p) \/ ImportMark(p)
       \/ PassBegin(p) \/ PassEnd(p) \/ PassFail(p)
  \/ Tick
  \/ \E kind \in FaultKinds : Corrupt(kind)
HealthSpec == Init /\ [][HealthNext]_vars

(* The same with fairness, for direct appends only, with snapshots served  *)
(* before and after the log loses its tail.                                *)
LiveNext ==
  \/ \E p \in Proc :
       \/ Lifecycle(p)
       \/ \E r \in Body : AppendBegin(p, r)
       \/ PassBegin(p) \/ PassEnd(p)
       \/ ServeSnapshot(p)
  \/ Tick
  \/ \E kind \in FaultKinds : Corrupt(kind)
LiveSpec == Init /\ [][LiveNext]_vars /\ Fairness
=============================================================================
