----------------------- MODULE TransparencyLogProofs -----------------------
(***************************************************************************)
(* What the promise of module TransparencyLog is worth to its readers.     *)
(***************************************************************************)
EXTENDS TransparencyLog, TLAPS

vars == <<entries, signed>>

(* Every signed statement is a prefix of the log as it now stands, which   *)
(* is what makes NoEquivocation inductive.                                 *)
PrefixInv ==
  /\ entries \in Seq(Record)
  /\ signed \subseteq Seq(Record)
  /\ \A s \in signed :
        /\ Len(s) <= Len(entries)
        /\ \A i \in 1..Len(s) : s[i] = entries[i]

(* Two prefixes of one log agree on their common part.                     *)
LEMMA PrefixesAgree == PrefixInv => NoEquivocation
<1> SUFFICES ASSUME PrefixInv, NEW s \in signed, NEW t \in signed,
                    Len(s) <= Len(t), NEW i \in 1..Len(s)
             PROVE  s[i] = t[i]
  BY DEF NoEquivocation
<1>1. s \in Seq(Record) /\ t \in Seq(Record)
  BY DEF PrefixInv
<1>2. i \in 1..Len(t)
  BY <1>1
<1>3. s[i] = entries[i] /\ t[i] = entries[i]
  BY <1>2 DEF PrefixInv
<1> QED
  BY <1>3

(* Neither extending the log nor signing it takes a signed statement out   *)
(* of the log.                                                             *)
LEMMA PrefixStep == PrefixInv /\ [Next]_vars => PrefixInv'
<1> SUFFICES ASSUME PrefixInv, [Next]_vars
             PROVE  PrefixInv'
  OBVIOUS
<1>1. CASE Extend
  <2>1. entries' \in Seq(Record) /\ signed' \subseteq Seq(Record)
    BY <1>1 DEF Extend, PrefixInv
  <2>2. ASSUME NEW s \in signed'
        PROVE  Len(s) <= Len(entries') /\ \A i \in 1..Len(s) : s[i] = entries'[i]
    <3>1. s \in signed /\ s \in Seq(Record) /\ Len(s) <= Len(entries)
      BY <1>1, <2>2 DEF Extend, PrefixInv
    <3>2. Len(s) <= Len(entries')
      BY <1>1, <2>1, <3>1 DEF Extend, PrefixInv
    <3>3. ASSUME NEW i \in 1..Len(s)
          PROVE  s[i] = entries'[i]
      <4>1. i \in 1..Len(entries)
        BY <3>1 DEF PrefixInv
      <4>2. s[i] = entries[i] /\ entries[i] = entries'[i]
        BY <1>1, <3>1, <4>1 DEF Extend, PrefixInv
      <4> QED
        BY <4>2
    <3> QED
      BY <3>2, <3>3
  <2> QED
    BY <2>1, <2>2 DEF PrefixInv
<1>2. CASE Sign
  BY <1>2 DEF Sign, PrefixInv
<1>3. CASE UNCHANGED vars
  BY <1>3 DEF vars, PrefixInv
<1> QED
  BY <1>1, <1>2, <1>3 DEF Next

(* A reader of any implementation of the log never holds two statements of *)
(* build_snapshot that contradict each other.                              *)
THEOREM SignedStatementsAgree == Spec => []NoEquivocation
<1>1. Init => PrefixInv
  BY DEF Init, PrefixInv
<1> QED
  BY <1>1, PrefixStep, PrefixesAgree, PTL DEF Spec, vars
=============================================================================
