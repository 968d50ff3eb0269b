-------------------------- MODULE TransparencyLog --------------------------
(***************************************************************************)
(* What the registry promises its readers: one append-only sequence of     *)
(* records, and signed statements each of which names all of that sequence *)
(* as it was at one moment.  Module Store is shown to implement it.        *)
(***************************************************************************)
EXTENDS Naturals, Sequences

CONSTANT Record

VARIABLES entries,   \* the log
          signed     \* the prefixes that were signed and published

Init == entries = <<>> /\ signed = {}

(* One atomic batch of new entries at the end.                             *)
Extend ==
  /\ entries' \in Seq(Record)
  /\ Len(entries') > Len(entries)
  /\ \A i \in 1..Len(entries) : entries'[i] = entries[i]
  /\ UNCHANGED signed

Sign == signed' = signed \cup {entries} /\ UNCHANGED entries

Next == Extend \/ Sign
Spec == Init /\ [][Next]_<<entries, signed>>

(* What a reader concludes: any two signed statements agree, the shorter   *)
(* being a prefix of the longer.                                           *)
NoEquivocation ==
  \A s, t \in signed :
     Len(s) <= Len(t) => \A i \in 1..Len(s) : s[i] = t[i]
=============================================================================
