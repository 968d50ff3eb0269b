------------------------------- MODULE Limiter -------------------------------
(***************************************************************************)
(* limits.FixedWindowLimiter.  The code only ever compares the start of a  *)
(* window with the present, so an entry keeps its age in ticks, Second of  *)
(* them a second, and no more of it than the window is long.  When a key   *)
(* was last seen only serves to order the keys: the table is a sequence,   *)
(* the key seen longest ago first.  allow runs under a lock.               *)
(***************************************************************************)
EXTENDS Naturals, Sequences, FiniteSets

CONSTANTS Window,    \* window_seconds, in ticks
          Second,    \* ticks in a second
          MaxKeys    \* max_keys

ASSUME LimiterAssumption ==
  /\ Window \in Nat \ {0} /\ Second \in Nat \ {0} /\ MaxKeys \in Nat \ {0}
  /\ Window % Second = 0

(* A tick of the clock.                                                    *)
Aged(table) ==
  [i \in DOMAIN table |->
     [table[i] EXCEPT !.age = IF @ < Window THEN @ + 1 ELSE @]]

Unexpired(entry) == entry.age < Window
Keys(table) == {table[i].key : i \in DOMAIN table}
Entry(table, k) == table[CHOOSE i \in DOMAIN table : table[i].key = k]
Fresh(k) == [key |-> k, age |-> 0, count |-> 0]

(* Slip: the count starts again but the window does not.                   *)
CurrentKept(table, k) ==
  IF k \notin Keys(table) THEN Fresh(k)
  ELSE IF Unexpired(Entry(table, k)) THEN Entry(table, k)
  ELSE [Entry(table, k) EXCEPT !.count = 0]

(* The window a request of k falls into.                                   *)
Current(table, k) ==
  IF k \in Keys(table) /\ Unexpired(Entry(table, k)) THEN Entry(table, k) ELSE Fresh(k)

(* Slip: rounded down, but at least a second.                              *)
RetryAfterFloor(entry) ==
  LET left == Window - entry.age
  IN  IF left < Second THEN 1 ELSE left \div Second

(* Whole seconds until the window ends, rounded up.                        *)
RetryAfter(entry) == (Window - entry.age + Second - 1) \div Second

(* The entries of a table at the indices I, in their order.                *)
Pick(table, I) ==
  LET at == CHOOSE f \in [1..Cardinality(I) -> I] :
              \A i, j \in DOMAIN f : i < j => f[i] < f[j]
  IN  [i \in DOMAIN at |-> table[at[i]]]

(* _bound_entries: a table that grew too large drops what has expired and, *)
(* as long as that is not enough, the key seen longest ago.                *)
BoundEntries(table) ==
  LET live == Pick(table, {i \in DOMAIN table : Unexpired(table[i])})
  IN  IF Len(table) <= MaxKeys THEN table
      ELSE IF Len(live) <= MaxKeys THEN live
      ELSE SubSeq(live, Len(live) - MaxKeys + 1, Len(live))

(* The table when e is the newest entry.                                   *)
Put(table, e) == Append(Pick(table, {i \in DOMAIN table : table[i].key # e.key}), e)

(* allow: what a request of k meets, with so many allowed in a window.     *)
Allow(table, k, requests) ==
  LET entry == Current(table, k)
  IN  IF entry.count >= requests
      THEN [allowed |-> FALSE, retry |-> RetryAfter(entry), table |-> Put(table, entry)]
      ELSE [allowed |-> TRUE, retry |-> 0,
            table |-> BoundEntries(Put(table, [entry EXCEPT !.count = @ + 1]))]
=============================================================================
