--------------------------- MODULE ServiceProofs ---------------------------
(***************************************************************************)
(* Theorems about module Service: the verifier thread over any number of   *)
(* lifespans of the process, the slots of the semaphore under any number   *)
(* of requests, and the limiters' tables under any clients, windows and    *)
(* rates.                                                                  *)
(***************************************************************************)
EXTENDS Service, FiniteSetTheorems, WellFoundedInduction, TLAPS

(***************************************************************************)
(* The verifier thread.                                                    *)
(***************************************************************************)

(* The one thread that may be alive is the one the store remembers, and a  *)
(* service that started it has not been told to stop it.                   *)
VerifierInv ==
  /\ thread \in [1..MaxLives -> {"none", "sleeping", "passing", "dead"}]
  /\ current \in 0..MaxLives
  /\ \A n \in 1..MaxLives : Alive(n) => n = current
  /\ ServiceIsVerified

(* The next thread has a number.                                           *)
LEMMA StartsType ==
  ASSUME thread \in [1..MaxLives -> {"none", "sleeping", "passing", "dead"}]
  PROVE  Starts \in Nat
  <1>1. MaxLives \in Nat BY ServiceAssumption
  <1>2. IsFiniteSet(1..MaxLives) BY <1>1, FS_Interval
  <1>3. IsFiniteSet({n \in DOMAIN thread : thread[n] # "none"})
    BY <1>2, FS_Subset
  <1> QED BY <1>3, FS_CardinalityType DEF Starts

(* Every step keeps it, the stop that times out included.                  *)
LEMMA VerifierStep ==
  ASSUME VerifierInv, [Next]_vars
  PROVE  VerifierInv'
  <1>0. MaxLives \in Nat \ {0} BY ServiceAssumption
  <1>1. ASSUME UNCHANGED <<thread, current, stop, racing, phase>> PROVE VerifierInv'
    BY <1>1 DEF VerifierInv, ServiceIsVerified, Alive
  <1>2. ASSUME NEW r \in Request,
               \/ \E c \in Client : Arrive(r, c)
               \/ Resume(r) \/ Overloaded(r) \/ Answer(r) \/ BodyRefused(r) \/ BodyEnds(r)
        PROVE  VerifierInv'
    BY <1>1, <1>2 DEF Arrive, Resume, Overloaded, Answer, BodyRefused, BodyEnds, verifier
  <1>3. CASE Tick BY <1>1, <1>3 DEF Tick, verifier
  <1>4. CASE Start
    <2>1. CASE Alive(current)
      BY <1>4, <2>1 DEF Start, VerifierInv, ServiceIsVerified, Alive
    <2>2. CASE ~Alive(current)
      <3>1. Starts + 1 \in 1..MaxLives
        BY <1>0, <1>4, StartsType DEF Start, VerifierInv
      <3>2. /\ thread' = [thread EXCEPT ![Starts + 1] = "sleeping"]
            /\ current' = Starts + 1 /\ stop' = FALSE
        BY <1>4, <2>2 DEF Start
      <3>3. \A n \in 1..MaxLives : ~Alive(n) BY <2>2 DEF VerifierInv
      <3> HIDE DEF Starts
      <3> QED BY <3>1, <3>2, <3>3 DEF VerifierInv, ServiceIsVerified, Alive
    <2> QED BY <2>1, <2>2
  <1>5. CASE Stop
    BY <1>5 DEF Stop, VerifierInv, ServiceIsVerified, Alive
  <1>6. CASE Join
    BY <1>0, <1>6 DEF Join, VerifierInv, ServiceIsVerified, Alive
  <1>7. ASSUME NEW n \in 1..MaxLives, Loop(n) PROVE VerifierInv'
    BY <1>7 DEF Loop, VerifierInv, ServiceIsVerified, Alive
  <1>8. CASE UNCHANGED vars BY <1>1, <1>8 DEF vars, verifier
  <1> QED BY <1>2, <1>3, <1>4, <1>5, <1>6, <1>7, <1>8 DEF Next

LEMMA VerifierInvariant == Spec => []VerifierInv
  <1>1. Init => VerifierInv
    <2>1. MaxLives \in Nat BY ServiceAssumption
    <2> QED BY <2>1 DEF Init, VerifierInv, ServiceIsVerified, Alive
  <1>2. VerifierInv /\ [Next]_vars => VerifierInv'
    BY VerifierStep
  <1>3. Spec => Init /\ [][Next]_vars BY PTL DEF Spec
  <1> QED BY <1>1, <1>2, <1>3, PTL

(* A service that started its own verifier thread keeps it, unstopped, for *)
(* as long as it serves.                                                   *)
THEOREM ServiceAlwaysVerified == Spec => []ServiceIsVerified
  <1>1. VerifierInv => ServiceIsVerified BY DEF VerifierInv
  <1> QED BY <1>1, VerifierInvariant, PTL

(* However starts, stops that time out and restarts follow each other,     *)
(* there is at most one verifier thread.                                   *)
THEOREM NeverTwoVerifiers == Spec => []OneVerifier
  <1>1. VerifierInv => OneVerifier
    <2> SUFFICES ASSUME VerifierInv PROVE OneVerifier
      OBVIOUS
    <2> DEFINE A == {n \in DOMAIN thread : Alive(n)}
    <2>1. A \subseteq {current} BY DEF VerifierInv
    <2>2. IsFiniteSet({current}) /\ Cardinality({current}) = 1 BY FS_Singleton
    <2>3. Cardinality(A) <= Cardinality({current}) BY <2>1, <2>2, FS_Subset
    <2> QED BY <2>2, <2>3 DEF OneVerifier
  <1> QED BY <1>1, VerifierInvariant, PTL
----------------------------------------------------------------------------
(***************************************************************************)
(* The slots.                                                              *)
(***************************************************************************)
Waiter == [req : Request, woken : BOOLEAN]

(* A request waits at most once, and is nowhere else meanwhile.            *)
Queued(q, ws) ==
  /\ q \in [Request -> {"idle", "waiting", "routed", "reading"}]
  /\ ws \in Seq(Waiter)
  /\ \A i \in 1..Len(ws) : q[ws[i].req] = "waiting"
  /\ \A i, j \in 1..Len(ws) : ws[i].req = ws[j].req => i = j

(* Holders, of any queue.                                                  *)
Woken(r, ws) == \E i \in 1..Len(ws) : ws[i].req = r /\ ws[i].woken
Holding(q, ws) == {r \in Request : q[r] \in {"routed", "reading"} \/ Woken(r, ws)}

(* The slots add up, and no free slot is waited for by sleepers alone.     *)
Balanced(f, q, ws) == f \in Nat /\ f + Cardinality(Holding(q, ws)) = Slots
Attended(f, ws) == f > 0 /\ ws # <<>> => \E i \in 1..Len(ws) : ws[i].woken

SlotInv == Queued(req, waiters) /\ Balanced(free, req, waiters) /\ Attended(free, waiters)

LEMMA HoldingFinite ==
  ASSUME NEW q, NEW ws
  PROVE  IsFiniteSet(Holding(q, ws)) /\ Cardinality(Holding(q, ws)) \in Nat
  <1>1. Holding(q, ws) \in SUBSET Request BY DEF Holding
  <1> QED BY <1>1, ServiceAssumption, FS_Subset, FS_CardinalityType

(* Holders of the model is Holding of its queue.                           *)
LEMMA HoldersAre ==
  ASSUME waiters \in Seq(Waiter)
  PROVE  Holders = Holding(req, waiters)
  <1>1. ASSUME NEW r \in Request PROVE Waiting(r, TRUE) # {} <=> Woken(r, waiters)
    <2>1. ASSUME NEW i \in 1..Len(waiters)
          PROVE  waiters[i] = [req |-> r, woken |-> TRUE] <=>
                   waiters[i].req = r /\ waiters[i].woken
      <3> DEFINE w == waiters[i]
      <3>1. w \in Waiter OBVIOUS
      <3> HIDE DEF w
      <3>2. PICK a \in Request, b \in BOOLEAN : w = [req |-> a, woken |-> b]
        BY <3>1 DEF Waiter
      <3>3. w.req = a /\ w.woken = b BY <3>2
      <3>4. w = [req |-> r, woken |-> TRUE] <=> a = r /\ b = TRUE
        BY <3>2
      <3> QED BY <3>3, <3>4 DEF w
    <2>2. DOMAIN waiters = 1..Len(waiters) OBVIOUS
    <2> QED BY <2>1, <2>2 DEF Waiting, Woken
  <1> QED BY <1>1 DEF Holders, Holding

(* Taking one waiter out of the queue leaves the others.                   *)
Removed(ws, i, e) ==
  /\ e \in Seq(Waiter) /\ Len(e) = Len(ws) - 1
  /\ \A j \in 1..Len(e) : \E k \in 1..Len(ws) : k # i /\ e[j] = ws[k]
  /\ \A k \in 1..Len(ws) : k # i => \E j \in 1..Len(e) : e[j] = ws[k]
  /\ \A j, k \in 1..Len(e) : e[j].req = e[k].req => j = k

LEMMA WithoutFacts ==
  ASSUME NEW q, NEW ws, Queued(q, ws), NEW i \in 1..Len(ws)
  PROVE  Removed(ws, i, Without(ws, i))
  <1> DEFINE e == Without(ws, i)
             n == Len(ws)
             At(j) == IF j < i THEN j ELSE j + 1
  <1>1. n \in Nat \ {0} /\ i \in Nat /\ \A k \in 1..n : ws[k] \in Waiter BY DEF Queued
  <1>2. /\ e = [j \in 1..(n - 1) |-> IF j < i THEN ws[j] ELSE ws[j + 1]] BY DEF Without
  <1>3. \A j \in 1..(n - 1) : At(j) \in 1..n /\ At(j) # i /\ e[j] = ws[At(j)]
    BY <1>1, <1>2
  <1>4. e \in Seq(Waiter) /\ Len(e) = n - 1
    BY <1>1, <1>2
  <1> HIDE DEF e
  <1>5. \A j, k \in 1..(n - 1) : At(j) = At(k) => j = k BY <1>1
  <1>6. ASSUME NEW k \in 1..n, k # i PROVE \E j \in 1..(n - 1) : e[j] = ws[k]
    <2>1. CASE k < i
      <3>1. k \in 1..(n - 1) /\ At(k) = k BY <1>1, <2>1
      <3> QED BY <1>3, <3>1
    <2>2. CASE k > i
      <3>1. k - 1 \in 1..(n - 1) /\ At(k - 1) = k BY <1>1, <2>2
      <3> QED BY <1>3, <3>1
    <2> QED BY <1>1, <1>6, <2>1, <2>2
  <1> HIDE DEF At
  <1>7. \A j, k \in 1..(n - 1) : e[j].req = e[k].req => j = k
    <2> SUFFICES ASSUME NEW j \in 1..(n - 1), NEW k \in 1..(n - 1), e[j].req = e[k].req
                 PROVE  j = k
      OBVIOUS
    <2>1. ws[At(j)].req = ws[At(k)].req /\ At(j) \in 1..n /\ At(k) \in 1..n BY <1>3
    <2>2. At(j) = At(k) BY <2>1 DEF Queued
    <2> QED BY <1>5, <2>2
  <1> QED BY <1>3, <1>4, <1>6, <1>7 DEF Removed, e

(* Of some waiters, one is the first.                                      *)
LEMMA LeastWaiter ==
  ASSUME NEW T \in SUBSET Nat, T # {}
  PROVE  \E x \in T : \A y \in T : x <= y
  <1> DEFINE R == OpToRel(<, Nat)
  <1>1. IsWellFoundedOn(R, Nat) BY NatLessThanWellFounded
  <1>2. \A x, y \in Nat : x < y => <<x, y>> \in R
    BY DEF OpToRel
  <1> HIDE DEF R
  <1>3. PICK x \in T : \A y \in T : ~(<<y, x>> \in R)
    BY <1>1, WFMin
  <1>4. ASSUME NEW y \in T PROVE x <= y
    <2>1. x \in Nat /\ y \in Nat /\ <<y, x>> \notin R BY <1>3
    <2>2. ~(y < x) BY <1>2, <2>1
    <2> QED BY <2>1, <2>2
  <1> QED BY <1>4

(* Handing a slot on: the first sleeper gets it, or it is free.            *)
LEMMA WakeFacts ==
  ASSUME NEW f \in Nat, f > 0, NEW q, NEW ws, Queued(q, ws), Balanced(f, q, ws),
         NEW g, g = WakeNext(f, ws).free, NEW e, e = WakeNext(f, ws).waiters
  PROVE  Queued(q, e) /\ Balanced(g, q, e) /\ Attended(g, e)
  <1> DEFINE asleep == {i \in DOMAIN ws : ~ws[i].woken}
             least == CHOOSE i \in asleep : \A j \in asleep : i <= j
  <1>1. ws \in Seq(Waiter) /\ DOMAIN ws = 1..Len(ws) /\ Len(ws) \in Nat BY DEF Queued
  <1>2. CASE asleep = {}
    <2>1. g = f /\ e = ws BY <1>2 DEF WakeNext
    <2>2. ws # <<>> => 1 \in 1..Len(ws) /\ ws[1].woken BY <1>1, <1>2
    <2> QED BY <2>1, <2>2 DEF Attended
  <1>3. CASE asleep # {}
    <2>1. least \in asleep
      <3>1. asleep \in SUBSET Nat BY <1>1
      <3>2. \E i \in asleep : \A j \in asleep : i <= j BY <1>3, <3>1, LeastWaiter
      <3> QED BY <3>2
    <2>2. g = f - 1 /\ e = [ws EXCEPT ![least].woken = TRUE] BY <1>3 DEF WakeNext
    <2> HIDE DEF least
    <2>3. least \in 1..Len(ws) /\ ~ws[least].woken BY <1>1, <2>1
    <2>4. /\ Len(e) = Len(ws) /\ e \in Seq(Waiter)
          /\ \A i \in 1..Len(ws) : e[i].req = ws[i].req
          /\ \A i \in 1..Len(ws) : i # least => e[i].woken = ws[i].woken
          /\ e[least].woken = TRUE
      <3>1. ws[least] \in Waiter BY <1>1, <2>3
      <3>2. [ws[least] EXCEPT !.woken = TRUE] \in Waiter
            /\ [ws[least] EXCEPT !.woken = TRUE].req = ws[least].req
            /\ [ws[least] EXCEPT !.woken = TRUE].woken = TRUE
        BY <3>1 DEF Waiter
      <3>3. e = [ws EXCEPT ![least] = [ws[least] EXCEPT !.woken = TRUE]] BY <2>2
      <3> DEFINE w == [ws[least] EXCEPT !.woken = TRUE]
      <3> HIDE DEF w
      <3>4. w \in Waiter /\ w.req = ws[least].req /\ w.woken = TRUE
            /\ e = [ws EXCEPT ![least] = w]
        BY <3>2, <3>3 DEF w
      <3> QED BY <1>1, <2>3, <3>4
    <2>5. Queued(q, e) BY <2>4 DEF Queued
    <2>6. Attended(g, e) BY <2>3, <2>4 DEF Attended
    <2> DEFINE r == ws[least].req
               H == Holding(q, ws)
    <2>7. r \in Request /\ q[r] = "waiting" /\ ~Woken(r, ws)
      <3>1. ws[least] \in Waiter BY <1>1, <2>3
      <3>2. r \in Request BY <3>1 DEF Waiter
      <3> QED BY <2>3, <3>2 DEF Queued, Woken
    <2>8. r \notin H BY <2>7 DEF Holding
    <2>9. Holding(q, e) = H \cup {r}
      <3>1. \A x \in Request : Woken(x, e) <=> Woken(x, ws) \/ x = r
        BY <2>3, <2>4 DEF Woken
      <3> QED BY <2>7, <3>1 DEF Holding
    <2>10. Cardinality(H \cup {r}) = Cardinality(H) + 1
      BY <2>8, HoldingFinite, FS_AddElement
    <2>11. Cardinality(H) \in Nat BY HoldingFinite
    <2>12. Balanced(g, q, e)
      <3> HIDE DEF H, r
      <3>1. f + Cardinality(H) = Slots BY DEF Balanced, H
      <3>2. Cardinality(Holding(q, e)) = Cardinality(H) + 1 BY <2>9, <2>10
      <3>3. g \in Nat /\ g + (Cardinality(H) + 1) = Slots BY <2>2, <2>11, <3>1
      <3> QED BY <3>2, <3>3 DEF Balanced
    <2> QED BY <2>5, <2>6, <2>12
  <1> QED BY <1>2, <1>3

(* A waiter leaves the queue for a place where nobody waits.               *)
Moves(q, r, place, p) == place \in {"idle", "routed", "reading"} /\ p = [q EXCEPT ![r] = place]
Departed(q, ws, i, r, place, p, e) ==
  /\ p[r] = place /\ (Woken(r, ws) <=> ws[i].woken)
  /\ Queued(p, e) /\ r \in Request /\ q[r] = "waiting" /\ ~Woken(r, e)
  /\ \A x \in Request : x # r => (Woken(x, e) <=> Woken(x, ws))
  /\ \A x \in Request : x # r => p[x] = q[x]

LEMMA Unqueued ==
  ASSUME NEW q, NEW ws, Queued(q, ws), NEW i \in 1..Len(ws),
         NEW r, ws[i].req = r, NEW p, NEW place, Moves(q, r, place, p)
  PROVE  Departed(q, ws, i, r, place, p, Without(ws, i))
  <1> DEFINE e == Without(ws, i)
  <1>1. Removed(ws, i, e) BY WithoutFacts
  <1> HIDE DEF e
  <1>2. \A k \in 1..Len(ws) : ws[k].req \in Request /\ q[ws[k].req] = "waiting"
    <2>1. \A k \in 1..Len(ws) : ws[k] \in Waiter BY DEF Queued
    <2> QED BY <2>1 DEF Queued, Waiter
  <1>3. r \in Request /\ q[r] = "waiting" BY <1>2
  <1>4. /\ p \in [Request -> {"idle", "waiting", "routed", "reading"}]
        /\ p[r] = place /\ \A x \in Request : x # r => p[x] = q[x]
    BY <1>3 DEF Queued, Moves
  <1>5. \A k \in 1..Len(ws) : k # i => ws[k].req # r BY DEF Queued
  <1>10. Woken(r, ws) <=> ws[i].woken BY <1>5 DEF Woken
  <1>6. ASSUME NEW j \in 1..Len(e)
        PROVE  e[j].req # r /\ e[j].req \in Request /\ q[e[j].req] = "waiting"
    <2>1. PICK k \in 1..Len(ws) : k # i /\ e[j] = ws[k] BY <1>1 DEF Removed
    <2> QED BY <1>2, <1>5, <2>1
  <1>7. Queued(p, e)
    <2>1. e \in Seq(Waiter) /\ \A j, k \in 1..Len(e) : e[j].req = e[k].req => j = k
      BY <1>1 DEF Removed
    <2>2. \A j \in 1..Len(e) : p[e[j].req] = "waiting" BY <1>4, <1>6
    <2> QED BY <1>4, <2>1, <2>2 DEF Queued
  <1>8. ~Woken(r, e) BY <1>6 DEF Woken
  <1>9. ASSUME NEW x \in Request, x # r PROVE Woken(x, e) <=> Woken(x, ws)
    <2>1. ASSUME NEW j \in 1..Len(e), e[j].req = x, e[j].woken PROVE Woken(x, ws)
      <3>1. PICK k \in 1..Len(ws) : k # i /\ e[j] = ws[k] BY <1>1 DEF Removed
      <3> QED BY <2>1, <3>1 DEF Woken
    <2>2. ASSUME NEW k \in 1..Len(ws), ws[k].req = x, ws[k].woken PROVE Woken(x, e)
      <3>1. k # i BY <1>9, <2>2
      <3>2. PICK j \in 1..Len(e) : e[j] = ws[k] BY <1>1, <3>1 DEF Removed
      <3> QED BY <2>2, <3>2 DEF Woken
    <2> QED BY <2>1, <2>2 DEF Woken
  <1>11. Departed(q, ws, i, r, place, p, e) BY <1>3, <1>4, <1>7, <1>8, <1>9, <1>10 DEF Departed
  <1> QED BY <1>11 DEF e

(* A request that holds a slot gives it back.                              *)
LEMMA GivesBack ==
  ASSUME NEW f, NEW q, NEW ws, Balanced(f, q, ws), NEW p, NEW e, NEW r \in Holding(q, ws),
         Holding(p, e) = Holding(q, ws) \ {r}
  PROVE  Balanced(f + 1, p, e) /\ f + 1 \in Nat /\ f + 1 > 0
  <1> DEFINE H == Holding(q, ws)
  <1>1. IsFiniteSet(H) /\ Cardinality(H) \in Nat BY HoldingFinite
  <1>2. Cardinality(H \ {r}) = Cardinality(H) - 1
    BY <1>1, FS_RemoveElement
  <1>3. f \in Nat /\ f + Cardinality(H) = Slots BY DEF Balanced
  <1>4. Holding(p, e) = H \ {r} OBVIOUS
  <1> HIDE DEF H
  <1>5. Cardinality(Holding(p, e)) = Cardinality(H) - 1 BY <1>2, <1>4
  <1>6. (f + 1) + (Cardinality(H) - 1) = Slots BY <1>1, <1>3
  <1> QED BY <1>3, <1>5, <1>6 DEF Balanced

(* The end of a request, by whichever way out.                             *)
LEMMA LeaveKeeps ==
  ASSUME SlotInv, NEW r \in Request, req[r] \in {"routed", "reading"}, Leave(r)
  PROVE  SlotInv'
  <1> DEFINE p == [req EXCEPT ![r] = "idle"]
  <1>1. /\ Queued(req, waiters) /\ Balanced(free, req, waiters)
        /\ req' = p /\ Wake(free + 1, waiters)
    BY DEF SlotInv, Leave
  <1>2. /\ p \in [Request -> {"idle", "waiting", "routed", "reading"}]
        /\ p[r] = "idle" /\ \A x \in Request : x # r => p[x] = req[x]
    BY <1>1 DEF Queued
  <1> HIDE DEF p
  <1>3. \A i \in 1..Len(waiters) : waiters[i].req \in Request /\ waiters[i].req # r
    <2>1. \A i \in 1..Len(waiters) : waiters[i] \in Waiter BY <1>1 DEF Queued
    <2> QED BY <1>1, <2>1 DEF Queued, Waiter
  <1>4. Queued(p, waiters) BY <1>1, <1>2, <1>3 DEF Queued
  <1>5. r \in Holding(req, waiters) BY DEF Holding
  <1>6. Holding(p, waiters) = Holding(req, waiters) \ {r}
    <2>1. ~Woken(r, waiters) BY <1>3 DEF Woken
    <2> QED BY <1>2, <2>1 DEF Holding
  <1>7. Balanced(free + 1, p, waiters) /\ free + 1 \in Nat /\ free + 1 > 0
    BY <1>1, <1>5, <1>6, GivesBack
  <1>8. Queued(p, waiters') /\ Balanced(free', p, waiters') /\ Attended(free', waiters')
    BY <1>1, <1>4, <1>7, WakeFacts DEF Wake
  <1> QED BY <1>1, <1>8 DEF SlotInv

(* Every step keeps the slots accounted for.                               *)
LEMMA SlotStep ==
  ASSUME SlotInv, [Next]_vars
  PROVE  SlotInv'
  <1>0. /\ Queued(req, waiters) /\ Balanced(free, req, waiters) /\ Attended(free, waiters)
        /\ free \in Nat /\ waiters \in Seq(Waiter) /\ DOMAIN waiters = 1..Len(waiters)
    BY DEF SlotInv, Queued, Balanced
  <1>1. ASSUME UNCHANGED pool PROVE SlotInv'
    BY <1>1 DEF pool, SlotInv, Queued, Balanced, Attended, Holding, Woken
  <1>2. ASSUME NEW r \in Request, NEW c \in Client, Arrive(r, c) PROVE SlotInv'
    <2>1. req[r] = "idle" BY <1>2 DEF Arrive
    <2>2. \A i \in 1..Len(waiters) : waiters[i].req \in Request /\ waiters[i].req # r
      <3>1. \A i \in 1..Len(waiters) : waiters[i] \in Waiter BY <1>0
      <3> QED BY <1>0, <2>1, <3>1 DEF Queued, Waiter
    <2>3. CASE free > 0 /\ waiters = <<>> /\ free' = free - 1 /\ Routed(r) /\ UNCHANGED waiters
      <3>1. PICK route \in {"routed", "reading"} : req' = [req EXCEPT ![r] = route]
        BY <2>3 DEF Routed
      <3>2. /\ req' \in [Request -> {"idle", "waiting", "routed", "reading"}]
            /\ req'[r] = route /\ \A x \in Request : x # r => req'[x] = req[x]
        BY <1>0, <3>1 DEF Queued
      <3>3. Queued(req', waiters) BY <1>0, <2>2, <3>2 DEF Queued
      <3> DEFINE H == Holding(req, waiters)
      <3>4. Holding(req', waiters) = H \cup {r} /\ r \notin H
        <4>1. ~Woken(r, waiters) BY <2>2 DEF Woken
        <4> QED BY <2>1, <3>2, <4>1 DEF Holding
      <3>5. /\ IsFiniteSet(H) /\ Cardinality(H) \in Nat /\ free + Cardinality(H) = Slots
        BY <1>0, HoldingFinite DEF Balanced
      <3> HIDE DEF H
      <3>6. Cardinality(Holding(req', waiters)) = Cardinality(H) + 1
        BY <3>4, <3>5, FS_AddElement
      <3>7. free' \in Nat /\ free' + (Cardinality(H) + 1) = Slots
        BY <1>0, <2>3, <3>5
      <3>8. Balanced(free', req', waiters) BY <3>6, <3>7 DEF Balanced
      <3>9. Attended(free', waiters) BY <2>3 DEF Attended
      <3> QED BY <2>3, <3>3, <3>8, <3>9 DEF SlotInv
    <2>4. CASE /\ free = 0 \/ waiters # <<>>
               /\ waiters' = Append(waiters, [req |-> r, woken |-> FALSE])
               /\ req' = [req EXCEPT ![r] = "waiting"] /\ UNCHANGED free
      <3> DEFINE w == [req |-> r, woken |-> FALSE]
                 n == Len(waiters)
      <3>1. w \in Waiter /\ w.req = r /\ w.woken = FALSE BY DEF Waiter
      <3> HIDE DEF w
      <3>2. /\ waiters' \in Seq(Waiter) /\ Len(waiters') = n + 1 /\ n \in Nat
            /\ waiters'[n + 1] = w /\ \A i \in 1..n : waiters'[i] = waiters[i]
        BY <1>0, <2>4, <3>1 DEF w
      <3>3. /\ req' \in [Request -> {"idle", "waiting", "routed", "reading"}]
            /\ req'[r] = "waiting" /\ \A x \in Request : x # r => req'[x] = req[x]
        BY <1>0, <2>4 DEF Queued
      <3>4. Queued(req', waiters')
        <4>1. ASSUME NEW i \in 1..(n + 1) PROVE req'[waiters'[i].req] = "waiting"
          <5>1. CASE i = n + 1 BY <3>1, <3>2, <3>3, <5>1
          <5>2. CASE i # n + 1
            <6>1. i \in 1..n BY <3>2, <5>2
            <6> QED BY <1>0, <2>2, <3>2, <3>3, <6>1 DEF Queued
          <5> QED BY <5>1, <5>2
        <4>2. ASSUME NEW i \in 1..(n + 1), NEW j \in 1..(n + 1), waiters'[i].req = waiters'[j].req
              PROVE  i = j
          <5>1. \A k \in 1..n : waiters'[k].req # r BY <2>2, <3>2
          <5>2. waiters'[n + 1].req = r BY <3>1, <3>2
          <5>3. i # n + 1 => i \in 1..n BY <3>2
          <5>4. j # n + 1 => j \in 1..n BY <3>2
          <5> QED BY <1>0, <3>2, <4>2, <5>1, <5>2, <5>3, <5>4 DEF Queued
        <4> QED BY <3>2, <3>3, <4>1, <4>2 DEF Queued
      <3>5. Holding(req', waiters') = Holding(req, waiters)
        <4>1. ASSUME NEW x PROVE Woken(x, waiters') <=> Woken(x, waiters)
          <5>1. \A i \in 1..(n + 1) : i \in 1..n \/ i = n + 1 BY <3>2
          <5>2. \A i \in 1..n : i \in 1..(n + 1) BY <3>2
          <5> QED BY <3>1, <3>2, <5>1, <5>2 DEF Woken
        <4> QED BY <2>1, <3>3, <4>1 DEF Holding
      <3>6. Balanced(free', req', waiters') BY <1>0, <2>4, <3>5 DEF Balanced
      <3>7. Attended(free', waiters')
        <4>1. \A i \in 1..n : i \in 1..(n + 1) BY <3>2
        <4> QED BY <1>0, <2>4, <3>2, <4>1 DEF Attended
      <3> QED BY <3>4, <3>6, <3>7 DEF SlotInv
    <2> QED BY <1>1, <1>2, <2>3, <2>4 DEF Arrive
  <1>3. ASSUME NEW r \in Request, Resume(r) PROVE SlotInv'
    <2>1. PICK i \in Waiting(r, TRUE) :
            IF free > 0 THEN Wake(free, Without(waiters, i))
            ELSE waiters' = Without(waiters, i) /\ UNCHANGED free
      BY <1>3 DEF Resume
    <2>2. PICK route \in {"routed", "reading"} : req' = [req EXCEPT ![r] = route]
      BY <1>3 DEF Resume, Routed
    <2>3. i \in 1..Len(waiters) /\ waiters[i].req = r /\ waiters[i].woken
      BY <1>0, <2>1 DEF Waiting
    <2> DEFINE e == Without(waiters, i)
    <2>3a. Moves(req, r, route, req') BY <2>2 DEF Moves
    <2>4. Departed(req, waiters, i, r, route, req', e) BY <1>0, <2>3, <2>3a, Unqueued
    <2> HIDE DEF e
    <2>5. Holding(req', e) = Holding(req, waiters) /\ Queued(req', e)
      BY <2>3, <2>4 DEF Holding, Departed
    <2>6. Balanced(free, req', e) BY <1>0, <2>5 DEF Balanced
    <2>7. CASE free > 0
      <3>1. Queued(req', waiters') /\ Balanced(free', req', waiters') /\ Attended(free', waiters')
        BY <1>0, <2>1, <2>5, <2>6, <2>7, WakeFacts DEF Wake, e
      <3> QED BY <3>1 DEF SlotInv
    <2>8. CASE ~(free > 0)
      <3>1. waiters' = e /\ free' = free BY <2>1, <2>8 DEF e
      <3> QED BY <2>5, <2>6, <2>8, <3>1 DEF SlotInv, Attended
    <2> QED BY <2>7, <2>8
  <1>4. ASSUME NEW r \in Request, Overloaded(r) PROVE SlotInv'
    <2>1. Moves(req, r, "idle", req') BY <1>4 DEF Overloaded, Moves
    <2>2. ASSUME NEW i \in Waiting(r, TRUE), Wake(free + 1, Without(waiters, i))
          PROVE  SlotInv'
      <3>1. i \in 1..Len(waiters) /\ waiters[i].req = r /\ waiters[i].woken
        BY <1>0, <2>2 DEF Waiting
      <3> DEFINE e == Without(waiters, i)
      <3>2. Departed(req, waiters, i, r, "idle", req', e) BY <1>0, <2>1, <3>1, Unqueued
      <3> HIDE DEF e
      <3>3. /\ r \in Holding(req, waiters) /\ Holding(req', e) = Holding(req, waiters) \ {r}
            /\ Queued(req', e)
        BY <3>1, <3>2 DEF Holding, Departed
      <3>4. Balanced(free + 1, req', e) /\ free + 1 \in Nat /\ free + 1 > 0
        BY <1>0, <3>3, GivesBack
      <3>5. Queued(req', waiters') /\ Balanced(free', req', waiters') /\ Attended(free', waiters')
        BY <2>2, <3>3, <3>4, WakeFacts DEF Wake, e
      <3> QED BY <3>5 DEF SlotInv
    <2>3. ASSUME NEW i \in Waiting(r, FALSE), waiters' = Without(waiters, i), UNCHANGED free
          PROVE  SlotInv'
      <3>1. i \in 1..Len(waiters) /\ waiters[i].req = r /\ ~waiters[i].woken
        BY <1>0, <2>3 DEF Waiting
      <3>2. Departed(req, waiters, i, r, "idle", req', waiters')
        BY <1>0, <2>1, <2>3, <3>1, Unqueued
      <3>3. Holding(req', waiters') = Holding(req, waiters) /\ Queued(req', waiters')
        BY <3>1, <3>2 DEF Holding, Departed
      <3>4. Balanced(free', req', waiters') BY <1>0, <2>3, <3>3 DEF Balanced
      <3>5. Attended(free', waiters')
        <4> SUFFICES ASSUME free > 0 PROVE \E j \in 1..Len(waiters') : waiters'[j].woken
          BY <2>3 DEF Attended
        <4>1. waiters # <<>> BY <1>0, <3>1
        <4>2. PICK k \in 1..Len(waiters) : waiters[k].woken BY <1>0, <4>1 DEF Attended
        <4>3. k # i BY <3>1, <4>2
        <4>4. Removed(waiters, i, waiters') BY <1>0, <2>3, <3>1, WithoutFacts
        <4>5. \E j \in 1..Len(waiters') : waiters'[j] = waiters[k]
          BY <4>3, <4>4 DEF Removed
        <4> QED BY <4>2, <4>5
      <3> QED BY <3>3, <3>4, <3>5 DEF SlotInv
    <2> QED BY <1>4, <2>2, <2>3 DEF Overloaded
  <1>5. ASSUME NEW r \in Request, Answer(r) \/ BodyRefused(r) \/ BodyEnds(r) PROVE SlotInv'
    BY <1>5, LeaveKeeps DEF Answer, BodyRefused, BodyEnds
  <1>6. CASE Start \/ Stop \/ Join \/ (\E n \in 1..MaxLives : Loop(n)) \/ Tick
    BY <1>1, <1>6 DEF Start, Stop, Join, Loop, Tick
  <1>7. CASE UNCHANGED vars BY <1>1, <1>7 DEF vars
  <1> QED BY <1>2, <1>3, <1>4, <1>5, <1>6, <1>7 DEF Next

LEMMA SlotInvariant == Spec => []SlotInv
  <1>1. Init => SlotInv
    <2> SUFFICES ASSUME Init PROVE SlotInv
      OBVIOUS
    <2>1. Slots \in Nat BY ServiceAssumption
    <2>2. /\ free = Slots /\ waiters = <<>> /\ req = [r \in Request |-> "idle"]
      BY DEF Init
    <2>3. Queued(req, waiters) /\ Attended(free, waiters) BY <2>2 DEF Queued, Attended
    <2>4. Holding(req, waiters) = {} BY <2>2 DEF Holding, Woken
    <2>5. Cardinality(Holding(req, waiters)) = 0 BY <2>4, FS_EmptySet
    <2>6. Balanced(free, req, waiters) BY <2>1, <2>2, <2>5 DEF Balanced
    <2> QED BY <2>3, <2>6 DEF SlotInv
  <1>2. SlotInv /\ [Next]_vars => SlotInv'
    BY SlotStep
  <1>3. Spec => Init /\ [][Next]_vars BY PTL DEF Spec
  <1> QED BY <1>1, <1>2, <1>3, PTL

(* Every slot is accounted for at every moment, whichever way the requests *)
(* end: answered, refused, cancelled while they wait or just after they    *)
(* were woken.                                                             *)
THEOREM SlotsAlwaysAccounted == Spec => []SlotsAccounted
  <1>1. SlotInv => SlotsAccounted
    <2> SUFFICES ASSUME SlotInv PROVE SlotsAccounted
      OBVIOUS
    <2>1. Holders = Holding(req, waiters) BY HoldersAre DEF SlotInv, Queued
    <2>2. DOMAIN waiters = 1..Len(waiters) BY DEF SlotInv, Queued
    <2> QED BY <2>1, <2>2 DEF SlotInv, Balanced, Attended, SlotsAccounted
  <1> QED BY <1>1, SlotInvariant, PTL
----------------------------------------------------------------------------
(***************************************************************************)
(* The limiters' tables.                                                   *)
(***************************************************************************)
Entries(K) == [key : K, age : (0..Window), count : Nat]

(* One entry per key.                                                      *)
IsTable(t, K) ==
  /\ t \in Seq(Entries(K))
  /\ \A i, j \in 1..Len(t) : t[i].key = t[j].key => i = j

Increasing(f, n) == \A i, j \in 1..n : i < j => f[i] < f[j]
InOrder(I, n) == n = Cardinality(I) /\ \E f \in [1..n -> I] : Increasing(f, n)

(* The indices of some entries can be put in order ...                     *)
LEMMA IndicesInOrder ==
  ASSUME NEW m \in Nat, NEW I \in SUBSET (1..m)
  PROVE  InOrder(I, Cardinality(I))
  <1> DEFINE Bad == {k \in Nat : \E J \in SUBSET (1..k) : ~InOrder(J, Cardinality(J))}
  <1>1. SUFFICES ASSUME Bad # {} PROVE FALSE
    OBVIOUS
  <1>2. PICK k \in Bad : \A x \in Bad : k <= x
    <2>1. Bad \in SUBSET Nat OBVIOUS
    <2> HIDE DEF Bad
    <2> QED BY <1>1, <2>1, LeastWaiter
  <1>3. PICK J \in SUBSET (1..k) : ~InOrder(J, Cardinality(J)) BY <1>2
  <1>4. k \in Nat /\ \A x \in Nat : x < k => x \notin Bad BY <1>2
  <1>5. IsFiniteSet(1..k) BY <1>4, FS_Interval
  <1>6. IsFiniteSet(J) /\ Cardinality(J) \in Nat BY <1>5, FS_Subset, FS_CardinalityType
  <1>7. ASSUME J = {} PROVE FALSE
    <2>1. Cardinality(J) = 0 BY <1>7, FS_EmptySet
    <2> DEFINE f == [i \in 1..0 |-> 0]
    <2>2. 1..0 = {} OBVIOUS
    <2>3. f \in [1..0 -> J] /\ Increasing(f, 0) BY <2>2 DEF Increasing
    <2> HIDE DEF f
    <2>4. InOrder(J, 0) BY <2>1, <2>3 DEF InOrder
    <2> QED BY <1>3, <2>1, <2>4
  <1>8. k # 0 BY <1>4, <1>7
  <1>9. k - 1 \in Nat /\ k - 1 < k BY <1>4, <1>8
  <1>10. k \in J
    <2>1. ASSUME k \notin J PROVE J \in SUBSET (1..(k - 1)) BY <1>4, <2>1
    <2>2. k - 1 \notin Bad BY <1>4, <1>9
    <2> QED BY <1>3, <1>9, <2>1, <2>2
  <1> DEFINE H == J \ {k}
             n == Cardinality(H)
  <1>11. H \in SUBSET (1..(k - 1)) BY <1>4
  <1>12. n + 1 = Cardinality(J) /\ n \in Nat
    <2>1. IsFiniteSet(H) BY <1>6, FS_Subset
    <2>2. n \in Nat BY <2>1, FS_CardinalityType
    <2>3. Cardinality(H) = Cardinality(J) - 1 BY <1>6, <1>10, FS_RemoveElement
    <2> HIDE DEF H
    <2> QED BY <1>6, <2>2, <2>3
  <1>13. InOrder(H, n)
    <2>1. k - 1 \notin Bad BY <1>4, <1>9
    <2> HIDE DEF H
    <2> QED BY <1>9, <1>11, <2>1
  <1>14. PICK f \in [1..n -> H] : Increasing(f, n) BY <1>13 DEF InOrder
  <1> HIDE DEF n, Bad
  <1> DEFINE g == [i \in 1..(n + 1) |-> IF i = n + 1 THEN k ELSE f[i]]
  <1>15. \A i \in 1..n : g[i] = f[i] /\ f[i] \in H /\ f[i] < k
    <2>1. \A x \in H : x < k BY <1>4, <1>11
    <2>2. \A i \in 1..n : i \in 1..(n + 1) /\ i # n + 1 BY <1>12
    <2> HIDE DEF H
    <2> QED BY <1>14, <2>1, <2>2
  <1>16. g[n + 1] = k BY <1>12
  <1>17. \A i \in 1..(n + 1) : i = n + 1 \/ i \in 1..n BY <1>12
  <1>18. g \in [1..(n + 1) -> J] BY <1>10, <1>15, <1>16, <1>17
  <1> HIDE DEF g, H
  <1>19. Increasing(g, n + 1)
    <2> SUFFICES ASSUME NEW i \in 1..(n + 1), NEW j \in 1..(n + 1), i < j PROVE g[i] < g[j]
      BY DEF Increasing
    <2>1. i \in 1..n BY <1>12
    <2>2. CASE j = n + 1 BY <1>15, <1>16, <2>1, <2>2
    <2>3. CASE j \in 1..n BY <1>14, <1>15, <2>1, <2>3 DEF Increasing
    <2> QED BY <1>17, <2>2, <2>3
  <1> QED BY <1>3, <1>12, <1>18, <1>19 DEF InOrder

(* ... and then each of them has a place, the greatest the last.           *)
Placed(m, I, n, f) ==
  /\ n \in Nat /\ n <= m
  /\ \A x \in I : \E i \in 1..n : f[i] = x
  /\ \A i, j \in 1..n : f[i] = f[j] => i = j
  /\ m \in I => n # 0 /\ f[n] = m

LEMMA IndicesPlaced ==
  ASSUME NEW m \in Nat, NEW I \in SUBSET (1..m), NEW n, n = Cardinality(I),
         NEW f \in [1..n -> I], Increasing(f, n)
  PROVE  Placed(m, I, n, f)
  <1>0. \A i \in 1..n : f[i] \in I /\ f[i] \in Nat
    <2>1. I \subseteq Nat OBVIOUS
    <2>2. \A i \in 1..n : f[i] \in I OBVIOUS
    <2> QED BY <2>1, <2>2
  <1>1. IsFiniteSet(1..m) /\ Cardinality(1..m) = m BY FS_Interval
  <1>2. IsFiniteSet(I) /\ n <= m
    <2>1. IsFiniteSet(I) /\ Cardinality(I) <= Cardinality(1..m) BY <1>1, FS_Subset
    <2> QED BY <1>1, <2>1
  <1>3. n \in Nat BY <1>2, FS_CardinalityType
  <1>4. IsFiniteSet(1..n) /\ Cardinality(1..n) = n BY <1>3, FS_Interval
  <1>5. \A i, j \in 1..n : f[i] = f[j] => i = j
    <2> SUFFICES ASSUME NEW i \in 1..n, NEW j \in 1..n, i # j PROVE f[i] # f[j]
      OBVIOUS
    <2>1. i < j \/ j < i BY <1>3
    <2>3. f[i] \in Nat /\ f[j] \in Nat BY <1>0
    <2> QED BY <2>1, <2>3 DEF Increasing
  <1>6. f \in Surjection(1..n, I)
    <2>1. f \in Injection(1..n, I) BY <1>5 DEF Injection, IsInjective
    <2> QED BY <1>2, <1>4, <2>1, FS_Injection
  <1>7. \A x \in I : \E i \in 1..n : f[i] = x BY <1>6 DEF Surjection
  <1>8. ASSUME m \in I PROVE n # 0 /\ f[n] = m
    <2>1. PICK i \in 1..n : f[i] = m BY <1>7, <1>8
    <2>2. n # 0 /\ n \in 1..n BY <1>3, <2>1
    <2>3. f[n] \in 1..m BY <2>2
    <2>4. i < n => f[i] < f[n] BY <2>2 DEF Increasing
    <2>5. i = n BY <1>3, <2>1, <2>3, <2>4
    <2> QED BY <2>1, <2>2, <2>5
  <1> QED BY <1>2, <1>3, <1>5, <1>7, <1>8 DEF Placed

(* What is picked of a table: entries of it, at most one per key.          *)
Picked(t, I, e, K) ==
  /\ IsTable(e, K) /\ Len(e) = Cardinality(I) /\ Len(e) <= Len(t)
  /\ \A i \in 1..Len(e) : \E j \in I : e[i] = t[j]
  /\ \A j \in I : \E i \in 1..Len(e) : e[i] = t[j]
  /\ Len(t) \in I => Len(e) # 0 /\ e[Len(e)] = t[Len(t)]

LEMMA PickFacts ==
  ASSUME NEW K, NEW t, IsTable(t, K), NEW I \in SUBSET (1..Len(t))
  PROVE  Picked(t, I, Pick(t, I), K)
  <1> DEFINE n == Cardinality(I)
             at == CHOOSE f \in [1..n -> I] : \A i, j \in DOMAIN f : i < j => f[i] < f[j]
             e == [i \in 1..n |-> t[at[i]]]
  <1>1. t \in Seq(Entries(K)) /\ Len(t) \in Nat /\ \A j \in 1..Len(t) : t[j] \in Entries(K)
    BY DEF IsTable
  <1>2. PICK f \in [1..n -> I] : Increasing(f, n) BY <1>1, IndicesInOrder DEF InOrder
  <1>3. DOMAIN f = 1..n /\ \A i, j \in DOMAIN f : i < j => f[i] < f[j] BY <1>2 DEF Increasing
  <1>4. at \in [1..n -> I] /\ \A i, j \in DOMAIN at : i < j => at[i] < at[j]
    BY <1>2, <1>3
  <1>5. Pick(t, I) = e BY <1>4 DEF Pick
  <1> HIDE DEF at
  <1>6. Increasing(at, n) BY <1>4 DEF Increasing
  <1>7a. Placed(Len(t), I, n, at) BY <1>1, <1>4, <1>6, IndicesPlaced
  <1>7. /\ n \in Nat /\ n <= Len(t)
        /\ \A x \in I : \E i \in 1..n : at[i] = x
        /\ \A i, j \in 1..n : at[i] = at[j] => i = j
        /\ Len(t) \in I => n # 0 /\ at[n] = Len(t)
    BY <1>7a DEF Placed
  <1> HIDE DEF n
  <1>8. \A i \in 1..n : e[i] = t[at[i]] /\ at[i] \in I /\ at[i] \in 1..Len(t)
    BY <1>4
  <1>9. e \in Seq(Entries(K)) /\ Len(e) = n
    <2>1. \A i \in 1..n : t[at[i]] \in Entries(K) BY <1>1, <1>8
    <2> QED BY <1>7, <2>1
  <1> HIDE DEF e
  <1>10. ASSUME NEW i \in 1..n, NEW j \in 1..n, e[i].key = e[j].key PROVE i = j
    <2>1. t[at[i]].key = t[at[j]].key BY <1>8, <1>10
    <2>2. at[i] = at[j] BY <1>8, <2>1 DEF IsTable
    <2> QED BY <1>7, <2>2
  <1>11. IsTable(e, K) BY <1>9, <1>10 DEF IsTable
  <1>12. \A j \in I : \E i \in 1..n : e[i] = t[j] BY <1>7, <1>8
  <1>13. Len(t) \in I => n # 0 /\ e[n] = t[Len(t)]
    <2> SUFFICES ASSUME Len(t) \in I PROVE n # 0 /\ e[n] = t[Len(t)]
      OBVIOUS
    <2>1. n # 0 /\ at[n] = Len(t) /\ n \in 1..n BY <1>7
    <2> QED BY <1>8, <2>1
  <1>14. \A i \in 1..n : \E j \in I : e[i] = t[j] BY <1>8
  <1>15. Picked(t, I, e, K) BY <1>7, <1>9, <1>11, <1>12, <1>13, <1>14 DEF Picked, n
  <1> QED BY <1>5, <1>15

(* The newest entry of a table takes the place of an older one of its key. *)
Entered(t, e, p, K) ==
  /\ IsTable(p, K) /\ Len(p) # 0 /\ p[Len(p)] = e
  /\ Len(p) <= Len(t) + 1
  /\ (\E j \in 1..Len(t) : t[j].key = e.key) => Len(p) <= Len(t)
  /\ \A i \in 1..Len(p) : p[i].key # e.key => \E j \in 1..Len(t) : p[i] = t[j]

LEMMA PutFacts ==
  ASSUME NEW K, NEW t, IsTable(t, K), NEW e \in Entries(K)
  PROVE  Entered(t, e, Put(t, e), K)
  <1> DEFINE I == {i \in DOMAIN t : t[i].key # e.key}
             s == Pick(t, I)
             p == Append(s, e)
             n == Len(s)
  <1>1. Put(t, e) = p BY DEF Put
  <1>2. t \in Seq(Entries(K)) /\ Len(t) \in Nat /\ DOMAIN t = 1..Len(t) BY DEF IsTable
  <1>3. I \in SUBSET (1..Len(t)) /\ \A i \in I : t[i].key # e.key BY <1>2
  <1>4. Picked(t, I, s, K) BY <1>3, PickFacts
  <1>5. ASSUME NEW j \in 1..Len(t), t[j].key = e.key PROVE Cardinality(I) <= Len(t) - 1
    <2>1. IsFiniteSet(1..Len(t)) /\ Cardinality(1..Len(t)) = Len(t) BY <1>2, FS_Interval
    <2>2. IsFiniteSet((1..Len(t)) \ {j}) /\ Cardinality((1..Len(t)) \ {j}) = Len(t) - 1
      BY <2>1, FS_RemoveElement
    <2>3. I \in SUBSET ((1..Len(t)) \ {j}) BY <1>2, <1>5
    <2> HIDE DEF I
    <2>4. Cardinality(I) <= Cardinality((1..Len(t)) \ {j}) BY <2>2, <2>3, FS_Subset
    <2> QED BY <2>2, <2>4
  <1> HIDE DEF I, s
  <1>6. /\ s \in Seq(Entries(K)) /\ n \in Nat /\ n = Cardinality(I) /\ n <= Len(t)
        /\ \A i, j \in 1..n : s[i].key = s[j].key => i = j
        /\ \A i \in 1..n : \E j \in I : s[i] = t[j]
    BY <1>4 DEF Picked, IsTable
  <1>7. /\ p \in Seq(Entries(K)) /\ Len(p) = n + 1 /\ p[n + 1] = e
        /\ \A i \in 1..n : p[i] = s[i]
    BY <1>6
  <1> HIDE DEF p
  <1>8. \A i \in 1..(n + 1) : i = n + 1 \/ i \in 1..n BY <1>6
  <1>9. ASSUME NEW i \in 1..n PROVE p[i].key # e.key /\ \E j \in 1..Len(t) : p[i] = t[j]
    <2>1. PICK j \in I : s[i] = t[j] BY <1>6
    <2>2. j \in 1..Len(t) /\ t[j].key # e.key BY <1>3
    <2> QED BY <1>7, <2>1, <2>2
  <1>10. ASSUME NEW i \in 1..(n + 1), NEW j \in 1..(n + 1), p[i].key = p[j].key PROVE i = j
    <2>1. CASE i \in 1..n /\ j \in 1..n BY <1>6, <1>7, <1>10, <2>1
    <2>2. CASE i = n + 1 \/ j = n + 1 BY <1>7, <1>8, <1>9, <1>10, <2>2
    <2> QED BY <1>8, <2>1, <2>2
  <1>11. IsTable(p, K) BY <1>7, <1>10 DEF IsTable
  <1>12. \A i \in 1..(n + 1) : p[i].key # e.key => \E j \in 1..Len(t) : p[i] = t[j]
    BY <1>7, <1>8, <1>9
  <1>13. Len(p) # 0 /\ p[Len(p)] = e /\ Len(p) <= Len(t) + 1 BY <1>2, <1>6, <1>7
  <1>14. (\E j \in 1..Len(t) : t[j].key = e.key) => Len(p) <= Len(t)
    <2> SUFFICES ASSUME NEW j \in 1..Len(t), t[j].key = e.key PROVE Len(p) <= Len(t)
      OBVIOUS
    <2>1. n <= Len(t) - 1 BY <1>5, <1>6
    <2> QED BY <1>2, <1>6, <1>7, <2>1
  <1>15. Entered(t, e, p, K) BY <1>7, <1>11, <1>12, <1>13, <1>14 DEF Entered
  <1> QED BY <1>1, <1>15

(* Bounding a table keeps the newest entry, and drops whole entries.       *)
Bounded(t, b, K) ==
  /\ IsTable(b, K) /\ Len(b) # 0 /\ b[Len(b)] = t[Len(t)] /\ Len(b) <= MaxKeys
  /\ \A i \in 1..Len(b) : \E j \in 1..Len(t) : b[i] = t[j]

LEMMA BoundFacts ==
  ASSUME NEW K, NEW t, IsTable(t, K), Len(t) # 0, Unexpired(t[Len(t)])
  PROVE  Bounded(t, BoundEntries(t), K)
  <1> DEFINE I == {i \in DOMAIN t : Unexpired(t[i])}
             live == Pick(t, I)
             n == Len(live)
             m == n - MaxKeys
             b == SubSeq(live, m + 1, n)
  <1>1. t \in Seq(Entries(K)) /\ Len(t) \in Nat /\ DOMAIN t = 1..Len(t) BY DEF IsTable
  <1>2. I \in SUBSET (1..Len(t)) /\ Len(t) \in I BY <1>1
  <1>3. Picked(t, I, live, K) BY <1>2, PickFacts
  <1>4. BoundEntries(t) = IF Len(t) <= MaxKeys THEN t ELSE IF n <= MaxKeys THEN live ELSE b
    BY DEF BoundEntries
  <1>5. MaxKeys \in Nat \ {0} BY LimiterAssumption
  <1> HIDE DEF I, live
  <1>6. /\ live \in Seq(Entries(K)) /\ n \in Nat /\ IsTable(live, K)
        /\ \A i, j \in 1..n : live[i].key = live[j].key => i = j
        /\ \A i \in 1..n : \E j \in I : live[i] = t[j]
        /\ n # 0 /\ live[n] = t[Len(t)]
    BY <1>2, <1>3 DEF Picked, IsTable
  <1>6a. \A i \in 1..n : \E j \in 1..Len(t) : live[i] = t[j] BY <1>2, <1>6
  <1>7. CASE Len(t) <= MaxKeys BY <1>4, <1>7 DEF Bounded
  <1>8. CASE ~(Len(t) <= MaxKeys) /\ n <= MaxKeys
    <2>1. BoundEntries(t) = live BY <1>4, <1>8
    <2> QED BY <1>6, <1>6a, <1>8, <2>1 DEF Bounded
  <1>9. CASE ~(Len(t) <= MaxKeys) /\ ~(n <= MaxKeys)
    <2>1. BoundEntries(t) = b BY <1>4, <1>9
    <2>2. m \in Nat /\ m + MaxKeys = n BY <1>5, <1>6, <1>9
    <2>3. /\ b \in Seq(Entries(K)) /\ Len(b) = MaxKeys
          /\ \A i \in 1..MaxKeys : b[i] = live[m + i] /\ m + i \in 1..n
      <3> HIDE DEF m, n
      <3>0. \A i \in 1..MaxKeys : m + i \in 1..n BY <1>5, <1>6, <2>2
      <3>1. live \in Seq(Entries(K)) /\ m + 1 \in 1..(n + 1) /\ n \in 0..Len(live)
        BY <1>5, <1>6, <2>2 DEF n
      <3>2. b \in Seq(Entries(K)) /\ Len(b) = n - (m + 1) + 1 
        BY <1>5, <1>6, <2>2, <3>1
      <3>3. n - (m + 1) + 1 = MaxKeys BY <1>5, <1>6, <2>2
      <3>4. \A i \in 1..MaxKeys : b[i] = live[m + i]
        BY <1>5, <1>6, <2>2, <3>1, <3>3
      <3> QED BY <3>0, <3>2, <3>3, <3>4
    <2>4. MaxKeys \in 1..MaxKeys /\ b[MaxKeys] = live[n] BY <1>5, <2>2, <2>3
    <2> HIDE DEF b, m
    <2>5. IsTable(b, K)
      <3>1. ASSUME NEW i \in 1..MaxKeys, NEW j \in 1..MaxKeys, b[i].key = b[j].key PROVE i = j
        <4>1. m + i = m + j BY <1>6, <2>3, <3>1
        <4> QED BY <1>5, <2>2, <4>1
      <3> QED BY <2>3, <3>1 DEF IsTable
    <2>6. \A i \in 1..MaxKeys : \E j \in 1..Len(t) : b[i] = t[j] BY <1>6a, <2>3
    <2>7. Bounded(t, b, K) BY <1>5, <1>6, <2>3, <2>4, <2>5, <2>6 DEF Bounded
    <2> QED BY <2>1, <2>7
  <1> QED BY <1>7, <1>8, <1>9

(* The window a request falls into: the entry of its key, if that has not  *)
(* expired, and else a fresh one.                                          *)
IsCurrent(t, k, e, K) ==
  /\ e \in Entries(K) /\ e.key = k /\ e.age < Window
  /\ \A j \in 1..Len(t) : t[j].key = k /\ t[j].age < Window => e = t[j]
  /\ \/ e.age = 0 /\ e.count = 0 /\ \A j \in 1..Len(t) : t[j].key = k => t[j].age >= Window
     \/ \E j \in 1..Len(t) : e = t[j]

LEMMA EntryFacts ==
  ASSUME NEW K, NEW t, IsTable(t, K), NEW j \in 1..Len(t)
  PROVE  Entry(t, t[j].key) = t[j]
  <1> DEFINE c == CHOOSE i \in DOMAIN t : t[i].key = t[j].key
  <1>1. DOMAIN t = 1..Len(t) BY DEF IsTable
  <1>2. c \in 1..Len(t) /\ t[c].key = t[j].key BY <1>1
  <1> HIDE DEF c
  <1>3. c = j BY <1>2 DEF IsTable
  <1> QED BY <1>3 DEF Entry, c

LEMMA CurrentFacts ==
  ASSUME NEW K, NEW t, IsTable(t, K), NEW k \in K
  PROVE  IsCurrent(t, k, Current(t, k), K)
  <1>1. /\ Window \in Nat \ {0} BY LimiterAssumption
  <1>2. /\ t \in Seq(Entries(K)) /\ DOMAIN t = 1..Len(t)
        /\ \A j \in 1..Len(t) : t[j] \in Entries(K)
    BY DEF IsTable
  <1>3. ASSUME NEW j \in 1..Len(t), t[j].key = k
        PROVE  k \in Keys(t) /\ Entry(t, k) = t[j] /\ t[j].age \in 0..Window
    <2>1. Entry(t, t[j].key) = t[j] BY EntryFacts
    <2>2. t[j] \in Entries(K) BY <1>2
    <2> QED BY <1>2, <1>3, <2>1, <2>2 DEF Keys, Entries
  <1>4. CASE \E j \in 1..Len(t) : t[j].key = k /\ t[j].age < Window
    <2>1. PICK j \in 1..Len(t) : t[j].key = k /\ t[j].age < Window BY <1>4
    <2>2. Current(t, k) = t[j] BY <1>3, <2>1 DEF Current, Unexpired
    <2>3. \A i \in 1..Len(t) : t[i].key = k => i = j BY <2>1 DEF IsTable
    <2> QED BY <1>2, <2>1, <2>2, <2>3 DEF IsCurrent
  <1>5. CASE ~\E j \in 1..Len(t) : t[j].key = k /\ t[j].age < Window
    <2>1. Current(t, k) = Fresh(k)
      <3>1. CASE k \in Keys(t)
        <4>1. PICK j \in 1..Len(t) : t[j].key = k BY <1>2, <3>1 DEF Keys
        <4> QED BY <1>3, <1>5, <4>1 DEF Current, Unexpired
      <3>2. CASE k \notin Keys(t) BY <3>2 DEF Current
      <3> QED BY <3>1, <3>2
    <2>2. Fresh(k) \in Entries(K) /\ Fresh(k).key = k /\ Fresh(k).age = 0 /\ Fresh(k).count = 0
      BY <1>1 DEF Fresh, Entries
    <2>3. \A j \in 1..Len(t) : t[j].key = k => t[j].age >= Window
      <3> SUFFICES ASSUME NEW j \in 1..Len(t), t[j].key = k PROVE t[j].age >= Window
        OBVIOUS
      <3>1. t[j].age \in 0..Window /\ ~(t[j].age < Window) BY <1>3, <1>5
      <3> QED BY <1>1, <3>1
    <2> HIDE DEF Fresh
    <2> QED BY <1>1, <1>5, <2>1, <2>2, <2>3 DEF IsCurrent
  <1> QED BY <1>4, <1>5

(* What allow decides, and what of the table it changes.                   *)
Decision(t, k, n, d, e, K) ==
  /\ IsTable(d.table, K) /\ Len(d.table) <= MaxKeys
  /\ d.allowed \in BOOLEAN /\ (d.allowed <=> e.count < n)
  /\ ~d.allowed => d.retry = RetryAfter(e)
  /\ \E i \in 1..Len(d.table) :
       /\ d.table[i].key = k /\ d.table[i].age = e.age
       /\ d.table[i].count = IF d.allowed THEN e.count + 1 ELSE e.count
  /\ \A i \in 1..Len(d.table) : d.table[i].key # k =>
       \E j \in 1..Len(t) : d.table[i] = t[j]

LEMMA AllowFacts ==
  ASSUME NEW K, NEW t, IsTable(t, K), Len(t) <= MaxKeys, NEW k \in K, NEW n \in Nat \ {0}
  PROVE  Decision(t, k, n, Allow(t, k, n), Current(t, k), K)
  <1> DEFINE e == Current(t, k)
             g == [e EXCEPT !.count = @ + 1]
             d == Allow(t, k, n)
             p == Put(t, g)
  <1>1. IsCurrent(t, k, e, K) BY CurrentFacts
  <1>2. d = IF e.count >= n
            THEN [allowed |-> FALSE, retry |-> RetryAfter(e), table |-> Put(t, e)]
            ELSE [allowed |-> TRUE, retry |-> 0, table |-> BoundEntries(p)]
    BY DEF Allow
  <1> HIDE DEF e, d
  <1>3. e \in Entries(K) /\ e.key = k /\ e.age < Window /\ e.count \in Nat /\ e.age \in 0..Window
    BY <1>1 DEF IsCurrent, Entries
  <1>4. g \in Entries(K) /\ g.key = k /\ g.age = e.age /\ g.count = e.count + 1
    BY <1>3 DEF Entries
  <1> HIDE DEF g
  <1>5. CASE e.count >= n
    <2>1. d.allowed = FALSE /\ d.retry = RetryAfter(e) /\ d.table = Put(t, e) BY <1>2, <1>5
    <2>2. Entered(t, e, d.table, K) BY <1>3, <2>1, PutFacts
    <2>3. e.count # 0 BY <1>3, <1>5
    <2>4. PICK j \in 1..Len(t) : e = t[j] BY <1>1, <2>3 DEF IsCurrent
    <2>5. Len(d.table) <= Len(t) /\ IsTable(d.table, K) BY <2>2, <2>4 DEF Entered
    <2>6. Len(d.table) \in Nat /\ Len(t) \in Nat /\ MaxKeys \in Nat
      BY <2>5, LimiterAssumption DEF IsTable
    <2>7. Len(d.table) \in 1..Len(d.table) /\ d.table[Len(d.table)] = e
      BY <2>2, <2>6 DEF Entered
    <2>8. \A i \in 1..Len(d.table) : d.table[i].key # k => \E m \in 1..Len(t) : d.table[i] = t[m]
      BY <1>3, <2>2 DEF Entered
    <2>9. Len(d.table) <= MaxKeys BY <2>5, <2>6
    <2>10. ~(e.count < n) BY <1>3, <1>5
    <2>11. Decision(t, k, n, d, e, K)
      BY <1>3, <2>1, <2>5, <2>7, <2>8, <2>9, <2>10 DEF Decision
    <2> QED BY <2>11 DEF d, e
  <1>6. CASE ~(e.count >= n)
    <2>1. d.allowed = TRUE /\ d.table = BoundEntries(p) BY <1>2, <1>6
    <2>2. Entered(t, g, p, K) BY <1>4, PutFacts
    <2> HIDE DEF p
    <2>3. IsTable(p, K) /\ Len(p) # 0 /\ p[Len(p)] = g BY <2>2 DEF Entered
    <2>4. Unexpired(p[Len(p)]) BY <1>3, <1>4, <2>3 DEF Unexpired
    <2>5. Bounded(p, d.table, K) BY <2>1, <2>3, <2>4, BoundFacts
    <2>6. Len(d.table) \in 1..Len(d.table) /\ d.table[Len(d.table)] = g
      <3>1. Len(d.table) \in Nat /\ Len(d.table) # 0 BY <2>5 DEF Bounded, IsTable
      <3> QED BY <2>3, <2>5, <3>1 DEF Bounded
    <2>7. ASSUME NEW i \in 1..Len(d.table), d.table[i].key # k
          PROVE  \E j \in 1..Len(t) : d.table[i] = t[j]
      <3>1. PICK m \in 1..Len(p) : d.table[i] = p[m] BY <2>5 DEF Bounded
      <3> QED BY <1>4, <2>2, <2>7, <3>1 DEF Entered
    <2>8. e.count < n BY <1>3, <1>6
    <2>9. IsTable(d.table, K) /\ Len(d.table) <= MaxKeys BY <2>5 DEF Bounded
    <2>10. Decision(t, k, n, d, e, K)
      BY <1>4, <2>1, <2>6, <2>7, <2>8, <2>9 DEF Decision
    <2> QED BY <2>10 DEF d, e
  <1> QED BY <1>5, <1>6

LEMMA AgedFacts ==
  ASSUME NEW K, NEW t, IsTable(t, K)
  PROVE  /\ IsTable(Aged(t), K) /\ Len(Aged(t)) = Len(t)
         /\ \A i \in 1..Len(t) :
              /\ Aged(t)[i].key = t[i].key /\ Aged(t)[i].count = t[i].count
              /\ Aged(t)[i].age = IF t[i].age < Window THEN t[i].age + 1 ELSE t[i].age
  <1> DEFINE Older(e) == [e EXCEPT !.age = IF @ < Window THEN @ + 1 ELSE @]
             a == [i \in 1..Len(t) |-> Older(t[i])]
  <1>1. /\ t \in Seq(Entries(K)) /\ DOMAIN t = 1..Len(t) /\ Len(t) \in Nat
        /\ \A i \in 1..Len(t) : t[i] \in Entries(K)
    BY DEF IsTable
  <1>2. Aged(t) = a BY <1>1 DEF Aged
  <1>3. ASSUME NEW e \in Entries(K)
        PROVE  /\ Older(e) \in Entries(K) /\ Older(e).key = e.key /\ Older(e).count = e.count
               /\ Older(e).age = IF e.age < Window THEN e.age + 1 ELSE e.age
    BY LimiterAssumption DEF Entries
  <1> HIDE DEF Older
  <1>4. \A i \in 1..Len(t) : a[i] = Older(t[i]) OBVIOUS
  <1>5. a \in Seq(Entries(K)) /\ Len(a) = Len(t) BY <1>1, <1>3
  <1> HIDE DEF a
  <1>6. \A i \in 1..Len(t) : /\ a[i].key = t[i].key /\ a[i].count = t[i].count
                             /\ a[i].age = IF t[i].age < Window THEN t[i].age + 1 ELSE t[i].age
    BY <1>1, <1>3, <1>4
  <1>7. IsTable(a, K) BY <1>5, <1>6 DEF IsTable
  <1> QED BY <1>2, <1>5, <1>6, <1>7
----------------------------------------------------------------------------
(***************************************************************************)
(* The watched client.  Its last 2 * NetworkRequests admissions cover its  *)
(* present window, whose first admission opened it, and the same number    *)
(* before: of those, the one NetworkRequests before the window's first is  *)
(* as old as a window, because the window before it was full by then or    *)
(* had not begun.                                                          *)
(***************************************************************************)
N == NetworkRequests

(* The window with this age and count is the one of these admissions.      *)
Tracks(r, age, count) ==
  count \in 1..N /\ r[2 * N - count + 1] = age /\ r[N - count + 1] = Window

Ages(r) ==
  /\ r \in [1..(2 * N) -> 0..Window]
  /\ \A i, j \in 1..(2 * N) : i <= j => r[i] >= r[j]

(* There is no window of the client, or it has run out.                    *)
NoWindow(t) == \A i \in 1..Len(t) : t[i].key = Watched => t[i].age >= Window

Admissions(t, r) ==
  /\ Ages(r)
  /\ \A i \in 1..Len(t) : t[i].key = Watched /\ t[i].age < Window =>
       Tracks(r, t[i].age, t[i].count)
  /\ NoWindow(t) => r[N + 1] = Window

(* A full window ends when the client was told, or before.                 *)
EndsBy(t, ticks) ==
  \A i \in 1..Len(t) :
    t[i].key = Watched /\ t[i].age < Window /\ t[i].count >= N => Window - t[i].age <= ticks
Told(t, ticks) == ticks \in 0..NotDue /\ (ticks # NotDue => EndsBy(t, ticks))

TableInv ==
  /\ IsTable(network, Client) /\ Len(network) <= MaxKeys
  /\ IsTable(auditors, Auditor) /\ Len(auditors) <= MaxKeys

LimitInv == TableInv /\ Admissions(network, recent) /\ Told(network, due)

LEMMA NumbersOK ==
  /\ N \in Nat \ {0} /\ Window \in Nat \ {0} /\ Second \in Nat \ {0} /\ MaxKeys \in Nat \ {0}
  /\ NotDue \in Nat /\ NotDue = Window + Second
  BY LimiterAssumption, ServiceAssumption DEF N, NotDue

(* The ages of the admissions stay in order when one more comes ...        *)
LEMMA AdmittedFacts ==
  ASSUME NEW r, Ages(r)
  PROVE  /\ Ages(Admitted(r)) /\ Admitted(r)[2 * N] = 0
         /\ \A i \in 1..(2 * N - 1) : Admitted(r)[i] = r[i + 1]
  <1> DEFINE m == 2 * N
             a == [i \in 1..m |-> IF i = m THEN 0 ELSE r[i + 1]]
  <1>1. m \in Nat \ {0} /\ Window \in Nat BY NumbersOK
  <1>2. r \in [1..m -> 0..Window] /\ \A i, j \in 1..m : i <= j => r[i] >= r[j] BY DEF Ages
  <1> HIDE DEF m
  <1>3. DOMAIN r = 1..m /\ Len(r) = m
    <2>1. r = [i \in 1..m |-> r[i]] BY <1>2
    <2> QED BY <1>1, <1>2, <2>1
  <1>4. Admitted(r) = a BY <1>3 DEF Admitted
  <1>5. a[m] = 0 /\ \A i \in 1..(m - 1) : a[i] = r[i + 1] /\ i + 1 \in 1..m BY <1>1
  <1>6. \A i \in 1..m : i = m \/ i \in 1..(m - 1) BY <1>1
  <1>7. a \in [1..m -> 0..Window] BY <1>1, <1>2, <1>5, <1>6
  <1> HIDE DEF a
  <1>8. ASSUME NEW i \in 1..m, NEW j \in 1..m, i <= j PROVE a[i] >= a[j]
    <2>1. CASE j = m
      <3>1. a[i] \in 0..Window BY <1>7
      <3> QED BY <1>1, <1>5, <2>1, <3>1
    <2>2. CASE j # m
      <3>1. i \in 1..(m - 1) /\ j \in 1..(m - 1) /\ i + 1 <= j + 1 BY <1>1, <1>8, <2>2
      <3> QED BY <1>2, <1>5, <3>1
    <2> QED BY <2>1, <2>2
  <1> QED BY <1>4, <1>5, <1>7, <1>8 DEF Ages, m

(* ... and as time passes.                                                 *)
Older(r) == [i \in DOMAIN r |-> IF r[i] < Window THEN r[i] + 1 ELSE Window]
LEMMA OlderFacts ==
  ASSUME NEW r, Ages(r)
  PROVE  /\ Ages(Older(r))
         /\ \A i \in 1..(2 * N) : Older(r)[i] = IF r[i] < Window THEN r[i] + 1 ELSE Window
  <1> DEFINE m == 2 * N
             o == [i \in 1..m |-> IF r[i] < Window THEN r[i] + 1 ELSE Window]
  <1>1. Window \in Nat BY NumbersOK
  <1>2. /\ r \in [1..m -> 0..Window] /\ \A i, j \in 1..m : i <= j => r[i] >= r[j] BY DEF Ages
  <1> HIDE DEF m
  <1>3. Older(r) = o BY <1>2 DEF Older
  <1>4. \A i \in 1..m : o[i] = IF r[i] < Window THEN r[i] + 1 ELSE Window OBVIOUS
  <1>5. \A i \in 1..m : r[i] \in 0..Window BY <1>2
  <1>6. o \in [1..m -> 0..Window] BY <1>1, <1>5
  <1> HIDE DEF o
  <1>7. ASSUME NEW i \in 1..m, NEW j \in 1..m, i <= j PROVE o[i] >= o[j]
    <2>1. r[i] >= r[j] BY <1>2, <1>7
    <2> QED BY <1>1, <1>4, <1>5, <2>1
  <1> QED BY <1>3, <1>4, <1>6, <1>7 DEF Ages, m

LEMMA LongAgoFacts == Ages(LongAgo) /\ \A i \in 1..(2 * N) : LongAgo[i] = Window
  BY NumbersOK DEF Ages, LongAgo, N

(* The ages at the places that matter.                                     *)
LEMMA Places ==
  ASSUME NEW c \in 1..N
  PROVE  /\ 2 * N - c + 1 \in 1..(2 * N) /\ N - c + 1 \in 1..(2 * N)
         /\ N + 1 \in 1..(2 * N) /\ N + 1 <= 2 * N - c + 1 /\ 1 \in 1..(2 * N)
  BY NumbersOK

(* Any stretch as long as the window, from any of the states it is in.     *)
LEMMA AdmissionsHold ==
  ASSUME NEW t, NEW r, IsTable(t, Client), Admissions(t, r)
  PROVE  r[1] = Window
  <1>1. N \in Nat \ {0} /\ Window \in Nat BY NumbersOK
  <1>2. /\ \A i \in 1..(2 * N) : r[i] \in 0..Window
        /\ \A i, j \in 1..(2 * N) : i <= j => r[i] >= r[j]
    BY DEF Admissions, Ages
  <1>3. ASSUME NEW i \in 1..(2 * N), r[i] = Window PROVE r[1] = Window
    <2>1. 1 \in 1..(2 * N) /\ 1 <= i BY <1>1
    <2>2. r[1] >= r[i] /\ r[1] \in 0..Window BY <1>2, <2>1
    <2> QED BY <1>1, <1>3, <2>2
  <1>4. CASE NoWindow(t)
    <2>1. N + 1 \in 1..(2 * N) BY <1>1
    <2> QED BY <1>3, <1>4, <2>1 DEF Admissions
  <1>5. CASE ~NoWindow(t)
    <2>1. PICK i \in 1..Len(t) : t[i].key = Watched /\ ~(t[i].age >= Window)
      BY <1>5 DEF NoWindow
    <2>2. t[i] \in Entries(Client) BY DEF IsTable
    <2>3. t[i].age \in 0..Window BY <2>2 DEF Entries
    <2>4. t[i].age < Window BY <1>1, <2>1, <2>3
    <2>5. Tracks(r, t[i].age, t[i].count) BY <2>1, <2>4 DEF Admissions
    <2>6. N - t[i].count + 1 \in 1..(2 * N) BY <2>5, Places DEF Tracks
    <2> QED BY <1>3, <2>5, <2>6 DEF Tracks
  <1> QED BY <1>4, <1>5

(* A request of the watched client, with the window it fell into.          *)
LEMMA WatchedCounted ==
  ASSUME NEW t, NEW r, NEW d, NEW e, IsTable(t, Client), Admissions(t, r),
         Decision(t, Watched, N, d, e, Client), IsCurrent(t, Watched, e, Client)
  PROVE  /\ Admissions(d.table, IF d.allowed THEN Admitted(r) ELSE r)
         /\ Watched \in Keys(d.table)
         /\ ~d.allowed => \E j \in 1..Len(t) : e = t[j]
         /\ \A i \in 1..Len(d.table) : d.table[i].key = Watched => d.table[i].age = e.age
  <1>1. N \in Nat \ {0} /\ Window \in Nat BY NumbersOK
  <1>2. PICK i \in 1..Len(d.table) :
          /\ d.table[i].key = Watched /\ d.table[i].age = e.age
          /\ d.table[i].count = IF d.allowed THEN e.count + 1 ELSE e.count
    BY DEF Decision
  <1>3. \A j \in 1..Len(d.table) : d.table[j].key = Watched => j = i
    BY <1>2 DEF Decision, IsTable
  <1>4. Watched \in Keys(d.table)
    <2>1. DOMAIN d.table = 1..Len(d.table) BY DEF Decision, IsTable
    <2> QED BY <1>2, <2>1 DEF Keys
  <1>5. e.age < Window /\ e.age \in 0..Window /\ e.count \in Nat BY DEF IsCurrent, Entries
  <1>6. ~NoWindow(d.table)
    <2>1. ~(e.age >= Window) BY <1>1, <1>5
    <2> QED BY <1>2, <2>1 DEF NoWindow
  <1>7. \/ e.age = 0 /\ e.count = 0 /\ NoWindow(t)
        \/ \E j \in 1..Len(t) : e = t[j]
    BY DEF IsCurrent, NoWindow
  <1>8. e.key = Watched /\ Ages(r) BY DEF IsCurrent, Admissions
  <1>9. (\E j \in 1..Len(t) : e = t[j]) => Tracks(r, e.age, e.count)
    BY <1>5, <1>8 DEF Admissions
  <1>10. CASE d.allowed
    <2> DEFINE a == Admitted(r)
    <2>1. /\ Ages(a) /\ a[2 * N] = 0 /\ \A k \in 1..(2 * N - 1) : a[k] = r[k + 1]
      BY <1>8, AdmittedFacts
    <2> HIDE DEF a
    <2>2. e.count < N BY <1>10 DEF Decision
    <2>3. Tracks(a, e.age, e.count + 1)
      <3>1. CASE \E j \in 1..Len(t) : e = t[j]
        <4>1. e.count \in 1..N /\ r[2 * N - e.count + 1] = e.age /\ r[N - e.count + 1] = Window
          BY <1>9, <3>1 DEF Tracks
        <4>2. /\ 2 * N - (e.count + 1) + 1 \in 1..(2 * N - 1)
              /\ (2 * N - (e.count + 1) + 1) + 1 = 2 * N - e.count + 1
              /\ N - (e.count + 1) + 1 \in 1..(2 * N - 1)
              /\ (N - (e.count + 1) + 1) + 1 = N - e.count + 1
              /\ e.count + 1 \in 1..N
          <5> DEFINE k == e.count
          <5>1. k \in 1..N /\ k < N /\ N \in Nat BY <1>1, <2>2, <4>1
          <5> HIDE DEF k
          <5>2. /\ 2 * N - (k + 1) + 1 \in 1..(2 * N - 1)
                /\ (2 * N - (k + 1) + 1) + 1 = 2 * N - k + 1
            BY <5>1
          <5>3. /\ N - (k + 1) + 1 \in 1..(2 * N - 1)
                /\ (N - (k + 1) + 1) + 1 = N - k + 1 /\ k + 1 \in 1..N
            BY <5>1
          <5> QED BY <5>2, <5>3 DEF k
        <4>3. a[2 * N - (e.count + 1) + 1] = r[2 * N - e.count + 1] BY <2>1, <4>2
        <4>4. a[N - (e.count + 1) + 1] = r[N - e.count + 1] BY <2>1, <4>2
        <4> QED BY <4>1, <4>2, <4>3, <4>4 DEF Tracks
      <3>2. CASE e.age = 0 /\ e.count = 0 /\ NoWindow(t)
        <4>1. r[N + 1] = Window BY <3>2 DEF Admissions
        <4>2. /\ 2 * N - 1 + 1 = 2 * N /\ N - 1 + 1 = N /\ N \in 1..(2 * N - 1) /\ 1 \in 1..N
          BY <1>1
        <4>3. a[N] = Window BY <2>1, <4>1, <4>2
        <4>4. a[2 * N - 1 + 1] = 0 /\ a[N - 1 + 1] = Window BY <2>1, <4>2, <4>3
        <4>5. e.count + 1 = 1 BY <3>2
        <4> QED BY <3>2, <4>2, <4>4, <4>5 DEF Tracks
      <3> QED BY <1>7, <3>1, <3>2
    <2>4. d.table[i].count = e.count + 1 BY <1>2, <1>10
    <2>5. Admissions(d.table, a) BY <1>2, <1>3, <1>6, <2>1, <2>3, <2>4 DEF Admissions
    <2> QED BY <1>2, <1>3, <1>4, <1>10, <2>5 DEF a
  <1>11. CASE ~d.allowed
    <2>1. ~(e.count < N) BY <1>11 DEF Decision
    <2>2. e.count # 0 BY <1>1, <1>5, <2>1
    <2>3. \E j \in 1..Len(t) : e = t[j] BY <1>7, <2>2
    <2>4. d.table[i].count = e.count BY <1>2, <1>11
    <2>5. Admissions(d.table, r) BY <1>2, <1>3, <1>6, <1>8, <1>9, <2>3, <2>4 DEF Admissions
    <2> QED BY <1>2, <1>3, <1>4, <1>11, <2>3, <2>5
  <1> QED BY <1>10, <1>11

(* A request of somebody else, which may have dropped its entry.           *)
LEMMA OthersCounted ==
  ASSUME NEW t, NEW r, NEW d, NEW e, NEW c, c # Watched, IsTable(t, Client), Admissions(t, r),
         Decision(t, c, N, d, e, Client)
  PROVE  Admissions(d.table,
           IF Watched \in Keys(t) \ Keys(d.table) /\ Unexpired(Entry(t, Watched))
           THEN LongAgo ELSE r)
  <1>1. \A i \in 1..Len(d.table) : d.table[i].key = Watched =>
          \E j \in 1..Len(t) : d.table[i] = t[j]
    BY DEF Decision
  <1>2. DOMAIN d.table = 1..Len(d.table) /\ DOMAIN t = 1..Len(t) BY DEF Decision, IsTable
  <1>3. CASE Watched \in Keys(t) \ Keys(d.table) /\ Unexpired(Entry(t, Watched))
    <2>1. \A i \in 1..Len(d.table) : d.table[i].key # Watched BY <1>2, <1>3 DEF Keys
    <2>2. N + 1 \in 1..(2 * N) BY NumbersOK
    <2>3. Admissions(d.table, LongAgo) BY <2>1, <2>2, LongAgoFacts DEF Admissions
    <2> QED BY <1>3, <2>3
  <1>4. CASE ~(Watched \in Keys(t) \ Keys(d.table) /\ Unexpired(Entry(t, Watched)))
    <2>1. ASSUME NoWindow(d.table) PROVE NoWindow(t)
      <3> SUFFICES ASSUME NEW j \in 1..Len(t), t[j].key = Watched, ~(t[j].age >= Window)
                   PROVE  FALSE
        BY DEF NoWindow
      <3>1. Watched \in Keys(t) BY <1>2 DEF Keys
      <3>2. Entry(t, t[j].key) = t[j] BY EntryFacts
      <3>3. t[j].age < Window
        <4>1. t[j] \in Entries(Client) BY DEF IsTable
        <4>2. t[j].age \in 0..Window /\ Window \in Nat BY <4>1, NumbersOK DEF Entries
        <4> QED BY <4>2
      <3>4. Unexpired(Entry(t, Watched)) BY <3>2, <3>3 DEF Unexpired
      <3>5. PICK i \in 1..Len(d.table) : d.table[i].key = Watched
        BY <1>2, <1>4, <3>1, <3>4 DEF Keys
      <3>6. PICK k \in 1..Len(t) : d.table[i] = t[k] BY <1>1, <3>5
      <3>7. k = j BY <3>5, <3>6 DEF IsTable
      <3> QED BY <2>1, <3>5, <3>6, <3>7 DEF NoWindow
    <2>2. Admissions(d.table, r) BY <1>1, <2>1 DEF Admissions
    <2> QED BY <1>4, <2>2
  <1> QED BY <1>3, <1>4

(* Rounded up to whole seconds, and no more than one too much.             *)
LEMMA RetryAfterFacts ==
  ASSUME NEW e, e.age \in 0..Window, e.age < Window
  PROVE  /\ RetryAfter(e) * Second \in 0..NotDue /\ RetryAfter(e) * Second # NotDue
         /\ Window - e.age <= RetryAfter(e) * Second
  <1> DEFINE a == e.age
             y == Window - a + Second - 1
             q == y \div Second
  <1>1. Window \in Nat /\ Second \in Nat \ {0} /\ a \in 0..Window /\ a < Window
        /\ NotDue = Window + Second
    BY NumbersOK
  <1> HIDE DEF a
  <1>2. y \in Nat BY <1>1
  <1>3. y < Window + Second /\ Window - a = y - Second + 1 BY <1>1
  <1> HIDE DEF y
  <1>4. q \in Nat /\ q * Second <= y /\ y < q * Second + Second BY <1>1, <1>2
  <1>5. RetryAfter(e) = q BY DEF RetryAfter, y, a
  <1> HIDE DEF q
  <1> DEFINE p == q * Second
  <1>6. p \in Nat BY <1>1, <1>4
  <1>7. p <= y /\ y < p + Second BY <1>4
  <1> HIDE DEF p
  <1>8. p \in 0..NotDue /\ p # NotDue /\ Window - a <= p BY <1>1, <1>2, <1>3, <1>6, <1>7
  <1> QED BY <1>5, <1>8 DEF p, a

(* The decision keeps the invariant, whoever asked.                        *)
LEMMA CountedKeeps ==
  ASSUME TableInv, Admissions(network, recent), Told(network, due),
         NEW c \in Client, Counted(c, Allow(network, c, NetworkRequests))
  PROVE  /\ IsTable(network', Client) /\ Len(network') <= MaxKeys
         /\ Admissions(network', recent') /\ Told(network', due')
  <1> DEFINE d == Allow(network, c, NetworkRequests)
             e == Current(network, c)
  <1>1. N \in Nat \ {0} /\ Window \in Nat /\ NotDue \in Nat BY NumbersOK
  <1>2. IsTable(network, Client) /\ Len(network) <= MaxKeys BY DEF TableInv
  <1>3. Decision(network, c, N, d, e, Client) BY <1>1, <1>2, AllowFacts DEF N
  <1>4. IsCurrent(network, c, e, Client) BY <1>2, CurrentFacts
  <1>5. /\ network' = d.table
        /\ recent' = IF Watched \in Keys(network) \ Keys(d.table)
                        /\ Unexpired(Entry(network, Watched)) THEN LongAgo
                     ELSE IF c = Watched /\ d.allowed THEN Admitted(recent) ELSE recent
        /\ due' = IF c # Watched \/ (~d.allowed /\ due # NotDue) THEN due
                  ELSE IF d.allowed THEN NotDue ELSE d.retry * Second
    BY DEF Counted
  <1> HIDE DEF d, e
  <1>6. IsTable(network', Client) /\ Len(network') <= MaxKeys BY <1>3, <1>5 DEF Decision
  <1>7. CASE c = Watched
    <2>1. /\ Admissions(d.table, IF d.allowed THEN Admitted(recent) ELSE recent)
          /\ Watched \in Keys(d.table)
          /\ ~d.allowed => \E j \in 1..Len(network) : e = network[j]
          /\ \A i \in 1..Len(d.table) : d.table[i].key = Watched => d.table[i].age = e.age
      BY <1>2, <1>3, <1>4, <1>7, WatchedCounted
    <2>2. recent' = IF d.allowed THEN Admitted(recent) ELSE recent BY <1>5, <1>7, <2>1
    <2>3. Admissions(network', recent') BY <1>5, <2>1, <2>2
    <2>4. CASE d.allowed
      <3>1. due' = NotDue BY <1>5, <1>7, <2>4
      <3>2. Told(network', due') BY <1>1, <3>1 DEF Told
      <3> QED BY <1>6, <2>3, <3>2
    <2>5. CASE ~d.allowed
      <3>1. PICK j \in 1..Len(network) : e = network[j] BY <2>1, <2>5
      <3>2. e.key = Watched /\ e.age < Window /\ e.age \in 0..Window /\ e.count \in Nat
        BY <1>4, <1>7 DEF IsCurrent, Entries
      <3>3. e.count >= N
        <4>1. ~(e.count < N) BY <1>3, <2>5 DEF Decision
        <4> QED BY <1>1, <3>2, <4>1
      <3>4. CASE due # NotDue
        <4>1. due' = due BY <1>5, <2>5, <3>4
        <4>2. Window - e.age <= due BY <3>1, <3>2, <3>3, <3>4 DEF Told, EndsBy
        <4>3. EndsBy(d.table, due) BY <2>1, <4>2 DEF EndsBy
        <4>4. Told(network', due') BY <1>5, <4>1, <4>3 DEF Told
        <4> QED BY <1>6, <2>3, <4>4
      <3>5. CASE due = NotDue
        <4>1. due' = RetryAfter(e) * Second
          BY <1>3, <1>5, <1>7, <2>5, <3>5 DEF Decision
        <4>2. due' \in 0..NotDue /\ Window - e.age <= due' BY <3>2, <4>1, RetryAfterFacts
        <4> DEFINE x == due'
        <4> HIDE DEF x
        <4>3. EndsBy(d.table, x) BY <2>1, <4>2 DEF EndsBy, x
        <4>4. Told(network', due') BY <1>5, <4>2, <4>3 DEF Told, x
        <4> QED BY <1>6, <2>3, <4>4
      <3> QED BY <3>4, <3>5
    <2> QED BY <2>4, <2>5
  <1>8. CASE c # Watched
    <2>1. recent' = IF Watched \in Keys(network) \ Keys(d.table)
                       /\ Unexpired(Entry(network, Watched)) THEN LongAgo ELSE recent
      BY <1>5, <1>8
    <2>2. Admissions(network', recent') BY <1>2, <1>3, <1>5, <1>8, <2>1, OthersCounted
    <2>3. due' = due BY <1>5, <1>8
    <2>4. EndsBy(network, due) => EndsBy(d.table, due)
      <3>1. \A i \in 1..Len(d.table) : d.table[i].key = Watched =>
              \E j \in 1..Len(network) : d.table[i] = network[j]
        BY <1>3, <1>8 DEF Decision
      <3> QED BY <3>1 DEF EndsBy
    <2>5. Told(network', due') BY <1>5, <2>3, <2>4 DEF Told
    <2> QED BY <1>6, <2>2, <2>5
  <1> QED BY <1>7, <1>8

(* And so does the clock.                                                  *)
LEMMA TickKeeps ==
  ASSUME TableInv, Admissions(network, recent), Told(network, due), Tick
  PROVE  LimitInv'
  <1> DEFINE t == Aged(network)
             r == Older(recent)
  <1>1. N \in Nat \ {0} /\ Window \in Nat /\ NotDue \in Nat BY NumbersOK
  <1>2. /\ network' = t /\ auditors' = Aged(auditors) /\ recent' = r
        /\ due' = IF due = NotDue \/ due = 0 THEN due ELSE due - 1
    BY DEF Tick, Older
  <1>3. /\ IsTable(network, Client) /\ Len(network) <= MaxKeys
        /\ IsTable(auditors, Auditor) /\ Len(auditors) <= MaxKeys
    BY DEF TableInv
  <1>4. /\ IsTable(t, Client) /\ Len(t) = Len(network)
        /\ \A i \in 1..Len(network) :
             /\ t[i].key = network[i].key /\ t[i].count = network[i].count
             /\ t[i].age = IF network[i].age < Window THEN network[i].age + 1 ELSE network[i].age
    BY <1>3, AgedFacts
  <1>5. IsTable(Aged(auditors), Auditor) /\ Len(Aged(auditors)) = Len(auditors)
    BY <1>3, AgedFacts
  <1>6. TableInv' BY <1>2, <1>3, <1>4, <1>5 DEF TableInv
  <1>7. /\ Ages(recent) /\ Ages(r)
        /\ \A i \in 1..(2 * N) : r[i] = IF recent[i] < Window THEN recent[i] + 1 ELSE Window
    BY OlderFacts DEF Admissions
  <1>8. \A i \in 1..(2 * N) : recent[i] \in 0..Window /\ r[i] \in 0..Window
    BY <1>7 DEF Ages
  <1>8a. \A i, j \in 1..(2 * N) : i <= j => r[i] >= r[j] BY <1>7 DEF Ages
  <1>9. \A i \in 1..Len(network) : network[i].age \in 0..Window /\ network[i].count \in Nat
    <2>1. \A i \in 1..Len(network) : network[i] \in Entries(Client) BY <1>3 DEF IsTable
    <2> QED BY <2>1 DEF Entries
  <1> HIDE DEF t, r
  <1>10. \A i \in 1..Len(network) : t[i].age < Window =>
           network[i].age < Window /\ t[i].age = network[i].age + 1
    BY <1>1, <1>4, <1>9
  <1>11. ASSUME NEW i \in 1..Len(network), network[i].key = Watched, network[i].age < Window
         PROVE  Tracks(r, network[i].age + 1, network[i].count)
    <2> DEFINE k == network[i].count
    <2>1. k \in 1..N /\ recent[2 * N - k + 1] = network[i].age /\ recent[N - k + 1] = Window
      BY <1>11 DEF Admissions, Tracks
    <2>2. 2 * N - k + 1 \in 1..(2 * N) /\ N - k + 1 \in 1..(2 * N) BY <2>1, Places
    <2>3. r[2 * N - k + 1] = network[i].age + 1
      BY <1>7, <1>11, <2>1, <2>2
    <2>4. r[N - k + 1] = Window
      <3>1. ~(Window < Window) BY <1>1
      <3> QED BY <1>7, <2>1, <2>2, <3>1
    <2> QED BY <2>1, <2>3, <2>4 DEF Tracks
  <1>12. \A i \in 1..Len(t) : t[i].key = Watched /\ t[i].age < Window =>
           Tracks(r, t[i].age, t[i].count)
    BY <1>4, <1>10, <1>11
  <1>13. ASSUME NoWindow(t) PROVE r[N + 1] = Window
    <2>1. N + 1 \in 1..(2 * N) BY <1>1
    <2>2. CASE NoWindow(network)
      <3>1. recent[N + 1] = Window BY <2>2 DEF Admissions
      <3>2. ~(Window < Window) BY <1>1
      <3> QED BY <1>7, <2>1, <3>1, <3>2
    <2>3. CASE ~NoWindow(network)
      <3>1. PICK i \in 1..Len(network) : network[i].key = Watched /\ ~(network[i].age >= Window)
        BY <2>3 DEF NoWindow
      <3>2. network[i].age < Window BY <1>1, <1>9, <3>1
      <3>3. t[i].age >= Window /\ t[i].age = network[i].age + 1
        BY <1>4, <1>13, <3>1, <3>2 DEF NoWindow
      <3> DEFINE k == network[i].count
      <3>4. k \in 1..N /\ r[2 * N - k + 1] = network[i].age + 1
        BY <1>11, <3>1, <3>2 DEF Tracks
      <3>5. 2 * N - k + 1 \in 1..(2 * N) /\ N + 1 <= 2 * N - k + 1 BY <3>4, Places
      <3>6. r[N + 1] >= r[2 * N - k + 1] BY <1>8a, <2>1, <3>5
      <3> HIDE DEF k
      <3>7. r[N + 1] >= network[i].age + 1 /\ network[i].age + 1 >= Window BY <3>3, <3>4, <3>6
      <3>8. r[N + 1] \in 0..Window /\ network[i].age \in 0..Window BY <1>8, <1>9, <2>1
      <3> QED BY <1>1, <3>7, <3>8
    <2> QED BY <2>2, <2>3
  <1>14. Admissions(t, r) BY <1>7, <1>12, <1>13 DEF Admissions
  <1>15. Told(t, due')
    <2>1. due \in 0..NotDue /\ (due # NotDue => EndsBy(network, due)) BY DEF Told
    <2>2. due' \in 0..NotDue /\ (due' # NotDue => due # NotDue) BY <1>1, <1>2, <2>1
    <2>3. ASSUME due # NotDue, NEW i \in 1..Len(t),
                 t[i].key = Watched, t[i].age < Window, t[i].count >= N
          PROVE  Window - t[i].age <= due'
      <3>1. /\ network[i].key = Watched /\ network[i].age < Window /\ network[i].count >= N
            /\ t[i].age = network[i].age + 1 /\ network[i].age \in 0..Window
        BY <1>4, <1>9, <1>10, <2>3
      <3>2. Window - network[i].age <= due BY <1>4, <2>1, <2>3, <3>1 DEF EndsBy
      <3>3. due' >= due - 1 BY <1>1, <1>2, <2>1
      <3> QED BY <1>1, <2>1, <2>2, <3>1, <3>2, <3>3
    <2> DEFINE x == due'
    <2> HIDE DEF x
    <2>4. due # NotDue => EndsBy(t, x) BY <2>3 DEF EndsBy, x
    <2> QED BY <2>2, <2>4 DEF Told, x
  <1> QED BY <1>2, <1>6, <1>14, <1>15 DEF LimitInv

LEMMA LimitStep ==
  ASSUME LimitInv, [Next]_vars
  PROVE  LimitInv'
  <1>1. TableInv /\ Admissions(network, recent) /\ Told(network, due) BY DEF LimitInv
  <1>2. ASSUME UNCHANGED limits PROVE LimitInv' BY <1>1, <1>2 DEF limits, LimitInv, TableInv
  <1>3. ASSUME NEW r \in Request, NEW c \in Client, Arrive(r, c) PROVE LimitInv'
    <2>1. Counted(c, Allow(network, c, NetworkRequests)) /\ auditors' = auditors
      BY <1>3 DEF Arrive
    <2>2. /\ IsTable(network', Client) /\ Len(network') <= MaxKeys
          /\ Admissions(network', recent') /\ Told(network', due')
      BY <1>1, <2>1, CountedKeeps
    <2> QED BY <1>1, <2>1, <2>2 DEF LimitInv, TableInv
  <1>4. ASSUME NEW r \in Request, BodyEnds(r) PROVE LimitInv'
    <2>1. network' = network /\ recent' = recent /\ due' = due BY <1>4 DEF BodyEnds
    <2>2. IsTable(auditors', Auditor) /\ Len(auditors') <= MaxKeys
      <3>1. CASE UNCHANGED auditors BY <1>1, <3>1 DEF TableInv
      <3>2. ASSUME NEW a \in Auditor, auditors' = Allow(auditors, a, Submissions).table
            PROVE  IsTable(auditors', Auditor) /\ Len(auditors') <= MaxKeys
        <4>1. Submissions \in Nat \ {0} BY ServiceAssumption
        <4>2. Decision(auditors, a, Submissions, Allow(auditors, a, Submissions),
                       Current(auditors, a), Auditor)
          BY <1>1, <4>1, AllowFacts DEF TableInv
        <4> QED BY <3>2, <4>2 DEF Decision
      <3> QED BY <1>4, <3>1, <3>2 DEF BodyEnds
    <2> QED BY <1>1, <2>1, <2>2 DEF LimitInv, TableInv
  <1>5. ASSUME NEW r \in Request, Resume(r) \/ Overloaded(r) \/ Answer(r) \/ BodyRefused(r)
        PROVE  LimitInv'
    BY <1>2, <1>5 DEF Resume, Overloaded, Answer, BodyRefused
  <1>6. CASE Start \/ Stop \/ Join \/ (\E n \in 1..MaxLives : Loop(n))
    BY <1>2, <1>6 DEF Start, Stop, Join, Loop
  <1>7. CASE Tick BY <1>1, <1>7, TickKeeps
  <1>8. CASE UNCHANGED vars BY <1>2, <1>8 DEF vars
  <1> QED BY <1>3, <1>4, <1>5, <1>6, <1>7, <1>8 DEF Next

LEMMA LimitInvariant == Spec => []LimitInv
  <1>1. Init => LimitInv
    <2> SUFFICES ASSUME Init PROVE LimitInv
      OBVIOUS
    <2>1. network = <<>> /\ auditors = <<>> /\ recent = LongAgo /\ due = NotDue BY DEF Init
    <2>2. MaxKeys \in Nat /\ NotDue \in Nat /\ N + 1 \in 1..(2 * N) BY NumbersOK
    <2>3. \A K : IsTable(<<>>, K) BY DEF IsTable
    <2>4. TableInv BY <2>1, <2>2, <2>3 DEF TableInv
    <2>5. Admissions(network, recent) BY <2>1, <2>2, LongAgoFacts DEF Admissions
    <2>6. Told(network, due) BY <2>1, <2>2 DEF Told
    <2> QED BY <2>4, <2>5, <2>6 DEF LimitInv
  <1>2. LimitInv /\ [Next]_vars => LimitInv' BY LimitStep
  <1>3. Spec => Init /\ [][Next]_vars BY PTL DEF Spec
  <1> QED BY <1>1, <1>2, <1>3, PTL

(* Whatever the window, the rate, the number of clients and the size of    *)
(* the table: in no stretch as long as the window does a client get more   *)
(* than twice its requests, less one, through, counted from the last time  *)
(* that a full table forgot its window.                                    *)
THEOREM RateAlwaysHeld == Spec => []RateHeld
  <1>1. LimitInv => RateHeld
    <2> SUFFICES ASSUME LimitInv PROVE RateHeld
      OBVIOUS
    <2>1. recent[1] = Window BY AdmissionsHold DEF LimitInv, TableInv
    <2>2. Window \in Nat BY NumbersOK
    <2> QED BY <2>1, <2>2 DEF RateHeld
  <1> QED BY <1>1, LimitInvariant, PTL

(* A client that waited as long as Retry-After said is let in.             *)
THEOREM RetryAfterAlwaysHonest == Spec => []RetryAfterHonest
  <1>1. LimitInv => RetryAfterHonest
    <2> SUFFICES ASSUME LimitInv, due = 0 PROVE Allow(network, Watched, NetworkRequests).allowed
      BY DEF RetryAfterHonest
    <2> DEFINE e == Current(network, Watched)
               d == Allow(network, Watched, NetworkRequests)
    <2>1. N \in Nat \ {0} /\ Window \in Nat \ {0} /\ NotDue \in Nat /\ NotDue # 0 /\ Watched \in Client
      BY NumbersOK, ServiceAssumption
    <2>2. IsTable(network, Client) /\ Len(network) <= MaxKeys BY DEF LimitInv, TableInv
    <2>3. Decision(network, Watched, N, d, e, Client) BY <2>1, <2>2, AllowFacts DEF N
    <2>4. IsCurrent(network, Watched, e, Client) BY <2>1, <2>2, CurrentFacts
    <2> HIDE DEF e, d
    <2>5. e.key = Watched /\ e.age < Window /\ e.age \in 0..Window /\ e.count \in Nat
      BY <2>4 DEF IsCurrent, Entries
    <2>6. ASSUME NEW j \in 1..Len(network), e = network[j] PROVE e.count < N
      <3>1. EndsBy(network, 0) BY <2>1 DEF LimitInv, Told
      <3>2. e.count >= N => Window - e.age <= 0 BY <2>5, <2>6, <3>1 DEF EndsBy
      <3> QED BY <2>1, <2>5, <3>2
    <2>7. e.count < N BY <2>1, <2>4, <2>6 DEF IsCurrent
    <2> QED BY <2>3, <2>7 DEF Decision, d
  <1> QED BY <1>1, LimitInvariant, PTL

LEMMA ShapeInvariant ==
  Spec => [](phase \in {"down", "serving", "joining"} /\ stop \in BOOLEAN /\ racing \in BOOLEAN)
  <1> DEFINE Shape == phase \in {"down", "serving", "joining"} /\ stop \in BOOLEAN /\ racing \in BOOLEAN
  <1>1. Init => Shape BY DEF Init
  <1>2. Shape /\ [Next]_vars => Shape'
    <2> SUFFICES ASSUME Shape, [Next]_vars PROVE Shape'
      OBVIOUS
    <2>1. ASSUME UNCHANGED <<phase, stop, racing>> PROVE Shape' BY <2>1
    <2>2. ASSUME NEW r \in Request,
                 \/ \E c \in Client : Arrive(r, c)
                 \/ Resume(r) \/ Overloaded(r) \/ Answer(r) \/ BodyRefused(r) \/ BodyEnds(r)
          PROVE  Shape'
      BY <2>1, <2>2 DEF Arrive, Resume, Overloaded, Answer, BodyRefused, BodyEnds, verifier
    <2>3. CASE Start BY <2>3 DEF Start
    <2>4. CASE Stop BY <2>4 DEF Stop
    <2>5. CASE Join BY <2>5 DEF Join
    <2>6. ASSUME NEW n \in 1..MaxLives, Loop(n) PROVE Shape' BY <2>1, <2>6 DEF Loop
    <2>7. CASE Tick BY <2>1, <2>7 DEF Tick, verifier
    <2>8. CASE UNCHANGED vars BY <2>1, <2>8 DEF vars, verifier
    <2> QED BY <2>2, <2>3, <2>4, <2>5, <2>6, <2>7, <2>8 DEF Next
  <1>3. Spec => Init /\ [][Next]_vars BY PTL DEF Spec
  <1> QED BY <1>1, <1>2, <1>3, PTL

(* The shape of every state, and the bound on what the limiters remember:  *)
(* however many clients and auditors there are, a table never holds more   *)
(* than max_keys entries (_bound_entries), not after refusals either,      *)
(* which do not call it.                                                   *)
THEOREM TablesStayBounded == Spec => []TypeOK
  <1>1. /\ LimitInv /\ SlotInv /\ VerifierInv
        /\ phase \in {"down", "serving", "joining"} /\ stop \in BOOLEAN /\ racing \in BOOLEAN
        => TypeOK
    <2> SUFFICES ASSUME LimitInv, SlotInv, VerifierInv, phase \in {"down", "serving", "joining"},
                        stop \in BOOLEAN, racing \in BOOLEAN
                 PROVE  TypeOK
      OBVIOUS
    <2>1. ASSUME NEW K, NEW t, IsTable(t, K) PROVE Keys(t) \subseteq K
      <3>1. DOMAIN t = 1..Len(t) /\ \A i \in 1..Len(t) : t[i] \in Entries(K)
        BY <2>1 DEF IsTable
      <3>2. \A i \in 1..Len(t) : t[i].key \in K BY <3>1 DEF Entries
      <3> QED BY <3>1, <3>2 DEF Keys
    <2>2. /\ Keys(network) \subseteq Client /\ Len(network) <= MaxKeys
          /\ Keys(auditors) \subseteq Auditor /\ Len(auditors) <= MaxKeys
      BY <2>1 DEF LimitInv, TableInv
    <2>3. free \in 0..Slots
      <3>1. /\ Cardinality(Holding(req, waiters)) \in Nat /\ Slots \in Nat
        BY HoldingFinite, ServiceAssumption
      <3>2. free \in Nat /\ free + Cardinality(Holding(req, waiters)) = Slots
        BY DEF SlotInv, Balanced
      <3> DEFINE h == Cardinality(Holding(req, waiters))
      <3> HIDE DEF h
      <3>3. h \in Nat /\ free \in Nat /\ free + h = Slots BY <3>1, <3>2 DEF h
      <3> QED BY <3>1, <3>3
    <2>4. req \in [Request -> {"idle", "waiting", "routed", "reading"}] BY DEF SlotInv, Queued
    <2>5. current \in 0..MaxLives /\ due \in 0..NotDue BY DEF VerifierInv, LimitInv, Told
    <2> QED BY <2>2, <2>3, <2>4, <2>5 DEF TypeOK
  <1> QED BY <1>1, LimitInvariant, SlotInvariant, VerifierInvariant, ShapeInvariant, PTL
=============================================================================
