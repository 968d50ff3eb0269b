------------------------------- MODULE Service -------------------------------
(***************************************************************************)
(* The serving process around the store: the lifespan that starts and      *)
(* stops the background verifier, and the middleware every request passes, *)
(* network limiter, then one of the concurrent slots, then the route.  A   *)
(* submission reads its body before it is authenticated and meets the      *)
(* auditor limiter; what it appends is the business of Store.              *)
(*                                                                         *)
(* Requests are coroutines of one event loop: between two awaits nothing   *)
(* else runs.  The verifier is a thread.                                   *)
(***************************************************************************)
EXTENDS Limiter

CONSTANTS Request,           \* requests in flight at a time
          Client,            \* network sources
          Watched,           \* the client the properties follow
          Auditor,
          Slots,             \* max_concurrent_requests
          NetworkRequests,   \* network_requests_per_minute
          Submissions,       \* auditor_submissions_per_minute
          MaxLives           \* bound on lifespans of the process

ASSUME ServiceAssumption ==
  /\ Watched \in Client /\ IsFiniteSet(Request)
  /\ Slots \in Nat \ {0} /\ NetworkRequests \in Nat \ {0}
  /\ Submissions \in Nat \ {0} /\ MaxLives \in Nat \ {0}

VARIABLES network, auditors,   \* the limiters' tables
          free,                \* concurrency._value
          waiters,             \* concurrency._waiters, done or not
          req,                 \* where each request is
          phase,               \* of the lifespan: down, serving, joining
          thread,              \* per start: the verifier thread it made
          current,             \* _verifier_thread, 0 for None
          stop,                \* _verifier_stop
          racing,              \* the last start met a thread that drained
          recent,              \* ages of the watched client's last admissions
          due                  \* ticks until it was told to come again

limits == <<network, auditors, recent, due>>
pool == <<free, waiters, req>>
verifier == <<thread, current, stop, racing>>
vars == <<limits, pool, verifier, phase>>

(* recent holds twice as many ages as a window admits, the oldest first;   *)
(* an age of Window stands for every longer one, and for no admission.     *)
LongAgo == [i \in 1..(2 * NetworkRequests) |-> Window]
Admitted(ages) ==
  [i \in DOMAIN ages |-> IF i = Len(ages) THEN 0 ELSE ages[i + 1]]

NotDue == Window + Second
Init ==
  /\ network = <<>> /\ auditors = <<>>
  /\ free = Slots /\ waiters = <<>> /\ req = [r \in Request |-> "idle"]
  /\ phase = "down"
  /\ thread = [n \in 1..MaxLives |-> "none"] /\ current = 0
  /\ stop = FALSE /\ racing = FALSE
  /\ recent = LongAgo /\ due = NotDue
----------------------------------------------------------------------------
(***************************************************************************)
(* asyncio.Semaphore and asyncio.wait_for (external).                      *)
(***************************************************************************)

(* _wake_up_next: a slot goes to the first waiter that was given none.     *)
WakeNext(f, ws) ==
  LET asleep == {i \in DOMAIN ws : ~ws[i].woken}
  IN  IF asleep = {} THEN [free |-> f, waiters |-> ws]
      ELSE LET i == CHOOSE i \in asleep : \A j \in asleep : i <= j
           IN  [free |-> f - 1, waiters |-> [ws EXCEPT ![i].woken = TRUE]]

Wake(f, ws) == LET next == WakeNext(f, ws)
               IN  free' = next.free /\ waiters' = next.waiters

(* _waiters.remove, and the waiters it is called for.                      *)
Without(ws, i) == [j \in 1..(Len(ws) - 1) |-> IF j < i THEN ws[j] ELSE ws[j + 1]]
Waiting(r, woken) == {i \in DOMAIN waiters : waiters[i] = [req |-> r, woken |-> woken]}
----------------------------------------------------------------------------
(***************************************************************************)
(* resource_controls.                                                      *)
(***************************************************************************)

(* The limiter's decision, and what follows from it for the watched client.*)
Counted(c, d) ==
  /\ network' = d.table
  /\ recent' = IF Watched \in Keys(network) \ Keys(d.table)
                  /\ Unexpired(Entry(network, Watched)) THEN LongAgo
               ELSE IF c = Watched /\ d.allowed THEN Admitted(recent) ELSE recent
  /\ due' = IF c # Watched \/ (~d.allowed /\ due # NotDue) THEN due
            ELSE IF d.allowed THEN NotDue ELSE d.retry * Second

(* call_next: a read, or a submission whose body is awaited.               *)
Routed(r) == \E route \in {"routed", "reading"} : req' = [req EXCEPT ![r] = route]

(* A request arrives, is counted and takes a slot or waits for one.  The   *)
(* slot is taken at once unless none is left or someone waits already.     *)
Arrive(r, c) ==
  LET d == Allow(network, c, NetworkRequests) IN
  /\ phase = "serving" /\ req[r] = "idle"
  /\ Counted(c, d)
  /\ \/ ~d.allowed /\ UNCHANGED pool
     \/ /\ d.allowed /\ free > 0 /\ waiters = <<>>
        /\ free' = free - 1
        /\ Routed(r) /\ UNCHANGED waiters
     \/ /\ d.allowed /\ (free = 0 \/ waiters # <<>>)
        /\ waiters' = Append(waiters, [req |-> r, woken |-> FALSE])
        /\ req' = [req EXCEPT ![r] = "waiting"]
        /\ UNCHANGED free
  /\ UNCHANGED <<auditors, verifier, phase>>

(* A woken waiter runs, and passes on what came free since.                *)
Resume(r) ==
  /\ \E i \in Waiting(r, TRUE) :
       IF free > 0 THEN Wake(free, Without(waiters, i))
       ELSE waiters' = Without(waiters, i) /\ UNCHANGED free
  /\ Routed(r)
  /\ UNCHANGED <<limits, verifier, phase>>

(* After 0.1 s the wait is cancelled, also of one already woken: acquire   *)
(* then hands its slot on.                                                 *)
Overloaded(r) ==
  /\ \/ \E i \in Waiting(r, FALSE) : waiters' = Without(waiters, i) /\ UNCHANGED free
     \/ \E i \in Waiting(r, TRUE) : Wake(free + 1, Without(waiters, i))
  /\ req' = [req EXCEPT ![r] = "idle"]
  /\ UNCHANGED <<limits, verifier, phase>>

(* The end of call_next, by a response or an exception: finally, release.  *)
Leave(r) ==
  /\ req' = [req EXCEPT ![r] = "idle"]
  /\ Wake(free + 1, waiters)

(* A read is answered, or fails.                                           *)
Answer(r) ==
  /\ req[r] = "routed"
  /\ Leave(r)
  /\ UNCHANGED <<limits, verifier, phase>>

(* The body of a submission is complete.  Without a valid token that is    *)
(* all; with one the auditor limiter has its say, and the rest of the      *)
(* handler runs without an await.                                          *)
BodyEnds(r) ==
  /\ req[r] = "reading"
  /\ Leave(r)
  /\ \/ UNCHANGED auditors
     \/ \E a \in Auditor : auditors' = Allow(auditors, a, Submissions).table
  /\ UNCHANGED <<network, recent, due, verifier, phase>>

(* Slip: the slot is released after the answer, not in a finally.          *)
BodyRefusedKeeps(r) ==
  /\ req[r] = "reading"
  /\ req' = [req EXCEPT ![r] = "idle"]
  /\ UNCHANGED <<limits, free, waiters, verifier, phase>>

(* Slip: no deadline, for bodies that end in their own time.               *)
BodyAwaited(r) ==
  /\ FALSE
  /\ UNCHANGED vars

(* _read_request_body: the body is too large, or not there after 15 s.     *)
BodyRefused(r) ==
  /\ req[r] = "reading"
  /\ Leave(r)
  /\ UNCHANGED <<limits, verifier, phase>>
----------------------------------------------------------------------------
(***************************************************************************)
(* The lifespan and the verifier thread.                                   *)
(***************************************************************************)

Alive(n) == n \in DOMAIN thread /\ thread[n] \in {"sleeping", "passing"}
Starts == Cardinality({n \in DOMAIN thread : thread[n] # "none"})

(* Slip: _verifier_stop stays set.                                         *)
StartUncleared ==
  /\ phase = "down" /\ Starts < MaxLives /\ phase' = "serving"
  /\ \/ /\ Alive(current)
        /\ racing' = TRUE /\ UNCHANGED <<thread, current, stop>>
     \/ /\ ~Alive(current)
        /\ thread' = [thread EXCEPT ![Starts + 1] = "sleeping"]
        /\ current' = Starts + 1 /\ racing' = FALSE /\ UNCHANGED stop
  /\ UNCHANGED <<limits, pool>>

(* start_health_verifier, under its lock, when the lifespan begins: a      *)
(* thread that is still there, if only to drain, is left alone.            *)
Start ==
  /\ phase = "down" /\ Starts < MaxLives /\ phase' = "serving"
  /\ \/ /\ Alive(current)
        /\ racing' = TRUE /\ UNCHANGED <<thread, current, stop>>
     \/ /\ ~Alive(current)
        /\ thread' = [thread EXCEPT ![Starts + 1] = "sleeping"]
        /\ current' = Starts + 1 /\ stop' = FALSE /\ racing' = FALSE
  /\ UNCHANGED <<limits, pool>>

(* stop_health_verifier, when the requests have ended: the thread is told, *)
(* and waited for ...                                                      *)
Stop ==
  /\ phase = "serving" /\ \A r \in Request : req[r] = "idle"
  /\ IF current = 0 THEN phase' = "down" /\ UNCHANGED stop
     ELSE phase' = "joining" /\ stop' = TRUE
  /\ UNCHANGED <<limits, pool, thread, current, racing>>

(* Slip: forgotten whether it ended or not.                                *)
JoinForgets ==
  /\ phase = "joining" /\ phase' = "down"
  /\ current' = 0
  /\ UNCHANGED <<limits, pool, thread, stop, racing>>

(* ... for ten seconds: one that outlives them is not forgotten.           *)
Join ==
  /\ phase = "joining" /\ phase' = "down"
  /\ current' = IF Alive(current) THEN current ELSE 0
  /\ UNCHANGED <<limits, pool, thread, stop, racing>>

(* _health_verifier_loop: wait ends at once when stop is set, and after    *)
(* the interval otherwise; the pass itself is Store's.                     *)
Loop(n) ==
  /\ \/ /\ thread[n] = "sleeping"
        /\ thread' = [thread EXCEPT ![n] = IF stop THEN "dead" ELSE "passing"]
     \/ /\ thread[n] = "passing"
        /\ thread' = [thread EXCEPT ![n] = "sleeping"]
  /\ UNCHANGED <<limits, pool, phase, current, stop, racing>>
----------------------------------------------------------------------------
Tick ==
  /\ phase = "serving"
  /\ network' = Aged(network) /\ auditors' = Aged(auditors)
  /\ recent' = [i \in DOMAIN recent |-> IF recent[i] < Window THEN recent[i] + 1 ELSE Window]
  /\ due' = IF due = NotDue \/ due = 0 THEN due ELSE due - 1
  /\ UNCHANGED <<pool, verifier, phase>>

Next ==
  \/ \E r \in Request :
       \/ \E c \in Client : Arrive(r, c)
       \/ Resume(r) \/ Overloaded(r) \/ Answer(r) \/ BodyRefused(r) \/ BodyEnds(r)
  \/ Start \/ Stop \/ Join
  \/ \E n \in 1..MaxLives : Loop(n)
  \/ Tick

(* Timers fire, coroutines and threads run on; clients need not send       *)
(* anything, and a process need not be restarted.                          *)
Spec ==
  /\ Init /\ [][Next]_vars
  /\ \A r \in Request : WF_vars(Overloaded(r)) /\ WF_vars(Answer(r)) /\ WF_vars(BodyRefused(r))
  /\ WF_vars(Join) /\ \A n \in 1..MaxLives : WF_vars(Loop(n))
----------------------------------------------------------------------------
(***************************************************************************)
(* Properties.                                                             *)
(***************************************************************************)

(* Types, and limiter tables within max_keys (_bound_entries).             *)
TypeOK ==
  /\ Keys(network) \subseteq Client /\ Len(network) <= MaxKeys
  /\ Keys(auditors) \subseteq Auditor /\ Len(auditors) <= MaxKeys
  /\ free \in 0..Slots
  /\ req \in [Request -> {"idle", "waiting", "routed", "reading"}]
  /\ phase \in {"down", "serving", "joining"}
  /\ current \in 0..MaxLives /\ stop \in BOOLEAN /\ racing \in BOOLEAN
  /\ due \in 0..NotDue

(* A client gets at most twice its requests, less one, through in any      *)
(* stretch as long as the window, wherever the windows begin, unless the   *)
(* table was too full to keep its entry (FixedWindowLimiter.allow): one    *)
(* more admission back, and the window has passed since.                   *)
RateHeld == recent[1] >= Window

(* A client that was refused and comes again when Retry-After said, or     *)
(* later, is let in, however often it or others asked in between           *)
(* (RateDecision.retry_after).                                             *)
RetryAfterHonest ==
  due = 0 => Allow(network, Watched, NetworkRequests).allowed

(* Every slot is free, held by a running request or handed to a waiter,    *)
(* and nobody waits for a free one but behind a waiter that will wake him, *)
(* whichever way requests ended (resource_controls' finally).              *)
Holders == {r \in Request : req[r] \in {"routed", "reading"} \/ Waiting(r, TRUE) # {}}
SlotsAccounted ==
  /\ free + Cardinality(Holders) = Slots
  /\ free > 0 /\ waiters # <<>> => \E i \in DOMAIN waiters : waiters[i].woken

(* There are never two verifier threads, although a thread may outlive the *)
(* wait for its end (stop_health_verifier).                                *)
OneVerifier == Cardinality({n \in DOMAIN thread : Alive(n)}) <= 1

(* A service whose start met no draining thread has a verifier that nobody *)
(* told to stop (start_health_verifier).                                   *)
ServiceIsVerified == phase = "serving" /\ ~racing => Alive(current) /\ ~stop

(* Every request is answered, also when its body never comes and all slots *)
(* are taken.                                                              *)
EveryRequestEnds == \A r \in Request : req[r] # "idle" ~> req[r] = "idle"
=============================================================================
