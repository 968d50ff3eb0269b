------------------------------- MODULE Pages -------------------------------
(***************************************************************************)
(* Paged reads.  A client walks /v1/log or /v1/records page by page; each  *)
(* cursor carries the signed boundary of the walk.  Meanwhile the log      *)
(* grows, the clock runs, answers are lost, signing keys rotate, storage   *)
(* loses its tail or is replaced by an older backup.  Reads change nothing *)
(* in the service, so one walk stands for any number of them.              *)
(*                                                                         *)
(* An entry carries the unique number it was born with, and a boundary is  *)
(* the sequence of entries it commits to: hashes have no collisions.       *)
(***************************************************************************)
EXTENDS Naturals, Sequences, SequencesExt

CONSTANTS Name,        \* what tells records of one subject apart, ordered
          Subject,     \* what /v1/records asks for: identity or content
          Limit,       \* page sizes
          TTL,         \* CURSOR_TTL_SECONDS
          MaxLog, MaxBorn, MaxClock, MaxFaults   \* bounds

ASSUME PagesAssumption ==
  /\ Name \subseteq Nat /\ Limit \subseteq Nat \ {0} /\ TTL \in Nat
  /\ MaxLog \in Nat /\ MaxBorn \in Nat /\ MaxClock \in Nat /\ MaxFaults \in Nat

VARIABLES log,      \* the committed entries
          born,     \* entries ever appended, restored-away ones included
          sound,    \* FALSE once a tail is lost: appends latch from then on
          era,      \* stage of the key rotation
          now,
          faults,   \* lost answers, losses and restores so far
          walk      \* the client's walk and the request in progress

vars == <<log, born, sound, era, now, faults, walk>>

Entry == [name : Name, about : Subject, id : 1..MaxBorn]
Query == [on : {"log"}, since : 0..MaxLog, limit : Limit]
           \cup [on : {"records"}, about : Subject, limit : Limit]

(* The key a started service signs with, and those it accepts: before the  *)
(* rotation, with the staged key published, activated, and with the old    *)
(* key retired.                                                            *)
Signer == IF era \in {"before", "staged"} THEN "old" ELSE "new"
Accepted == CASE era = "before" -> {"old"}
              [] era \in {"staged", "overlap"} -> {"old", "new"}
              [] era = "after" -> {"new"}

NoWalk == [phase |-> "idle"]

Init ==
  /\ log = <<>> /\ born = 0 /\ sound = TRUE
  /\ era = "before" /\ now = 0 /\ faults = 0
  /\ walk = NoWalk
----------------------------------------------------------------------------
(***************************************************************************)
(* The queries.                                                            *)
(***************************************************************************)

(* records_page's SELECT: of the rows about the subject the last of each   *)
(* name, ordered by name.                                                  *)
RecordRows(l, about) ==
  LET Hits == {i \in DOMAIN l : l[i].about = about}
      Newest == {i \in Hits : \A j \in Hits : l[j].name = l[i].name => j <= i}
  IN  CHOOSE rows \in [1..Cardinality(Newest) -> Newest] :
        \A i, j \in DOMAIN rows : i < j => l[rows[i]].name < l[rows[j]].name

(* log_page's SELECT.                                                      *)
LogRows(l, since) == [i \in 1..(IF Len(l) > since THEN Len(l) - since ELSE 0) |-> since + i]

Rows(l, q) == IF q.on = "log" THEN LogRows(l, q.since) ELSE RecordRows(l, q.about)

(* Slip: the page is read from the log as it is, not up to the boundary.   *)
PageOfLive(q, size, offset) ==
  LET rows == Rows(log, q)
      found == SubSeq(rows, offset + 1, Min({Len(rows), offset + q.limit}))
  IN  [found |-> [i \in DOMAIN found |-> <<found[i], log[found[i]]>>],
       more  |-> Len(rows) > offset + q.limit]

(* LIMIT limit + 1 OFFSET offset among the rows up to seq size; the extra  *)
(* row only tells that there is more.                                      *)
Page(q, size, offset) ==
  LET rows == Rows(SubSeq(log, 1, size), q)
      found == SubSeq(rows, offset + 1, Min({Len(rows), offset + q.limit}))
  IN  [found |-> [i \in DOMAIN found |-> <<found[i], log[found[i]]>>],
       more  |-> Len(rows) > offset + q.limit]

(* Slip: only the size of a carried boundary is compared.                  *)
BoundaryOfSize(b) == Len(b) <= Len(log)

(* boundary_available, and _page_boundary_locked on a carried boundary.    *)
BoundaryAvailable(b) == IsPrefix(b, log)

EncodeCursor(snapshot, offset, page) ==
  [snapshot |-> snapshot, signer |-> Signer,
   offset |-> offset + Len(page.found), expires |-> now + TTL]

(* The answer: the page's rows, its boundary, and the next cursor if any.  *)
Served(page, snapshot, offset) ==
  walk' = [phase  |-> IF page.more THEN "ready" ELSE "done",
           query  |-> walk.query,
           got    |-> walk.got \o page.found,
           seen   |-> walk.seen \cup {snapshot},
           cursor |-> IF page.more THEN EncodeCursor(snapshot, offset, page) ELSE walk.cursor]
----------------------------------------------------------------------------
(***************************************************************************)
(* Requests.  Each takes the store's lock twice; anything may happen in    *)
(* between.                                                                *)
(***************************************************************************)

(* A request without a cursor, up to the signed boundary.                  *)
Ask(q) ==
  /\ walk.phase = "idle"
  /\ walk' = [phase |-> "asked", query |-> q, got |-> <<>>, seen |-> {},
              cursor |-> [snapshot |-> [log |-> log, signer |-> Signer],
                          signer |-> Signer, offset |-> 0, expires |-> now]]
  /\ UNCHANGED <<log, born, sound, era, now, faults>>

FirstPage ==
  /\ walk.phase = "asked"
  /\ LET snapshot == walk.cursor.snapshot
         size == Len(snapshot.log)
     IN  IF size <= Len(log)
         THEN Served(Page(walk.query, size, 0), snapshot, 0)
         ELSE walk' = NoWalk                 \* ValueError: boundary unavailable
  /\ UNCHANGED <<log, born, sound, era, now, faults>>

(* Slip: only what the active key signed verifies.                         *)
CursorLiveByActiveKey(c) ==
  /\ c.signer = Signer /\ c.snapshot.signer = Signer
  /\ BoundaryAvailable(c.snapshot.log)
  /\ c.expires >= now

(* _cursor_state: both signatures, the boundary, the expiry.               *)
CursorLive(c) ==
  /\ c.signer \in Accepted /\ c.snapshot.signer \in Accepted
  /\ BoundaryAvailable(c.snapshot.log)
  /\ c.expires >= now

CheckCursor ==
  /\ walk.phase = "ready"
  /\ walk' = [walk EXCEPT !.phase = IF CursorLive(walk.cursor) THEN "checked" ELSE "refused"]
  /\ UNCHANGED <<log, born, sound, era, now, faults>>

(* The page at the carried boundary, which is compared once more.          *)
NextPage ==
  /\ walk.phase = "checked"
  /\ LET c == walk.cursor
         size == Len(c.snapshot.log)
     IN  IF BoundaryAvailable(c.snapshot.log)
         THEN Served(Page(walk.query, size, c.offset), c.snapshot, c.offset)
         ELSE walk' = [walk EXCEPT !.phase = "refused"]   \* CursorBoundaryMismatch
  /\ UNCHANGED <<log, born, sound, era, now, faults>>

(* A request in progress comes to nothing; the client sends it again.      *)
Unanswered(w) ==
  CASE w.phase = "asked" -> NoWalk
    [] w.phase = "checked" -> [w EXCEPT !.phase = "ready"]
    [] OTHER -> w

AnswerLost ==
  /\ faults < MaxFaults /\ walk.phase \in {"asked", "checked"}
  /\ faults' = faults + 1
  /\ walk' = Unanswered(walk)
  /\ UNCHANGED <<log, born, sound, era, now>>
----------------------------------------------------------------------------
(***************************************************************************)
(* What goes on meanwhile.                                                 *)
(***************************************************************************)

AppendRecord(name, about) ==
  /\ sound /\ Len(log) < MaxLog /\ born < MaxBorn
  /\ born' = born + 1
  /\ log' = log \o <<[name |-> name, about |-> about, id |-> born + 1]>>
  /\ UNCHANGED <<sound, era, now, faults, walk>>

(* The next stage of a rotation; the service restarts to take it up.       *)
Rotate ==
  /\ sound
  /\ \/ era = "before" /\ era' = "staged"
     \/ era = "staged" /\ era' = "overlap"
     \/ era = "overlap" /\ era' = "after"
  /\ walk' = Unanswered(walk)
  /\ UNCHANGED <<log, born, sound, now, faults>>

(* Storage loses the last entries under the running service: reads of what *)
(* is left go on, the next append latches.                                 *)
LoseTail(n) ==
  /\ faults < MaxFaults /\ n < Len(log)
  /\ faults' = faults + 1
  /\ log' = SubSeq(log, 1, n) /\ sound' = FALSE
  /\ UNCHANGED <<born, era, now, walk>>

(* The service is started again on an older, consistent backup.            *)
Restore(n) ==
  /\ faults < MaxFaults /\ n <= Len(log)
  /\ faults' = faults + 1
  /\ log' = SubSeq(log, 1, n) /\ sound' = TRUE
  /\ walk' = Unanswered(walk)
  /\ UNCHANGED <<born, era, now>>

Tick ==
  /\ now < MaxClock /\ now' = now + 1
  /\ UNCHANGED <<log, born, sound, era, faults, walk>>
----------------------------------------------------------------------------
Next ==
  \/ \E q \in Query : Ask(q)
  \/ FirstPage \/ CheckCursor \/ NextPage \/ AnswerLost
  \/ \E name \in Name, about \in Subject : AppendRecord(name, about)
  \/ Rotate \/ Tick
  \/ \E n \in 0..MaxLog : LoseTail(n) \/ Restore(n)

Spec == Init /\ [][Next]_vars
----------------------------------------------------------------------------
(* Values keep their types, and a cursor always points behind a page.      *)
TypeOK ==
  /\ log \in Seq(Entry) /\ Len(log) <= MaxLog
  /\ born \in 0..MaxBorn /\ sound \in BOOLEAN /\ now \in 0..MaxClock
  /\ era \in {"before", "staged", "overlap", "after"} /\ faults \in 0..MaxFaults
  /\ walk.phase \in {"idle", "asked", "ready", "checked", "done", "refused"}
  /\ walk.phase # "idle" =>
       /\ walk.query \in Query
       /\ \A i \in DOMAIN walk.got : walk.got[i] \in (1..MaxLog) \X Entry
       /\ walk.cursor.snapshot.log \in Seq(Entry)
       /\ {walk.cursor.signer, walk.cursor.snapshot.signer} \subseteq {"old", "new"}
  /\ walk.phase \in {"ready", "checked"} => walk.cursor.offset \in 1..MaxLog

Seqs(w) == [i \in DOMAIN w.got |-> w.got[i][1]]

(* What a finished walk must amount to at its boundary b.                  *)
LogExactly(w, b) ==
  Seqs(w) = [i \in 1..Len(w.got) |-> w.query.since + i]
    /\ Len(w.got) = IF w.query.since < Len(b) THEN Len(b) - w.query.since ELSE 0

RecordsExactly(w, b) ==
  /\ \A i, j \in DOMAIN w.got : i < j => w.got[i][2].name < w.got[j][2].name
  /\ \A i \in DOMAIN w.got : w.got[i][2].about = w.query.about
  /\ \A s \in DOMAIN b : b[s].about = w.query.about =>
        \E i \in DOMAIN w.got : w.got[i][2].name = b[s].name /\ w.got[i][1] >= s

(* A walk shows one signed boundary on every page, every row it returned   *)
(* is a row of that boundary, and when it ends the rows are together       *)
(* exactly the answer there: whatever was appended, lost, restored or      *)
(* rotated meanwhile, nothing is duplicated, omitted, replaced, reordered. *)
WalkExact ==
  walk.phase \in {"ready", "checked", "done", "refused"} =>
    \E snapshot \in walk.seen :
      /\ walk.seen = {snapshot}
      /\ \A i \in DOMAIN walk.got :
            /\ walk.got[i][1] \in DOMAIN snapshot.log
            /\ snapshot.log[walk.got[i][1]] = walk.got[i][2]
      /\ walk.phase = "done" =>
           IF walk.query.on = "log" THEN LogExactly(walk, snapshot.log)
                                    ELSE RecordsExactly(walk, snapshot.log)

(* A cursor is refused only if it expired, if the log no longer extends    *)
(* its boundary, or if a key that signed it or its boundary was retired:   *)
(* neither growth, nor lost answers, nor a rotation inside its overlap     *)
(* ends a walk.                                                            *)
RefusalJustified ==
  walk.phase = "refused" =>
    \/ walk.cursor.expires < now
    \/ ~ IsPrefix(walk.cursor.snapshot.log, log)
    \/ era = "after" /\ "old" \in {walk.cursor.signer, walk.cursor.snapshot.signer}
=============================================================================
