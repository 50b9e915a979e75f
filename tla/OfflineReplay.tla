--------------------------- MODULE OfflineReplay ---------------------------
(***************************************************************************)
(* POST /sync/attendance-sessions (sync_service.py): a device replays the  *)
(* taps it queued offline, and repeats the batch when it hears no answer.  *)
(* One employee, one day; a handler loads the day, decides record by       *)
(* record, and commits.  A record may name the attendance row the device   *)
(* saw when it was online; that row may have been archived since.          *)
(***************************************************************************)
EXTENDS WorkLog

CONSTANTS
  Records,     \* the taps of the device, in order: [type, ts, named]
  Handlers,    \* uvicorn workers
  Window,      \* DUPLICATE_WINDOW
  MaxReplays   \* bound on the batches sent

ASSUME OfflineReplayAssumption ==
  /\ MaxReplays \in Nat /\ Window \in Nat
  /\ Records \in Seq([type : SessionTypes, ts : Nat, named : BOOLEAN])

VARIABLES
  row,       \* the attendance row: "none", "named" (the device knows its id), "new"
  log,       \* its committed sessions
  total,     \* total_duration_minutes
  tapped,    \* how many of the Records were made
  queue,     \* positions of those the device holds as pending
  turn,      \* of each handler: "idle", "insert", "commit" or "answer"
  batch,     \* the positions it was sent
  loaded,    \* the sessions its SELECT returned
  replays,
  overlaps   \* history: two handlers were at work at once

replayVars == <<row, log, total, tapped, queue, turn, batch, loaded, replays, overlaps>>

ReplayInit ==
  /\ row \in {"none", "named"}
  /\ log = IF row = "named" THEN <<[type |-> "START", ts |-> 1]>> ELSE <<>>
  /\ total = 0 /\ tapped = 0 /\ queue = {} /\ replays = 0 /\ overlaps = FALSE
  /\ turn = [h \in Handlers |-> "idle"] /\ batch = [h \in Handlers |-> <<>>]
  /\ loaded = [h \in Handlers |-> <<>>]

GoTo(h, p) == turn' = [turn EXCEPT ![h] = p]
-----------------------------------------------------------------------------
(* What a handler decides                                                  *)

IsDuplicate(seen, r) == \E i \in DOMAIN seen :
  seen[i].type = r.type /\ seen[i].ts - r.ts \in -Window .. Window

\* A named row that is gone: "unknown attendance_id".
Unresolved(r) == r.named /\ row # "named"

Session(r) == [type |-> r.type, ts |-> r.ts]

\* One pass over the batch; what it adds is seen by the records behind.
BugDecide(acc, p) == IF Unresolved(Records[p]) \/ IsDuplicate(acc.seen, Records[p]) THEN acc
                     ELSE [acc EXCEPT !.new = Append(@, Session(Records[p]))]
Decide(acc, p) ==
  IF Unresolved(Records[p]) \/ IsDuplicate(acc.seen, Records[p]) THEN acc
  ELSE [seen |-> Append(acc.seen, Session(Records[p])),
        new  |-> Append(acc.new, Session(Records[p]))]

New(h) == FoldLeft(Decide, [seen |-> loaded[h], new |-> <<>>], batch[h]).new
-----------------------------------------------------------------------------
TapOffline == /\ tapped < Len(Records) /\ tapped' = tapped + 1
              /\ queue' = queue \cup {tapped'}
              /\ UNCHANGED <<row, log, total, turn, batch, loaded, replays, overlaps>>

\* Pending taps are sent in the order in which they happened.
OldestFirst(s) == \A i, j \in DOMAIN s : i < j => s[i] < s[j]

\* get_by_id or get_for_user_date, with the sessions of the row.
SyncAttendanceSessions(h) ==
  /\ turn[h] = "idle" /\ queue # {} /\ replays < MaxReplays /\ replays' = replays + 1
  /\ \E pending \in SetToSeqs(queue) :
       OldestFirst(pending) /\ batch' = [batch EXCEPT ![h] = pending]
  /\ loaded' = [loaded EXCEPT ![h] = log]
  /\ overlaps' = (overlaps \/ \E g \in Handlers : turn[g] # "idle")
  /\ GoTo(h, IF row = "none" /\ \E p \in queue : ~Records[p].named THEN "insert" ELSE "commit")
  /\ UNCHANGED <<row, log, total, tapped, queue>>

\* The INSERT of the row waits for one that is not committed, and breaks
\* UNIQUE (user_id, date) after it: the whole batch is answered with a 500.
InsertRow(h) ==
  /\ turn[h] = "insert"
  /\ \A g \in Handlers \ {h} : ~(turn[g] = "commit" /\ row = "none" /\ New(g) # <<>>)
  /\ IF row = "none" THEN GoTo(h, "commit") /\ UNCHANGED <<batch, loaded>>
     ELSE /\ GoTo(h, "idle") /\ batch' = [batch EXCEPT ![h] = <<>>]
          /\ loaded' = [loaded EXCEPT ![h] = <<>>]
  /\ UNCHANGED <<row, log, total, tapped, queue, replays, overlaps>>

\* get_by_id gives back the object of the session's identity map, with the
\* collection as it was loaded before the batch: the total is computed from it.
CommitReplay(h) ==
  /\ turn[h] = "commit" /\ GoTo(h, "answer")
  /\ IF New(h) = <<>> THEN UNCHANGED <<row, log, total>>
     ELSE /\ log' = log \o New(h) /\ total' = CalculateDuration(loaded[h])
          /\ row' = IF row = "none" THEN "new" ELSE row
  /\ UNCHANGED <<tapped, queue, batch, loaded, replays, overlaps>>

\* Processed and skipped records leave the queue; those in error stay.
Settled(h) == {p \in Range(batch[h]) : ~Unresolved(Records[p])}
AnswerReplay(h, lost) ==
  /\ turn[h] = "answer" /\ GoTo(h, "idle")
  /\ queue' = IF lost THEN queue ELSE queue \ Settled(h)
  /\ batch' = [batch EXCEPT ![h] = <<>>] /\ loaded' = [loaded EXCEPT ![h] = <<>>]
  /\ UNCHANGED <<row, log, total, tapped, replays, overlaps>>

ReplayNext ==
  \/ TapOffline
  \/ \E h \in Handlers : \/ SyncAttendanceSessions(h) \/ InsertRow(h) \/ CommitReplay(h)
                         \/ \E lost \in BOOLEAN : AnswerReplay(h, lost)

ReplaySpec == ReplayInit /\ [][ReplayNext]_replayVars
-----------------------------------------------------------------------------
ReplayTypeOK ==
  /\ row \in {"none", "named", "new"} /\ total \in Nat /\ tapped \in 0 .. Len(Records)
  /\ queue \subseteq 1 .. tapped /\ replays \in 0 .. MaxReplays /\ overlaps \in BOOLEAN
  /\ turn \in [Handlers -> {"idle", "insert", "commit", "answer"}]
  /\ \A h \in Handlers : (turn[h] = "idle") = (batch[h] = <<>>)
  /\ row = "none" => log = <<>>

Alike(s, t) == s.type = t.type /\ s.ts - t.ts \in -Window .. Window

\* "Nothing is ever silently lost" (sync_service.py:8) and "Idempotent:
\* duplicates (same attendance_id + type within 30s) report as skipped"
\* (api/v1/sync.py:34): a tap that left the queue of the device is stored, or
\* one of its type within the window is, and the day never holds it twice,
\* however often the batch is repeated, unless two replays were at work at once.
SettledOnce ==
  /\ \A p \in 1 .. tapped \ queue : \E i \in DOMAIN log : Alike(log[i], Records[p])
  /\ overlaps \/ \A i, j \in DOMAIN log : Alike(log[i], log[j]) => i = j

\* "Durations are recomputed for every touched attendance from its full
\* session set" (sync_service.py:19).
TotalMatchesLog == total = CalculateDuration(log)
=============================================================================
