---------------------------- MODULE Housekeeping ----------------------------
(***************************************************************************)
(* What keeps the stores small.  run_cleanup (sync_cleanup.py) moves old   *)
(* attendance to an archive, in every uvicorn worker that holds a          *)
(* scheduler (main.py), while corrections and replays still reach old days *)
(* and replays make rows for days that have none; PostgreSQL runs it as    *)
(* one READ COMMITTED transaction.                                         *)
(* redis_cleanup_job (scheduler.py) gives a TTL to keys a cut writer left  *)
(* without, and the rate limiter (dependencies.py) counts in a key that is *)
(* to expire with its window.                                              *)
(***************************************************************************)
EXTENDS Integers

CONSTANTS
  Old,        \* attendance rows of days more than a year ago
  Marks,      \* the sessions a row may have
  Cleaners,   \* workers
  MaxErrors,  \* bound on failed statements and cut handlers, and on missed sweeps
  MaxDay,     \* bound on the days that pass
  MaxHits     \* LOGIN_MAX_ATTEMPTS or rate_limit_per_minute

ASSUME HousekeepingAssumption ==
  /\ MaxErrors \in Nat /\ MaxDay \in Nat /\ MaxHits \in Nat

VARIABLES
  present,    \* rows in attendance
  sessionsOf, \* the sessions of each of them
  archived,   \* rows in attendance_archive
  snapshot,   \* sessions_snapshot
  place,      \* where each cleaner is
  picked,     \* the rows its SELECT saw
  copied,     \* the sessions it saw
  doomed,     \* the rows its DELETE has locked
  known,      \* history: sessions ever committed to each row
  late,       \* history: sessions, with a new row or an old one, that were
              \*   committed between the two statements of a cleaner
  errors,
  today,      \* days since the first
  keyDay,     \* the day the attendance state key speaks of
  keyTtl,     \* "absent", "none", "midnight" or "default"
  swept,      \* the last day whose 23:00 is over; a default TTL lasts until the next
  unswept,    \* history: the days on which no sweep ran to its end
  writer,     \* the writer of the key is between HSET and EXPIREAT
  sweep,      \* the sweep is between TTL and EXPIRE
  hits,       \* the counter of the limiter, 0 when its key is absent
  hitTtl,     \* it has a TTL
  hitter,     \* a request is between INCR and EXPIRE
  stuck       \* history: one was cut there

archiveVars == <<present, sessionsOf, archived, snapshot, place, picked, copied, doomed, known, late>>
keyVars     == <<today, keyDay, keyTtl, swept, unswept, writer, sweep>>
limitVars   == <<hits, hitTtl, hitter, stuck>>
housekeepingVars == <<archiveVars, keyVars, limitVars, errors>>

\* Row r is in attendance with the sessions f[r], which are none if it is not there.
HousekeepingStart(f) ==
  /\ present = {r \in Old : f[r] # {}} /\ sessionsOf = f /\ known = f
  /\ archived = {} /\ snapshot = [r \in Old |-> {}]
  /\ place = [w \in Cleaners |-> "idle"]
  /\ picked = [w \in Cleaners |-> {}] /\ doomed = [w \in Cleaners |-> {}]
  /\ copied = [w \in Cleaners |-> [r \in Old |-> {}]]
  /\ late = {} /\ errors = 0
  /\ today = 0 /\ keyDay = 0 /\ keyTtl = "absent" /\ swept = -1 /\ unswept = 0
  /\ writer = FALSE /\ sweep = FALSE
  /\ hits = 0 /\ hitTtl = FALSE /\ hitter = FALSE /\ stuck = FALSE

HousekeepingInit == \E f \in [Old -> SUBSET Marks] : HousekeepingStart(f)

Error == errors < MaxErrors /\ errors' = errors + 1
Moves(w, p) == place' = [place EXCEPT ![w] = p]
-----------------------------------------------------------------------------
(* The archive                                                             *)

\* The statement INSERT ... SELECT sees the rows as they are when it begins.
SelectOld(w) ==
  /\ place[w] = "idle" /\ present # {} /\ Moves(w, "insert")
  /\ picked' = [picked EXCEPT ![w] = present] /\ copied' = [copied EXCEPT ![w] = sessionsOf]
  /\ UNCHANGED <<present, sessionsOf, archived, snapshot, doomed, known, late, errors, keyVars, limitVars>>

\* A row that another cleaner has inserted and not committed makes it wait;
\* ON CONFLICT DO NOTHING.
InsertArchive(w) ==
  /\ place[w] = "insert"
  /\ \A v \in Cleaners : place[v] \in {"delete", "commit"} => picked[v] \cap picked[w] = {}
  /\ Moves(w, "delete") /\ picked' = [picked EXCEPT ![w] = @ \ archived]
  /\ UNCHANGED <<present, sessionsOf, archived, snapshot, copied, doomed, known, late, errors, keyVars, limitVars>>

\* DELETE is a statement of its own, it sees the rows of that moment; its
\* cascade takes their sessions, those that came after the SELECT included.
OldNow(w) == present
DeleteOld(w) ==
  /\ place[w] = "delete" /\ \A v \in Cleaners : doomed[v] = {}
  /\ Moves(w, "commit") /\ doomed' = [doomed EXCEPT ![w] = OldNow(w)]
  /\ UNCHANGED <<present, sessionsOf, archived, snapshot, picked, copied, known, late, errors, keyVars, limitVars>>

CommitArchive(w) ==
  /\ place[w] = "commit" /\ Moves(w, "idle")
  /\ present' = present \ doomed[w]
  /\ sessionsOf' = [r \in Old |-> IF r \in doomed[w] THEN {} ELSE sessionsOf[r]]
  /\ archived' = archived \cup picked[w]
  /\ snapshot' = [r \in Old |-> IF r \in picked[w] THEN copied[w][r] ELSE snapshot[r]]
  /\ picked' = [picked EXCEPT ![w] = {}] /\ doomed' = [doomed EXCEPT ![w] = {}]
  /\ copied' = [copied EXCEPT ![w] = [r \in Old |-> {}]]
  /\ UNCHANGED <<known, late, errors, keyVars, limitVars>>

\* A statement fails, or the worker stops: the transaction is rolled back.
BugRollback(w) == IF place[w] = "insert" THEN "delete" ELSE "idle"
Rollback(w) == "idle"
FailArchive(w) ==
  /\ Error /\ place[w] # "idle" /\ Moves(w, Rollback(w))
  /\ picked' = [picked EXCEPT ![w] = {}] /\ doomed' = [doomed EXCEPT ![w] = {}]
  /\ copied' = [copied EXCEPT ![w] = [r \in Old |-> {}]]
  /\ UNCHANGED <<present, sessionsOf, archived, snapshot, known, late, keyVars, limitVars>>

\* A cleaner has run its SELECT and not yet its DELETE.
BetweenStatements == \E w \in Cleaners : place[w] \in {"insert", "delete"}

\* A session of an old row is committed.
CommitSession(r, s) ==
  /\ s \notin known[r]
  /\ sessionsOf' = [sessionsOf EXCEPT ![r] = @ \cup {s}]
  /\ known' = [known EXCEPT ![r] = @ \cup {s}]
  /\ late' = IF BetweenStatements THEN late \cup {<<r, s>>} ELSE late
  /\ UNCHANGED <<archived, snapshot, place, picked, copied, doomed, errors, keyVars, limitVars>>

\* A correction or a replay of an old day: its foreign key waits for a DELETE.
AddOldSession(r, s) ==
  /\ r \in present /\ \A w \in Cleaners : r \notin doomed[w]
  /\ CommitSession(r, s) /\ UNCHANGED present

\* A replay of an old day that has no row (any more): it makes one, with a new
\* id, and commits it with its first session.
AddOldRow(r, s) ==
  /\ known[r] = {} /\ present' = present \cup {r}
  /\ CommitSession(r, s)
-----------------------------------------------------------------------------
(* The attendance state key and its sweep                                  *)

\* HSET keeps a TTL that is there.
WriteKey == /\ ~writer /\ writer' = TRUE /\ keyDay' = today
            /\ keyTtl' = IF keyTtl = "absent" THEN "none" ELSE keyTtl
            /\ UNCHANGED <<today, swept, unswept, sweep, archiveVars, limitVars, errors>>

\* EXPIREAT the midnight that ends the day of the write; a past one deletes.
ExpireKeyAt == /\ writer /\ writer' = FALSE
               /\ keyTtl' = CASE keyTtl = "absent" -> "absent"
                              [] keyDay < today -> "absent"
                              [] OTHER -> "midnight"
               /\ UNCHANGED <<today, keyDay, swept, unswept, sweep, archiveVars, limitVars, errors>>

CutWriter == /\ Error /\ writer /\ writer' = FALSE
             /\ UNCHANGED <<today, keyDay, keyTtl, swept, unswept, sweep, archiveVars, limitVars>>

\* 00:00 UTC.  23:00 business time, which is in the evening, has passed.
Midnight == /\ today < MaxDay /\ ~sweep /\ swept = today /\ today' = today + 1
            /\ keyTtl' = IF keyTtl = "midnight" THEN "absent" ELSE keyTtl
            /\ UNCHANGED <<keyDay, swept, unswept, writer, sweep, archiveVars, limitVars, errors>>

\* 23:00: the default TTL of 24 hours of yesterday's sweep has run out.
NeedsTtl(ttl) == ttl = "none"
SweepLooks == /\ ~sweep /\ swept < today /\ swept' = today
              /\ LET ttl == IF keyTtl = "default" THEN "absent" ELSE keyTtl IN
                   keyTtl' = ttl /\ sweep' = NeedsTtl(ttl)
              /\ UNCHANGED <<today, keyDay, unswept, writer, archiveVars, limitVars, errors>>

\* No worker runs the sweep of the day.
MissSweep == /\ ~sweep /\ swept < today /\ unswept < MaxErrors
             /\ swept' = today /\ unswept' = unswept + 1
             /\ keyTtl' = IF keyTtl = "default" THEN "absent" ELSE keyTtl
             /\ UNCHANGED <<today, keyDay, writer, sweep, archiveVars, limitVars, errors>>

\* The worker that claimed it stops between the two commands.
CutSweep == /\ sweep /\ unswept < MaxErrors
            /\ sweep' = FALSE /\ unswept' = unswept + 1
            /\ UNCHANGED <<today, keyDay, keyTtl, swept, writer, archiveVars, limitVars, errors>>

\* EXPIRE key 86400, whatever TTL a writer has given it since.
SweepExpires == /\ sweep /\ sweep' = FALSE
                /\ keyTtl' = IF keyTtl = "absent" THEN "absent" ELSE "default"
                /\ UNCHANGED <<today, keyDay, swept, unswept, writer, archiveVars, limitVars, errors>>
-----------------------------------------------------------------------------
(* The rate limiter: INCR, and EXPIRE by the request that made the key     *)

BugOpensWindow(n) == n = 0
OpensWindow(n) == n = 1
Hit == /\ hits <= MaxHits /\ hits' = hits + 1
       /\ hitter' = (hitter \/ OpensWindow(hits'))
       /\ UNCHANGED <<hitTtl, stuck, archiveVars, keyVars, errors>>

ExpireHits == /\ hitter /\ hitter' = FALSE /\ hitTtl' = (hits > 0)
              /\ UNCHANGED <<hits, stuck, archiveVars, keyVars, errors>>

CutHitter == /\ Error /\ hitter /\ hitter' = FALSE /\ stuck' = TRUE
             /\ UNCHANGED <<hits, hitTtl, archiveVars, keyVars>>

WindowEnds == /\ hitTtl /\ hits' = 0 /\ hitTtl' = FALSE
              /\ UNCHANGED <<hitter, stuck, archiveVars, keyVars, errors>>
-----------------------------------------------------------------------------
RunCleanup(w) == SelectOld(w) \/ InsertArchive(w) \/ DeleteOld(w) \/ CommitArchive(w)
Sweeps == SweepLooks \/ SweepExpires

ArchiveNext ==
  \/ \E w \in Cleaners : RunCleanup(w) \/ FailArchive(w)
  \/ \E r \in Old, s \in Marks : AddOldSession(r, s) \/ AddOldRow(r, s)
KeysNext == WriteKey \/ ExpireKeyAt \/ CutWriter \/ Midnight \/ Sweeps \/ MissSweep \/ CutSweep
LimitsNext == Hit \/ ExpireHits \/ CutHitter \/ WindowEnds

HousekeepingNext == ArchiveNext \/ KeysNext \/ LimitsNext

HousekeepingSpec == HousekeepingInit /\ [][HousekeepingNext]_housekeepingVars
-----------------------------------------------------------------------------
HousekeepingTypeOK ==
  /\ present \subseteq Old /\ archived \subseteq Old
  /\ sessionsOf \in [Old -> SUBSET Marks] /\ snapshot \in [Old -> SUBSET Marks]
  /\ known \in [Old -> SUBSET Marks] /\ late \subseteq Old \X Marks
  /\ place \in [Cleaners -> {"idle", "insert", "delete", "commit"}]
  /\ picked \in [Cleaners -> SUBSET Old] /\ doomed \in [Cleaners -> SUBSET Old]
  /\ copied \in [Cleaners -> [Old -> SUBSET Marks]] /\ errors \in Nat
  /\ today \in 0 .. MaxDay /\ keyDay \in 0 .. MaxDay /\ swept \in -1 .. MaxDay
  /\ unswept \in 0 .. MaxErrors
  /\ keyTtl \in {"absent", "none", "midnight", "default"}
  /\ writer \in BOOLEAN /\ sweep \in BOOLEAN
  /\ hits \in 0 .. MaxHits + 1 /\ hitTtl \in BOOLEAN /\ hitter \in BOOLEAN /\ stuck \in BOOLEAN

\* "Nothing is lost: the snapshot preserves the full timeline the cascade would
\* otherwise drop" (sync_cleanup.py:15-16) and "a double run is harmless"
\* (main.py:47): however cleanups overlap, fail and roll back, a row is never in
\* both tables, and each of its sessions is with it in the one or in its snapshot
\* in the other, unless the session was committed, alone or with a new row,
\* between the two statements of a cleanup.
NothingIsLost ==
  /\ present \cap archived = {}
  /\ \A r \in Old : \A s \in known[r] :
       \/ r \in present /\ s \in sessionsOf[r]
       \/ r \in archived /\ s \in snapshot[r]
       \/ <<r, s>> \in late

\* "so it can't leak forever" (scheduler.py:100-101), and sooner: the state of
\* a day is gone when the second day after it has ended, or a day later for each
\* on which no sweep ran to its end; and a key of the rate
\* limiter has its TTL but for the moment after the INCR that made it, unless
\* a request was cut there: nothing gives that key a TTL, and its client stays
\* limited.
KeysLeaveInTime ==
  /\ keyTtl # "absent" => keyDay >= today - 2 - unswept
  /\ hits > 0 /\ ~hitTtl => hitter \/ stuck
=============================================================================
