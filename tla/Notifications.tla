--------------------------- MODULE Notifications ---------------------------
(***************************************************************************)
(* One day of notifications: notification_service.py, fcm_service.py and   *)
(* the two reminder jobs of scheduler.py, fired by the scheduler of every  *)
(* uvicorn worker.  A job is one transaction that pushes as it goes: its   *)
(* rows and the tokens it retires appear at the commit, its pushes at      *)
(* once.  What a title says, and the pages of the inbox, are left out.     *)
(***************************************************************************)
EXTENDS Integers, FiniteSets

CONSTANTS
  Users,         \* the active users that are not admins
  NoUser,        \* nobody, and no token
  TeamOf,        \* [Users -> Teams], users.team_id
  SupervisorOf,  \* [Teams -> Users \cup {NoUser}], teams.supervisor_id
  Tokens,        \* FCM registration tokens of handsets
  Registered,    \* subset of [Tokens -> Users \cup {NoUser}], device_info as the day begins
  Workers,       \* jobs and requests that may be under way
  Registrars,    \* registrations of devices that may be under way
  MaxChanges,    \* bound on taps and uninstalls
  MaxLaunches,   \* bound on jobs and registrations
  MaxMishaps     \* bound on expired locks, Redis failures and cut transactions

ASSUME NotificationsAssumption ==
  /\ NoUser \notin Users \cup Tokens /\ MaxMishaps \in Nat /\ MaxChanges \in Nat /\ MaxLaunches \in Nat
  /\ TeamOf \in [Users -> DOMAIN SupervisorOf]
  /\ SupervisorOf \in [DOMAIN SupervisorOf -> Users \cup {NoUser}]
  /\ Registered \subseteq [Tokens -> Users \cup {NoUser}]

Reminders == {"ATTENDANCE_REMINDER", "END_WORK_REMINDER"}
Kinds == Reminders \cup {"OTHER"}

VARIABLES
  started, ended,  \* who has a START or RESUME, who an END, today
  rows,            \* committed notifications by kind and user
  owner,           \* device_info: the user a token is bound to
  gone,            \* tokens of handsets whose app was uninstalled
  locked,          \* reminders whose lock is in Redis
  fired,           \* reminders each worker's scheduler has fired
  at, kind,        \* each job: where it is, what it sends
  todo,            \* users it has still to write a row for
  fresh,           \* users it has written a row for
  targets,         \* tokens it has still to push to
  dead,            \* tokens a push has classified as gone
  visit,           \* where each registration is
  caller, phone,   \* the user and the token it is about
  lookup,          \* the row it found, "lost" once that has no token any more
  others, reaped,  \* tokens its UPDATE has still to look at, and has set to NULL
  mishaps, changes,
  launched,        \* jobs and registrations
  slips            \* history: reminders whose lock failed or expired

world == <<started, ended, gone>>
jobs  == <<at, kind, todo, fresh, targets, dead>>
registrations == <<visit, caller, phone, lookup, others, reaped>>
notificationVars == <<world, rows, owner, locked, fired, jobs, registrations, mishaps, changes, launched, slips>>

NotificationsInit ==
  /\ started = {} /\ ended = {} /\ gone = {}
  /\ rows = [k \in Kinds |-> [u \in Users |-> 0]]
  /\ owner \in Registered
  /\ locked = {} /\ fired = [w \in Workers |-> {}]
  /\ at = [w \in Workers |-> "idle"] /\ kind = [w \in Workers |-> "OTHER"]
  /\ todo = [w \in Workers |-> {}] /\ fresh = [w \in Workers |-> {}]
  /\ targets = [w \in Workers |-> {}] /\ dead = [w \in Workers |-> {}]
  /\ visit = [g \in Registrars |-> "idle"] /\ caller = [g \in Registrars |-> NoUser]
  /\ phone = [g \in Registrars |-> NoUser] /\ lookup = [g \in Registrars |-> "none"]
  /\ others = [g \in Registrars |-> {}] /\ reaped = [g \in Registrars |-> {}]
  /\ mishaps = 0 /\ changes = 0 /\ launched = 0 /\ slips = {}

Launches == launched < MaxLaunches /\ launched' = launched + 1
Mishap == mishaps < MaxMishaps /\ mishaps' = mishaps + 1
Goes(w, where) == at' = [at EXCEPT ![w] = where]
EndJob(w) == /\ Goes(w, "idle")
             /\ todo' = [todo EXCEPT ![w] = {}] /\ fresh' = [fresh EXCEPT ![w] = {}]
             /\ targets' = [targets EXCEPT ![w] = {}] /\ dead' = [dead EXCEPT ![w] = {}]
-----------------------------------------------------------------------------
(* Who is told                                                             *)

TokensFor(S) == {t \in Tokens : owner[t] \in S}

\* The population of a reminder, as the attendance table says at the query.
Population(k) == IF k = "ATTENDANCE_REMINDER" THEN Users \ (started \cup ended)
                 ELSE started \ ended

\* The supervisor of the employee's team, never the employee.
SupervisorFor(u) == {SupervisorOf[TeamOf[u]]} \ {u, NoUser}

\* Announcements to all or to a team, gps_disabled, sync_failed.
Audiences == {Users} \cup {{u \in Users : TeamOf[u] = t} : t \in DOMAIN SupervisorOf}
             \cup {SupervisorFor(u) : u \in Users} \cup {{u} : u \in Users}
-----------------------------------------------------------------------------
(* register_device.  A registration holds the rows it has written until it *)
(* ends: others that write them wait.                                      *)

\* The token of the row it has bound, and those it has set to NULL.
Writes(g) == reaped[g] \cup
             (IF visit[g] \in {"bound", "reap"} /\ lookup[g] # "lost" THEN {phone[g]} ELSE {})
Written(t) == \E g \in Registrars : t \in Writes(g)

\* Registrations whose row has lost its token, once those of S are set to NULL.
LostTo(S) ==
  [g \in Registrars |-> IF lookup[g] # "none" /\ phone[g] \in S THEN "lost" ELSE lookup[g]]

\* Its row was another's, or nobody's, when it was flushed.
RowTaken(g) == lookup[g] = "lost" \/ (lookup[g] = "own" /\ owner[phone[g]] # caller[g])

EndVisit(g) == /\ visit' = [visit EXCEPT ![g] = "idle"] /\ caller' = [caller EXCEPT ![g] = NoUser]
               /\ phone' = [phone EXCEPT ![g] = NoUser]
               /\ others' = [others EXCEPT ![g] = {}] /\ reaped' = [reaped EXCEPT ![g] = {}]

\* get_device_by_token.
FindDevice(g, u, t) ==
  /\ visit[g] = "idle" /\ t \notin gone /\ Launches
  /\ visit' = [visit EXCEPT ![g] = "found"]
  /\ caller' = [caller EXCEPT ![g] = u] /\ phone' = [phone EXCEPT ![g] = t]
  /\ lookup' = [lookup EXCEPT ![g] = CASE owner[t] = NoUser -> "none" [] owner[t] = u -> "own"
                                         [] OTHER -> "other"]
  /\ UNCHANGED <<world, rows, owner, locked, fired, jobs, others, reaped, mishaps, changes, slips>>

\* The flush: an UPDATE of the row by its id -- of user_id too when the lookup
\* has read another -- or an INSERT, which the unique index refuses when a row
\* with the token has been committed meanwhile.
BindDevice(g) ==
  /\ visit[g] = "found" /\ (lookup[g] = "lost" \/ ~Written(phone[g]))
  /\ IF lookup[g] = "none" /\ owner[phone[g]] # NoUser
       THEN EndVisit(g) /\ lookup' = [lookup EXCEPT ![g] = "none"]
       ELSE visit' = [visit EXCEPT ![g] = "bound"] /\ UNCHANGED <<caller, phone, lookup, others, reaped>>
  /\ UNCHANGED <<world, rows, owner, locked, fired, jobs, mishaps, changes, launched, slips>>

\* The UPDATE of the user's other rows takes those committed as it begins.
SelectOthers(g) ==
  /\ visit[g] = "bound" /\ visit' = [visit EXCEPT ![g] = "reap"]
  /\ others' = [others EXCEPT ![g] = {t \in Tokens \ {phone[g]} : owner[t] = caller[g]}]
  /\ UNCHANGED <<world, rows, owner, locked, fired, jobs, caller, phone, lookup, reaped,
                 mishaps, changes, launched, slips>>

\* It waits for each row that another has written, and looks at it again.
ReapOther(g, t) ==
  /\ visit[g] = "reap" /\ t \in others[g] /\ ~Written(t)
  /\ others' = [others EXCEPT ![g] = @ \ {t}]
  /\ reaped' = [reaped EXCEPT ![g] = @ \cup (IF owner[t] = caller[g] THEN {t} ELSE {})]
  /\ UNCHANGED <<world, rows, owner, locked, fired, jobs, visit, caller, phone, lookup,
                 mishaps, changes, launched, slips>>

CommitDevice(g) ==
  /\ visit[g] = "reap" /\ others[g] = {}
  /\ owner' = [t \in Tokens |-> IF t \in reaped[g] THEN NoUser
                               ELSE IF t \in Writes(g) /\ lookup[g] # "own" THEN caller[g]
                               ELSE owner[t]]
  /\ lookup' = [LostTo(reaped[g]) EXCEPT ![g] = "none"] /\ EndVisit(g)
  /\ UNCHANGED <<world, rows, locked, fired, jobs, mishaps, changes, launched, slips>>

\* Registrations that wait for each other in a circle: PostgreSQL ends one.
WaitsOn(g, h) == visit[g] = "reap" /\ others[g] \cap Writes(h) # {}
Deadlocked(g) == \E S \in SUBSET Registrars :
  g \in S /\ \A h \in S : (\E k \in S : WaitsOn(h, k)) /\ (\E k \in S : WaitsOn(k, h))

RollBackDevice(g) == /\ EndVisit(g) /\ lookup' = [lookup EXCEPT ![g] = "none"]
                     /\ UNCHANGED <<world, rows, owner, locked, fired, jobs, changes, launched, slips>>
CutDevice(g) == Mishap /\ visit[g] # "idle" /\ RollBackDevice(g)

RegisterDevice(g) ==
  \/ BindDevice(g) \/ SelectOthers(g) \/ CommitDevice(g) \/ \E t \in Tokens : ReapOther(g, t)
  \/ Deadlocked(g) /\ RollBackDevice(g) /\ UNCHANGED mishaps
-----------------------------------------------------------------------------
(* The reminder jobs                                                       *)

\* Every worker's scheduler fires each reminder once; coalesce and
\* max_instances keep it from piling up.
MayFire(w, k) == at[w] = "idle" /\ k \notin fired[w] /\ Launches
Fire(w, k) ==
  /\ MayFire(w, k)
  /\ fired' = [fired EXCEPT ![w] = @ \cup {k}]
  /\ Goes(w, "claim") /\ kind' = [kind EXCEPT ![w] = k]
  /\ UNCHANGED <<registrations, world, rows, owner, locked, todo, fresh, targets, dead, mishaps, changes, slips>>

BugLockFree(k) == TRUE
LockFree(k) == k \notin locked

\* SET NX EX.
Claim(w) ==
  /\ at[w] = "claim"
  /\ LET k == kind[w] IN
       IF LockFree(k)
       THEN locked' = locked \cup {k} /\ Goes(w, "query")
       ELSE Goes(w, "idle") /\ UNCHANGED locked
  /\ UNCHANGED <<registrations, world, rows, owner, fired, kind, todo, fresh, targets, dead, mishaps, changes, launched, slips>>

\* Redis is down: the job runs anyway.
ClaimFailsOpen(w) ==
  /\ Mishap /\ at[w] = "claim"
  /\ slips' = slips \cup {kind[w]} /\ Goes(w, "query")
  /\ UNCHANGED <<registrations, world, rows, owner, locked, fired, kind, todo, fresh, targets, dead, changes, launched>>

\* The lock lasts 300 s, a worker may fire up to misfire_grace_time later.
ExpireLock(k) ==
  /\ Mishap /\ k \in locked /\ locked' = locked \ {k} /\ slips' = slips \cup {k}
  /\ UNCHANGED <<registrations, world, rows, owner, fired, jobs, changes, launched>>

Query(w) ==
  /\ at[w] = "query"
  /\ todo' = [todo EXCEPT ![w] = Population(kind[w])]
  /\ Goes(w, IF Population(kind[w]) = {} THEN "idle" ELSE "push")
  /\ UNCHANGED <<registrations, world, rows, owner, locked, fired, kind, fresh, targets, dead, mishaps, changes, launched, slips>>

\* send_fcm for the next user: flush the row, then read the user's tokens.
SendFcm(w, u) ==
  /\ at[w] = "push" /\ targets[w] = {} /\ u \in todo[w]
  /\ todo' = [todo EXCEPT ![w] = @ \ {u}] /\ fresh' = [fresh EXCEPT ![w] = @ \cup {u}]
  /\ targets' = [targets EXCEPT ![w] = TokensFor({u})]
  /\ UNCHANGED <<registrations, world, rows, owner, locked, fired, at, kind, dead, mishaps, changes, launched, slips>>

\* send_bulk_fcm: all rows first, then all tokens; nobody to tell is no job.
\* One of them per worker is enough to interleave with the reminders.
SendBulk(w, S) ==
  /\ MayFire(w, "OTHER") /\ S # {}
  /\ fired' = [fired EXCEPT ![w] = @ \cup {"OTHER"}]
  /\ Goes(w, "push") /\ kind' = [kind EXCEPT ![w] = "OTHER"]
  /\ fresh' = [fresh EXCEPT ![w] = S] /\ targets' = [targets EXCEPT ![w] = TokensFor(S)]
  /\ UNCHANGED <<registrations, world, rows, owner, locked, todo, dead, mishaps, changes, slips>>

\* One POST to FCM; a timeout or a 5xx says nothing about the token.
BugIsStale(t, answered) == t \in gone \/ ~answered
IsStale(t, answered) == t \in gone /\ answered
Push(w, t, answered) ==
  /\ at[w] = "push" /\ t \in targets[w]
  /\ targets' = [targets EXCEPT ![w] = @ \ {t}]
  /\ dead' = [dead EXCEPT ![w] = IF IsStale(t, answered) THEN @ \cup {t} ELSE @]
  /\ UNCHANGED <<registrations, world, rows, owner, locked, fired, at, kind, todo, fresh, mishaps, changes, launched, slips>>

BugFinished(w) == at[w] = "push" /\ targets[w] = {} /\ fresh[w] # {}
Finished(w) == at[w] = "push" /\ targets[w] = {} /\ todo[w] = {}

\* mark_token_stale waits for a registration that has written the row; one that
\* has found the row will find it without its token.
Commit(w) ==
  /\ Finished(w) /\ \A t \in dead[w] : ~Written(t)
  /\ rows' = [rows EXCEPT ![kind[w]] =
                [u \in Users |-> @[u] + IF u \in fresh[w] THEN 1 ELSE 0]]
  /\ owner' = [t \in Tokens |-> IF t \in dead[w] THEN NoUser ELSE owner[t]]
  /\ lookup' = LostTo(dead[w]) /\ EndJob(w)
  /\ UNCHANGED <<world, locked, fired, kind, visit, caller, phone, others, reaped,
                 mishaps, changes, launched, slips>>

\* The job is cut, or loses a deadlock with another that marks the same tokens:
\* its rows are rolled back, its pushes and its lock are not.
Cut(w) == /\ Mishap /\ at[w] # "idle" /\ EndJob(w)
          /\ UNCHANGED <<registrations, world, rows, owner, locked, fired, kind, changes, launched, slips>>
-----------------------------------------------------------------------------
(* Meanwhile                                                               *)

Change == changes < MaxChanges /\ changes' = changes + 1

Tap(u) ==
  /\ Change
  /\ \/ u \notin started /\ started' = started \cup {u} /\ UNCHANGED ended
     \/ u \in started /\ ended' = ended \cup {u} /\ UNCHANGED started
  /\ UNCHANGED <<registrations, gone, rows, owner, locked, fired, jobs, mishaps, launched, slips>>

Uninstall(t) == /\ Change /\ t \notin gone /\ gone' = gone \cup {t}
                /\ UNCHANGED <<registrations, started, ended, rows, owner, locked, fired, jobs, mishaps, launched, slips>>

\* The steps of the jobs and of the registrations.
Work(w) == \/ Claim(w) \/ Query(w) \/ Commit(w)
           \/ \E u \in Users : SendFcm(w, u)
           \/ \E t \in Tokens, answered \in BOOLEAN : Push(w, t, answered)

NotificationsNext ==
  \/ \E w \in Workers : \/ Work(w) \/ ClaimFailsOpen(w) \/ Cut(w)
                        \/ \E k \in Reminders : Fire(w, k)
                        \/ \E S \in Audiences : SendBulk(w, S)
  \/ \E k \in Reminders : ExpireLock(k)
  \/ \E g \in Registrars : \/ RegisterDevice(g) \/ CutDevice(g)
                           \/ \E u \in Users, t \in Tokens : FindDevice(g, u, t)
  \/ \E u \in Users : Tap(u)
  \/ \E t \in Tokens : Uninstall(t)

NotificationsSpec == NotificationsInit /\ [][NotificationsNext]_notificationVars
-----------------------------------------------------------------------------
JobStates == {"idle", "claim", "query", "push"}
NotificationsTypeOK ==
  /\ started \subseteq Users /\ ended \subseteq started /\ gone \subseteq Tokens
  /\ rows \in [Kinds -> [Users -> Nat]] /\ owner \in [Tokens -> Users \cup {NoUser}]
  /\ locked \subseteq Reminders /\ fired \in [Workers -> SUBSET Kinds]
  /\ at \in [Workers -> JobStates] /\ kind \in [Workers -> Kinds]
  /\ todo \in [Workers -> SUBSET Users] /\ fresh \in [Workers -> SUBSET Users]
  /\ targets \in [Workers -> SUBSET Tokens] /\ dead \in [Workers -> SUBSET Tokens]
  /\ visit \in [Registrars -> {"idle", "found", "bound", "reap"}]
  /\ caller \in [Registrars -> Users \cup {NoUser}] /\ phone \in [Registrars -> Tokens \cup {NoUser}]
  /\ lookup \in [Registrars -> {"none", "own", "other", "lost"}] /\ launched \in Nat
  /\ others \in [Registrars -> SUBSET Tokens] /\ reaped \in [Registrars -> SUBSET Tokens]
  /\ mishaps \in Nat /\ changes \in Nat /\ slips \subseteq Reminders

\* "a short Redis lock so only one worker runs each fire" (scheduler.py:20-22):
\* nobody finds two rows of one reminder in the inbox, however the workers and
\* the cuts interleave, unless a claim slipped (Redis down, the lock expired).
RemindedOnce == \A k \in Reminders, u \in Users : rows[k][u] <= 1 \/ k \in slips

\* A handset loses its binding because FCM said that its token is gone, or to a
\* registration that leaves the user another handset -- or none, when the row it
\* was about was taken from the user between its lookup and its flush: never to a
\* timeout, a 5xx or a cut, however registrations and jobs overlap.
TokensDropped ==
  [][ \A t \in Tokens : (owner[t] # NoUser /\ owner'[t] = NoUser) =>
        \/ t \in gone \/ \E s \in Tokens \ {t} : owner'[s] = owner[t]
        \/ \E g \in Registrars : caller[g] = owner[t] /\ RowTaken(g) ]_notificationVars

\* Whoever is in the population when a job asks for it gets the row or leaves
\* the population, once nothing cuts the job.
AllReminded ==
  \A k \in Reminders, u \in Users :
    (/\ \E w \in Workers : at[w] = "query" /\ kind[w] = k
     /\ u \in Population(k) /\ mishaps = MaxMishaps)
      ~> (rows[k][u] > 0 \/ u \notin Population(k))
=============================================================================
