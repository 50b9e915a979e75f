----------------------------- MODULE TapScreen -----------------------------
(***************************************************************************)
(* What the app shows of the day and how it switches the tracker:          *)
(* attendance_provider.dart and syncWithAttendance of location_service     *)
(* .dart.  Every tap and every reload is a coroutine of its own; they      *)
(* overlap at their awaits, and each ends by converging the tracker to     *)
(* what it was told.  The server checks taps as in WorkLog; what else      *)
(* moves the day (corrections, midnight, another phone) is OtherChange.    *)
(***************************************************************************)
EXTENDS WorkLog

CONSTANTS
  Calls,       \* coroutines of the app
  Elsewhere,   \* states that changes made elsewhere bring the day to
  MaxTaps,     \* bound on taps
  MaxOthers,   \* bound on changes made elsewhere
  MaxFaults    \* bound on lost requests and answers, failed GPS fixes, errors, kills

ASSUME TapScreenAssumption ==
  Elsewhere \subseteq DayStates /\ {MaxTaps, MaxOthers, MaxFaults} \subseteq Nat

VARIABLES
  day,         \* where the day stands
  painted,     \* TodayAttendance on the screen
  submitting,  \* isSubmitting
  tracking,    \* the background service runs
  local,       \* local_attendance_state, which the service reads
  pos,         \* where each coroutine is suspended
  saw,         \* the state it was told, or the one a tap goes back to
  wish,        \* the type of a tap
  spent        \* taps, changes elsewhere and faults so far, and whether the app
               \* missed what the server said: history, which no action reads

screenVars == <<day, painted, submitting, tracking, local, pos, saw, wish, spent>>

OnDuty == {"STARTED", "RESUMED"}
Tallies == {"taps", "others", "faults", "missed"}

TapScreenInit ==
  /\ day = "NULL" /\ painted = "NULL" /\ submitting = FALSE /\ tracking = FALSE /\ local = "NULL"
  /\ pos = [c \in Calls |-> "idle"] /\ saw = [c \in Calls |-> "NULL"]
  /\ wish = [c \in Calls |-> "START"]
  /\ spent = [what \in Tallies |-> 0]

Within(what, max) == spent[what] < max /\ spent' = [spent EXCEPT ![what] = @ + 1]
FaultMisses(misses) ==
  /\ spent["faults"] < MaxFaults
  /\ spent' = [spent EXCEPT !["faults"] = @ + 1, !["missed"] = IF misses THEN 1 ELSE @]
At(c, p) == pos' = [pos EXCEPT ![c] = p]
Keep(c, s) == saw' = [saw EXCEPT ![c] = s]
Over(c) == At(c, "idle") /\ saw' = [saw EXCEPT ![c] = "NULL"] /\ wish' = [wish EXCEPT ![c] = "START"]
-----------------------------------------------------------------------------
(* Reloads: at the start, on resume, and by a pull at any time             *)

Reload(c) == /\ pos[c] = "idle" /\ At(c, "today")
             /\ UNCHANGED <<day, painted, submitting, tracking, local, saw, wish, spent>>
OnResume(c) == ~submitting /\ Reload(c)

ReadToday(c) == /\ pos[c] = "today" /\ At(c, "show") /\ Keep(c, day)
                /\ UNCHANGED <<day, painted, submitting, tracking, local, wish, spent>>

\* Bug form of ShowToday: the tracker is left as it is.
BugShowToday(c) == /\ pos[c] = "show" /\ painted' = saw[c] /\ Over(c)
                   /\ UNCHANGED <<day, submitting, tracking, local, spent>>

\* The answer is shown whatever the screen shows by then, a tap's prediction
\* included.
ShowToday(c) == /\ pos[c] = "show" /\ painted' = saw[c] /\ At(c, "save")
                /\ UNCHANGED <<day, submitting, tracking, local, saw, wish, spent>>

ReloadFails(c) == /\ Within("faults", MaxFaults) /\ pos[c] \in {"today", "show"} /\ Over(c)
                  /\ UNCHANGED <<day, painted, submitting, tracking, local>>
-----------------------------------------------------------------------------
(* Taps: snapshot, optimistic paint, GPS, request, reconcile or roll back  *)

\* The buttons of each state; END is offered on a break, and refused.
Offered == [NULL |-> {"START"}, STARTED |-> {"BREAK", "END"}, RESUMED |-> {"BREAK", "END"},
            ON_BREAK |-> {"RESUME", "END"}, ENDED |-> {}]

Press(c, type) ==
  /\ Within("taps", MaxTaps) /\ ~submitting /\ pos[c] = "idle" /\ type \in Offered[painted]
  /\ submitting' = TRUE /\ painted' = StateForType[type]
  /\ wish' = [wish EXCEPT ![c] = type] /\ Keep(c, painted) /\ At(c, "gps")
  /\ UNCHANGED <<day, tracking, local>>

SendTap(c) == /\ pos[c] = "gps" /\ At(c, "sent")
              /\ UNCHANGED <<day, painted, submitting, tracking, local, saw, wish, spent>>

\* A coroutine that was told where the day stands and has not acted on it.
Informed(c) == pos[c] \in {"show", "save", "look", "switch"}

\* The whole of transition_state, as one step: Attendance has its awaits.  What
\* another coroutine was told before is out of date.
Accepts(c) == day \in AllowedFrom[wish[c]]
Decided(c) ==
  /\ pos[c] = "sent"
  /\ IF Accepts(c)
       THEN /\ day' = StateForType[wish[c]] /\ At(c, "accepted")
            /\ spent' = [spent EXCEPT !["missed"] = IF \E d \in Calls : Informed(d) THEN 1 ELSE @]
       ELSE At(c, "refused") /\ UNCHANGED <<day, spent>>
  /\ UNCHANGED <<painted, submitting, tracking, local, saw, wish>>

\* Bug form of ShowTapped: the tracker is left as it is.
BugShowTapped(c) ==
  /\ pos[c] = "accepted" /\ painted' = StateForType[wish[c]] /\ submitting' = FALSE
  /\ Over(c)
  /\ UNCHANGED <<day, tracking, local, spent>>

ShowTapped(c) ==
  /\ pos[c] = "accepted" /\ painted' = StateForType[wish[c]] /\ submitting' = FALSE
  /\ Keep(c, StateForType[wish[c]]) /\ At(c, "save")
  /\ UNCHANGED <<day, tracking, local, wish, spent>>

\* What _run catches: a refusal, no fix in 12 s, no request, or no answer.  Back
\* to the snapshot.
RollBack(c) ==
  /\ \/ pos[c] = "refused" /\ UNCHANGED spent
     \/ pos[c] \in {"gps", "sent", "accepted"} /\ FaultMisses(pos[c] = "accepted")
  /\ painted' = saw[c] /\ submitting' = FALSE /\ Over(c)
  /\ UNCHANGED <<day, tracking, local>>

\* What it does not catch, as an error of the geolocator's before its try or of
\* parsing an answer: the prediction stays, and so does isSubmitting.
Escape(c) ==
  /\ pos[c] \in {"gps", "sent", "accepted"} /\ FaultMisses(pos[c] = "accepted")
  /\ Over(c)
  /\ UNCHANGED <<day, painted, submitting, tracking, local>>

\* isSubmitting was left set: no tap is under way, and neither a tap nor a return
\* to the app does anything until the app is killed.
Stuck == submitting /\ \A c \in Calls : pos[c] \notin {"gps", "sent", "accepted", "refused"}
-----------------------------------------------------------------------------
(* syncWithAttendance, at the end of a tap and of a reload                 *)

SaveState(c) == /\ pos[c] = "save" /\ local' = saw[c] /\ At(c, "look")
                /\ UNCHANGED <<day, painted, submitting, tracking, saw, wish, spent>>

IsTracking(c) ==
  /\ pos[c] = "look"
  /\ IF (saw[c] \in OnDuty) = tracking THEN Over(c) ELSE At(c, "switch") /\ UNCHANGED <<saw, wish>>
  /\ UNCHANGED <<day, painted, submitting, tracking, local, spent>>

\* What isTracking said is not looked at again.
Switch(c) == /\ pos[c] = "switch" /\ tracking' = (saw[c] \in OnDuty) /\ Over(c)
             /\ UNCHANGED <<day, painted, submitting, local, spent>>

\* Its errors are swallowed.
SyncFails(c) == /\ FaultMisses(TRUE) /\ pos[c] \in {"save", "look", "switch"} /\ Over(c)
                /\ UNCHANGED <<day, painted, submitting, tracking, local>>
-----------------------------------------------------------------------------
OtherChange(s) == /\ Within("others", MaxOthers) /\ s # day /\ day' = s
                  /\ UNCHANGED <<painted, submitting, tracking, local, pos, saw, wish>>

\* The app is killed, the service may go on; a handler that runs goes on.
KillApp ==
  /\ FaultMisses(TRUE)
  /\ pos' = [c \in Calls |-> "idle"] /\ saw' = [c \in Calls |-> "NULL"]
  /\ wish' = [c \in Calls |-> "START"]
  /\ painted' = "NULL" /\ submitting' = FALSE /\ tracking' \in {tracking, FALSE}
  /\ \/ UNCHANGED day
     \/ \E c \in Calls : pos[c] = "sent" /\ Accepts(c) /\ day' = StateForType[wish[c]]
  /\ UNCHANGED local

GoOn(c) == \/ ReadToday(c) \/ ShowToday(c) \/ SendTap(c) \/ Decided(c) \/ ShowTapped(c)
           \/ RollBack(c) \/ SaveState(c) \/ IsTracking(c) \/ Switch(c)

TapScreenNext ==
  \/ \E c \in Calls : \/ GoOn(c) \/ OnResume(c) \/ Reload(c) \/ ReloadFails(c) \/ Escape(c) \/ SyncFails(c)
                      \/ \E type \in SessionTypes : Press(c, type)
  \/ \E s \in Elsewhere : OtherChange(s)
  \/ KillApp

TapScreenSpec == TapScreenInit /\ [][TapScreenNext]_screenVars
-----------------------------------------------------------------------------
TapScreenTypeOK ==
  /\ day \in DayStates /\ painted \in DayStates /\ local \in DayStates
  /\ submitting \in BOOLEAN /\ tracking \in BOOLEAN
  /\ pos \in [Calls -> {"idle", "today", "show", "gps", "sent", "accepted", "refused", "save",
                         "look", "switch"}]
  /\ saw \in [Calls -> DayStates] /\ wish \in [Calls -> SessionTypes]
  /\ spent \in [Tallies -> Nat]

\* While nothing changed the day elsewhere and the app missed no answer, lost
\* requests, refused taps and failed reloads included: the screen shows the day
\* but for the tap under way (or isSubmitting left set by one), and the row the tracker reads and the tracker itself
\* are where the day stands, but for the coroutine that is taking them there.
\* The optimistic paint never reaches them (attendance_provider.dart:146-203,
\* location_service.dart:77-115).
TrackerFollows ==
  spent["others"] = 0 /\ spent["missed"] = 0 =>
    /\ painted = day \/ submitting
    /\ local = day \/ \E c \in Calls : pos[c] \in {"accepted", "save"}
    /\ \/ tracking = (day \in OnDuty)
       \/ \E c \in Calls : pos[c] \in {"accepted", "save", "look", "switch"}

\* However taps, reloads and changes elsewhere overlapped, and whatever was
\* lost, the screen, the local state and the tracker come to agree with the
\* server and stay so, if the user comes back to the app: "Runs on every
\* load/rehydrate, so a force-killed app or a reboot self-heals"
\* (attendance_provider.dart:104-106).  Unless an error that _run does not catch
\* left isSubmitting set: _onResume (:86-89) then never reloads, and only a kill
\* mends it.
ScreenCatchesUp ==
  <>[](Stuck \/ (painted = day /\ local = day /\ tracking = (day \in OnDuty)))
=============================================================================
