------------------------------ MODULE Sessions ------------------------------
(***************************************************************************)
(* The session of one account: auth_service.py with the guards of          *)
(* dependencies.py and set_status of employee_service.py on the server,    *)
(* api_client.dart on the devices.  Every await of a handler is a step.    *)
(*                                                                         *)
(* A login or a refresh issues a pair of tokens, here a number; `fp' is    *)
(* the pair whose refresh token has its fingerprint in Redis, the only one *)
(* a refresh accepts.  The blacklist entry of a spent refresh token is     *)
(* left out: nothing reads it.                                             *)
(***************************************************************************)
EXTENDS Integers, FiniteSets

CONSTANTS
  Devices,      \* phones the employee may log in on
  Requests,     \* handler slots of the server
  NoDevice,     \* nobody waits for the answer
  MaxTokens,    \* bound on the pairs issued
  MaxRare,      \* bound on status changes, resets, lost and late answers, evictions
  MaxAttempts   \* OTP_MAX_ATTEMPTS

ASSUME SessionsAssumption ==
  /\ NoDevice \notin Devices
  /\ MaxTokens \in Nat /\ MaxRare \in Nat /\ MaxAttempts \in Nat

VARIABLES
  active,     \* users.is_active, as committed
  fp,         \* the current pair, 0 when the Redis key is missing
  issued,     \* pairs issued so far
  lineage,    \* the login each pair descends from, named by its first pair
  blocked,    \* pairs whose access token a logout has blacklisted
  code,       \* the hash of a reset code is in Redis
  attempts,   \* the attempts counter of the same Redis hash
  step,       \* where each handler is
  ask,        \* what it was asked for
  by,         \* the device that waits for its answer
  tok,        \* the pair it was sent
  got,        \* the pair it answers with, 0 for a refusal
  held,       \* the pair each device has stored, 0 when it has none
  home,       \* AuthStatus.authenticated: the user is past the login screen
  refreshing, \* the pair that _refreshing was begun with, 0 when it is null
  waiting,    \* "login": the login button is disabled; "replay": requests that
              \* met a 401 are about to be sent once more
  rare,
  closed,     \* history: logins whose session was ended or overwritten
  raced,      \* history: those of them with a refresh under way at that moment
  hung        \* history: devices that never get the answer of a refresh

server  == <<active, fp, issued, lineage, blocked, code, attempts>>
handler == <<step, ask, by, tok, got>>
device  == <<held, home, refreshing, waiting>>
history == <<closed, raced, hung>>
sessionVars == <<server, handler, device, rare, history>>

Steps == {"idle", "login", "check", "revoke", "user", "rotate", "unlog",
          "deactivate", "off", "on", "tries", "spent", "verify", "end", "answer"}
Purposes == {"office", "login", "logout", "refresh"}

SessionsInit ==
  /\ active = TRUE /\ fp = 0 /\ issued = 0 /\ blocked = {} /\ code = FALSE /\ attempts = 0
  /\ lineage = [n \in 1 .. MaxTokens |-> 0]
  /\ step = [r \in Requests |-> "idle"] /\ ask = [r \in Requests |-> "office"]
  /\ by = [r \in Requests |-> NoDevice]
  /\ tok = [r \in Requests |-> 0] /\ got = [r \in Requests |-> 0]
  /\ held = [d \in Devices |-> 0] /\ home = [d \in Devices |-> FALSE]
  /\ refreshing = [d \in Devices |-> 0] /\ waiting = [d \in Devices |-> {}]
  /\ rare = 0 /\ closed = {} /\ raced = {} /\ hung = {}

RareEvent == rare < MaxRare /\ rare' = rare + 1

\* A refresh of login l that has passed its check and not yet stored its pair.
InFlight(l) == \E r \in Requests : step[r] \in {"user", "rotate"} /\ lineage[tok[r]] = l

\* Bookkeeping of a write of the key: it ends the session of another login.
Ends(l) == IF fp # 0 /\ lineage[fp] # l THEN {lineage[fp]} ELSE {}
Record(l) == /\ closed' = closed \cup Ends(l)
             /\ raced' = raced \cup {x \in Ends(l) : InFlight(x)} /\ UNCHANGED hung

Go(r, s) == step' = [step EXCEPT ![r] = s]
Say(r, pair) == Go(r, "answer") /\ got' = [got EXCEPT ![r] = pair]
DeleteKey == fp' = 0 /\ Record(0)
Idle(r) == /\ Go(r, "idle") /\ ask' = [ask EXCEPT ![r] = "office"]
           /\ by' = [by EXCEPT ![r] = NoDevice]
           /\ tok' = [tok EXCEPT ![r] = 0] /\ got' = [got EXCEPT ![r] = 0]

\* SET of a new pair that descends from login l, the answer of handler r.
StorePair(r, l) ==
  /\ issued < MaxTokens
  /\ issued' = issued + 1 /\ fp' = issued + 1
  /\ lineage' = [lineage EXCEPT ![issued + 1] = l]
  /\ Record(l)
  /\ Say(r, issued + 1)
-----------------------------------------------------------------------------
(* The devices                                                             *)

\* Every request under way may issue one pair.
Room == issued + Cardinality({r \in Requests : step[r] # "idle"}) < MaxTokens

Send(r, d, s, what) ==
  /\ step[r] = "idle" /\ Room
  /\ Go(r, s) /\ ask' = [ask EXCEPT ![r] = what]
  /\ by' = [by EXCEPT ![r] = d] /\ tok' = [tok EXCEPT ![r] = held[d]]
  /\ UNCHANGED <<server, got, held, home, rare, history>>

\* get_current_user: the access token of the pair is good.
Accepted(pair) == active /\ pair \notin blocked

TapLogin(r, d) ==
  /\ ~home[d] /\ "login" \notin waiting[d] /\ Send(r, d, "login", "login")
  /\ waiting' = [waiting EXCEPT ![d] = @ \cup {"login"}] /\ UNCHANGED refreshing

\* A logout whose access token has expired joins the refresh of its pair.
TapLogout(r, d) ==
  /\ home[d] /\ Accepted(held[d]) /\ refreshing[d] # held[d]
  /\ Send(r, d, "unlog", "logout") /\ UNCHANGED <<refreshing, waiting>>

\* A 401: access tokens expire at any time.  The single flight is of refreshes
\* only: later 401s join this one, a login or a logout may be under way.
BugFree(d) == TRUE
Free(d) == refreshing[d] = 0
Refresh(r, d) ==
  /\ held[d] # 0 /\ Free(d) /\ Send(r, d, "check", "refresh")
  /\ refreshing' = [refreshing EXCEPT ![d] = held[d]] /\ UNCHANGED waiting

\* forceLogout, and the end of logout: the stored tokens are removed, whichever
\* they are by now, and the login screen is shown.
Clear(d) == held' = [held EXCEPT ![d] = 0] /\ home' = [home EXCEPT ![d] = FALSE]
SignOut(d) == Clear(d) /\ waiting' = [waiting EXCEPT ![d] = @ \ {"login"}]

\* The requests that met the 401 are sent once more; a second 401 signs out.
Replay(d) ==
  /\ "replay" \in waiting[d]
  /\ IF held[d] # 0 /\ Accepted(held[d])
       THEN waiting' = [waiting EXCEPT ![d] = @ \ {"replay"}] /\ UNCHANGED <<held, home>>
       ELSE waiting' = [waiting EXCEPT ![d] = {}] /\ Clear(d)
  /\ UNCHANGED <<server, handler, refreshing, rare, history>>

\* The finally of refreshSession resets _refreshing however the refresh ends.
BugNextFlight(d, pair) == IF pair # 0 THEN 0 ELSE refreshing[d]
NextFlight(d, pair) == 0

\* An answer of a refresh: its pair is stored over what is stored by now, a
\* refusal signs out.
EndRefresh(d, pair) ==
  /\ refreshing' = [refreshing EXCEPT ![d] = NextFlight(d, pair)]
  /\ \/ pair # 0 /\ held' = [held EXCEPT ![d] = pair] /\ UNCHANGED home
        /\ waiting' = [waiting EXCEPT ![d] = @ \cup {"replay"}]
     \/ pair = 0 /\ SignOut(d)

EndLogin(d, pair) ==
  /\ IF pair # 0 THEN held' = [held EXCEPT ![d] = pair] /\ home' = [home EXCEPT ![d] = TRUE]
                 ELSE UNCHANGED <<held, home>>
  /\ waiting' = [waiting EXCEPT ![d] = @ \ {"login"}] /\ UNCHANGED refreshing

\* What a device does with the end of what it asked for: pair 0 is a refusal, or
\* an error.  A logout ends alike either way.
Ending(what, d, pair) ==
  \/ what = "refresh" /\ EndRefresh(d, pair)
  \/ what = "login" /\ EndLogin(d, pair)
  \/ what = "logout" /\ SignOut(d) /\ UNCHANGED refreshing

Answer(r, d) ==
  /\ step[r] = "answer" /\ by[r] = d
  /\ Ending(ask[r], d, got[r]) /\ Idle(r)
  /\ UNCHANGED <<server, rare, history>>

\* Nobody waits any more: the handler goes on by itself, or stops where it is.
Abandon(r) == \/ by' = [by EXCEPT ![r] = NoDevice] /\ UNCHANGED <<step, ask, tok, got>>
              \/ Idle(r)

\* The connection breaks, or a timeout of _dio passes: the request ends in error.
Lose(r, d) ==
  /\ RareEvent
  /\ step[r] # "idle" /\ by[r] = d
  /\ Ending(ask[r], d, 0) /\ Abandon(r)
  /\ UNCHANGED <<server, history>>

\* The answer of a refresh neither comes nor fails: its Dio has no timeouts, and
\* whatever joins the refresh waits with it.
Hang(r, d) ==
  /\ RareEvent
  /\ step[r] # "idle" /\ by[r] = d /\ ask[r] = "refresh" /\ Abandon(r)
  /\ hung' = hung \cup {d}
  /\ UNCHANGED <<server, device, closed, raced>>

\* Nobody waits for the answer of an office request, or of a lost one.
Done(r) == /\ step[r] = "answer" /\ by[r] = NoDevice /\ Idle(r)
           /\ UNCHANGED <<server, device, rare, history>>
-----------------------------------------------------------------------------
(* login, refresh, logout                                                  *)

Login(r) ==
  /\ step[r] = "login"
  /\ \/ ~active /\ Say(r, 0) /\ UNCHANGED <<server, history>>
     \/ active /\ StorePair(r, issued + 1) /\ UNCHANGED <<active, blocked, code, attempts>>
  /\ UNCHANGED <<ask, by, tok, device, rare>>

BugCheckPassed(r) == fp \in {0, tok[r]}
CheckPassed(r) == fp = tok[r]

\* The fingerprint is compared: another one means that an old token came back.
Check(r) ==
  /\ step[r] = "check"
  /\ \/ CheckPassed(r) /\ Go(r, "user") /\ UNCHANGED got
     \/ ~CheckPassed(r) /\ fp = 0 /\ Say(r, 0)
     \/ ~CheckPassed(r) /\ fp # 0 /\ Go(r, "revoke") /\ UNCHANGED got
  /\ UNCHANGED <<server, ask, by, tok, device, rare, history>>

LoadUser(r) ==
  /\ step[r] = "user"
  /\ Go(r, IF active THEN "rotate" ELSE "revoke")
  /\ UNCHANGED <<server, ask, by, tok, got, device, rare, history>>

\* The key is deleted as it is now, whatever pair it holds by now.
Revoke(r) ==
  /\ step[r] = "revoke"
  /\ DeleteKey /\ Say(r, 0)
  /\ UNCHANGED <<active, issued, lineage, blocked, code, attempts, ask, by, tok, device, rare>>

\* SET is unconditional: several awaits lie between the check and this step.
Rotate(r) ==
  /\ step[r] = "rotate"
  /\ StorePair(r, lineage[tok[r]])
  /\ UNCHANGED <<active, blocked, code, attempts, ask, by, tok, device, rare>>

Logout(r) ==
  /\ step[r] = "unlog"
  /\ IF tok[r] \in blocked THEN DeleteKey /\ Say(r, 0) /\ UNCHANGED blocked
     ELSE blocked' = blocked \cup {tok[r]} /\ UNCHANGED <<fp, step, got, history>>
  /\ UNCHANGED <<active, issued, lineage, code, attempts, ask, by, tok, device, rare>>
-----------------------------------------------------------------------------
(* set_status, forgot_password, reset_password                             *)

SetStatus(r) ==
  /\ RareEvent /\ step[r] = "idle"
  /\ Go(r, IF active THEN "deactivate" ELSE "on")
  /\ UNCHANGED <<server, ask, by, tok, got, device, history>>

\* A deactivation deletes the key first and commits the flag afterwards.
Deactivate(r) ==
  /\ step[r] = "deactivate"
  /\ DeleteKey /\ Go(r, "off")
  /\ UNCHANGED <<active, issued, lineage, blocked, code, attempts, ask, by, tok, got, device, rare>>

CommitStatus(r) ==
  /\ step[r] \in {"on", "off"}
  /\ active' = (step[r] = "on") /\ Say(r, 0)
  /\ UNCHANGED <<fp, issued, lineage, blocked, code, attempts, ask, by, tok, device, rare, history>>

Forgot == /\ RareEvent /\ active
          /\ code' = TRUE /\ attempts' = 0
          /\ UNCHANGED <<active, fp, issued, lineage, blocked, handler, device, history>>

\* HGETALL of the code, HINCRBY of the counter (which makes a new hash when
\* the old one is gone), and the comparison with the hash read at first.
Reset(r) == /\ step[r] = "idle" /\ code /\ Go(r, "tries")
            /\ UNCHANGED <<server, ask, by, tok, got, device, rare, history>>

Count(r) ==
  /\ step[r] = "tries" /\ attempts <= MaxAttempts
  /\ attempts' = attempts + 1
  /\ \/ attempts' > MaxAttempts /\ Go(r, "spent") /\ UNCHANGED got
     \/ attempts' <= MaxAttempts /\ Say(r, 0)
     \/ attempts' <= MaxAttempts /\ Go(r, "verify") /\ UNCHANGED got
  /\ UNCHANGED <<active, fp, issued, lineage, blocked, code, ask, by, tok, device, rare, history>>

\* The hash is deleted: too many attempts, an inactive user, or a code used.
DropCode(r) ==
  /\ step[r] \in {"spent", "verify"}
  /\ code' = FALSE /\ attempts' = 0
  /\ IF step[r] = "verify" /\ active THEN Go(r, "end") /\ UNCHANGED got ELSE Say(r, 0)
  /\ UNCHANGED <<active, fp, issued, lineage, blocked, ask, by, tok, device, rare, history>>

EndByReset(r) ==
  /\ step[r] = "end"
  /\ DeleteKey /\ Say(r, 0)
  /\ UNCHANGED <<active, issued, lineage, blocked, code, attempts, ask, by, tok, device, rare>>

\* The key expires after 30 days, or Redis evicts it.
Evict == /\ RareEvent /\ fp # 0 /\ DeleteKey
         /\ UNCHANGED <<active, issued, lineage, blocked, code, attempts, handler, device>>
-----------------------------------------------------------------------------
Handle(r) ==
  \/ Login(r) \/ Check(r) \/ LoadUser(r) \/ Revoke(r) \/ Rotate(r) \/ Logout(r)
  \/ Deactivate(r) \/ CommitStatus(r) \/ Count(r) \/ DropCode(r) \/ EndByReset(r) \/ Done(r)

Ask(r, d) == TapLogin(r, d) \/ TapLogout(r, d) \/ Refresh(r, d)
Deliver(r, d) == Answer(r, d) \/ Lose(r, d) \/ Hang(r, d)

SessionsNext ==
  \/ \E r \in Requests : Handle(r) \/ SetStatus(r) \/ Reset(r)
  \/ \E r \in Requests, d \in Devices : Ask(r, d) \/ Deliver(r, d)
  \/ \E d \in Devices : Replay(d)
  \/ Forgot \/ Evict

SessionsSpec == SessionsInit /\ [][SessionsNext]_sessionVars
-----------------------------------------------------------------------------
SessionsTypeOK ==
  /\ active \in BOOLEAN /\ code \in BOOLEAN /\ attempts \in Nat
  /\ issued \in 0 .. MaxTokens /\ fp \in 0 .. issued
  /\ lineage \in [1 .. MaxTokens -> 0 .. issued]
  /\ \A n \in 1 .. issued : lineage[n] \in 1 .. n
  /\ blocked \subseteq 1 .. issued
  /\ step \in [Requests -> Steps] /\ ask \in [Requests -> Purposes]
  /\ by \in [Requests -> Devices \cup {NoDevice}]
  /\ tok \in [Requests -> 0 .. issued] /\ got \in [Requests -> 0 .. issued]
  /\ held \in [Devices -> 0 .. issued] /\ home \in [Devices -> BOOLEAN]
  /\ refreshing \in [Devices -> 0 .. issued]
  /\ waiting \in [Devices -> SUBSET {"login", "replay"}]
  /\ rare \in Nat /\ closed \subseteq 1 .. issued /\ raced \subseteq closed
  /\ hung \subseteq Devices

\* A session that was ended -- by a logout, a deactivation, a password reset,
\* an old token coming back, or a newer login ("New login overwrites it =>
\* old device's refresh dies", auth_service.py:10-11) -- is not accepted again,
\* unless a refresh of it was between its check and its SET at that moment.
EndedStaysEnded ==
  (fp # 0 /\ lineage[fp] \in closed) => lineage[fp] \in raced

\* A device loses its tokens only for a cause outside it: its user's own logout,
\* an answer lost, an inactive account, a session ended at the server -- its own,
\* or the one before it, of which a refresh is still under way: refreshSession
\* (api_client.dart:129-131) removes whatever tokens are stored by then.  Its own
\* requests, many of which may meet a 401 at once, never end a session: the
\* single flight of refreshSession keeps them from using one token twice, so
\* that a token counts as an old one that came back only when its login had
\* been ended before.
SignedOutForCause ==
  [][ /\ \A d \in Devices : (held[d] # 0 /\ held'[d] = 0) =>
           \/ \E r \in Requests : by[r] = d /\ ask[r] = "logout"
           \/ rare' # rare \/ ~active \/ lineage[held[d]] \in closed
           \/ refreshing[d] # 0 /\ lineage[refreshing[d]] \in closed
      /\ \A r \in Requests : (step[r] = "check" /\ step'[r] = "revoke") =>
           lineage[tok[r]] \in closed ]_sessionVars

\* Every refresh comes to an end, so that the requests that joined it go on,
\* unless its answer never comes: the Dio of refreshSession has no timeouts
\* (api_client.dart:117), and nothing ends the wait but a restart of the app.
RefreshEnds == \A d \in Devices : refreshing[d] # 0 ~> (refreshing[d] = 0 \/ d \in hung)
=============================================================================
