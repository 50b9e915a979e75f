------------------------------ MODULE MCPhone -------------------------------
(***************************************************************************)
(* The two machines of the app, side by side: a behaviour is one of the    *)
(* sync engine or one of the attendance screen, and the state space the    *)
(* sum of theirs.                                                          *)
(***************************************************************************)
EXTENDS MCSyncEngine, TapScreen

VARIABLE part

vars == <<part, syncVars, screenVars>>

Init == part \in {"engine", "screen"} /\ SyncInit /\ TapScreenInit

Next ==
  \/ part = "engine" /\ SyncNext /\ UNCHANGED <<part, screenVars>>
  \/ part = "screen" /\ TapScreenNext /\ UNCHANGED <<part, syncVars>>

\* SyncFairness, of the machine that runs.
EngineRuns ==
  /\ \A u \in Uploaders : /\ WF_syncVars(part = "engine" /\ PassStep(u))
                          /\ WF_syncVars(part = "engine" /\ SyncNow(u))
  /\ \A h \in Handlers :
       WF_syncVars(part = "engine" /\ HandlerStep(h) /\ UNCHANGED deviceVars)

\* The coroutines go on, and the user comes back to the app.
ScreenRuns ==
  /\ \A c \in Calls : WF_screenVars(part = "screen" /\ GoOn(c))
  /\ WF_screenVars(part = "screen" /\ \E c \in Calls : OnResume(c))

Spec == Init /\ [][Next]_vars /\ EngineRuns /\ ScreenRuns
=============================================================================
