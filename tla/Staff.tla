------------------------------- MODULE Staff -------------------------------
(***************************************************************************)
(* Teams and the accounts in them: team_service.py and the create and      *)
(* update of employee_service.py.  Each handler is a transaction that      *)
(* reads rows one await after the other and writes at its commit; an       *)
(* UPDATE finds its row by id and sets the changed columns, whatever they  *)
(* hold by then.  Audit rows and the answers are left out.                 *)
(***************************************************************************)
EXTENDS Integers

CONSTANTS
  Teams,           \* rows of teams
  Staffers,        \* rows of users
  NoTeam, Nobody,
  Names,           \* spellings of a team's name
  Fold,            \* lower(): a function on Names
  Admins,          \* handler slots
  MaxRequests      \* bound on the requests handled

ASSUME StaffAssumption ==
  /\ NoTeam \notin Teams /\ Nobody \notin Staffers /\ DOMAIN Fold = Names /\ Names # {}
  /\ MaxRequests \in Nat

VARIABLES
  teamState,   \* "none", "live", or "deleted" (is_active = false)
  nameOf,      \* teams.name
  leader,      \* teams.supervisor_id
  hired,       \* users that exist
  memberOf,    \* users.team_id
  canLead,     \* users whose role is SUPERVISOR or ADMIN
  duty,        \* what each handler does
  checks,      \* the checks it has still to make
  team, user,  \* the rows it is about
  wanted,      \* the name it writes
  crew,        \* the members a deletion has read
  begun,       \* requests handled so far
  crossed,     \* history: teams with a join and a deletion under way at once
  namesRaced   \* history: two writers of names were under way at once

tables   == <<teamState, nameOf, leader, hired, memberOf, canLead>>
requests == <<duty, checks, team, user, wanted, crew>>
races    == <<begun, crossed, namesRaced>>
staffVars == <<tables, requests, races>>

AnyName == CHOOSE n \in Names : TRUE

StaffInit ==
  /\ teamState = [t \in Teams |-> "none"]
  /\ nameOf = [t \in Teams |-> AnyName]
  /\ leader = [t \in Teams |-> Nobody]
  /\ hired = {} /\ memberOf = [u \in Staffers |-> NoTeam] /\ canLead = {}
  /\ duty = [a \in Admins |-> "none"] /\ checks = [a \in Admins |-> {}]
  /\ team = [a \in Admins |-> NoTeam] /\ user = [a \in Admins |-> Nobody]
  /\ wanted = [a \in Admins |-> AnyName]
  /\ crew = [a \in Admins |-> {}]
  /\ begun = 0 /\ crossed = {} /\ namesRaced = FALSE

Live(t) == teamState[t] = "live"
Naming  == {"create", "rename"}
Joining == {"join", "hire"}
Others(a) == Admins \ {a}
Busy(a, duties, t) == \E b \in Others(a) : duty[b] \in duties /\ team[b] = t
-----------------------------------------------------------------------------
(* The first read of a handler, and the checks it will make                *)

Begin(a, d, t, u, n, todo) ==
  /\ begun < MaxRequests /\ begun' = begun + 1
  /\ duty[a] = "none" /\ duty' = [duty EXCEPT ![a] = d]
  /\ checks' = [checks EXCEPT ![a] = todo]
  /\ team' = [team EXCEPT ![a] = t] /\ user' = [user EXCEPT ![a] = u]
  /\ wanted' = [wanted EXCEPT ![a] = n]
  /\ crossed' = IF \/ d \in Joining /\ Busy(a, {"delete"}, t)
                   \/ d = "delete" /\ Busy(a, Joining, t)
                THEN crossed \cup {t} ELSE crossed
  /\ namesRaced' = (namesRaced \/ (d \in Naming /\ \E b \in Others(a) : duty[b] \in Naming))
  /\ UNCHANGED <<tables, crew>>

\* TeamService.create; a supervisor is optional.
CreateTeam(a, t, u, n) ==
  /\ teamState[t] = "none" /\ ~Busy(a, {"create"}, t) /\ u \in hired \cup {Nobody}
  /\ Begin(a, "create", t, u, n, {"name"} \cup IF u = Nobody THEN {} ELSE {"leader"})
\* TeamService.update: a new name, or a new supervisor.
RenameTeam(a, t, n) ==
  /\ Live(t)
  /\ Begin(a, "rename", t, Nobody, n, IF Fold[n] = Fold[nameOf[t]] THEN {} ELSE {"name"})
AssignLeader(a, t, u) ==
  /\ Live(t) /\ u \in hired \cup {Nobody}
  /\ Begin(a, "lead", t, u, AnyName, IF u = Nobody THEN {} ELSE {"leader"})
\* TeamService.soft_delete
DeleteTeam(a, t) == Live(t) /\ Begin(a, "delete", t, Nobody, AnyName, {"crew"})
\* add_member, and an update of team_id; the checks come in either order.
Join(a, t, u) ==
  u \in hired /\ memberOf[u] # t /\ Begin(a, "join", t, u, AnyName, {"team"})
\* remove_member, and an update of team_id to null.
LeaveTeam(a, t, u) ==
  u \in hired /\ memberOf[u] = t /\ Begin(a, "leave", t, u, AnyName, {})
\* EmployeeService.create: the e-mail is checked first.
Hire(a, t, u) ==
  /\ u \notin hired /\ \A b \in Admins : duty[b] = "hire" => user[b] # u
  /\ Begin(a, "hire", t, u, AnyName, IF t = NoTeam THEN {} ELSE {"team"})
\* EmployeeService.update of the role.
ChangeRole(a, u) == u \in hired /\ Begin(a, "role", NoTeam, u, AnyName, {})
-----------------------------------------------------------------------------
(* The reads that follow                                                   *)

\* name_exists: any other team, deleted ones included, lower() of both.
BugNameFree(a) == \A t \in Teams \ {team[a]} : teamState[t] = "none" \/ nameOf[t] # wanted[a]
NameFree(a) ==
  \A t \in Teams \ {team[a]} : teamState[t] = "none" \/ Fold[nameOf[t]] # Fold[wanted[a]]

\* active_team_exists, and the team of add_member
BugTeamUsable(a) == teamState[team[a]] # "none"
TeamUsable(a) == Live(team[a])

\* _validate_supervisor
LeaderFit(a) == user[a] \in canLead

Passes(a, c) == CASE c = "name" -> NameFree(a) [] c = "team" -> TeamUsable(a)
                  [] c = "leader" -> LeaderFit(a) [] c = "crew" -> TRUE

EndRequest(a) ==
  /\ duty' = [duty EXCEPT ![a] = "none"] /\ checks' = [checks EXCEPT ![a] = {}]
  /\ team' = [team EXCEPT ![a] = NoTeam] /\ user' = [user EXCEPT ![a] = Nobody]
  /\ wanted' = [wanted EXCEPT ![a] = AnyName] /\ crew' = [crew EXCEPT ![a] = {}]

\* 404, 409 and 400 answers end the handler.
CheckRow(a, c) ==
  /\ c \in checks[a]
  /\ \/ /\ Passes(a, c)
        /\ checks' = [checks EXCEPT ![a] = @ \ {c}]
        /\ crew' = [crew EXCEPT ![a] =
                      IF c = "crew" THEN {u \in hired : memberOf[u] = team[a]} ELSE @]
        /\ UNCHANGED <<duty, team, user, wanted>>
     \/ ~Passes(a, c) /\ EndRequest(a)
  /\ UNCHANGED <<tables, races>>
-----------------------------------------------------------------------------
(* The commits                                                             *)

\* The UNIQUE constraint of teams.name compares spellings.
Unique(a) == \A t \in Teams \ {team[a]} : teamState[t] = "none" \/ nameOf[t] # wanted[a]

Ready(a, d) == duty[a] = d /\ checks[a] = {} /\ EndRequest(a)

CommitName(a) ==
  /\ duty[a] \in Naming /\ Ready(a, duty[a])
  /\ IF ~Unique(a) THEN UNCHANGED <<teamState, nameOf, leader>>
     ELSE /\ nameOf' = [nameOf EXCEPT ![team[a]] = wanted[a]]
          /\ IF duty[a] = "create"
             THEN /\ teamState' = [teamState EXCEPT ![team[a]] = "live"]
                  /\ leader' = [leader EXCEPT ![team[a]] = user[a]]
             ELSE UNCHANGED <<teamState, leader>>
  /\ UNCHANGED <<hired, memberOf, canLead, races>>

CommitLeader(a) ==
  /\ Ready(a, "lead") /\ leader' = [leader EXCEPT ![team[a]] = user[a]]
  /\ UNCHANGED <<teamState, nameOf, hired, memberOf, canLead, races>>

\* One UPDATE per member that was read, and the flag.
CommitDelete(a) ==
  /\ Ready(a, "delete")
  /\ teamState' = [teamState EXCEPT ![team[a]] = "deleted"]
  /\ memberOf' = [u \in Staffers |-> IF u \in crew[a] THEN NoTeam ELSE memberOf[u]]
  /\ UNCHANGED <<nameOf, leader, hired, canLead, races>>

CommitMember(a) ==
  /\ \E d \in Joining \cup {"leave"} : Ready(a, d)
  /\ memberOf' = [memberOf EXCEPT ![user[a]] = IF duty[a] = "leave" THEN NoTeam ELSE team[a]]
  /\ hired' = hired \cup {user[a]}
  /\ UNCHANGED <<teamState, nameOf, leader, canLead, races>>

CommitRole(a) ==
  /\ Ready(a, "role")
  /\ (canLead' = canLead \cup {user[a]} \/ canLead' = canLead \ {user[a]})
  /\ UNCHANGED <<teamState, nameOf, leader, hired, memberOf, races>>

Serve(a) == \/ CommitName(a) \/ CommitLeader(a) \/ CommitDelete(a)
            \/ CommitMember(a) \/ CommitRole(a)
            \/ \E c \in {"name", "team", "leader", "crew"} : CheckRow(a, c)

StaffNext == \E a \in Admins :
  \/ Serve(a)
  \/ \E t \in Teams : DeleteTeam(a, t) \/ \E n \in Names : RenameTeam(a, t, n)
  \/ \E t \in Teams, u \in Staffers : Join(a, t, u) \/ LeaveTeam(a, t, u)
  \/ \E t \in Teams, u \in Staffers \cup {Nobody} :
       AssignLeader(a, t, u) \/ \E n \in Names : CreateTeam(a, t, u, n)
  \/ \E u \in Staffers : ChangeRole(a, u) \/ \E t \in Teams \cup {NoTeam} : Hire(a, t, u)

StaffSpec == StaffInit /\ [][StaffNext]_staffVars
-----------------------------------------------------------------------------
StaffTypeOK ==
  /\ teamState \in [Teams -> {"none", "live", "deleted"}]
  /\ nameOf \in [Teams -> Names] /\ leader \in [Teams -> Staffers \cup {Nobody}]
  /\ hired \subseteq Staffers /\ memberOf \in [Staffers -> Teams \cup {NoTeam}]
  /\ canLead \subseteq hired
  /\ duty \in [Admins -> Naming \cup Joining \cup {"none", "lead", "delete", "leave", "role"}]
  /\ checks \in [Admins -> SUBSET {"name", "team", "leader", "crew"}]
  /\ team \in [Admins -> Teams \cup {NoTeam}] /\ user \in [Admins -> Staffers \cup {Nobody}]
  /\ wanted \in [Admins -> Names] /\ crew \in [Admins -> SUBSET Staffers]
  /\ crossed \subseteq Teams /\ namesRaced \in BOOLEAN /\ begun \in Nat

\* "Detach members so none point at an inactive team" (team_service.py:193):
\* nobody is in a deleted team, unless somebody joined while the deletion was
\* under way -- neither handler locks the row of the team.
NobodyInDeletedTeam ==
  \A u \in Staffers : (memberOf[u] # NoTeam /\ teamState[memberOf[u]] = "deleted")
                         => memberOf[u] \in crossed

\* No two teams have names that differ by case alone, unless two handlers
\* wrote names at once: the UNIQUE constraint only compares spellings.
NamesDiffer ==
  \A s, t \in Teams : (/\ s # t /\ teamState[s] # "none" /\ teamState[t] # "none"
                       /\ Fold[nameOf[s]] = Fold[nameOf[t]]) => namesRaced
=============================================================================
