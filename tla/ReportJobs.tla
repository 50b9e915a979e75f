----------------------------- MODULE ReportJobs -----------------------------
(***************************************************************************)
(* The life of a report: POST /reports/generate, the background task       *)
(* run_report_job, and ReportStore, which keeps the status in a Redis hash *)
(* and the bytes in a file (report_service.py, api/v1/reports.py).  HSET   *)
(* and EXPIRE are two commands.  What a report holds is in DayReports.     *)
(* Time is what it does: a key with a TTL expires, a file grows older than *)
(* the retention.                                                          *)
(***************************************************************************)
EXTENDS Integers

CONSTANTS
  Reports,     \* report ids
  MaxTrouble   \* bound on crashes of the process and on Redis errors

ASSUME ReportJobsAssumption == MaxTrouble \in Nat

VARIABLES
  status,    \* of the hash, "absent" without one
  expires,   \* reports whose hash has a TTL
  owned,     \* reports whose hash holds owner_id
  file,      \* "none", "fresh" or "old"
  stage,     \* the await each report has reached
  trouble,
  outlived,  \* history: the hash expired while its job was at work
  lapsed     \* history: a crash or an error came between HSET and EXPIRE

reportVars == <<status, expires, owned, file, stage, trouble, outlived, lapsed>>

\* Stages after the answer of generate.
AtWork == {"prune", "build", "write", "mark", "refresh", "fail", "failttl"}

ReportJobsInit ==
  /\ status = [i \in Reports |-> "absent"] /\ expires = {} /\ owned = {}
  /\ file = [i \in Reports |-> "none"] /\ stage = [i \in Reports |-> "new"]
  /\ trouble = 0 /\ outlived = {} /\ lapsed = {}

GoesOn(i, s) == stage' = [stage EXCEPT ![i] = s]
Trouble == trouble < MaxTrouble /\ trouble' = trouble + 1
Exists(i) == status[i] # "absent"
Note(S) == lapsed' = lapsed \cup {i \in S : Exists(i) /\ i \notin expires}
-----------------------------------------------------------------------------
Create(i) ==
  /\ stage[i] = "new" /\ GoesOn(i, "created")
  /\ status' = [status EXCEPT ![i] = "PROCESSING"] /\ owned' = owned \cup {i}
  /\ UNCHANGED <<expires, file, trouble, outlived, lapsed>>

\* EXPIRE does nothing when the key is gone.
BugSetTtl(i) == UNCHANGED expires
SetTtl(i) == expires' = IF Exists(i) THEN expires \cup {i} ELSE expires

Expire(i) ==
  /\ stage[i] = "created" /\ SetTtl(i) /\ GoesOn(i, "prune")
  /\ UNCHANGED <<status, owned, file, trouble, outlived, lapsed>>

\* Every job first deletes the files older than the retention.
PruneExpiredFiles(i) ==
  /\ stage[i] = "prune" /\ GoesOn(i, "build")
  /\ file' = [j \in Reports |-> IF file[j] = "old" THEN "none" ELSE file[j]]
  /\ UNCHANGED <<status, expires, owned, trouble, outlived, lapsed>>

\* Rows are read and rendered, the file is written; either may raise.
BuildReport(i) ==
  /\ stage[i] = "build" /\ (GoesOn(i, "write") \/ GoesOn(i, "fail"))
  /\ UNCHANGED <<status, expires, owned, file, trouble, outlived, lapsed>>
WriteFile(i) ==
  /\ stage[i] = "write"
  /\ \/ file' = [file EXCEPT ![i] = "fresh"] /\ GoesOn(i, "mark")
     \/ GoesOn(i, "fail") /\ UNCHANGED file
  /\ UNCHANGED <<status, expires, owned, trouble, outlived, lapsed>>

\* HSET sets some fields: it keeps the others, and makes a hash without them
\* when there is none.
BugKeepsFields(i) == owned \ {i}
KeepsFields(i) == owned
Mark(i, from, s, next) ==
  /\ stage[i] = from /\ GoesOn(i, next)
  /\ status' = [status EXCEPT ![i] = s] /\ owned' = KeepsFields(i)
  /\ UNCHANGED <<expires, file, trouble, outlived, lapsed>>
MarkReady(i) == Mark(i, "mark", "READY", "refresh")
MarkFailed(i) == Mark(i, "fail", "FAILED", "failttl")

Finishes(i) == stage[i] \in {"refresh", "failttl"} /\ SetTtl(i)
Finish(i) == /\ Finishes(i) /\ GoesOn(i, "done")
             /\ UNCHANGED <<status, owned, file, trouble, outlived, lapsed>>

\* A Redis error: the job records a failure instead, or gives up.
RedisError(i) ==
  /\ Trouble
  /\ \/ stage[i] \in {"mark", "refresh"} /\ GoesOn(i, "fail") /\ UNCHANGED lapsed
     \/ stage[i] \in {"fail", "failttl"} /\ GoesOn(i, "done") /\ Note({i})
     \/ stage[i] = "created" /\ GoesOn(i, "lost") /\ Note({i})
  /\ UNCHANGED <<status, expires, owned, file, outlived>>

\* The process stops, and with it every job: nobody resumes them.
CrashJobs ==
  /\ Trouble /\ Note({i \in Reports : stage[i] \in AtWork \cup {"created"}})
  /\ stage' = [i \in Reports |-> CASE stage[i] = "created" -> "lost"
                                   [] stage[i] \in AtWork -> "done"
                                   [] OTHER -> stage[i]]
  /\ UNCHANGED <<status, expires, owned, file, outlived>>

\* A READY hash got its TTL no earlier than its file was written.
KeyExpires(i) ==
  /\ i \in expires /\ Exists(i)
  /\ (stage[i] = "done" /\ status[i] = "READY") => file[i] # "fresh"
  /\ status' = [status EXCEPT ![i] = "absent"]
  /\ expires' = expires \ {i} /\ owned' = owned \ {i}
  /\ outlived' = IF stage[i] \in AtWork THEN outlived \cup {i} ELSE outlived
  /\ UNCHANGED <<file, stage, trouble, lapsed>>

FileAges(i) == /\ file[i] = "fresh" /\ file' = [file EXCEPT ![i] = "old"]
               /\ UNCHANGED <<status, expires, owned, stage, trouble, outlived, lapsed>>

RunReportJob(i) == \/ Expire(i) \/ PruneExpiredFiles(i) \/ BuildReport(i) \/ WriteFile(i)
                   \/ MarkReady(i) \/ MarkFailed(i) \/ Finish(i)

ReportJobsNext ==
  \/ \E i \in Reports : \/ Create(i) \/ RunReportJob(i) \/ RedisError(i)
                        \/ KeyExpires(i) \/ FileAges(i)
  \/ CrashJobs

ReportJobsSpec == ReportJobsInit /\ [][ReportJobsNext]_reportVars
-----------------------------------------------------------------------------
ReportJobsTypeOK ==
  /\ status \in [Reports -> {"absent", "PROCESSING", "READY", "FAILED"}]
  /\ expires \subseteq {i \in Reports : Exists(i)} /\ owned \subseteq Reports
  /\ file \in [Reports -> {"none", "fresh", "old"}]
  /\ stage \in [Reports -> AtWork \cup {"new", "created", "done", "lost"}]
  /\ trouble \in Nat /\ outlived \subseteq Reports /\ lapsed \subseteq Reports

\* What report_status tells the client.
Told(i) == IF status[i] = "READY" /\ file[i] = "none" THEN "EXPIRED" ELSE status[i]

\* A client that polls is told an end, even when the process dies: no report is
\* PROCESSING for ever, but one whose request was cut between HSET and EXPIRE.
ProcessingEnds ==
  \A i \in Reports : (Told(i) = "PROCESSING" /\ stage[i] \notin {"created", "lost"})
                       ~> Told(i) # "PROCESSING"

\* A hash is whole: its owner can read it (_load_owned compares owner_id), and
\* it has a TTL -- the nightly sweep leaves report keys out.  A job that ran for
\* longer than the retention makes a hash without an owner by its last HSET;
\* a crash or an error between HSET and EXPIRE leaves one that stays for ever.
StatusIsWhole ==
  \A i \in Reports : Exists(i) =>
    /\ i \in owned \cup outlived
    /\ i \in expires \cup lapsed \/ stage[i] \in {"created", "refresh", "fail", "failttl"}
=============================================================================
