---------------------------- MODULE ScheduleJobs ----------------------------
(***************************************************************************)
(* Time schedules live twice: as rows of the schedules table and as jobs   *)
(* in APScheduler's in-memory job store.  This module models the requests  *)
(* that change both (app/scheduler/service.py inside the transaction of    *)
(* app/dependencies.get_db), the jobs that fire, and restarts.             *)
(*                                                                         *)
(* A request suspends at every statement it sends to PostgreSQL; between   *)
(* two statements its Python code runs undisturbed.  The database is READ  *)
(* COMMITTED: a statement sees committed rows and those of its own         *)
(* transaction, and UPDATE and DELETE hold the row's lock until the        *)
(* transaction ends.  An UPDATE names only the columns whose value differs *)
(* from the loaded one, and is not sent when there are none.               *)
(*                                                                         *)
(* Trigger and action configuration are one value; name and description    *)
(* have none, but changing them sends an UPDATE like any other.  Wall-clock*)
(* time is left out, so an enabled job may fire at any moment.  `Variant'  *)
(* marks bugs the code might have, as in TTLCache.                         *)
(***************************************************************************)
EXTENDS Naturals

CONSTANTS
  Schedules,    \* ids that may be generated: a row's id is never used again
  Requests,     \* HTTP request handlers
  Configs,      \* configurations
  Kinds,        \* the trigger_type values in use
  BadTriggers,  \* kinds with configurations their constructor raises on
  Nobody, NoRow, NoJob, NoSchedule, NoConfig,
  Same,         \* a field absent from a PUT body
  MayFail,      \* statements and commits can fail
  MayCrash      \* the process can be restarted

VARIABLES
  row,      \* row[s]: the committed row of s, or NoRow
  born,     \* ids generated so far
  rowLock,  \* rowLock[s]: the transaction that holds the row's lock
  req,      \* req[r]: the request r handles
  job,      \* job[s]: the job "schedule_{s}", or NoJob
  run,      \* run[s]: the execution of job_func for s
  exposed   \* exposed[s]: something happened that can part row and job

vars == <<row, born, rowLock, req, job, run, exposed>>

Row == [on : BOOLEAN, cfg : Configs, kind : Kinds, fired : BOOLEAN]
Job == [cfg : Configs, once : BOOLEAN]
\* A PUT body.  That it changes the name or the description as well matters
\* only where nothing else changes: to Renaming.
Renaming == [on |-> Same, cfg |-> Same, other |-> TRUE]
Change == [on : BOOLEAN \cup {Same}, cfg : Configs \cup {Same}, other : {FALSE}]
            \cup {Renaming}

ASSUME ScheduleAssumption ==
  /\ BadTriggers \subseteq Kinds \X Configs
  /\ Kinds \subseteq {"recurring", "once", "unknown"}
  /\ MayFail \in BOOLEAN /\ MayCrash \in BOOLEAN
  /\ Nobody \notin Requests /\ NoSchedule \notin Schedules
  /\ Same \notin Configs \cup BOOLEAN /\ NoConfig \notin Configs
  /\ NoRow \notin Row /\ NoJob \notin Job

NoChange == [on |-> Same, cfg |-> Same, other |-> FALSE]
Idle == [step |-> "idle", op |-> "none", sch |-> NoSchedule,
         put |-> NoChange, seen |-> NoRow, touched |-> FALSE]
NoRun == [step |-> "idle", cfg |-> NoConfig]

\* A request on s under way; a delete starts by removing the job.
Asked(step, op, s, put, seen) ==
  [step |-> step, op |-> op, sch |-> s, put |-> put, seen |-> seen,
   touched |-> op = "delete"]

TypeOK ==
  /\ row \in [Schedules -> Row \cup {NoRow}]
  /\ born \subseteq Schedules
  /\ rowLock \in [Schedules -> Requests \cup {Nobody}]
  /\ req \in [Requests ->
       [step : {"idle", "flush", "refresh", "sync", "commit"},
        op : {"none", "create", "update", "delete"},
        sch : Schedules \cup {NoSchedule}, put : Change,
        seen : Row \cup {NoRow}, touched : BOOLEAN]]
  /\ job \in [Schedules -> Job \cup {NoJob}]
  /\ run \in [Schedules -> [step : {"idle", "acting", "stamping"},
                            cfg : Configs \cup {NoConfig}]]
  /\ exposed \in [Schedules -> BOOLEAN]

Init == /\ row = [s \in Schedules |-> NoRow]
        /\ born = {}
        /\ rowLock = [s \in Schedules |-> Nobody]
        /\ req = [r \in Requests |-> Idle]
        /\ job = [s \in Schedules |-> NoJob]
        /\ run = [s \in Schedules |-> NoRun]
        /\ exposed = [s \in Schedules |-> FALSE]

-----------------------------------------------------------------------------
(* Rows.                                                                   *)

\* Variant: fields absent from the body are assigned too.
UpdatedBlindly(w, put) == [w EXCEPT !.on = put.on, !.cfg = put.cfg]

\* What setting the attributes of a PUT body makes of a row.
Updated(w, put) == [w EXCEPT !.on = IF put.on = Same THEN @ ELSE put.on,
                             !.cfg = IF put.cfg = Same THEN @ ELSE put.cfg]

\* Only the fields that differ from the loaded row reach the database.
NetChange(w, put) == [on |-> IF put.on = w.on THEN Same ELSE put.on,
                      cfg |-> IF put.cfg = w.cfg THEN Same ELSE put.cfg,
                      other |-> put.other]

Locks(r, s) == /\ rowLock[s] = Nobody
               /\ rowLock' = [rowLock EXCEPT ![s] = r]

\* Variant: locks outlive the transaction.
UnlockedNever(r) == rowLock

Unlocked(r) == [s \in Schedules |-> IF rowLock[s] = r THEN Nobody
                                                      ELSE rowLock[s]]

-----------------------------------------------------------------------------
(* Requests.                                                               *)

At(r, step, op) == req[r].step = step /\ req[r].op = op

Goes(r, step) == req' = [req EXCEPT ![r].step = step]

\* The transaction is rolled back and the client gets an error.
Aborts(r) == /\ req' = [req EXCEPT ![r] = Idle]
             /\ rowLock' = Unlocked(r)
             /\ UNCHANGED <<row, born, job, run>>

\* A request whose transaction takes no row lock before it touches the job.
Lockless(q) == q.op = "delete" \/ (q.op = "update" /\ q.put = NoChange)

Meets(q) == \E r \in Requests :
              /\ req[r].sch = q.sch
              /\ Lockless(q) \/ Lockless(req[r])

\* The first SELECT has found the row.
Arrives(r, q) ==
  /\ req[r] = Idle
  /\ req' = [req EXCEPT ![r] = q]
  /\ exposed' = [exposed EXCEPT ![q.sch] = @ \/ Meets(q)]
  /\ UNCHANGED <<row, born, rowLock, run>>

NotFound(r, s) == /\ req[r] = Idle
                  /\ s \in born /\ row[s] = NoRow
                  /\ UNCHANGED vars

\* create_schedule: INSERT and refresh; nobody else can see the row yet.
Create(r, s, w) ==
  /\ req[r] = Idle
  /\ s \notin born
  /\ born' = born \cup {s}
  /\ req' = [req EXCEPT ![r] = Asked("sync", "create", s, NoChange, w)]
  /\ UNCHANGED <<row, rowLock, job, run, exposed>>

\* update_schedule: get_schedule, then the attributes are assigned.  Of what
\* was loaded only the difference lasts: the refresh reads the row again.
Update(r, s, put) ==
  /\ row[s] # NoRow
  /\ Arrives(r, Asked("flush", "update", s, NetChange(row[s], put), NoRow))
  /\ UNCHANGED job

\* delete_schedule: get_schedule, then the job is removed, before the row is.
Delete(r, s) ==
  /\ row[s] # NoRow
  /\ Arrives(r, Asked("flush", "delete", s, NoChange, NoRow))
  /\ job' = [job EXCEPT ![s] = NoJob]

\* repo.update: the flush sends an UPDATE, which waits for the row's lock.
FlushUpdate(r) ==
  LET s == req[r].sch IN
  /\ At(r, "flush", "update")
  /\ req[r].put # NoChange
  /\ row[s] # NoRow
  /\ Locks(r, s)
  /\ Goes(r, "refresh")
  /\ UNCHANGED <<row, born, job, run, exposed>>

FlushNothing(r) ==
  /\ At(r, "flush", "update")
  /\ req[r].put = NoChange
  /\ Goes(r, "refresh")
  /\ UNCHANGED <<row, born, rowLock, job, run, exposed>>

\* The row has gone meanwhile: StaleDataError from the flush, or
\* InvalidRequestError from the refresh.
RowVanished(r) == /\ req[r].op = "update"
                  /\ req[r].step \in {"flush", "refresh"}
                  /\ row[req[r].sch] = NoRow
                  /\ Aborts(r)
                  /\ UNCHANGED exposed

\* session.refresh reads what this transaction sees.
Refresh(r) ==
  LET s == req[r].sch IN
  /\ At(r, "refresh", "update")
  /\ row[s] # NoRow
  /\ req' = [req EXCEPT ![r].step = "sync",
                        ![r].seen = Updated(row[s], req[r].put)]
  /\ UNCHANGED <<row, born, rowLock, job, run, exposed>>

\* repo.delete: the DELETE waits for the lock; of a row that has gone it
\* deletes nothing, which SQLAlchemy only warns of.
FlushDelete(r) ==
  LET s == req[r].sch IN
  /\ At(r, "flush", "delete")
  /\ Locks(r, s)
  /\ Goes(r, "commit")
  /\ UNCHANGED <<row, born, job, run, exposed>>

\* Variant: a job that is there is not replaced.
RegisteredOnce(s, w) ==
  IF w.kind = "unknown" \/ job[s] # NoJob THEN job
  ELSE [job EXCEPT ![s] = [cfg |-> w.cfg, once |-> w.kind = "once"]]

\* _register_apscheduler_job: no trigger, no job; else the job is replaced.
Registered(s, w) ==
  IF w.kind = "unknown" THEN job
  ELSE [job EXCEPT ![s] = [cfg |-> w.cfg, once |-> w.kind = "once"]]

TriggerRaises(w) == /\ w.on /\ w.kind # "unknown"
                    /\ <<w.kind, w.cfg>> \in BadTriggers

\* Variant: a schedule that is switched off keeps its job.
SyncKeeps(r) ==
  LET s == req[r].sch
      w == req[r].seen IN
  /\ req[r].step = "sync"
  /\ ~TriggerRaises(w)
  /\ job' = IF w.on THEN Registered(s, w) ELSE job
  /\ req' = [req EXCEPT ![r].step = "commit", ![r].touched = TRUE]
  /\ UNCHANGED <<row, born, rowLock, run, exposed>>

\* _sync_apscheduler_job; create_schedule only registers.
Sync(r) ==
  LET s == req[r].sch
      w == req[r].seen IN
  /\ req[r].step = "sync"
  /\ ~TriggerRaises(w)
  /\ job' = CASE w.on -> Registered(s, w)
              [] ~w.on /\ req[r].op = "update" -> [job EXCEPT ![s] = NoJob]
              [] OTHER -> job
  /\ req' = [req EXCEPT ![r].step = "commit", ![r].touched = TRUE]
  /\ UNCHANGED <<row, born, rowLock, run, exposed>>

SyncRaises(r) == /\ req[r].step = "sync"
                 /\ TriggerRaises(req[r].seen)
                 /\ Aborts(r)
                 /\ UNCHANGED exposed

\* Variant: an update writes every column of the object it holds.
CommitWhole(r) ==
  LET s == req[r].sch
      q == req[r] IN
  /\ q.step = "commit"
  /\ row' = CASE q.op = "delete" -> [row EXCEPT ![s] = NoRow]
              [] q.op = "update" /\ row[s] = NoRow -> row
              [] OTHER -> [row EXCEPT ![s] = q.seen]
  /\ req' = [req EXCEPT ![r] = Idle]
  /\ rowLock' = Unlocked(r)
  /\ UNCHANGED <<born, job, run, exposed>>

\* get_db commits after the handler has returned.
Commit(r) ==
  LET s == req[r].sch
      q == req[r] IN
  /\ q.step = "commit"
  /\ row' = CASE q.op = "create" -> [row EXCEPT ![s] = q.seen]
              [] q.op = "delete" -> [row EXCEPT ![s] = NoRow]
              [] q.op = "update" /\ row[s] # NoRow ->
                   [row EXCEPT ![s] = Updated(@, q.put)]
              [] OTHER -> row
  /\ req' = [req EXCEPT ![r] = Idle]
  /\ rowLock' = Unlocked(r)
  /\ UNCHANGED <<born, job, run, exposed>>

\* A statement or the commit fails: what was done to the job stays done.
Fail(r) == /\ MayFail
           /\ req[r].step # "idle"
           /\ Aborts(r)
           /\ exposed' = [exposed EXCEPT ![req[r].sch] = @ \/ req[r].touched]

-----------------------------------------------------------------------------
(* job_func, at most one instance a job, with the configuration captured   *)
(* when the job was registered.                                            *)

UsedUp(s) == [job EXCEPT ![s] = IF @.once THEN NoJob ELSE @]

Fire(s) == /\ job[s] # NoJob
           /\ run[s] = NoRun
           /\ run' = [run EXCEPT ![s] = [step |-> "acting", cfg |-> job[s].cfg]]
           /\ job' = UsedUp(s)
           /\ UNCHANGED <<row, born, rowLock, req, exposed>>

\* A run time that is missed, or comes while the last run is still going.
Miss(s) == /\ job[s] # NoJob
           /\ job' = UsedUp(s)
           /\ UNCHANGED <<row, born, rowLock, req, run, exposed>>

Act(s) == /\ run[s].step = "acting"
          /\ run' = [run EXCEPT ![s].step = "stamping"]
          /\ UNCHANGED <<row, born, rowLock, req, job, exposed>>

ActRaises(s) == /\ run[s].step = "acting"
                /\ run' = [run EXCEPT ![s] = NoRun]
                /\ UNCHANGED <<row, born, rowLock, req, job, exposed>>

\* last_triggered is written in a session of its own; it waits for the lock.
Stamp(s) == /\ run[s].step = "stamping"
            /\ rowLock[s] = Nobody
            /\ row' = IF row[s] = NoRow THEN row
                      ELSE [row EXCEPT ![s].fired = TRUE]
            /\ run' = [run EXCEPT ![s] = NoRun]
            /\ UNCHANGED <<born, rowLock, req, job, exposed>>

StampFails(s) == /\ MayFail
                 /\ run[s].step = "stamping"
                 /\ run' = [run EXCEPT ![s] = NoRun]
                 /\ UNCHANGED <<row, born, rowLock, req, job, exposed>>

-----------------------------------------------------------------------------
(* The process goes down and comes up: open transactions are rolled back,  *)
(* the job store is empty, and lifespan registers the system jobs only.    *)
Restart ==
  /\ MayCrash
  /\ rowLock' = [s \in Schedules |-> Nobody]
  /\ req' = [r \in Requests |-> Idle]
  /\ job' = [s \in Schedules |-> NoJob]
  /\ run' = [s \in Schedules |-> NoRun]
  /\ exposed' = [s \in Schedules |-> row[s] # NoRow /\ row[s].on]
  /\ UNCHANGED <<row, born>>

-----------------------------------------------------------------------------

Flush(r) == FlushUpdate(r) \/ FlushNothing(r) \/ FlushDelete(r)

Proceed(r) == \/ RowVanished(r) \/ Refresh(r)
              \/ Sync(r) \/ SyncRaises(r) \/ Commit(r)

NewRow == [on : BOOLEAN, cfg : Configs, kind : Kinds, fired : {FALSE}]

Next == \/ \E r \in Requests, s \in Schedules :
             \/ \E w \in NewRow : Create(r, s, w)
             \/ \E put \in Change : Update(r, s, put)
             \/ Delete(r, s)
             \/ NotFound(r, s)
        \/ \E r \in Requests : Flush(r) \/ Proceed(r) \/ Fail(r)
        \/ \E s \in Schedules : \/ Fire(s) \/ Miss(s) \/ Act(s) \/ ActRaises(s)
                                \/ Stamp(s) \/ StampFails(s)
        \/ Restart

(* PostgreSQL answers, and it grants a row's lock in the order in which it *)
(* was asked for, which strong fairness of the waiting statement abstracts.*)
Fairness == /\ \A r \in Requests : SF_vars(Flush(r)) /\ WF_vars(Proceed(r))
            /\ \A s \in Schedules : /\ WF_vars(Act(s) \/ ActRaises(s))
                                    /\ SF_vars(Stamp(s))

Spec == Init /\ [][Next]_vars /\ Fairness

-----------------------------------------------------------------------------
(* Properties.                                                             *)

Quiet(s) == \A r \in Requests : req[r].sch # s

\* "Update or remove the APScheduler job based on is_enabled"
\* (service.py:175): a job belongs to an enabled row and has its
\* configuration, and an enabled row has a job while it is due again.
Mirrored(s) ==
  /\ job[s] # NoJob => /\ row[s] # NoRow
                       /\ row[s].on
                       /\ row[s].cfg = job[s].cfg
  /\ row[s] # NoRow /\ row[s].on /\ row[s].kind = "recurring" => job[s] # NoJob

\* When no request on it is under way, a schedule's job and its row agree,
\* unless there was one of three causes: a restart with the row enabled, a
\* transaction that failed after it had touched the job, or a request that
\* touches the job without holding the row's lock (a delete, an update that
\* changes nothing) beside another request.  Two updates never part them.
PartedOnlyIfExposed == \A s \in Schedules : Quiet(s) /\ ~exposed[s] => Mirrored(s)

\* What the commit of r, which has touched the job, is to leave of the row.
Coming(r) == IF req[r].op = "update"
             THEN Updated(row[req[r].sch], req[r].put) ELSE req[r].seen

\* A run executes what its job captured when it was registered
\* (service.py:143).  Unless the schedule is exposed, that is what its row
\* says at the start of the run or, if a request has touched the job, what
\* the row will say when this request commits; no run starts for a schedule
\* that is, or is being, switched off or deleted.
FiresWhatIsSaved ==
  [][\A s \in Schedules : run[s] = NoRun /\ run'[s] # NoRun /\ ~exposed[s] =>
       LET touching == {r \in Requests : req[r].sch = s /\ req[r].touched}
           rows == IF touching = {} THEN {row[s]}
                                    ELSE {Coming(r) : r \in touching}
       IN  \A w \in rows : w # NoRow /\ w.on /\ w.cfg = run'[s].cfg]_vars

\* A request that is saving a stale copy of the row does not take back the
\* last_triggered a job has written in the meantime.
LastTriggeredIsKept ==
  [][\A s \in Schedules : row[s] # NoRow /\ row[s].fired =>
       row'[s] = NoRow \/ row'[s].fired]_vars

\* No request and no job run waits forever for a row's lock.
NobodyWaitsForever ==
  /\ \A r \in Requests : req[r].step # "idle" ~> req[r] = Idle
  /\ \A s \in Schedules : run[s] # NoRun ~> run[s] = NoRun

\* service.py:175 again, now as what a quiet system is meant to satisfy:
\* the jobs follow is_enabled.
JobsFollowRows == \A s \in Schedules : Quiet(s) => Mirrored(s)

=============================================================================
