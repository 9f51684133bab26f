# Verification of the smart-home application

TLA+ models of the concurrent core of the smart-home application (a FastAPI
process with an in-process cache, an in-process APScheduler, PostgreSQL, and a
FRITZ!Box reached over HTTP), model-checked with TLC, with proofs checked by
TLAPS. Paths in this document are relative to the repository.

## 1. The system

One uvicorn worker (`docker/app/entrypoint.sh`) runs one asyncio event loop.
Request handlers, scheduled jobs and audit writers are coroutines of that loop:
they interleave exactly where an `await` suspends. Router calls run in a thread
pool and are awaited; database statements are awaited.

| Component | State | Operations | Interacts with |
|---|---|---|---|
| Response cache `app/cache.py` | entries with expiry, a lock per key | `get_or_fetch`, `set`, `invalidate`, `clear` | devices, phone, network services call it |
| Device views and control `app/devices/service.py` | none of its own: cache, hardware | `get_live_state`, `turn_on/off`, `set_temperature`, `set_brightness`, `poll_and_snapshot_all` | cache, provider, database |
| Schedules `app/scheduler/service.py` | `schedules` rows and APScheduler jobs | create, update, delete, `job_func` | database transaction of `get_db`, job store, provider |
| Automation rules `app/scheduler/tasks.py` | `automation_rules` rows | rule CRUD, `evaluate_all_rules` | database, provider, weather |
| Scheduler engine `app/scheduler/engine.py` | in-memory job store | start, stop, three system jobs | tasks |
| Discovery and device rows `app/devices` | `devices` rows | `discover_and_sync`, `update_device` | provider, database, groups |
| Snapshots | `device_state_snapshots` rows | `save_snapshot`, chart queries, `_downsample` | sweep, dashboard |
| Weather cache `app/weather` | one row of `weather_cache` | `get_current`, `refresh` | rules, dashboard, 30 min job |
| Users and tokens `app/users`, `app/auth`, `app/main.py` | `users` rows; tokens held by browsers | CRUD, login, refresh, logout, start-up admin | every route |
| Groups `app/groups` | groups, members | CRUD, membership | device rows |
| Audit log `app/audit` | append-only rows, writer tasks | `emit_event` | control routes |
| FRITZ!Box provider `app/providers/fritz` | connection, capability table | discovery, state, commands | router; handlers, sweep and jobs call it |
| Call list, network status `app/phone`, `app/network` | entries of two caches | `get_calls`, `get_dsl_status`, `get_wlan_status`, `get_hosts` | cache, router |
| Dashboard, analytics, pages | none | queries, rendering | database |

What makes each part correct, and what is hard about it:

* **Cache**: one fetch a key however many callers; every caller returns; an
  invalidation is not undone. Hard: fetches take seconds, and invalidations,
  expiry, failures and other writers happen meanwhile.
* **Views and control**: a view shows what the last command made of the device,
  or soon will. Hard: a state is read before an await and stored after it, by
  viewers and by the sweep; a command may work although it raises; automation
  bypasses the cache.
* **Schedules**: the job store follows the rows. Hard: two stores, one
  transactional and one not; a request suspends between changing one and the
  other; row locks; restarts empty one of them.
* **Rules**: a rule that holds acts, is stamped, and does not disturb the
  others. Hard: one session for a sweep that awaits many router calls.
* **Discovery**: the rows follow the router without undoing users' edits. Hard:
  long transactions that lock rows in the order of the router's list, the unique
  AIN, edits in between.
* **Weather**: the one row is there, its columns are those of its response, and
  it is refreshed. Hard: three kinds of fillers whose sessions keep old objects;
  a first insert by two of them.
* **Users**: emails are unique, a role counts as it stands, only admins and a start
  make admins, a login ends. Hard: check-then-insert; requests that outlive the role they
  were admitted with; long sequences of legal role changes; a row that belongs
  to a closed session.
* **Groups**: a membership names what exists. Hard: the group may go between the
  look and the insert, and a membership after its group was looked up; foreign keys
  and cascades decide (`TypeOK` of Inventory).
* **Snapshots**: whoever answers is recorded, a period apart, and a chart stands
  for all that was recorded. Hard: a sweep is one transaction over many slow
  calls; restarts; a limit and a rounded step between the rows and the chart.
* **Audit**: every control leaves an event. Hard: nobody awaits the writer; jobs and
  calls that raise are controls too.
* **Provider**: one connection; commands encode what was asked, readings tell
  the truth. Hard: a lazy connection behind a lock, a state assembled from
  several requests, devices out of reach, an answer lost after the box has obeyed.
* **Call list and network**: a page shows the router as it was a moment ago.
  Hard: failures that are cached like answers, forced reads that queue.

`PROJECT.json` lists the hazards at their source lines with the properties that
cover them.

## 2. What is modelled

### TTLCache and CacheContract (`app/cache.py`)

| Code | Model |
|---|---|
| `_store[key]` with `expires_at` | `store[k]`, with `left` = `expires_at - monotonic()` counted down by `Tick`; 0 is expired or absent |
| `_locks[key]` | `lock[k]` (holder) and `queue[k]` (waiters of the `asyncio.Lock`, FIFO) |
| fast path | `Hit`; up to the fetch or the wait, when there is no entry: `Lead`, `Wait` |
| `async with lock` resumes, second look | `WakeHit`, `WakeMiss` |
| `await fetch()` returns, raises | `FetchReturns`, `FetchRaises` |
| `set`, `invalidate`, `clear` | `Set`, `Invalidate`, `Clear` |

`_meta_lock` protects code without an await, so it is never contended and is
part of the step around it. Cancellation of a waiting caller is not modelled
(FastAPI does not cancel a handler when the client leaves).

`CacheContract` says what a caller may rely on: at most one fetcher a key, no
fetch begun while a valid value is cached, every fetch ends. `TTLCache`
implements it under `live[k] <- store[k].left > 0`, `leader <- lock`.

### DeviceControl (`app/devices/service.py` over the cache)

It composes an instance of `TTLCache` with the devices, the control requests
and the sweep. A device's state is the number of changes it has been through.
A provider call is sent, takes effect or reads at some moment, and returns or
raises. `Return` is "provider call succeeded, then `invalidate`"; `Raise`
includes the case in which the device obeyed and the answer was lost.
`Automation` is `_execute_action`, which calls the provider and never the
cache. The sweep reads device after device, sets the cache for 65 s, and awaits
the flush of a snapshot row; a failed flush makes it skip the devices that are
left, because SQLAlchemy expires the loaded rows. Two history variables record
the newest confirmed version and whether a read older than it was under way
when the last command returned.

### ScheduleJobs (`app/scheduler/service.py`, `repository.py`, `get_db`)

Committed rows, row locks, the job store, running executions of `job_func`, and
requests that advance statement by statement: `SELECT` (`Update`, `Delete`),
flush (`FlushUpdate`, `FlushNothing`, `FlushDelete`), refresh (`Refresh`), the
undisturbed Python between refresh and the next await (`Sync`), and `Commit`.
The database is PostgreSQL at READ COMMITTED with SQLAlchemy's unit of work: an
UPDATE carries only changed columns and is not sent when there are none; an
UPDATE of a row that has gone raises; a DELETE of one only warns. `Restart`
rolls back open transactions and empties the job store, as
`AsyncIOScheduler` without a persistent store does. A PUT that changes only the
name or the description (`Renaming`) sends an UPDATE and takes the row's lock like any
other; beside another change it makes no difference. The values of the two are left out.

### RuleSweep (`app/scheduler/tasks.py`, rules in `service.py`)

`evaluate_all_rules` advances in steps separated by its awaits: `SweepStarts`
loads the enabled rows, `Pick` takes the next, `Evaluated` or
`EvaluationRaises` ends `_evaluate_rule`, `Acted` or `ActRaises` ends
`_execute_action`, and `SweepEnds` or `CommitFails` ends the transaction that
writes `last_triggered` for every rule that acted. `ActRaises` and `GoesDown` let
the device have obeyed or not; while the process is down no request is served,
and `ComesUp` registers the job anew. `Compare`, `TimeHolds` and `ReadingHolds` are
`_compare` and the branches of `_evaluate_rule` over a world of one minute, one
device reading and one weather reading. Rule requests are one step each, because
they touch nothing but their row; `ScheduleJobs` takes the same repository code
apart. `condition_config` is left out: the code stores it and never reads it.
Four history variables say whose command reached the provider, whose action was
executed, which rules requests have changed since the sweep began, and whose
stamp was lost.

### UserAccounts (`app/users`, `app/auth`, `app/main.py`)

| Code | Model |
|---|---|
| `users` | `row`, with the ids generated so far in `born` |
| tokens in the page and its cookie | `browser[b]`: `sub`, time left of the access and the refresh token, and the role the access token carries; `Login`, `Refresh`, `Logout`, `Tick` |
| `require_role` | `Admit`: a valid token and a row with the role; hands out the row it read |
| a service before its write | `Check`, `Refuse` over `Refusal` |
| the write, its refresh and the commit | `Create`, `CreateClashes`, `SetRole`, `RowVanished`, `Delete`, `OwnAccount`, `Fail` |
| `_ensure_admin_user` | `StartAddsAdmin`, `StartAddsNone`, `StartBlind` |

Anything may happen between admission, check and write. A flush and its commit
are one step: before the commit nobody sees the row, and whoever collides waits
for it. `OwnAccount` writes nothing, because the row it assigns to belongs to the
closed session of `require_role`. Two history variables: how old a login is, and
whether a request's right was taken away under way.

### Inventory (`app/devices`, `app/groups`)

A discovery is one transaction: `Ask` starts it and `Look` goes through the
report, `Insert` or `Update` flushes what differs and takes the row's lock,
`Missing` and `Drop` are `deactivate_missing`, `Commit` ends it. `InsertClashes`,
`Deadlocked` and `Fail` abort it. The editors are `PATCH /devices/{ain}` and the
membership routes, in two steps: the object is loaded (`Takes`), then flushed
and committed (`Patch`, `Join`, `Leave`, `DeleteGroup`), if no discovery holds the
row. An UPDATE names the columns that differ from the loaded ones, so a patch
that finds its value already there writes nothing. Two of a device's columns are
kept: one that discoveries write and one that only users write. `Join` inserts a
membership if the group and the device are there when it does, not when they were
looked up; `DeleteGroup` takes along the memberships it never loaded. `TypeOK` includes
that a membership is one of a group and a device that exist.

### WeatherCache (`app/weather`)

The row, and three fillers: requests (`get_current`), the refresh job
(`refresh`) and rules, whose session is never committed. A filler misses
(`Miss`, `Refresh`), awaits the service (`Answered`, `FetchFails`), looks for the
row (`LookAgain`) and inserts or updates. SQLAlchemy's identity map makes the
second look return the object of the first with its old values, and an UPDATE
names only the columns that differ from those: `Written`. A response is reduced
to its time, its code and its wind; `Parsed` is the parser of either provider.

### FritzBox (`app/providers/fritz`, `app/audit`, control routes)

`Begin` is a call of the provider, which finds a connection or queues on
`_lock`; `Woken`, `Connected` and `ConnectFails` are `_ensure_connected` with its
double check. `Lists` and `Learns` are `discover_devices`, which fills the
capability table; a reading is a request per capability (`ReadSwitch`,
`ReadTarget`, `ReadDone`, `ReadReturns`). A device may be out of reach of the box
(`Reaches`); the box then answers with what it remembers, with `inval` or with nothing.
`ReadSwitch` makes off of every answer but 1, as `adapter.py:63` does, and `ReadTarget`
makes `None` (`Nothing`) of an empty one.

A command reaches the box (`Carries`) and then its answer arrives or is lost
(`Answered`, `AnswerLost`); of a device out of reach the box may answer without
having obeyed (`Declines`), which the adapter does not look at. `Allowed` is what the
routes let through: 8 to 28 degrees, while jobs send any temperature. `Encode` and
`Decode` are the thermostat's codec, and `Kept` what the box stores of a value it is not
made for: that value or the nearest it is made for. `EventEnds` is the audit task,
`Stop` the end of the process. `ByHand` and `Pairs` are the household.

Six counts say what became of every command of a device: `carried` out or
`declined` by the box, its event `pending`, written (`events`) or `lost`, and
`unattended` (of a job) or `unanswered` (the call raised or was cut off) when there is
none. `ons` and `aims` of a call are history: what the device showed, and what it
was commanded, at the moments of a reading (`Witness`).

### History and Charts (`app/devices`, `app/scheduler`)

`History` is the job that polls all devices: `Starts` or `Skipped` when its trigger
is due, `Records` or `Passes` for each device, `SaveFails`, `Commits` or `CommitFails`
for its one transaction, `Restart`. DeviceControl has the same sweep with its
awaits and its cache; here it has time. A row holds its age and what the device
drew; the age of a row is that of its sweep's start. The code takes `recorded_at` when
`get_all` has returned (`devices/service.py:147`); how long that takes is below a tick
and left out, so that `RowsApart` holds to the tick and not to the millisecond. The trigger is
an `IntervalTrigger`: it goes on by the period, drops a run that is due while one is
under way (`max_instances=1`), and first fires a period after a start.

`Charts` extends it with what is read, which is a function of the committed rows:
`Loaded` is the query of a chart with its limit, `Taken` the places `_downsample` takes.
`int(i * step)` is exact but where `i * n` is a multiple of the number of points and `n`
is not: there the product of floats may lie just below the whole number (of all
`n` up to 2000 with 250 points it does so 158 times, at 285 rows for one). A chart
is therefore asked for with every set of such roundings.

### RouterReads (`app/phone`, `app/network`)

A second composition with `TTLCache`: the cached value is what a fetch has made of
the router's answers, part by part (`Request`), with `Absent` where a request
failed. `Status` is the WAN status, including that either of two answers makes it
connected. `AskForced` is `force_refresh`: `invalidate`, then `get_or_fetch`,
without an await between them. Keys are independent, so a behaviour is about one
`topic`.

### Variants

A definition whose comment starts with `Variant` is a plausible bug; it is not
used by any specification. Each property is violated when the definition named
in `PROJECT.json` is replaced by its variant.

## 3. Runs

| Run | Question | Result |
|---|---|---|
| `cache` | one fetch a key; every call ends; the contract is implemented, liveness included | holds |
| `device` | a confirmed command is contradicted by the cache only when an older read was under way; after its last change a device is eventually shown as it is, for good | holds |
| `schedule` | job and row agree whenever no request on the schedule is under way, but for three causes; what a run executes is saved or about to be, with the same exceptions; `last_triggered` is never taken back; no request and no run waits forever for a row lock | holds |
| `rules` | a sweep acts on current rules, stamps exactly what ran, loses no other rule's stamp, and its commit takes back no edit; an enabled rule is evaluated for ever, whatever raises | holds |
| `accounts` | an email names one account; a role counts as it stands; logins run out; the last admin goes only by their own doing, and then no request makes another | holds |
| `inventory` | a discovery leaves the devices as the box reported them, but for rows others wrote meanwhile; a favourite stays one; locks stop no discovery for good; memberships name what exists | holds |
| `weather` | columns and response part only when a filler overtook another; the job alone keeps the row valid again and again | holds |
| `control` | one login to the box at a time; every value read is one the device had meanwhile; commands and audit events match but for three named cases; every provider call ends | holds |
| `reads` | a forced read misses only what a fetch under way had already passed; answers left incomplete by failures do not stay | holds |
| `history` | snapshots of a device are a period apart; who answers is recorded again and again; the chart of a day has the points it should, evenly spaced, up to the newest row | holds |
| `schedule_restart` | after a restart the jobs follow the rows (`service.py:175`) | violated |
| `rules_command` | a rule as the page sends it, once triggered, has sent its command (`builder.html:442`) | violated |

Why these bounds are enough:

* `cache`: the races need a fetcher, a waiter and a newcomer, so three callers;
  a second key shows that keys do not interfere; ttls of 1 and 2 give an entry
  that expires while the other lives.
* `device`: an old read can come from a viewer or from the sweep, and two
  commands can overlap: two viewers, two operators; the entries of the sweep
  outlive those of the viewers (2 against 1). `MaxVersion` = 2 bounds the changes.
* `schedule`: locks, jobs and rows are all per schedule, so one schedule is
  enough; two requests race each other, the job and a restart, and each may be
  followed by others; of two configurations every trigger takes one, and all but one
  the other, so that a job can have another one than its row; of three kinds one is
  unknown.
* `rules`: a sweep couples rules only by their order and by the shared
  transaction, for which two rules are enough; two triggers let an edit change
  what fires.
* `accounts`: two browsers race for one email, revoke each other's right and remove
  each other; three ids let one be deleted and two be there; a refresh token lasts twice as
  long as an access token. `age` counts up to `LongestLogin`, after which the
  property no longer tells values apart. Browsers and ids are symmetric; the
  run has no liveness.
* `inventory`: two discoveries and two users on two devices give clashes,
  deadlocks and overtaken patches. `MaxBusy` = 2 bounds how many transactions are
  open at once, `Requests` names the bodies that matter on either device.
* `weather`: one filler of each kind; four responses that differ in what the
  columns show, in what only the response shows, and in whether they parse.
* `control`: a handler that reads, turns on and sets 8.25 degrees, which rounds, and a
  job that sets off, 29 degrees, which no thermostat is made for, and boost (`Asks`);
  one device, which is a switch and a thermostat, is turned by hand at any moment and
  comes and goes. `MaxCarried` = 1 bounds the commands the box answers: with hands
  and the radio that is enough to change a device in the middle of a reading, and the
  theorems of section 5 know no such bound.
* `reads`: three callers of the call list give a fetch, a forced read behind it
  and a newcomer; `MCVisitors` takes fewer where a fetch has more parts. `MaxCalls`
  = 1 bounds the calls that come in.
* `history`: a period of two ticks of half a minute, and sweeps of up to three, so
  that one outlasts its period; two devices, of which one may be silent for good
  and whose rows must not mix. Up to six rows in a day and four points, so that the
  step is no whole number and one product is rounded (6 rows, third point); a limit
  that the day just fits, as 1440 minutes fit 2000 rows. `Memory` is the age at
  which rows are dropped, here a day.

## 4. Fairness

* Coroutines that are ready run (asyncio's ready queue is FIFO): weak fairness
  of `Wake`, of the steps of a request, of a job run.
* A provider call ends, with an answer or an error. The code sets no timeout of
  its own, so this is an assumption on `fritzconnection` and the network; a call
  that never ended would hold its cache lock, or end all sweeps. Weak fairness
  of the disjunction of its outcomes, never of success (`Proceeds` in FritzBox,
  `Request` in RouterReads, `FetchEnds` in TTLCache).
* The sweep of the rules is due every 60 s and its steps are taken: weak
  fairness of `SweepStep`, of which raising and failing are a part. `EvaluatedAgain`
  speaks of a process that stays up from some moment on.
* Row locks are granted in the order they were asked for (PostgreSQL's lock
  queue), and a deadlock is detected: strong fairness of the waiting statement
  (`Flush` and `Stamp` in ScheduleJobs, `Discovers` in Inventory), because the lock
  may be taken and released by others in between; weak fairness of `Deadlocked`.
* The weather job is due every 30 min, and the service and the database do not
  fail every single time: strong fairness of `Answered(Job)` and of its write.
  Without it the row can of course stay invalid, and `WarmAgainAndAgain` says
  only what the code adds to that.
* Time passes: weak fairness of `Tick` in DeviceControl, RouterReads and History.
  `FailuresPass` and `ServesCurrentStateInTheEnd` speak of a router that stays, and
  a device that stops changing.
* The device sweep is due every 60 s and its calls end: weak fairness of `Triggers`
  and `Polls` in History. `RecordedAgain` speaks of a device that answers, a database
  that does, and a process that stays up from some moment on. DeviceControl does
  without the first: there no sweep has to start.
* Nobody has to call, to command, to ask for a discovery, to edit anything or to
  fire a schedule.

## 5. Proofs

`TTLCacheProofs` proves, for any sets of callers, keys and values and any
positive ttls (`CacheAssumption`):

* `TypeCorrect`: `TypeOK`, including that a valid entry holds a real value;
* `FetchIsExclusive`: `SingleFlight`. It is not inductive: it does not exclude
  a free lock while somebody fetches. `LockInv` adds that a fetching caller
  holds its key's lock and that a holder is fetching that key; `IInv` is
  `TypeOK /\ LockInv` and `LockHolderFetches` proves it;
* `ContractIsKept`: every step maps to a step of `CacheContract` or a stutter,
  from `IInv`;
* `WaitersAreQueued` and `NobodyWaitsInVain`, the safety part of `EveryCallReturns`:
  a lock's queue is exactly those who wait for its key, each once (`QueueInv`), and
  whenever somebody waits, either a fetch of the key is under way or the first in
  the queue can go on (`NobodyIsStranded`). A wake-up that got lost, or a caller that
  queued up behind a lock nobody holds, would break it; what is left to fairness is
  only that fetches end and that whoever can go on does.

`DeviceControlProofs` proves, for any devices, viewers, operators and ttls
(`ControlAssumption`), `TypeCorrect` and

* `StalenessIsOvertaking`: `StaleOnlyIfOvertaken`. What the cache holds now says
  nothing of what a read under way will put there, so the inductive invariant
  bounds both: `Fresh` says that, unless the device was overtaken, neither its entry nor
  any read of it under way is older than the last confirmed version; `Known` that
  nobody knows of a version the device has not been through yet; `Busy` that
  only a fetch under way has read something. That the cache keeps its types is
  not proved again: `CacheStep` instantiates `TTLCacheProofs`;
* `CacheIsUsedAsModelled`: every step is one of `TTLCache` or leaves the cache alone
  (`UsesCache`), so what is proved of the cache holds of the views;
* `OneViewAsks`, `NoViewIsStranded` and `ViewsKeepContract`: `SingleFlight`,
  `NobodyIsStranded` and the safety part of `CacheContract` for that cache, from
  the lemmas of `TTLCacheProofs`.

`ScheduleJobsProofs` proves, for any schedules, requests and configurations
(`ScheduleAssumption`), `TypeCorrect` and

* `JobsPartOnlyWhenExposed`: `PartedOnlyIfExposed`, which speaks of quiet moments
  only. The inductive `IInv` says what holds in between: `Orderly`, that the step a
  request has reached tells which locks it holds and whether it has touched the
  job; and `Settled` of each schedule that is not exposed: of several requests on
  it none is without a lock, the job follows the row while no request has touched
  it, and one that has touched it made the job follow the row it will commit
  (`Fits`). Two updates cannot both be there, because the row's lock is taken
  before the refresh and kept until the commit (`TouchesAlone`);
* `RunsAreAsSaved`: the action property `FiresWhatIsSaved`, which speaks of a run that
  starts while a request is anywhere in its transaction. That is what `Settled` is
  about: `OneToFollow` reads off `Fits` that a job some request has touched is what
  the commit will make of the row;
* `StampsAreNotLost`: the action property `LastTriggeredIsKept`, from the same
  invariant;
* `LocksAreHeldByWorkers`, `RowLocksNeverDeadlock` and `LocksProtectRows`: a lock is held
  by a request that works on that row, has flushed and has yet to commit
  (`HeldByWorker`), so who waits for a lock holds none (`NoHoldAndWait`) and no circle
  of waiters can arise, and a locked row changes only by its holder's commit
  (`LockedRowsAreSafe`) - not by a request that loaded it earlier, nor by the
  stamp of a run.

`RuleSweepProofs` proves, for any rules, triggers, actions and worlds
(`RuleAssumption`), `TypeCorrect` and

* `ActingIsCurrent` and `StampsAreRight`: `ActsOnCurrentRules` and `StampsMatchRuns`,
  the safety invariants of `rules`. The inductive `IInv` adds `HeldIsCurrent`, which
  says the same as `ActsOnCurrentRules` of every rule the sweep has yet to pick;
  `IdsAreBorn`, without which a new rule could have the history of an old one;
  and `StampsAreDue`, that an idle sweep holds no stamp and a stamp means that
  the rule has run. The steps fall into three lemmas: a request edits one
  row (`EditStep`), the loop goes on (`LoopStep`), the sweep ends (`EndStep`);
* `EditsAreKept`: the action property `EditsSurviveSweep`.

`UserAccountsProofs` proves, for any users, emails, browsers and lifetimes
(`AccountAssumption`), `TypeCorrect` and

* `EmailsAreUnique`: `EmailNamesOneUser`, inductive with the types. `EmailStep` is
  the one fact about rows: a row that changes keeps its email, goes, or takes one
  that nobody has;
* `RolesAreCurrent`: `LateOnlyIfRevoked`. `AnswerMarks` shows that an answer that
  takes a right away marks whoever it takes it from;
* `LoginsEnd`: `LoginsRunOut`, which is not inductive: `LeftOfLogin` adds that age
  and time left of the refresh token never exceed its lifetime, so that an
  access token bought with it cannot outlive `LongestLogin`;
* `AdminPowerIsHandedOn`: the action property `AdminsComeFromAdmins`, from
  `LateOnlyIfRevoked`. Whoever demotes or deletes somebody else, and has not been revoked,
  is still an admin when the request ends and remains one (`SenderRemains`); no new
  account takes the place of an old one (`RowsAreBorn`). Without an admin nobody is
  entitled to an admin's operation, so none is admitted, and those under way are
  profiles and passwords (`PowerlessStays`).

`FritzBoxProofs` proves, for any callers (finitely many), devices, capabilities,
queries and temperatures (`BoxAssumption`), `TypeCorrect` and

* `ConnectionIsOne`: `OneConnection`, from the inductive `ConnectorHoldsLock`:
  whoever is connecting holds the lock, and there is no connection. Without the
  lock, two could connect; without the second look at `_fha` behind it, one could
  connect over a connection;
* `AccountIsKept`: `CommandsAccounted`, inductive with the types. Every step moves at
  most one command for one device from one side of the balance to the other: the
  box obeys, so one more is under way, or a call under way ends with or without
  an event, or a task of the audit log ends. The set of commands under way gains
  or loses exactly one call, which is why the callers must be finitely many;
* `ReadingsAreTrue`: `ReadingIsTrue`. It speaks of the moment before a reading is
  returned; `Shows` says the same of a reading that is only half there, and counts what
  the device shows now among what it has shown. Whatever changes the device makes the
  reading remember what it was (`Witness`), so nothing a value was true of is forgotten
  (`ShownMonotone`). `Obeys` adds that a device holds what the box keeps of the temperature
  commanded, and `RoundTrip` that decoding it gives the temperature or a quarter of a
  degree less, since the box counts in half degrees, boost, or a corrected value;
* `NobodyWaitsInVain`: whoever waits for the connection's lock waits for a
  connection under way, or the first of the queue can go on. The queue holds those
  who wait, each once (`QueueInv`).

`ChartsProofs` proves, for any devices, period and length of a sweep
(`HistoryAssumption`), `TypeCorrect` of History and

* `SnapshotsApart`: `RowsApart`. The inductive `IInv` adds `StartsApart`, that what is
  left of the interval and the age of any start, together, make up a period, and
  `OneReading`, that a sweep holds one reading a device.

From it follows, for any limit above the number of periods in a day
and any number of points (`ChartAssumption`):

* `DayIsLoadedWhole`: the limit cuts nothing off a day. Rows a period apart lie in
  different periods, so dividing ages by the period is an injection (`RowsOfDay`);
* `DayIsChartedFaithfully`: `DayChartIsFaithful`. `PlacesRise`, `PlacesExist` and
  `PlacesCover` say of the rounded places that they follow one another, are places
  of rows, and leave out less than a step; `PlacesOfRows` that rows and places are
  in bijection; `SmallChart` and `LargeChart` put them together.

`MirrorsProofs` is about what the database and the caches keep of others: the
rows of devices, the weather, the pages of calls and network. It extends Inventory;
WeatherCache and RouterReads have names in common with it, so they are instances
there, and a theorem about one has its assumption for a hypothesis.

* `InventoryTypes`, `FavouritesStay`, `CommitsMirrorReports`, for any devices, groups,
  discoveries and editors (`InventoryAssumption`): `TypeOK`, `FavouritesKept` and the
  action property `MirrorsReport`. `Wishes` adds to the second that a device without a
  row is nobody's favourite; otherwise an insert, which makes none, could contradict
  what a user was told. The third speaks of a commit, which the rows and the
  statements flushed before it decide together. `Orderly` says of a discovery at every
  step that each statement fits the report and inserts where there is no row, and
  that flushed and left devices make up the report; `Current` says of the
  devices nobody else has written that what it has loaded or left out agrees with
  the row. `LocksHeld`, that no row is locked by two, is why a commit
  cannot disturb another discovery but by writing a row, which marks it as touched;
  `AsAsked` is why an edit cannot.
* `WalkersNeverDeadlock` and `DiscoveriesKeepTheirRows`, of any number of discoveries. Who
  walks the report holds locks only below the AINs it has yet to do (`Climbing`), so
  of two walkers that wait one for the other the first wants the lesser AIN
  (`WaitsClimb`): a circle, however long, takes somebody in `deactivate_missing`,
  which locks rows in no such order. And a row with a flushed statement changes
  only by the commit of the discovery that flushed it (`DiscoveredRowsAreSafe`).
* `WeatherTypes`, `MixingIsOvertaking`, for any responses, requests and lifetime:
  `TypeOK` and `MixedOnlyIfOvertaken`. The invariant adds that whoever has loaded the
  row finds it again, since it is never removed, and that who is about to write
  has an answer. A type that says the columns are those of *one* response is false;
  `Columns` has each of some response.
* `ReadsTypes`, `ForcedReadsAreFresh`, for any callers, hosts and ttls: `TypeOK` and
  `OlderOnlyIfAlreadyRead`. The latter speaks of a read that has ended. While it waits,
  `ReadsInv` says that nothing which is cached, or has been read by a fetch under
  way, is older than the call it must not miss (`NothingBefore`), unless that was so
  when it asked (`late`).
* `OneFetchAsksTheRouter` and `NoReaderIsStranded`, from the lemmas of `TTLCacheProofs`, which
  is instantiated twice. Every step but `AskForced` is one of TTLCache (`Cached`).
  `AskForced` is `invalidate` and a call in one step, so it is the call of a cache with
  the same locks and no entries (`Emptied`). They also assume that what a page shows
  is told from no value at all (`ReadingAssumption`).

Only model-checked: liveness (`EveryCallReturns`, the fairness of the contract,
`ServesCurrentStateInTheEnd`, `NobodyWaitsForever`,
`EvaluatedAgain`, `WarmAgainAndAgain`, `EveryDiscoveryEnds`, `EveryCallEnds`,
`FailuresPass`, `RecordedAgain`), which is out of the prover's reach; of three of
them the theorems above have the part that is safety: nobody is stranded, no one who
holds a row of ScheduleJobs waits for another. Every invariant and action property
of a passing run is proved, those of WeatherCache and RouterReads through
the instances in `MirrorsProofs`. Induction over data is
out of reach too; no module needs it.

## 6. What the violated runs show, and what modelling showed besides

Violated runs:

* `schedule_restart`: a restart leaves enabled schedules without jobs until each
  is edited; `lifespan` registers the three system jobs only.
* `rules_command`: the actions `turn_on`, `turn_off` and `toggle` of the builder
  page do nothing, though the rule is stamped as triggered.

What holds only with an exception that a property names:

* A fetch or sweep that read a device before a command stores the old state
  after the invalidation; views show it for 10 s or 65 s, where `cache.py:15-16`
  says that the next poll reflects the command (`overtaken` in DeviceControl). The
  sweep's entries live 65 s (`service.py:152`).
* `delete_schedule` removes the job before its DELETE holds the row's lock; an
  update in between registers the job again, and it outlives the row (the causes
  in `PartedOnlyIfExposed`).
* A forced refresh of the call list may return a list read before it was asked
  for (`OlderOnlyIfAlreadyRead`), where `phone/service.py:202-203` promises fresh
  data.
* The columns of the weather row may be those of another answer than its
  `data` (`MixedOnlyIfOvertaken`), where `weather/models.py:30-33` calls them its
  denormalized fields.
* A user who has loaded a device before another changed it may be told that a
  value was saved when nothing was written (`raced` in Inventory).
* A handler admitted before its sender's role was taken away still completes
  (`revoked` in UserAccounts).
* Nothing keeps the last admin: admins may demote or delete themselves, and two may
  remove each other at once. `main.py:45` promises an admin when none exists, but the
  start inserts one with `ADMIN_EMAIL` and gives up, with a warning, while an account
  has that email: if it is the first admin, demoted, nobody can be made admin any more
  but in the database (`AdminsComeFromAdmins`).
* `ARCHITECTURE.md:120` says that every state-changing operation emits an audit event,
  and `audit/service.py:57` asks for it in every service method that performs one. Only
  four routes emit any (`api/v1/devices.py:92`, `:108`, `:125`, `:142`), after the call has
  returned. `CommandsAccounted` names what follows for commands. The commands of
  schedules and rules have no event (`unattended`). Those that the box carried
  out although the call raised, or that a stop of the process cut off, have none
  (`unanswered`). One that the box declined has an event as if it had been done
  (`declined`), because `adapter.py:110`, `:122` and `:128` do not look at the answer. An event is
  lost when its task fails or is still running at a stop (`lost`). Users, roles,
  groups, schedules, rules and discoveries leave no event at all: no model needs to
  run to see it.
* A device out of reach may be shown as off, on or not: `adapter.py:63` takes
  every answer but 1 for off, `inval` too, and its temperature may be `None`, which
  `base.py:55` reserves for capabilities the device does not have (`ReadingIsTrue`).
* A reading is put together from several requests, so its values are each true at
  some moment, and may never have been true at once (`ReadingIsTrue`).
* Schedules and rules may set temperatures outside the 8.0 to 28.0 degrees that
  `base.py:109` calls valid: `_execute_action` and `job_func` check nothing, and what the
  thermostat makes of them is the box's business (`Kept`, `Renders` in FritzBox).

Seen in the source while modelling, without runs of their own:

* A user can neither save a profile nor change a password, though
  `docs/api-reference.md:26` lists both: the row belongs to the session that
  `require_role` has closed (`auth/rbac.py:70`), so nothing is written and the refresh
  raises (`OwnAccount` of UserAccounts).
* The query of a chart takes the oldest 2000 rows of the period
  (`devices/repository.py:110`). With a row a minute the chart of 7 or 30 days shows
  its first 33 hours and ends there.
* The dashboard adds up every snapshot of two minutes, so a device counts two or
  three times; the comment above the query (`api/v1/dashboard.py:43`) describes
  another one.
* With several devices and sweeps, `avg_watts` of an hour is the average of a device
  and `total_watts` a sum over the hour (`api/v1/analytics.py:30`); the page plots the
  latter in watts.
* An unknown `trigger_type` gives an enabled schedule without a job, and no error
  (`scheduler/service.py:195`); a time window across midnight holds at no minute
  (`tasks.py:115`).
* `condition_config` is stored and never read, though `scheduler/models.py:67`
  calls it additional conditions.
* The weather trigger as documented names an attribute that `WeatherRead` does not
  have (`models.py:65`, `tasks.py:152`), so it never fires; `temperature_celsius`
  would. The time rules of the builder page have neither `start_time` nor
  `end_time`, so they hold all day (`builder.html:388`, `tasks.py:106`).
* `PATCH /devices/reorder` is declared after `PATCH /devices/{ain}`, which matches
  it first: the order dragged on the dashboard is answered 422 and not saved.
* The key of the cached call list ignores how many calls were asked for
  (`phone/service.py:229`), and `GET /phone/calls` rewrites the dates of the cached
  entries (`api/v1/phone.py:42-44`).
* The WAN counts as connected when either of two answers says so
  (`network/service.py:235`).
* Logging out deletes a cookie; the refresh token stays valid until it expires.
* `top-consumers` averages only the snapshots with power above zero, so a device that
  seldom runs ranks by what it draws when it does (`api/v1/analytics.py:85`).
* `online_devices` counts devices that were ever seen (`api/v1/dashboard.py:38`).

## 7. Not modelled, and the plan

Not modelled:

* The mock provider: a test double whose methods have no await.
* Pages, settings, dashboard and analytics: they read and render, and change no
  state.
* `update_group`: it sets columns that no property tells apart. Columns of users
  and devices beyond those named above.
* The limit of 200 devices a sweep (`repository.py:27`) and of a snapshot all but the
  power; nothing says how many devices there may be.
* Intervals of the scheduler other than that of the device sweep, coalescing, and
  runs that start up to a second late (`misfire_grace_time`) or are dropped for it.
* Migrations and seeds: they run alone, before the application.
* Token signing, password hashing, the parsing of router answers beyond what is
  named above.
* Cancellation of a coroutine, which nothing in the application does but its end.

Left to do, in this order:

1. Compose ScheduleJobs with FritzBox, so that what a run sends is what the box
   carries out.
