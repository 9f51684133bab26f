------------------------------- MODULE History -------------------------------
(***************************************************************************)
(* The recorded past of the devices: the job that polls them all once a    *)
(* period and writes their snapshots in one transaction (app/devices/      *)
(* service.py, app/scheduler).  What is read from them is in Charts.       *)
(*                                                                         *)
(* Times are ages, so that the clock needs no bound; a tick is half a      *)
(* minute, and a run starts within the tick its trigger is due in.  A row  *)
(* that is older than anybody asks for is dropped from the model.          *)
(* What a sweep does to the cache is in DeviceControl; that an answer is   *)
(* awaited and then saved is one step here.  `Variant' marks bugs the code *)
(* might have, as in TTLCache.                                             *)
(***************************************************************************)
EXTENDS Naturals

CONSTANTS
  Devices,      \* the active devices
  Powers,       \* what a device may draw, in watts
  Unreachable,  \* of a device that does not answer
  Period,       \* interval of poll_all_devices, 60 s in the code
  Memory,       \* age of the oldest rows that anybody asks for (see Charts)
  MaxSweep      \* how long a sweep may take (bounds the model)

ASSUME HistoryAssumption ==
  /\ Period \in Nat \ {0} /\ Memory \in Nat /\ MaxSweep \in Nat
  /\ Powers \subseteq Nat /\ Unreachable \notin Nat

VARIABLES
  power,   \* power[d]: what d draws now, or Unreachable
  up,      \* the database answers
  due,     \* ticks until the trigger of poll_all_devices is due
  sweep,   \* the run of poll_all_devices
  rows     \* rows[d]: the committed snapshots of d

vars == <<power, up, due, sweep, rows>>

NoSweep == [on |-> FALSE, age |-> 0, todo |-> {}, got |-> {}]

Row == [age : Nat, watts : Powers]

TypeOK ==
  /\ power \in [Devices -> Powers \cup {Unreachable}]
  /\ up \in BOOLEAN
  /\ due \in 0 .. Period
  /\ sweep \in [on : BOOLEAN, age : Nat, todo : SUBSET Devices,
                got : SUBSET [dev : Devices, watts : Powers]]
  /\ rows \in [Devices -> SUBSET Row]

Init == /\ power \in [Devices -> Powers \cup {Unreachable}]
        /\ up = TRUE
        /\ due = Period
        /\ sweep = NoSweep
        /\ rows = [d \in Devices |-> {}]

-----------------------------------------------------------------------------
(* The trigger is due.                                                     *)

\* get_all has found the active devices.  recorded_at is taken when it has
\* returned: how long it takes is less than a tick and left out.
Starts == /\ due = 0 /\ up
          /\ ~sweep.on
          /\ sweep' = [NoSweep EXCEPT !.on = TRUE, !.todo = Devices]
          /\ due' = Period
          /\ UNCHANGED <<power, up, rows>>

\* get_all fails, or max_instances=1 lets no second run start.
Skipped == /\ due = 0
           /\ ~up \/ sweep.on
           /\ due' = Period
           /\ UNCHANGED <<power, up, sweep, rows>>

-----------------------------------------------------------------------------
(* poll_and_snapshot_all, device by device.                                *)

\* The device answers, and save_snapshot flushes its row.
Records(d) ==
  /\ sweep.on /\ d \in sweep.todo
  /\ power[d] # Unreachable /\ up
  /\ sweep' = [sweep EXCEPT !.todo = @ \ {d},
                            !.got = @ \cup {[dev |-> d, watts |-> power[d]]}]
  /\ UNCHANGED <<power, up, due, rows>>

\* Variant: the exception ends the loop.
PassesAll(d) ==
  /\ sweep.on /\ d \in sweep.todo
  /\ power[d] = Unreachable
  /\ sweep' = [sweep EXCEPT !.todo = {}]
  /\ UNCHANGED <<power, up, due, rows>>

\* `Device may be offline -- continue polling others'.
Passes(d) ==
  /\ sweep.on /\ d \in sweep.todo
  /\ power[d] = Unreachable
  /\ sweep' = [sweep EXCEPT !.todo = @ \ {d}]
  /\ UNCHANGED <<power, up, due, rows>>

\* A failed flush rolls the whole session back: what is left of the loop
\* raises and is passed, and so does the commit.
SaveFails == /\ sweep.on /\ ~up
             /\ \E d \in sweep.todo : power[d] # Unreachable
             /\ sweep' = NoSweep
             /\ UNCHANGED <<power, up, due, rows>>

\* Variant: a row is recorded when it is committed.
CommitsNow ==
  /\ sweep.on /\ sweep.todo = {} /\ up
  /\ rows' = [d \in Devices |-> rows[d] \cup
                {[age |-> 0, watts |-> g.watts] :
                   g \in {h \in sweep.got : h.dev = d}}]
  /\ sweep' = NoSweep
  /\ UNCHANGED <<power, up, due>>

\* All rows of a sweep are recorded at its start.
Commits ==
  /\ sweep.on /\ sweep.todo = {} /\ up
  /\ rows' = [d \in Devices |-> rows[d] \cup
                {[age |-> sweep.age, watts |-> g.watts] :
                   g \in {h \in sweep.got : h.dev = d}}]
  /\ sweep' = NoSweep
  /\ UNCHANGED <<power, up, due>>

CommitFails == /\ sweep.on /\ sweep.todo = {} /\ ~up
               /\ sweep' = NoSweep
               /\ UNCHANGED <<power, up, due, rows>>

-----------------------------------------------------------------------------
(* The world.                                                              *)

Turns(d, p) == /\ power' = [power EXCEPT ![d] = p]
               /\ UNCHANGED <<up, due, sweep, rows>>

GoesDownOrUp == /\ up' = ~up
                /\ UNCHANGED <<power, due, sweep, rows>>

Tick ==
  /\ due > 0
  /\ sweep.on => sweep.age < MaxSweep
  /\ due' = due - 1
  /\ sweep' = IF sweep.on THEN [sweep EXCEPT !.age = @ + 1] ELSE sweep
  /\ rows' = [d \in Devices |->
       {[r EXCEPT !.age = @ + 1] : r \in {s \in rows[d] : s.age < Memory}}]
  /\ UNCHANGED <<power, up>>

\* Variant: the first run comes at once.
RestartPolls == /\ sweep' = NoSweep
                /\ due' = 0
                /\ UNCHANGED <<power, up, rows>>

\* The process goes down and comes up: the sweep is rolled back, and an
\* IntervalTrigger first fires an interval after it was made.
Restart == /\ sweep' = NoSweep
           /\ due' = Period
           /\ UNCHANGED <<power, up, rows>>

-----------------------------------------------------------------------------

Triggers == Starts \/ Skipped

Polls == \/ \E d \in Devices : Records(d) \/ Passes(d)
         \/ SaveFails \/ Commits \/ CommitFails

Next == \/ Triggers \/ Polls \/ Tick \/ Restart \/ GoesDownOrUp
        \/ \E d \in Devices, p \in Powers \cup {Unreachable} : Turns(d, p)

(* Calls of the provider and of the database end, and time passes.         *)
Fairness == WF_vars(Triggers) /\ WF_vars(Polls) /\ WF_vars(Tick)

Spec == Init /\ [][Next]_vars /\ Fairness

-----------------------------------------------------------------------------
(* Properties.                                                             *)

\* Two snapshots of a device are a period apart, to the tick, whatever sweep is
\* late, fails or is cut off by a restart: a span holds no more rows than
\* periods, which is what the limit of the charts relies on.
RowsApart ==
  \A d \in Devices : \A r, s \in rows[d] :
    r # s => r.age >= s.age + Period \/ s.age >= r.age + Period

\* A device that answers is recorded again and again, whichever others are
\* offline, once the database answers and the process stays up.
RecordedAgain ==
  \A d \in Devices :
    <>[](up /\ power[d] # Unreachable) /\ <>[][~Restart]_vars
      => []<>(\E r \in rows[d] : r.age <= MaxSweep)

=============================================================================
