----------------------------- MODULE RuleSweep ------------------------------
(***************************************************************************)
(* Automation rules are rows of the automation_rules table.  Once a minute *)
(* evaluate_all_rules (app/scheduler/tasks.py) loads the enabled ones into *)
(* one session, then evaluates each and executes its action, awaiting the  *)
(* provider, the database or the weather service at every step, and        *)
(* commits last_triggered of all rules that acted at the end.  Requests    *)
(* create, edit and delete rules meanwhile (app/scheduler/service.py).     *)
(*                                                                         *)
(* A request on a rule touches nothing but its row, and what its flush and *)
(* its commit write are the same columns, so it is one step here; how such *)
(* a transaction overlaps with others on a row is shown in ScheduleJobs,   *)
(* whose repository code is the same.  max_instances=1 allows one sweep at *)
(* a time.  Names are left out (the order of a sweep is arbitrary), and so *)
(* is condition_config, which is stored but read by nobody.                *)
(*                                                                         *)
(* The world a rule looks at is the minute of the day, one device's state  *)
(* and the weather, each with one numeric attribute.  `Variant' marks bugs *)
(* the code might have, as in TTLCache.                                    *)
(***************************************************************************)
EXTENDS Integers

CONSTANTS
  Rules,        \* ids that may be generated: a row's id is never used again
  Day,          \* minutes in a day
  Values,       \* values of an attribute, and thresholds
  Triggers,     \* trigger_type and trigger_config of the rules in use
  Actions,      \* actions of the action_configs in use
  Worlds,       \* what the world may look like
  NoRule, Nobody, NoValue,
  Same,         \* a field absent from a PUT body
  MayFail,      \* a commit can fail
  MayCrash      \* the process can be restarted

Minutes == 0 .. Day - 1

\* A time rule has its window, as AutomationRule documents it, or the
\* minute the page builder.html sends.
WindowTriggers == [type : {"time"}, start_time : Minutes, end_time : Minutes]
MinuteTriggers == [type : {"time"}, minute : Minutes]
ReadingTriggers == [type : {"device_state", "weather"}, property : STRING,
                    operator : STRING, value : Values]

ASSUME RuleAssumption ==
  /\ Day \in Nat \ {0}
  /\ Values \subseteq Int /\ NoValue \notin Values
  /\ \A t \in Triggers : \/ t \in WindowTriggers \cup MinuteTriggers
                         \/ t \in ReadingTriggers
  /\ Worlds \subseteq [now : Minutes, device : Values \cup {NoValue},
                       weather : Values \cup {NoValue}]
  /\ Nobody \notin Rules
  /\ Same \notin BOOLEAN /\ Same \notin Triggers /\ Same \notin Actions
  /\ MayFail \in BOOLEAN /\ MayCrash \in BOOLEAN

VARIABLES
  row,      \* row[k]: the committed row of rule k, or NoRule
  born,     \* ids generated so far
  sweep,    \* the execution of evaluate_all_rules
  world,    \* what rules look at
  reached,  \* history: rules with a command that reached the provider
  ran,      \* history: rules whose _execute_action has returned
  edited,   \* history: rules created, edited or deleted since the sweep began
  lost      \* history: rules with a stamp that was not committed

vars == <<row, born, sweep, world, reached, ran, edited, lost>>
Rule == [on : BOOLEAN, trigger : Triggers, action : Actions, fired : BOOLEAN]
Change == [on : BOOLEAN \cup {Same}, trigger : Triggers \cup {Same},
           action : Actions \cup {Same}]
NoSweep == [step |-> "idle", held |-> [k \in Rules |-> NoRule],
            todo |-> {}, cur |-> Nobody, stamps |-> {}]
Down == [NoSweep EXCEPT !.step = "down"]

TypeOK ==
  /\ row \in [Rules -> Rule \cup {NoRule}]
  /\ born \subseteq Rules
  /\ sweep \in [step : {"idle", "next", "evaluating", "acting", "down"},
                held : [Rules -> Rule \cup {NoRule}],
                todo : SUBSET Rules, cur : Rules \cup {Nobody},
                stamps : SUBSET Rules]
  /\ sweep.step \in {"evaluating", "acting"} => sweep.cur \in Rules
  /\ world \in Worlds
  /\ reached \subseteq Rules /\ ran \subseteq Rules
  /\ edited \subseteq Rules /\ lost \subseteq Rules

Init == /\ row = [k \in Rules |-> NoRule]
        /\ born = {}
        /\ sweep = NoSweep
        /\ world \in Worlds
        /\ reached = {} /\ ran = {} /\ edited = {} /\ lost = {}

-----------------------------------------------------------------------------
(* What a trigger says of the world.                                       *)

Compare(value, operator, threshold) ==
  CASE operator = "lt"  -> value < threshold
    [] operator = "lte" -> value =< threshold
    [] operator = "gt"  -> value > threshold
    [] operator = "gte" -> value >= threshold
    [] operator = "eq"  -> value = threshold
    [] OTHER -> FALSE

\* Absent keys stand for the whole day.
TimeHolds(t) ==
  LET from == IF "start_time" \in DOMAIN t THEN t.start_time ELSE 0
      to   == IF "end_time" \in DOMAIN t THEN t.end_time ELSE Day - 1
  IN  from =< world.now /\ world.now =< to

\* getattr(state, property, None): DeviceState and WeatherRead both name the
\* attribute temperature_celsius.
Attribute(value, property) ==
  IF property = "temperature_celsius" THEN value ELSE NoValue

ReadingHolds(t) ==
  LET source == IF t.type = "weather" THEN world.weather ELSE world.device
      value  == Attribute(source, t.property)
  IN  value # NoValue /\ Compare(value, t.operator, t.value)

Holds(t) == IF t.type = "time" THEN TimeHolds(t) ELSE ReadingHolds(t)

-----------------------------------------------------------------------------
(* Requests.                                                               *)

Edits(k, w) == /\ sweep.step # "down"
               /\ row' = [row EXCEPT ![k] = w]
               /\ edited' = edited \cup {k}
               /\ UNCHANGED <<sweep, world, reached, ran, lost>>

Create(k, w) == /\ k \notin born
                /\ born' = born \cup {k}
                /\ Edits(k, w)

\* Variant: fields absent from the body are assigned too.
UpdatedBlindly(w, put) ==
  [w EXCEPT !.on = put.on, !.trigger = put.trigger,
            !.action = put.action]

Updated(w, put) ==
  [w EXCEPT !.on = IF put.on = Same THEN @ ELSE put.on,
            !.trigger = IF put.trigger = Same THEN @ ELSE put.trigger,
            !.action = IF put.action = Same THEN @ ELSE put.action]

Update(k, put) == /\ row[k] # NoRule
                  /\ Edits(k, Updated(row[k], put))
                  /\ UNCHANGED born

Delete(k) == /\ row[k] # NoRule
             /\ Edits(k, NoRule)
             /\ UNCHANGED born

-----------------------------------------------------------------------------
(* The sweep.                                                              *)

cur == sweep.cur

\* Variant: get_all() without enabled_only.
LoadedAll(k) == row[k] # NoRule

Loaded(k) == row[k] # NoRule /\ row[k].on

\* When the SELECT, or get_provider, raises, nothing has happened.
SweepStarts ==
  /\ sweep.step = "idle"
  /\ sweep' = [NoSweep EXCEPT
                 !.step = "next",
                 !.held = [k \in Rules |-> IF Loaded(k) THEN row[k]
                                                     ELSE NoRule],
                 !.todo = {k \in Rules : Loaded(k)}]
  /\ edited' = {}
  /\ UNCHANGED <<row, born, world, reached, ran, lost>>

Pick(k) == /\ sweep.step = "next"
           /\ k \in sweep.todo
           /\ sweep' = [sweep EXCEPT !.step = "evaluating", !.cur = k,
                                     !.todo = @ \ {k}]
           /\ UNCHANGED <<row, born, world, reached, ran, edited, lost>>

\* Variant: last_triggered is set before the action is executed.
EvaluatedStamps ==
  LET fires == Holds(sweep.held[cur].trigger) IN
  /\ sweep.step = "evaluating"
  /\ sweep' = [sweep EXCEPT !.step = IF fires THEN "acting" ELSE "next",
                            !.stamps = IF fires THEN @ \cup {cur} ELSE @]
  /\ UNCHANGED <<row, born, world, reached, ran, edited, lost>>

\* _evaluate_rule returns.
Evaluated ==
  /\ sweep.step = "evaluating"
  /\ sweep' = [sweep EXCEPT !.step = IF Holds(sweep.held[cur].trigger)
                                     THEN "acting" ELSE "next"]
  /\ UNCHANGED <<row, born, world, reached, ran, edited, lost>>

\* Variant: the exception ends the loop.
EvaluationRaisesOut ==
  /\ sweep.step = "evaluating"
  /\ sweep' = [sweep EXCEPT !.step = "next", !.todo = {}]
  /\ UNCHANGED <<row, born, world, reached, ran, edited, lost>>

\* Variant: the handler rolls the session back.
EvaluationRaisesRollback ==
  /\ sweep.step = "evaluating"
  /\ sweep' = [sweep EXCEPT !.step = "next", !.stamps = {}]
  /\ UNCHANGED <<row, born, world, reached, ran, edited, lost>>

\* The provider or the database raises, or the configuration cannot be read.
EvaluationRaises ==
  /\ sweep.step = "evaluating"
  /\ sweep' = [sweep EXCEPT !.step = "next"]
  /\ UNCHANGED <<row, born, world, reached, ran, edited, lost>>

\* Every other action falls through _execute_action without a command.
Known == {"on", "off", "temperature", "brightness"}

Commands == IF sweep.held[cur].action \in Known THEN {cur} ELSE {}

Acted == /\ sweep.step = "acting"
         /\ sweep' = [sweep EXCEPT !.step = "next", !.stamps = @ \cup {cur}]
         /\ reached' = reached \cup Commands
         /\ ran' = ran \cup {cur}
         /\ UNCHANGED <<row, born, world, edited, lost>>

\* The call raises, before or after the device has obeyed.
ActRaises == /\ sweep.step = "acting"
             /\ sweep' = [sweep EXCEPT !.step = "next"]
             /\ \E obeyed \in SUBSET Commands :
                  /\ Commands # {}
                  /\ reached' = reached \cup obeyed
                  /\ lost' = lost \cup obeyed
             /\ UNCHANGED <<row, born, world, ran, edited>>

\* Variant: the commit writes the whole rows the sweep has held.
StampedWhole(k) == [sweep.held[k] EXCEPT !.fired = TRUE]

\* Only last_triggered is dirty; the UPDATE of a row that has gone matches
\* nothing, and costs no other row its stamp.
Stamped(k) == IF row[k] = NoRule THEN NoRule
              ELSE [row[k] EXCEPT !.fired = TRUE]

SweepEnds ==
  /\ sweep.step = "next" /\ sweep.todo = {}
  /\ row' = [k \in Rules |-> IF k \in sweep.stamps THEN Stamped(k) ELSE row[k]]
  /\ sweep' = NoSweep
  /\ UNCHANGED <<born, world, reached, ran, edited, lost>>

\* One transaction: every stamp of the sweep is lost.
CommitFails ==
  /\ MayFail
  /\ sweep.step = "next" /\ sweep.todo = {}
  /\ sweep' = NoSweep
  /\ lost' = lost \cup sweep.stamps
  /\ UNCHANGED <<row, born, world, reached, ran, edited>>

\* The process goes down, perhaps after a command has been sent.
GoesDown ==
  /\ MayCrash
  /\ sweep.step # "down"
  /\ \E obeyed \in SUBSET (IF sweep.step = "acting" THEN Commands ELSE {}) :
       /\ reached' = reached \cup obeyed
       /\ lost' = lost \cup sweep.stamps \cup obeyed
  /\ sweep' = Down
  /\ UNCHANGED <<row, born, world, ran, edited>>

\* lifespan registers the job of the sweep anew.
ComesUp == /\ sweep.step = "down"
           /\ sweep' = NoSweep
           /\ UNCHANGED <<row, born, world, reached, ran, edited, lost>>

-----------------------------------------------------------------------------

\* Time passes and readings change.
WorldMoves == /\ world' \in Worlds
              /\ world'.now \in {world.now, (world.now + 1) % Day}
              /\ UNCHANGED <<row, born, sweep, reached, ran, edited, lost>>

NewRule == {w \in Rule : ~w.fired}

SweepStep == \/ SweepStarts \/ (\E k \in Rules : Pick(k))
             \/ Evaluated \/ EvaluationRaises
             \/ Acted \/ ActRaises
             \/ SweepEnds \/ CommitFails

Next == \/ \E k \in Rules : \/ \E w \in NewRule : Create(k, w)
                            \/ \E put \in Change : Update(k, put)
                            \/ Delete(k)
        \/ SweepStep
        \/ GoesDown \/ ComesUp
        \/ WorldMoves

\* The job is due every minute, and what a sweep awaits comes back.
Fairness == WF_vars(SweepStep)

Spec == Init /\ [][Next]_vars /\ Fairness

-----------------------------------------------------------------------------
(* Properties.                                                             *)

\* A sweep acts on a rule as it is in the database, enabled and with the
\* configuration it has there, unless a request has changed the rule since
\* that very sweep began: no later sweep acts on a rule that was switched
\* off, edited or deleted.
ActsOnCurrentRules ==
  sweep.step = "acting" =>
    \/ cur \in edited
    \/ /\ row[cur] # NoRule
       /\ row[cur].on
       /\ row[cur].trigger = sweep.held[cur].trigger
       /\ row[cur].action = sweep.held[cur].action

\* A rule whose command has reached the provider gets its last_triggered,
\* whatever happens to the other rules of the sweep.  Exempt are a deleted
\* rule and the causes in `lost': its own call raised after all, the commit
\* failed, the process went down.
ReachedIsStamped ==
  \A k \in reached \ (lost \cup sweep.stamps) : row[k] = NoRule \/ row[k].fired

\* last_triggered is only ever set on a rule whose action was executed to
\* its end.
StampMeansRan == \A k \in Rules : row[k] # NoRule /\ row[k].fired => k \in ran

\* A rule carries a stamp just when it should.
StampsMatchRuns == ReachedIsStamped /\ StampMeansRan

\* The sweep holds its rows for as long as all its calls take.  Its commit
\* neither takes back what requests have committed meanwhile nor brings a
\* deleted rule back.
EditsSurviveSweep ==
  [][sweep' # sweep =>
       \A k \in Rules : \/ row'[k] = row[k]
                        \/ /\ row[k] # NoRule
                           /\ row'[k] = [row[k] EXCEPT !.fired = TRUE]]_vars

\* A rule that stays enabled is evaluated again and again, however often
\* the other rules, or the commits, fail, once the process stays up.
EvaluatedAgain ==
  <>[](sweep.step # "down") =>
    \A k \in Rules :
      <>[](row[k] # NoRule /\ row[k].on)
        => []<>(sweep.step = "evaluating" /\ cur = k)

\* builder.html:442 promises that a rule with the action turn_on, turn_off
\* or toggle switches its device: a rule with a last_triggered has sent a
\* command.
TriggeredIsCommanded ==
  \A k \in Rules : row[k] # NoRule /\ row[k].fired => k \in reached

=============================================================================
