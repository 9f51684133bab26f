---------------------------- MODULE WeatherCache ----------------------------
(***************************************************************************)
(* The one row of weather_cache and everybody who fills it: requests for   *)
(* /weather/current, the refresh job, and rules with a weather condition   *)
(* (app/weather, app/scheduler/tasks.py).                                  *)
(*                                                                         *)
(* A filler looks for a valid row, awaits the weather service, looks for   *)
(* the row again and writes; a session that has loaded the row gets the    *)
(* same object, with its old values, from the second look, and its UPDATE  *)
(* names only the columns whose value differs from the loaded one.  The    *)
(* write and the commit are one step, as in UserAccounts.                  *)
(*                                                                         *)
(* The row's time left runs from the write: the moment between the answer  *)
(* and the commit is nothing against thirty minutes.  Units, rounding and  *)
(* the German wording are left out.  `Variant' marks bugs the code might   *)
(* have, as in TTLCache.                                                   *)
(***************************************************************************)
EXTENDS Naturals

CONSTANTS
  Requests,    \* handlers of /weather/current
  Job, Rule,   \* refresh_weather_cache; a rule of evaluate_all_rules
  Responses,   \* what the weather service may answer
  Provider,    \* WEATHER_PROVIDER
  TTL,         \* _CACHE_TTL_MINUTES, in ticks
  NoRow, NoResponse, Null

Fillers == Requests \cup {Job, Rule}

ASSUME WeatherAssumption ==
  /\ TTL \in Nat \ {0}
  /\ Provider \in {"open-meteo", "openweathermap"}
  /\ NoResponse \notin Responses
  /\ Job \notin Requests /\ Rule \notin Requests \cup {Job}

VARIABLES
  keyed,       \* the provider needs no API key, or has one
  row,         \* the committed row, or NoRow
  filler,      \* filler[f]: how far f has come
  overtaken    \* the last UPDATE was computed from values overwritten since

vars == <<keyed, row, filler, overtaken>>

-----------------------------------------------------------------------------
(* Responses, and what the row keeps of them.                              *)

Condition(code) ==
  CASE code \in {0, 1} -> "Clear"
    [] code \in {2, 3} -> "Clouds"
    [] code \in {45, 48} -> "Fog"
    [] code \in {51, 53, 55} -> "Drizzle"
    [] code \in {61, 63, 65, 80, 81, 82} -> "Rain"
    [] code \in {71, 73, 75} -> "Snow"
    [] code = 95 -> "Thunderstorm"
    [] OTHER -> "Unknown"

\* Open-Meteo sends a weather code, OpenWeatherMap the condition itself; what
\* either does not send becomes NULL.
Parsed(r) == [temp |-> r.temp, wind |-> r.wind,
              condition |-> IF Provider = "open-meteo" THEN Condition(r.sky)
                                                       ELSE r.sky]

\* A wind speed of null cannot be converted from km/h.
Parses(r) == Provider = "open-meteo" => r.wind # Null

\* Each column has the value of some response, not all of the same one.
Columns == [temp : {r.temp : r \in Responses}, wind : {r.wind : r \in Responses},
            condition : {Parsed(r).condition : r \in Responses}]

Row == [raw : Responses, shown : Columns, left : 0 .. TTL]

ASSUME RowAssumption == NoRow \notin Row

\* The values a session has loaded.
Loaded == IF row = NoRow THEN NoRow ELSE [row EXCEPT !.left = 0]

Valid == row # NoRow /\ row.left > 0

Idle == [step |-> "idle", seen |-> NoRow, got |-> NoResponse]

TypeOK ==
  /\ keyed \in BOOLEAN
  /\ row \in Row \cup {NoRow}
  /\ filler \in [Fillers -> [step : {"idle", "fetching", "answered", "writing"},
                             seen : Row \cup {NoRow},
                             got : Responses \cup {NoResponse}]]
  /\ overtaken \in BOOLEAN

Init == /\ keyed \in IF Provider = "open-meteo" THEN {TRUE} ELSE BOOLEAN
        /\ row = NoRow
        /\ filler = [f \in Fillers |-> Idle]
        /\ overtaken = FALSE

-----------------------------------------------------------------------------

Goes(f, q) == filler' = [filler EXCEPT ![f] = q]

\* get_current finds no valid row.
Miss(f) == /\ f # Job
           /\ filler[f] = Idle
           /\ ~Valid /\ keyed
           /\ Goes(f, [Idle EXCEPT !.step = "fetching", !.seen = Loaded])
           /\ UNCHANGED <<keyed, row, overtaken>>

\* The job fetches without looking.
Refresh == /\ filler[Job] = Idle
           /\ keyed
           /\ Goes(Job, [Idle EXCEPT !.step = "fetching"])
           /\ UNCHANGED <<keyed, row, overtaken>>

Answered(f) == /\ filler[f].step = "fetching"
               /\ \E r \in Responses :
                    /\ Parses(r)
                    /\ Goes(f, [filler[f] EXCEPT !.step = "answered", !.got = r])
               /\ UNCHANGED <<keyed, row, overtaken>>

\* The service does not answer, or not as expected; an old row will do.
FetchFails(f) == /\ filler[f].step = "fetching"
                 /\ Goes(f, Idle)
                 /\ UNCHANGED <<keyed, row, overtaken>>

LookAgain(f) ==
  /\ filler[f].step = "answered"
  /\ Goes(f, [filler[f] EXCEPT !.step = "writing",
                               !.seen = IF @ = NoRow THEN Loaded ELSE @])
  /\ UNCHANGED <<keyed, row, overtaken>>

\* Variant: the condition is forgotten when the row is made.
FreshUnconditioned(r) ==
  [raw |-> r, shown |-> [Parsed(r) EXCEPT !.condition = Null], left |-> TTL]

Fresh(r) == [raw |-> r, shown |-> Parsed(r), left |-> TTL]

Insert(f) == /\ filler[f].step = "writing" /\ f # Rule
             /\ filler[f].seen = NoRow /\ row = NoRow
             /\ row' = Fresh(filler[f].got)
             /\ overtaken' = FALSE
             /\ Goes(f, Idle)
             /\ UNCHANGED keyed

\* Another filler was first: the flush fails, and so does the look of the
\* except branch, in a session that was never rolled back.
InsertClashes(f) == /\ filler[f].step = "writing"
                    /\ filler[f].seen = NoRow /\ row # NoRow
                    /\ Goes(f, Idle)
                    /\ UNCHANGED <<keyed, row, overtaken>>

\* A column keeps its committed value when the new one is the loaded one.
Written(committed, loaded, new) == IF new = loaded THEN committed ELSE new

\* Variant: the response is stored, the columns are not set.
UpdateRaw(f) ==
  LET q == filler[f] IN
  /\ q.step = "writing" /\ f # Rule
  /\ q.seen # NoRow
  /\ row' = [row EXCEPT !.raw = Written(@, q.seen.raw, q.got), !.left = TTL]
  /\ overtaken' = (Loaded # q.seen)
  /\ Goes(f, Idle)
  /\ UNCHANGED keyed

Update(f) ==
  LET q == filler[f]
      new == Parsed(q.got) IN
  /\ q.step = "writing" /\ f # Rule
  /\ q.seen # NoRow
  /\ row' = [raw |-> Written(row.raw, q.seen.raw, q.got),
             shown |-> [c \in DOMAIN new |->
                          Written(row.shown[c], q.seen.shown[c], new[c])],
             left |-> TTL]
  /\ overtaken' = (Loaded # q.seen)
  /\ Goes(f, Idle)
  /\ UNCHANGED keyed

\* The session of a rule's condition is closed and never committed.
RuleRollsBack == /\ filler[Rule].step = "writing"
                 /\ Goes(Rule, Idle)
                 /\ UNCHANGED <<keyed, row, overtaken>>

\* Variant: the job forgets to commit too.
JobRollsBack(f) == /\ f # Rule /\ filler[f].step = "writing"
                   /\ Goes(f, Idle)
                   /\ UNCHANGED <<keyed, row, overtaken>>

Write(f) == Insert(f) \/ Update(f)

\* A statement or the commit fails.
Fail(f) == /\ filler[f].step \in {"answered", "writing"}
           /\ Goes(f, Idle)
           /\ UNCHANGED <<keyed, row, overtaken>>

Older(n) == IF n = 0 THEN 0 ELSE n - 1

Tick == /\ row # NoRow
        /\ row' = [row EXCEPT !.left = Older(@)]
        /\ UNCHANGED <<keyed, filler, overtaken>>

Next == \/ \E f \in Fillers :
             \/ Miss(f)
             \/ Answered(f) \/ FetchFails(f)
             \/ LookAgain(f)
             \/ Write(f) \/ InsertClashes(f) \/ Fail(f)
        \/ Refresh \/ RuleRollsBack
        \/ Tick

(* The interval trigger starts the job again and again; neither the        *)
(* weather service nor the database fails every time.                      *)
Fairness == /\ WF_vars(Refresh)
            /\ SF_vars(Answered(Job)) /\ WF_vars(FetchFails(Job))
            /\ SF_vars(LookAgain(Job))
            /\ SF_vars(Write(Job)) /\ WF_vars(InsertClashes(Job))

Spec == Init /\ [][Next]_vars /\ Fairness

-----------------------------------------------------------------------------
(* Properties.                                                             *)

\* models.py:30-33: the columns are those of the stored response.
ColumnsMatchResponse == row # NoRow => row.shown = Parsed(row.raw)

\* The columns of the row and its stored response belong to different
\* answers only if, between a filler's look and its UPDATE, another filler
\* wrote: whatever happens in between is never lost otherwise.
MixedOnlyIfOvertaken == ~ColumnsMatchResponse => overtaken

\* As long as the service answers now and then, the row is valid again and
\* again, whether or not anybody asks: the job alone keeps the cache warm.
WarmAgainAndAgain == keyed => []<>Valid

=============================================================================
