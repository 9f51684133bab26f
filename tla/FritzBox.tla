------------------------------ MODULE FritzBox ------------------------------
(***************************************************************************)
(* The way of a command or a reading from a handler to the FRITZ!Box: the  *)
(* lazy connection, the capabilities learned from its device list, the     *)
(* requests of FritzAdapter, and the audit event that the control routes   *)
(* emit (app/providers/fritz, app/audit, app/api/v1/devices.py).           *)
(*                                                                         *)
(* Each request to the box runs in a worker thread: the box answers it at  *)
(* some moment, and the coroutine goes on later.  An adapter reading is a  *)
(* request per capability, one after the other.  Switches and thermostats  *)
(* stand for all four capabilities.  A device that is paired but out of    *)
(* reach is answered for with what the box remembers, or with "inval" or   *)
(* nothing.  Which exception is raised is left out: every caller treats    *)
(* them alike.                                                             *)
(*                                                                         *)
(* Temperatures are in quarters of a degree, so that rounding to the half  *)
(* degrees of the box shows; none is below zero.  `Variant' marks bugs the *)
(* code might have, as in TTLCache.                                        *)
(***************************************************************************)
EXTENDS Naturals, Sequences, FiniteSets

CONSTANTS
  Routes,      \* handlers of the control and state routes
  Jobs,        \* coroutines of the scheduler: they emit no events
  Ains,
  Caps,        \* Caps[a]: what the device a can do
  Temps,       \* temperatures that commands may ask for
  Asks,        \* <<c, q>>: the caller c may ask for q
  NoCaller,
  Unknown,     \* None: not asked for
  Nothing,     \* an empty answer, and the None it is read as
  MaxCarried   \* commands the box answers for a device (bounds the model)

Callers == Routes \cup Jobs

Off == 0
Boost == 4 * 32
Offered == 4 * 8 .. 4 * 28   \* what SetTemperatureRequest accepts

Commands == [op : {"set_switch"}, ain : Ains, arg : BOOLEAN]
              \cup [op : {"set_temperature"}, ain : Ains, arg : Temps]
\* A discovery is for no device in particular; which one it names is void.
Reads == [op : {"get_state", "discover"}, ain : Ains, arg : {Unknown}]
Queries == Commands \cup Reads

ASSUME BoxAssumption ==
  /\ NoCaller \notin Callers /\ IsFiniteSet(Callers)
  /\ Unknown # Nothing
  /\ \A x \in {Unknown, Nothing} : x \notin Nat /\ x \notin BOOLEAN
  /\ Caps \in [Ains -> SUBSET {"SWITCH", "THERMOSTAT"}]
  /\ Asks \subseteq Callers \X Queries
  /\ Temps \subseteq Nat
  /\ MaxCarried \in Nat

VARIABLES
  device,     \* device[a]: the device as the box knows it
  paired,     \* the devices the box lists
  fha,        \* _fha and _adapter are there
  holder,     \* the holder of _lock
  queue,      \* coroutines suspended in its acquire()
  known,      \* _device_capabilities; Unknown if there is no such key
  call,       \* call[c]: the provider call c is in
  wanted,     \* wanted[a]: the last temperature a command set, Unknown if
              \* somebody has turned the device by hand since
  carried,    \* carried[a]: commands the box carried out for a
  unattended, \* unattended[a]: those of jobs, which emit no event
  unanswered, \* unanswered[a]: those whose call raised or was cut off, so
              \* that nobody emits an event
  declined,   \* declined[a]: commands with an event that the box declined
  pending,    \* pending[a]: events emitted, their tasks still running
  events,     \* events[a]: audit_events rows
  lost        \* lost[a]: events that were never written

audit == <<unattended, unanswered, declined, pending, events, lost>>
world == <<device, paired, wanted, carried>>
provider == <<fha, holder, queue, known>>
vars == <<world, provider, call, audit>>

Idle == [op |-> "none", step |-> "idle"]

\* What the box stores: half degrees, 253 for off, 254 for boost.  It is made
\* for 16 to 56, and may or may not correct what is sent beyond.
Raw == {253, 254} \cup 0 .. 63
Device == [on : BOOLEAN, hkr : Raw, reach : BOOLEAN]
Reading == [is_on : BOOLEAN \cup {Unknown},
            target : Nat \cup {Unknown, Nothing}]
Call == [op : {"set_switch", "set_temperature", "get_state", "discover"},
         q : Queries,
         step : {"waiting", "connecting", "discovering", "listed", "reading",
                 "read", "sent", "carried"},
         list : SUBSET Ains, got : Reading,
         ons : SUBSET {"0", "1", "inval"},
         aims : SUBSET (Temps \cup {Unknown, Nothing})]

TypeOK ==
  /\ device \in [Ains -> Device]
  /\ paired \subseteq Ains
  /\ fha \in BOOLEAN /\ holder \in Callers \cup {NoCaller}
  /\ queue \in Seq(Callers)
  /\ known \in [Ains -> (SUBSET {"SWITCH", "THERMOSTAT"}) \cup {Unknown}]
  /\ call \in [Callers -> Call \cup {Idle}]
  /\ \A c \in Callers : call[c].step \in {"sent", "carried"} =>
       call[c].q \in Commands
  /\ wanted \in [Ains -> Temps \cup {Unknown}]
  /\ \A n \in {carried, unattended, unanswered, declined, pending, events,
               lost} : n \in [Ains -> Nat]

Zero == [a \in Ains |-> 0]

Init == /\ device = [a \in Ains |-> [on |-> FALSE, hkr |-> 253, reach |-> TRUE]]
        /\ paired = Ains
        /\ fha = FALSE /\ holder = NoCaller /\ queue = <<>>
        /\ known = [a \in Ains |-> Unknown]
        /\ call = [c \in Callers |-> Idle]
        /\ wanted = [a \in Ains |-> Unknown]
        /\ carried = Zero /\ unattended = Zero
        /\ unanswered = Zero /\ declined = Zero
        /\ pending = Zero /\ events = Zero /\ lost = Zero

-----------------------------------------------------------------------------
(* The adapter's codec.                                                    *)

\* Variant: off and boost are half degrees like any other.
DecodePlain(raw) == IF raw = Nothing THEN Nothing ELSE 2 * raw

\* Variant: so are they when they are sent.
EncodePlain(t) == t \div 2

Encode(t) == IF t = Off THEN 253 ELSE IF t >= Boost THEN 254 ELSE t \div 2

\* An answer that is no number raises: ReadFails.
Decode(raw) == IF raw = Nothing THEN Nothing
               ELSE IF raw = 253 THEN Off
               ELSE IF raw = 254 THEN Boost ELSE 2 * raw

\* The answers the box may give about a device.  "inval" stands for every
\* answer but 0 and 1.
SwitchAnswers(d) == {IF d.on THEN "1" ELSE "0"}
                      \cup (IF d.reach THEN {} ELSE {"inval"})
TargetAnswers(d) == {d.hkr} \cup (IF d.reach THEN {} ELSE {Nothing})

-----------------------------------------------------------------------------
(* _ensure_connected.                                                      *)

Steps(c, s) == call' = [call EXCEPT ![c].step = s]

Ends(c) == call' = [call EXCEPT ![c] = Idle]

\* What the call does first once there is a connection.
FirstStep(q) ==
  CASE q.op \notin {"get_state", "discover"} -> "sent"
    [] q.op = "get_state" /\ known[q.ain] # Unknown -> "reading"
    [] OTHER -> "discovering"

Called(q, s) == [op |-> q.op, q |-> q, step |-> s, list |-> {},
                 got |-> [is_on |-> Unknown, target |-> Unknown],
                 ons |-> {}, aims |-> {}]

\* The schema of the route refuses what the thermostats are not made for; the
\* jobs send whatever a schedule or a rule says.
Allowed(c, q) ==
  /\ <<c, q>> \in Asks
  /\ c \in Routes /\ q.op = "set_temperature" => q.arg \in Offered

Begin(c, q) ==
  /\ call[c] = Idle
  /\ Allowed(c, q)
  /\ LET free == holder = NoCaller /\ queue = <<>>
         s == CASE fha -> FirstStep(q)
                [] ~fha /\ free -> "connecting"
                [] OTHER -> "waiting" IN
     /\ call' = [call EXCEPT ![c] = Called(q, s)]
     /\ holder' = IF s = "connecting" THEN c ELSE holder
     /\ queue' = IF s = "waiting" THEN Append(queue, c) ELSE queue
  /\ UNCHANGED <<world, fha, known, audit>>

\* The lock is released and handed on; the second look comes first.
Granted(c) == /\ call[c].step = "waiting" /\ holder = NoCaller
              /\ queue # <<>> /\ Head(queue) = c
              /\ queue' = Tail(queue)

\* Variant: no second look.
WokenBlind(c) == /\ Granted(c)
                 /\ holder' = c /\ Steps(c, "connecting")
                 /\ UNCHANGED <<world, fha, known, audit>>

Woken(c) == /\ Granted(c)
            /\ IF fha THEN Steps(c, FirstStep(call[c].q)) /\ UNCHANGED holder
                      ELSE Steps(c, "connecting") /\ holder' = c
            /\ UNCHANGED <<world, fha, known, audit>>

Connected(c) == /\ call[c].step = "connecting"
                /\ fha' = TRUE /\ holder' = NoCaller
                /\ Steps(c, FirstStep(call[c].q))
                /\ UNCHANGED <<world, queue, known, audit>>

\* Variant: acquire() and release() without try and finally.
ConnectFailsLocked(c) == /\ call[c].step = "connecting"
                         /\ Ends(c)
                         /\ UNCHANGED <<world, provider, audit>>

\* Nothing is remembered: the next caller tries again.
ConnectFails(c) == /\ call[c].step = "connecting"
                   /\ holder' = NoCaller
                   /\ Ends(c)
                   /\ UNCHANGED <<world, fha, queue, known, audit>>

-----------------------------------------------------------------------------
(* Readings.                                                               *)

\* The box answers with its list.
Lists(c) == /\ call[c].step = "discovering"
            /\ call' = [call EXCEPT ![c] = [@ EXCEPT !.step = "listed",
                                                    !.list = paired]]
            /\ UNCHANGED <<world, provider, audit>>

\* discover_devices returns.  It has skipped the virtual groups, which are
\* none of Ains; no key is ever removed.
Learns(c) ==
  LET a == call[c].q.ain
      new == [b \in Ains |-> IF b \in call[c].list THEN Caps[b] ELSE known[b]] IN
  /\ call[c].step = "listed"
  /\ known' = new
  /\ IF call[c].op = "discover" \/ new[a] = Unknown THEN Ends(c)
                                                    ELSE Steps(c, "reading")
  /\ UNCHANGED <<world, fha, holder, queue, audit>>

\* The temperatures a device may be said to be set to.
Aims(a) == {wanted[a]} \cup (IF device[a].reach THEN {} ELSE {Nothing})

\* The call r remembers what the device has shown so far: a history, with no
\* effect on the call.
Witness(r, a) == [r EXCEPT !.ons = @ \cup SwitchAnswers(device[a]),
                           !.aims = @ \cup Aims(a)]

Reads1(c, field, v) == call' = [call EXCEPT ![c].got[field] = v]

\* One request per capability; the box does not answer for strangers.
ReadSwitch(c) == LET a == call[c].q.ain IN
  /\ call[c].step = "reading" /\ a \in paired
  /\ "SWITCH" \in known[a] /\ call[c].got.is_on = Unknown
  /\ \E raw \in SwitchAnswers(device[a]) : Reads1(c, "is_on", raw = "1")
  /\ UNCHANGED <<world, provider, audit>>

ReadTarget(c) == LET a == call[c].q.ain IN
  /\ call[c].step = "reading" /\ a \in paired
  /\ "SWITCH" \in known[a] => call[c].got.is_on # Unknown
  /\ "THERMOSTAT" \in known[a] /\ call[c].got.target = Unknown
  /\ \E raw \in TargetAnswers(device[a]) : Reads1(c, "target", Decode(raw))
  /\ UNCHANGED <<world, provider, audit>>

ReadDone(c) == LET a == call[c].q.ain IN
  /\ call[c].step = "reading"
  /\ "SWITCH" \in known[a] => call[c].got.is_on # Unknown
  /\ "THERMOSTAT" \in known[a] => call[c].got.target # Unknown
  /\ call' = [call EXCEPT ![c] = [Witness(@, a) EXCEPT !.step = "read"]]
  /\ UNCHANGED <<world, provider, audit>>

ReadReturns(c) == /\ call[c].step = "read"
                  /\ Ends(c)
                  /\ UNCHANGED <<world, provider, audit>>

ReadFails(c) == /\ call[c].step \in {"discovering", "reading"}
                /\ Ends(c)
                /\ UNCHANGED <<world, provider, audit>>

-----------------------------------------------------------------------------
(* Commands.                                                               *)

\* The device becomes d, w is its last command; readings of it that are
\* under way remember what it was.
Changes(a, d, w, calls) ==
  /\ device' = [device EXCEPT ![a] = d]
  /\ wanted' = [wanted EXCEPT ![a] = w]
  /\ call' = [c \in Callers |->
       IF calls[c].step = "reading" /\ calls[c].q.ain = a
         THEN Witness(calls[c], a) ELSE calls[c]]

Needs(op) == IF op = "set_switch" THEN "SWITCH" ELSE "THERMOSTAT"

\* What the box may store of what is sent.
Kept(raw) == {raw} \cup (IF raw < 16 THEN {16} ELSE {})
                   \cup (IF raw \in 57 .. 63 THEN {56} ELSE {})

\* What may become of the device d.
After(d, q) == IF q.op = "set_switch"
                 THEN {[d EXCEPT !.on = q.arg]}
                 ELSE {[d EXCEPT !.hkr = h] : h \in Kept(Encode(q.arg))}

Answerable(a) == carried[a] + declined[a] < MaxCarried

\* The box carries the command out.
Carries(c) == LET q == call[c].q
                  a == call[c].q.ain
                  w == IF q.op = "set_temperature" THEN q.arg ELSE wanted[a] IN
  /\ call[c].step = "sent"
  /\ a \in paired /\ Needs(q.op) \in Caps[a]
  /\ Answerable(a)
  /\ carried' = [carried EXCEPT ![a] = @ + 1]
  /\ \E d \in After(device[a], q) :
       Changes(a, d, w, [call EXCEPT ![c].step = "carried"])
  /\ UNCHANGED <<paired, provider, audit>>

More(count, c) == [count EXCEPT ![call[c].q.ain] = @ + 1]

\* The provider call returns; a route emits its event, a job none.
Answered(c) ==
  /\ call[c].step = "carried"
  /\ IF c \in Routes
       THEN pending' = More(pending, c) /\ UNCHANGED unattended
       ELSE unattended' = More(unattended, c) /\ UNCHANGED pending
  /\ Ends(c)
  /\ UNCHANGED <<world, provider, unanswered, declined, events, lost>>

\* The answer is lost: the call raises and the route emits nothing.
AnswerLost(c) == /\ call[c].step = "carried"
                 /\ unanswered' = More(unanswered, c)
                 /\ Ends(c)
                 /\ UNCHANGED <<world, provider, unattended, declined, pending,
                                events, lost>>

\* A device out of reach: the box answers, but not that it obeyed, and
\* nobody looks at the answer.
Declines(c) == LET a == call[c].q.ain IN
  /\ call[c].step = "sent"
  /\ a \in paired /\ ~device[a].reach
  /\ Answerable(a)
  /\ IF c \in Routes
       THEN pending' = More(pending, c) /\ declined' = More(declined, c)
       ELSE UNCHANGED <<pending, declined>>
  /\ Ends(c)
  /\ UNCHANGED <<world, provider, unattended, unanswered, events, lost>>

\* Variant: the event is emitted in a finally clause.
CommandFailsLogged(c) == /\ call[c].step = "sent"
                         /\ pending' = More(pending, c)
                         /\ Ends(c)
                         /\ UNCHANGED <<world, provider, unattended, unanswered,
                                        declined, events, lost>>

\* The box was not reached, or it refused.
CommandFails(c) == /\ call[c].step = "sent"
                   /\ Ends(c)
                   /\ UNCHANGED <<world, provider, audit>>

\* _write_event commits in a session of its own; a failure is only logged.
EventEnds(a) == /\ pending[a] > 0
                /\ pending' = [pending EXCEPT ![a] = @ - 1]
                /\ \/ /\ events' = [events EXCEPT ![a] = @ + 1]
                      /\ UNCHANGED lost
                   \/ /\ lost' = [lost EXCEPT ![a] = @ + 1]
                      /\ UNCHANGED events
                /\ UNCHANGED <<world, provider, call, unattended, unanswered,
                               declined>>

-----------------------------------------------------------------------------
(* The device, the box, and the process.                                   *)

ByHand(a) == /\ \/ Changes(a, [device[a] EXCEPT !.on = ~@], wanted[a], call)
                \/ Changes(a, [device[a] EXCEPT !.hkr = 16], Unknown, call)
             /\ UNCHANGED <<paired, carried, provider, audit>>

\* Its radio link is lost, or comes back.
Reaches(a) ==
  /\ Changes(a, [device[a] EXCEPT !.reach = ~@], wanted[a], call)
  /\ UNCHANGED <<paired, carried, provider, audit>>

Pairs(a) == /\ paired' = IF a \in paired THEN paired \ {a} ELSE paired \cup {a}
            /\ UNCHANGED <<device, wanted, carried, provider, call, audit>>

\* Shutdown waits for no task: their events are gone.
Stop == /\ fha' = FALSE /\ holder' = NoCaller /\ queue' = <<>>
        /\ known' = [a \in Ains |-> Unknown]
        /\ call' = [c \in Callers |-> Idle]
        /\ unanswered' = [a \in Ains |-> unanswered[a] + Cardinality(
             {c \in Callers : call[c].step = "carried" /\ call[c].q.ain = a})]
        /\ lost' = [a \in Ains |-> lost[a] + pending[a]]
        /\ pending' = Zero
        /\ UNCHANGED <<world, unattended, declined, events>>

-----------------------------------------------------------------------------

Proceeds(c) ==
  \/ Woken(c) \/ Connected(c) \/ ConnectFails(c)
  \/ Lists(c) \/ Learns(c)
  \/ ReadSwitch(c) \/ ReadTarget(c) \/ ReadDone(c) \/ ReadReturns(c)
  \/ ReadFails(c)
  \/ Carries(c) \/ Declines(c) \/ CommandFails(c)
  \/ Answered(c) \/ AnswerLost(c)

Next == \/ \E c \in Callers :
             (\E q \in Queries : Begin(c, q)) \/ Proceeds(c)
        \/ \E a \in Ains : EventEnds(a) \/ ByHand(a) \/ Reaches(a) \/ Pairs(a)
        \/ Stop

(* Every request to the box ends, with an answer or an error.  The code    *)
(* sets no timeout: that it ends is left to TCP.                           *)
Fairness == \A c \in Callers : WF_vars(Proceeds(c))

Spec == Init /\ [][Next]_vars /\ Fairness

-----------------------------------------------------------------------------
(* Properties.                                                             *)

\* However many coroutines find no connection at once, and however often
\* connecting fails, one login at a time is sent to the box, and none when
\* there is a connection.
OneConnection ==
  \A c \in Callers : call[c].step = "connecting" =>
    ~fha /\ \A d \in Callers : call[d].step = "connecting" => c = d

\* What half degrees leave of the temperature t: off stays off, boost and
\* whatever exceeds it is boost, a temperature loses a quarter of a degree
\* at most, and one the device is not made for may be corrected.
Renders(target, t) ==
  IF t >= Boost THEN target = Boost
  ELSE \/ target \in {t, t - 1}
       \/ t # Off /\ t \notin Offered /\ target \in {4 * 8, 4 * 28}

\* Commands, hands and the radio may change a device between the requests of
\* a reading.  Each value it returns is nevertheless one that the device had
\* at some moment of this reading: the switch, and the temperature that was
\* commanded.  A device that was out of reach may be called off whatever its
\* switch, and its temperature be missing.
ReadingIsTrue ==
  \A c \in Callers : call[c].step = "read" =>
    LET r == call[c].got
        ons == call[c].ons
        aims == call[c].aims IN
    /\ r.is_on = TRUE => "1" \in ons
    /\ r.is_on = FALSE => "0" \in ons \/ "inval" \in ons
    /\ r.target = Nothing => Nothing \in aims
    /\ r.target \notin {Unknown, Nothing} =>
         \E t \in aims \ {Nothing} : t = Unknown \/ Renders(r.target, t)

\* The audit log against what the box did for a device.  Each command that
\* was carried out is under way, or has an event that is written, being
\* written or known to be lost, but for two exceptions: those of jobs and
\* those whose call raised or was cut off have none.  Each event is of a
\* command that was carried out, but for one: those that the box declined.
CommandsAccounted ==
  \A a \in Ains :
    carried[a] + declined[a]
      = events[a] + pending[a] + lost[a] + unattended[a] + unanswered[a]
      + Cardinality({c \in Callers :
                       call[c].step = "carried" /\ call[c].q.ain = a})

\* Every call of the provider ends, also in a convoy of callers whose
\* connection attempts fail one after the other.
EveryCallEnds ==
  \A c \in Callers : call[c].step # "idle" ~> call[c].step = "idle"

=============================================================================
