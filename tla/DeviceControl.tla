---------------------------- MODULE DeviceControl ----------------------------
(***************************************************************************)
(* Views of a device, commands to it, the background sweep and automation, *)
(* around the shared device_state_cache (app/devices/service.py over       *)
(* app/cache.py).                                                          *)
(*                                                                         *)
(* The state of a device is its version: the number of changes it has been *)
(* through.  A provider call is awaited, so it is three steps: it is sent, *)
(* it reads or changes the device at some moment, and it returns or        *)
(* raises; everything else in the process may happen in between.           *)
(*                                                                         *)
(* The snapshot rows a sweep writes are not part of this module; that a    *)
(* row can fail to be written, and what this does to the rest of the       *)
(* sweep, is.  `Variant' marks bugs the code might have, as in TTLCache.   *)
(***************************************************************************)
EXTENDS Naturals, Sequences

CONSTANTS
  Devices,     \* the active devices; a device is its own cache key
  Viewers,     \* coroutines that show the live state of a device
  Operators,   \* requests that control a device
  NoOne, NoDevice, NoVersion,
  ViewTTL,     \* ttl of get_live_state, 10 s in the code
  SweepTTL,    \* ttl the sweep passes to set(), 65 s in the code
  MaxVersion   \* bound on the changes of one device

ASSUME ControlAssumption ==
  /\ ViewTTL \in Nat \ {0} /\ SweepTTL \in Nat \ {0}
  /\ MaxVersion \in Nat
  /\ NoOne \notin Viewers /\ NoDevice \notin Devices /\ NoVersion \notin Nat

VARIABLES
  store, lock, queue, pc, key, result,   \* device_state_cache, see TTLCache
  device,     \* device[d]: the version the hardware is in
  read,       \* read[c]: what the fetch of viewer c has read, or NoVersion
  command,    \* command[u]: the control request u
  sweep,      \* the run of poll_and_snapshot_all
  confirmed,  \* confirmed[d]: newest version a returned command produced
  overtaken   \* overtaken[d]: when the last command on d returned, a read
              \* from before its change was still on its way to the cache

Version == 0 .. MaxVersion

Cache == INSTANCE TTLCache WITH
           Callers <- Viewers, Keys <- Devices, Values <- Version,
           NoCaller <- NoOne, NoKey <- NoDevice, NoValue <- NoVersion,
           FetchTTL <- [d \in Devices |-> ViewTTL], SetTTL <- SweepTTL

cacheVars == <<store, lock, queue, pc, key, result>>
ghostVars == <<confirmed, overtaken>>
vars == <<cacheVars, device, read, command, sweep, ghostVars>>

NoCommand == [step |-> "none", dev |-> NoDevice, made |-> 0]
NoSweep == [step |-> "idle", todo |-> {}, dev |-> NoDevice, seen |-> NoVersion]

TypeOK ==
  /\ Cache!TypeOK
  /\ device \in [Devices -> Version]
  /\ read \in [Viewers -> Version \cup {NoVersion}]
  /\ command \in [Operators -> [step : {"none", "sent", "applied"},
                                dev : Devices \cup {NoDevice}, made : Version]]
  /\ sweep \in [step : {"idle", "next", "reading", "saving"},
                todo : SUBSET Devices, dev : Devices \cup {NoDevice},
                seen : Version \cup {NoVersion}]
  /\ confirmed \in [Devices -> Version]
  /\ overtaken \in [Devices -> BOOLEAN]

Init == /\ Cache!Init
        /\ device = [d \in Devices |-> 0]
        /\ read = [c \in Viewers |-> NoVersion]
        /\ command = [u \in Operators |-> NoCommand]
        /\ sweep = NoSweep
        /\ confirmed = [d \in Devices |-> 0]
        /\ overtaken = [d \in Devices |-> FALSE]

-----------------------------------------------------------------------------
(* get_live_state: get_or_fetch around provider.get_device_state.          *)

View(c, d) == /\ Cache!Call(c, d) \/ Cache!Wake(c, d)
              /\ UNCHANGED <<device, read, command, sweep, ghostVars>>

ViewReads(c) == /\ pc[c] = "fetching"
                /\ read[c] = NoVersion
                /\ read' = [read EXCEPT ![c] = device[key[c]]]
                /\ UNCHANGED <<cacheVars, device, command, sweep, ghostVars>>

ViewReturns(c, d) == /\ read[c] # NoVersion
                     /\ Cache!FetchReturns(c, d, read[c])
                     /\ read' = [read EXCEPT ![c] = NoVersion]
                     /\ UNCHANGED <<device, command, sweep, ghostVars>>

ViewRaises(c, d) == /\ Cache!FetchRaises(c, d)
                    /\ read' = [read EXCEPT ![c] = NoVersion]
                    /\ UNCHANGED <<device, command, sweep, ghostVars>>

-----------------------------------------------------------------------------
(* turn_on, turn_off, set_temperature, set_brightness: await the provider, *)
(* then invalidate; an exception skips the invalidation.                   *)

Changes(d) == /\ device[d] < MaxVersion
              /\ device' = [device EXCEPT ![d] = @ + 1]

Send(u, d) ==
  /\ command[u].step = "none"
  /\ command' = [command EXCEPT ![u] = [step |-> "sent", dev |-> d, made |-> 0]]
  /\ UNCHANGED <<cacheVars, device, read, sweep, ghostVars>>

Apply(u) ==
  /\ command[u].step = "sent"
  /\ Changes(command[u].dev)
  /\ command' = [command EXCEPT ![u].step = "applied",
                                ![u].made = device'[command[u].dev]]
  /\ UNCHANGED <<cacheVars, read, sweep, ghostVars>>

\* Some read of d that is older than version v has yet to reach the cache.
OldReadUnderWay(d, v) ==
  \/ \E c \in Viewers : key[c] = d /\ read[c] # NoVersion /\ read[c] < v
  \/ sweep.dev = d /\ sweep.seen # NoVersion /\ sweep.seen < v

\* Variant: the entry is not invalidated.
ReturnKeepsEntry(u) ==
  LET d == command[u].dev
      v == IF confirmed[d] < command[u].made THEN command[u].made
                                             ELSE confirmed[d] IN
  /\ command[u].step = "applied"
  /\ command' = [command EXCEPT ![u] = NoCommand]
  /\ confirmed' = [confirmed EXCEPT ![d] = v]
  /\ overtaken' = [overtaken EXCEPT ![d] = OldReadUnderWay(d, v)]
  /\ UNCHANGED <<cacheVars, device, read, sweep>>

Return(u) ==
  LET d == command[u].dev
      v == IF confirmed[d] < command[u].made THEN command[u].made
                                             ELSE confirmed[d] IN
  /\ command[u].step = "applied"
  /\ Cache!Invalidate(d)
  /\ command' = [command EXCEPT ![u] = NoCommand]
  /\ confirmed' = [confirmed EXCEPT ![d] = v]
  /\ overtaken' = [overtaken EXCEPT ![d] = OldReadUnderWay(d, v)]
  /\ UNCHANGED <<device, read, sweep>>

\* The device refuses, or it obeys and the answer is lost.
Raise(u) ==
  /\ command[u].step # "none"
  /\ command' = [command EXCEPT ![u] = NoCommand]
  /\ UNCHANGED <<cacheVars, device, read, sweep, ghostVars>>

-----------------------------------------------------------------------------
(* _execute_action, for a schedule or a rule, calls the provider and never *)
(* touches the cache; to the cache it is like a hand on the device.        *)

Automation(d) == /\ Changes(d)
                 /\ UNCHANGED <<cacheVars, read, command, sweep, ghostVars>>

-----------------------------------------------------------------------------
(* poll_and_snapshot_all, one run at a time (max_instances=1).             *)

SweepStarts ==
  /\ sweep.step = "idle"
  /\ sweep' = [sweep EXCEPT !.step = "next", !.todo = Devices]
  /\ UNCHANGED <<cacheVars, device, read, command, ghostVars>>

SweepAsks(d) ==
  /\ sweep.step = "next"
  /\ d \in sweep.todo
  /\ sweep' = [sweep EXCEPT !.step = "reading", !.todo = @ \ {d}, !.dev = d]
  /\ UNCHANGED <<cacheVars, device, read, command, ghostVars>>

SweepReads ==
  /\ sweep.step = "reading"
  /\ sweep.seen = NoVersion
  /\ sweep' = [sweep EXCEPT !.seen = device[sweep.dev]]
  /\ UNCHANGED <<cacheVars, device, read, command, ghostVars>>

\* Variant: the state is stored before the answer has been awaited.
SweepFillsEarly ==
  /\ sweep.step = "reading"
  /\ Cache!Set(sweep.dev, sweep.seen)
  /\ sweep' = [sweep EXCEPT !.step = "saving", !.dev = NoDevice,
                            !.seen = NoVersion]
  /\ UNCHANGED <<device, read, command, ghostVars>>

\* The answer arrives: device_state_cache.set, then the flush is awaited.
SweepFills ==
  /\ sweep.step = "reading"
  /\ sweep.seen # NoVersion
  /\ Cache!Set(sweep.dev, sweep.seen)
  /\ sweep' = [sweep EXCEPT !.step = "saving", !.dev = NoDevice,
                            !.seen = NoVersion]
  /\ UNCHANGED <<device, read, command, ghostVars>>

SweepSaves ==
  /\ sweep.step = "saving"
  /\ sweep' = [sweep EXCEPT !.step = "next"]
  /\ UNCHANGED <<cacheVars, device, read, command, ghostVars>>

\* A failed flush rolls the session back and expires the rows it loaded, so
\* `device.ain' raises for every device that is left.
SweepSaveFails ==
  /\ sweep.step = "saving"
  /\ sweep' = [sweep EXCEPT !.step = "next", !.todo = {}]
  /\ UNCHANGED <<cacheVars, device, read, command, ghostVars>>

\* Variant: the state last seen of a device that does not answer is kept.
SweepSkipsRenews ==
  /\ sweep.step = "reading"
  /\ IF Cache!IsValid(sweep.dev) THEN Cache!Set(sweep.dev, store[sweep.dev].val)
                                 ELSE UNCHANGED cacheVars
  /\ sweep' = [sweep EXCEPT !.step = "next", !.dev = NoDevice,
                            !.seen = NoVersion]
  /\ UNCHANGED <<device, read, command, ghostVars>>

\* The device does not answer: `except Exception: pass'.
SweepSkips ==
  /\ sweep.step = "reading"
  /\ sweep' = [sweep EXCEPT !.step = "next", !.dev = NoDevice,
                            !.seen = NoVersion]
  /\ UNCHANGED <<cacheVars, device, read, command, ghostVars>>

SweepEnds ==
  /\ sweep.step = "next"
  /\ sweep.todo = {}
  /\ sweep' = NoSweep
  /\ UNCHANGED <<cacheVars, device, read, command, ghostVars>>

SweepGoesOn == \/ \E d \in Devices : SweepAsks(d)
               \/ SweepReads \/ SweepFills \/ SweepSkips
               \/ SweepSaves \/ SweepSaveFails \/ SweepEnds

-----------------------------------------------------------------------------

Tick == /\ Cache!Tick
        /\ UNCHANGED <<device, read, command, sweep, ghostVars>>

Next == \/ \E c \in Viewers, d \in Devices :
             View(c, d) \/ ViewReturns(c, d) \/ ViewRaises(c, d)
        \/ \E c \in Viewers : ViewReads(c)
        \/ \E u \in Operators : \/ \E d \in Devices : Send(u, d)
                                \/ Apply(u) \/ Return(u) \/ Raise(u)
        \/ \E d \in Devices : Automation(d)
        \/ SweepStarts \/ SweepGoesOn
        \/ Tick

(* Provider calls end, and time passes.  Nobody is obliged to look at or   *)
(* to switch a device, and no sweep has to start.                          *)
Fairness ==
  /\ \A c \in Viewers, d \in Devices :
       WF_vars(ViewReturns(c, d) \/ ViewRaises(c, d))
  /\ WF_vars(SweepFills \/ SweepSkips)
  /\ WF_vars(Tick)

Spec == Init /\ [][Next]_vars /\ Fairness

-----------------------------------------------------------------------------
(* Properties.                                                             *)

Stale(d) == Cache!IsValid(d) /\ store[d].val < confirmed[d]

\* The cache serves a state older than what a command that returned has set
\* only if, when the last command on the device returned, a read from before
\* it was still under way: invalidating after the await closes every other
\* window, also with several commands, automation and a sweep at work.
StaleOnlyIfOvertaken == \A d \in Devices : Stale(d) => overtaken[d]

\* Whatever was overtaken, lost or done behind the cache's back, once a
\* device stops changing the cache ends up serving nothing but its state.
ServesCurrentStateInTheEnd ==
  <>[](\A d \in Devices : Cache!IsValid(d) => store[d].val = device[d])

=============================================================================
