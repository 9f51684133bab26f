------------------------- MODULE DeviceControlProofs -------------------------
(***************************************************************************)
(* Proofs about DeviceControl, for any devices, viewers, operators and     *)
(* ttls: the types, and that the cache contradicts a confirmed command     *)
(* only when an older read was under way as the command returned; and that *)
(* they use the cache as TTLCache says.                                    *)
(*                                                                           *)
(* What holds of the cache by itself is taken from TTLCacheProofs: one     *)
(* fetch at a time, nobody stranded, and CacheContract kept by views,      *)
(* commands and the sweep together.                                        *)
(***************************************************************************)
EXTENDS DeviceControl, TLAPS

CacheProofs == INSTANCE TTLCacheProofs WITH
                 Callers <- Viewers, Keys <- Devices, Values <- Version,
                 NoCaller <- NoOne, NoKey <- NoDevice, NoValue <- NoVersion,
                 FetchTTL <- [d \in Devices |-> ViewTTL], SetTTL <- SweepTTL

-----------------------------------------------------------------------------
(* The cache.                                                              *)

LEMMA Assumed == CacheProofs!CacheAssumption
BY ControlAssumption DEF CacheProofs!CacheAssumption, Version

LEMMA SameType == Cache!TypeOK <=> CacheProofs!TypeOK
BY DEF Cache!TypeOK, CacheProofs!TypeOK, Cache!Entry, CacheProofs!Entry,
       Cache!Gone, CacheProofs!Gone

\* What viewers, commands, sweeps and time may do to the cache.
CacheMove ==
  \/ \E c \in Viewers, d \in Devices :
       \/ Cache!Call(c, d) \/ Cache!Wake(c, d) \/ Cache!FetchRaises(c, d)
       \/ \E v \in Version : Cache!FetchReturns(c, d, v)
  \/ \E d \in Devices : \/ Cache!Invalidate(d)
                        \/ \E v \in Version : Cache!Set(d, v)
  \/ Cache!Tick
  \/ UNCHANGED cacheVars

\* All of it is what TTLCacheProofs speaks of.
LEMMA CacheMoves ==
  ASSUME CacheMove
  PROVE  [CacheProofs!Next]_(CacheProofs!cacheVars)
<1> USE DEF CacheMove
<1>1. ASSUME NEW c \in Viewers, NEW d \in Devices, Cache!Call(c, d)
      PROVE  CacheProofs!Call(c, d)
  BY <1>1 DEF Cache!Call, Cache!Hit, Cache!Lead, Cache!Wait, Cache!IsValid,
         Cache!Returns, Cache!StartsFetch, Cache!Acquirable,
         CacheProofs!Call, CacheProofs!Hit, CacheProofs!Lead, CacheProofs!Wait,
         CacheProofs!IsValid, CacheProofs!Returns, CacheProofs!StartsFetch,
         CacheProofs!Acquirable
<1>2. ASSUME NEW c \in Viewers, NEW d \in Devices, Cache!Wake(c, d)
      PROVE  CacheProofs!Wake(c, d)
  BY <1>2 DEF Cache!Wake, Cache!WakeHit, Cache!WakeMiss, Cache!IsValid,
         Cache!Granted, Cache!Returns, Cache!StartsFetch,
         CacheProofs!Wake, CacheProofs!WakeHit, CacheProofs!WakeMiss,
         CacheProofs!IsValid, CacheProofs!Granted, CacheProofs!Returns,
         CacheProofs!StartsFetch
<1>3. ASSUME NEW c \in Viewers, NEW d \in Devices,
             \/ Cache!FetchRaises(c, d)
             \/ \E v \in Version : Cache!FetchReturns(c, d, v)
      PROVE  CacheProofs!FetchEnds(c, d)
  BY <1>3 DEF Cache!FetchRaises, Cache!FetchReturns, Cache!Releases,
         Cache!Returns, Cache!Put,
         CacheProofs!FetchEnds, CacheProofs!FetchRaises,
         CacheProofs!FetchReturns, CacheProofs!Releases, CacheProofs!Returns,
         CacheProofs!Put
<1>4. ASSUME NEW d \in Devices, Cache!Invalidate(d) PROVE CacheProofs!Invalidate(d)
  BY <1>4 DEF Cache!Invalidate, Cache!Gone, CacheProofs!Invalidate, CacheProofs!Gone
<1>5. ASSUME NEW d \in Devices, NEW v \in Version, Cache!Set(d, v)
      PROVE  CacheProofs!Set(d, v)
  BY <1>5 DEF Cache!Set, Cache!Put, CacheProofs!Set, CacheProofs!Put
<1>6. ASSUME Cache!Tick PROVE CacheProofs!Tick
  BY <1>6 DEF Cache!Tick, Cache!Older, CacheProofs!Tick, CacheProofs!Older
<1> QED
  BY <1>1, <1>2, <1>3, <1>4, <1>5, <1>6
     DEF CacheProofs!Next, cacheVars, CacheProofs!cacheVars

\* So it keeps the cache's types.
LEMMA CacheStep ==
  ASSUME Cache!TypeOK, CacheMove
  PROVE  Cache!TypeOK'
BY SameType, Assumed, CacheMoves, CacheProofs!TypeStep
   DEF Cache!TypeOK, CacheProofs!TypeOK, Cache!Entry, CacheProofs!Entry,
       Cache!Gone, CacheProofs!Gone

\* A call that goes on, or waits, concerns its caller only, who has read
\* nothing yet, and stores nothing.
LEMMA CallFacts ==
  ASSUME TypeOK, NEW c \in Viewers, NEW d \in Devices,
         Cache!Call(c, d) \/ Cache!Wake(c, d)
  PROVE  /\ store' = store
         /\ pc[c] # "fetching"
         /\ pc'[c] # "idle" => key'[c] = d
         /\ \A b \in Viewers \ {c} : pc'[b] = pc[b] /\ key'[b] = key[b]
BY DEF TypeOK, Cache!TypeOK, Cache!Call, Cache!Wake, Cache!Hit, Cache!Lead,
       Cache!Wait, Cache!WakeHit, Cache!WakeMiss, Cache!Granted, Cache!Returns,
       Cache!StartsFetch

\* So does a fetch that ends.
LEMMA FetchFacts ==
  ASSUME TypeOK, NEW c \in Viewers, NEW d \in Devices,
         Cache!FetchRaises(c, d) \/ \E v \in Version : Cache!FetchReturns(c, d, v)
  PROVE  /\ key[c] = d /\ pc'[c] = "idle"
         /\ \A b \in Viewers \ {c} : pc'[b] = pc[b] /\ key'[b] = key[b]
BY DEF TypeOK, Cache!TypeOK, Cache!FetchRaises, Cache!FetchReturns,
       Cache!Releases, Cache!Returns

\* Time makes no entry valid and changes no value.
LEMMA TickFacts ==
  ASSUME TypeOK, Cache!Tick, NEW d \in Devices, store'[d].left > 0
  PROVE  store[d].left > 0 /\ store'[d].val = store[d].val
<1>1. store[d] \in Cache!Entry
  BY DEF TypeOK, Cache!TypeOK
<1>2. store'[d] = Cache!Older(store[d])
  BY DEF Cache!Tick
<1>3. CASE store[d] = Cache!Gone
  BY <1>2, <1>3 DEF Cache!Gone, Cache!Older
<1>4. CASE store[d] \in [val : Version, left : Nat]
  BY <1>2, <1>4 DEF Cache!Older
<1> QED BY <1>1, <1>3, <1>4 DEF Cache!Entry

-----------------------------------------------------------------------------
(* The inductive invariant.                                                *)

\* Who is at work is at work on a device, and only a fetch under way has
\* read something.
Busy ==
  /\ \A c \in Viewers : /\ pc[c] # "idle" => key[c] \in Devices
                        /\ read[c] # NoVersion => pc[c] = "fetching"
  /\ \A u \in Operators : command[u].step # "none" => command[u].dev \in Devices
  /\ IF sweep.step = "reading" THEN sweep.dev \in Devices
                               ELSE sweep.seen = NoVersion

\* Nobody knows of a version that the device has not been through.
Known ==
  /\ \A d \in Devices : confirmed[d] <= device[d]
  /\ \A u \in Operators : command[u].step = "applied" =>
       command[u].made <= device[command[u].dev]

\* Unless d is overtaken, neither the cache nor anything on its way there is
\* older than what has been confirmed.
Fresh(d) ==
  ~overtaken[d] =>
    /\ store[d].left > 0 => store[d].val >= confirmed[d]
    /\ \A c \in Viewers :
         key[c] = d /\ read[c] # NoVersion => read[c] >= confirmed[d]
    /\ sweep.dev = d /\ sweep.seen # NoVersion => sweep.seen >= confirmed[d]

IInv == TypeOK /\ Busy /\ Known /\ \A d \in Devices : Fresh(d)

LEMMA ViewStep ==
  ASSUME IInv, NEW c \in Viewers,
         \/ \E d \in Devices : View(c, d) \/ ViewReturns(c, d) \/ ViewRaises(c, d)
         \/ ViewReads(c)
  PROVE  IInv'
<1> USE ControlAssumption DEF IInv, Version
<1>1. ASSUME NEW d \in Devices, View(c, d) PROVE IInv'
  <2>1. Cache!TypeOK'
    BY <1>1, CacheStep DEF CacheMove, View, TypeOK
  <2>2. TypeOK'
    BY <1>1, <2>1 DEF View, TypeOK, ghostVars
  <2>3. /\ store' = store /\ pc[c] # "fetching"
        /\ pc'[c] # "idle" => key'[c] = d
        /\ \A b \in Viewers \ {c} : pc'[b] = pc[b] /\ key'[b] = key[b]
    BY <1>1, CallFacts DEF View
  <2>4. read[c] = NoVersion
    BY <2>3 DEF Busy
  <2>5. UNCHANGED <<device, read, command, sweep, confirmed, overtaken>>
    BY <1>1 DEF View, ghostVars
  <2>6. Busy' /\ Known'
    BY <2>3, <2>4, <2>5 DEF Busy, Known
  <2>7. \A e \in Devices : Fresh(e)'
    BY <2>3, <2>4, <2>5 DEF Fresh
  <2> QED BY <2>2, <2>6, <2>7
<1>2. ASSUME NEW d \in Devices, ViewReturns(c, d) \/ ViewRaises(c, d) PROVE IInv'
  <2>1. read[c] # NoVersion => read[c] \in Version
    BY DEF TypeOK
  <2>2. Cache!FetchRaises(c, d) \/ \E v \in Version : Cache!FetchReturns(c, d, v)
    BY <1>2, <2>1 DEF ViewReturns, ViewRaises
  <2>3. Cache!TypeOK'
    BY <2>2, CacheStep DEF CacheMove, TypeOK
  <2>4. /\ read' = [read EXCEPT ![c] = NoVersion]
        /\ UNCHANGED <<device, command, sweep, confirmed, overtaken>>
    BY <1>2 DEF ViewReturns, ViewRaises, ghostVars
  <2>5. TypeOK'
    BY <2>3, <2>4 DEF TypeOK
  <2>6. /\ key[c] = d /\ pc'[c] = "idle"
        /\ \A b \in Viewers \ {c} : pc'[b] = pc[b] /\ key'[b] = key[b]
    BY <2>2, FetchFacts
  <2>7. /\ read'[c] = NoVersion
        /\ \A b \in Viewers \ {c} : read'[b] = read[b]
    BY <2>4 DEF TypeOK
  <2>8. Busy' /\ Known'
    BY <2>4, <2>6, <2>7 DEF Busy, Known
  <2>9. \/ store' = store
        \/ /\ read[c] # NoVersion
           /\ store' = [store EXCEPT ![d] = [val |-> read[c], left |-> ViewTTL]]
    BY <1>2 DEF ViewReturns, ViewRaises, Cache!FetchReturns, Cache!FetchRaises,
                Cache!Put
  <2>10. \A e \in Devices : Fresh(e)'
    <3> SUFFICES ASSUME NEW e \in Devices, ~overtaken[e] PROVE Fresh(e)'
      BY <2>4 DEF Fresh
    <3>1. Fresh(e)
      OBVIOUS
    <3>2. store'[e].left > 0 => store'[e].val >= confirmed[e]
      <4>1. \/ store'[e] = store[e]
            \/ /\ e = d /\ read[c] # NoVersion
               /\ store'[e] = [val |-> read[c], left |-> ViewTTL]
        BY <2>9 DEF TypeOK, Cache!TypeOK
      <4>2. store'[e] = store[e] \/ (store'[e].val = read[c] /\ read[c] >= confirmed[e])
        BY <2>6, <3>1, <4>1 DEF Fresh
      <4> QED BY <3>1, <4>2 DEF Fresh
    <3>3. \A b \in Viewers :
            key'[b] = e /\ read'[b] # NoVersion => read'[b] >= confirmed[e]
      BY <2>6, <2>7, <3>1 DEF Fresh
    <3> QED BY <2>4, <3>1, <3>2, <3>3 DEF Fresh
  <2> QED BY <2>5, <2>8, <2>10
<1>3. CASE ViewReads(c)
  <2>1. key[c] \in Devices /\ pc[c] = "fetching"
    BY <1>3 DEF ViewReads, Busy
  <2>2. /\ read' = [read EXCEPT ![c] = device[key[c]]]
        /\ UNCHANGED <<store, lock, queue, pc, key, result>>
        /\ UNCHANGED <<device, command, sweep, confirmed, overtaken>>
    BY <1>3 DEF ViewReads, cacheVars, ghostVars
  <2>3. TypeOK'
    <3>1. Cache!TypeOK'
      BY <2>2, CacheStep DEF CacheMove, TypeOK, cacheVars
    <3> QED BY <2>1, <2>2, <3>1 DEF TypeOK
  <2>4. Busy' /\ Known'
    BY <2>1, <2>2 DEF Busy, Known, TypeOK
  <2>5. \A e \in Devices : Fresh(e)'
    BY <2>1, <2>2 DEF Fresh, Known, TypeOK
  <2> QED BY <2>3, <2>4, <2>5
<1> QED BY <1>1, <1>2, <1>3

LEMMA CommandStep ==
  ASSUME IInv, NEW u \in Operators,
         \/ \E d \in Devices : Send(u, d)
         \/ Apply(u) \/ Return(u) \/ Raise(u)
  PROVE  IInv'
<1> USE ControlAssumption DEF IInv, Version
<1>1. CASE Raise(u) \/ \E d \in Devices : Send(u, d)
  <2>1. /\ UNCHANGED <<store, lock, queue, pc, key, result>>
        /\ UNCHANGED <<device, read, sweep, confirmed, overtaken>>
    BY <1>1 DEF Raise, Send, cacheVars, ghostVars
  <2>2. \/ command' = [command EXCEPT ![u] = NoCommand]
        \/ \E d \in Devices :
             command' = [command EXCEPT ![u] =
                           [step |-> "sent", dev |-> d, made |-> 0]]
    BY <1>1 DEF Raise, Send
  <2>3. Cache!TypeOK'
    BY <2>1, CacheStep DEF CacheMove, TypeOK, cacheVars
  <2>4. TypeOK'
    BY <2>1, <2>2, <2>3 DEF TypeOK, NoCommand
  <2>5. Busy' /\ Known'
    BY <2>1, <2>2 DEF Busy, Known, NoCommand, TypeOK
  <2>6. \A e \in Devices : Fresh(e)'
    BY <2>1 DEF Fresh
  <2> QED BY <2>4, <2>5, <2>6
<1>2. CASE Apply(u)
  <2>0. command[u].dev \in Devices
    BY <1>2 DEF Apply, Busy
  <2> PICK d \in Devices : d = command[u].dev
    BY <2>0
  <2>1. /\ command[u].step = "sent" /\ device[d] < MaxVersion
        /\ device' = [device EXCEPT ![d] = device[d] + 1]
        /\ command' = [command EXCEPT ![u].step = "applied",
                                      ![u].made = device'[d]]
        /\ UNCHANGED <<store, lock, queue, pc, key, result>>
        /\ UNCHANGED <<read, sweep, confirmed, overtaken>>
    BY <1>2 DEF Apply, Changes, cacheVars, ghostVars
  <2>2. device[d] \in 0 .. MaxVersion /\ device'[d] = device[d] + 1
    BY <2>1 DEF TypeOK
  <2>3. device'[d] \in 0 .. MaxVersion
    BY <2>1, <2>2
  <2>4. Cache!TypeOK'
    BY <2>1, CacheStep DEF CacheMove, TypeOK, cacheVars
  <2>5. device' \in [Devices -> Version]
    BY <2>1, <2>3 DEF TypeOK
  <2>6. TypeOK'
    <3>1. command' \in [Operators -> [step : {"none", "sent", "applied"},
                                      dev : Devices \cup {NoDevice},
                                      made : Version]]
      <4>1. PICK w \in Version : w = device'[d]
        BY <2>3
      <4>2. PICK q \in [step : {"none", "sent", "applied"},
                        dev : Devices \cup {NoDevice}, made : Version] :
              q = command[u]
        BY DEF TypeOK
      <4>3. command' = [command EXCEPT ![u] =
                          [q EXCEPT !.step = "applied", !.made = w]]
        BY <2>1, <4>1, <4>2 DEF TypeOK
      <4>4. [q EXCEPT !.step = "applied", !.made = w]
              \in [step : {"none", "sent", "applied"},
                   dev : Devices \cup {NoDevice}, made : Version]
        OBVIOUS
      <4> QED BY <4>3, <4>4 DEF TypeOK
    <3> QED BY <2>1, <2>4, <2>5, <3>1 DEF TypeOK
  <2>7. /\ command'[u].dev = d /\ command'[u].made = device'[d]
        /\ \A v \in Operators \ {u} : command'[v] = command[v]
    BY <2>1 DEF TypeOK
  <2>8. \A e \in Devices : device'[e] >= device[e] /\ device[e] \in Nat /\ device'[e] \in Nat
    BY <2>1, <2>2 DEF TypeOK
  <2>9. Busy'
    BY <2>1, <2>7 DEF Busy
  <2>10. Known'
    <3>1. ASSUME NEW e \in Devices PROVE confirmed'[e] <= device'[e]
      BY <2>1, <2>8, <3>1 DEF Known, TypeOK
    <3>2. ASSUME NEW v \in Operators \ {u}, command'[v].step = "applied"
          PROVE  command'[v].made <= device'[command'[v].dev]
      <4>1. /\ command[v].step = "applied" /\ command[v].dev \in Devices
            /\ command[v].made \in Nat
        BY <2>7, <3>2 DEF Busy, TypeOK
      <4> QED BY <2>7, <2>8, <4>1 DEF Known
    <3>3. command'[u].made <= device'[command'[u].dev]
      BY <2>3, <2>7
    <3> QED BY <3>1, <3>2, <3>3 DEF Known
  <2>11. \A e \in Devices : Fresh(e)'
    BY <2>1 DEF Fresh
  <2> QED BY <2>6, <2>9, <2>10, <2>11
<1>3. CASE Return(u)
  <2>0. command[u].dev \in Devices
    BY <1>3 DEF Return, Busy
  <2> PICK d \in Devices : d = command[u].dev
    BY <2>0
  <2> PICK v : v = IF confirmed[d] < command[u].made THEN command[u].made
                                                     ELSE confirmed[d]
    OBVIOUS
  <2>1. /\ command[u].step = "applied"
        /\ Cache!Invalidate(d)
        /\ command' = [command EXCEPT ![u] = NoCommand]
        /\ confirmed' = [confirmed EXCEPT ![d] = v]
        /\ overtaken' = [overtaken EXCEPT ![d] = OldReadUnderWay(d, v)]
        /\ UNCHANGED <<device, read, sweep>>
    BY <1>3 DEF Return
  <2>2. /\ v \in Version /\ v <= device[d]
    BY <2>1 DEF TypeOK, Known
  <2>3. Cache!TypeOK'
    BY <2>1, CacheStep DEF CacheMove, TypeOK
  <2>4. OldReadUnderWay(d, v) \in BOOLEAN
    BY DEF OldReadUnderWay
  <2>5. TypeOK'
    BY <2>1, <2>2, <2>3, <2>4 DEF TypeOK, NoCommand
  <2>6. /\ store' = [store EXCEPT ![d] = Cache!Gone]
        /\ UNCHANGED <<pc, key>>
    BY <2>1 DEF Cache!Invalidate
  <2>7. Busy'
    BY <2>1, <2>6 DEF Busy, NoCommand, TypeOK
  <2>8. Known'
    BY <2>1, <2>2 DEF Known, NoCommand, TypeOK
  <2>9. Fresh(d)'
    <3> SUFFICES ASSUME ~overtaken'[d] PROVE Fresh(d)'
      BY DEF Fresh
    <3>1. ~OldReadUnderWay(d, v) /\ confirmed'[d] = v /\ ~(store'[d].left > 0)
      BY <2>1, <2>6 DEF TypeOK, Cache!TypeOK, Cache!Gone
    <3>2. ASSUME NEW c \in Viewers, key[c] = d, read[c] # NoVersion
          PROVE  read[c] >= v
      BY <2>2, <3>1, <3>2 DEF OldReadUnderWay, TypeOK
    <3>3. sweep.dev = d /\ sweep.seen # NoVersion => sweep.seen >= v
      BY <2>2, <3>1 DEF OldReadUnderWay, TypeOK
    <3> QED BY <2>1, <2>6, <3>1, <3>2, <3>3 DEF Fresh
  <2>10. ASSUME NEW e \in Devices \ {d} PROVE Fresh(e)'
    <3>1. /\ store'[e] = store[e] /\ confirmed'[e] = confirmed[e]
          /\ overtaken'[e] = overtaken[e]
      BY <2>1, <2>6 DEF TypeOK, Cache!TypeOK
    <3> QED BY <2>1, <2>6, <3>1 DEF Fresh
  <2> QED BY <2>5, <2>7, <2>8, <2>9, <2>10
<1> QED BY <1>1, <1>2, <1>3

LEMMA SweepStep == ASSUME IInv, SweepStarts \/ SweepGoesOn PROVE IInv'
<1> USE ControlAssumption DEF IInv, Version
<1>1. UNCHANGED <<device, read, command, confirmed, overtaken>>
  BY DEF SweepStarts, SweepGoesOn, SweepAsks, SweepReads, SweepFills, SweepSkips,
         SweepSaves, SweepSaveFails, SweepEnds, ghostVars
<1>2. CASE SweepFills
  <2>1. /\ sweep.step = "reading" /\ sweep.dev \in Devices
        /\ sweep.seen \in Version
        /\ Cache!Set(sweep.dev, sweep.seen)
        /\ sweep' = [sweep EXCEPT !.step = "saving", !.dev = NoDevice,
                                  !.seen = NoVersion]
    BY <1>2 DEF SweepFills, Busy, TypeOK
  <2>2. Cache!TypeOK'
    BY <2>1, CacheStep DEF CacheMove, TypeOK
  <2>3. TypeOK'
    BY <1>1, <2>1, <2>2 DEF TypeOK
  <2>4. /\ store' = [store EXCEPT ![sweep.dev] =
                       [val |-> sweep.seen, left |-> SweepTTL]]
        /\ UNCHANGED <<pc, key>>
    BY <2>1 DEF Cache!Set, Cache!Put
  <2>5. sweep'.step = "saving" /\ sweep'.seen = NoVersion
    BY <2>1 DEF TypeOK
  <2>6. Busy' /\ Known'
    BY <1>1, <2>4, <2>5 DEF Busy, Known
  <2>7. ASSUME NEW e \in Devices PROVE Fresh(e)'
    <3> SUFFICES ASSUME ~overtaken[e] PROVE Fresh(e)'
      BY <1>1 DEF Fresh
    <3>1. \/ store'[e] = store[e]
          \/ e = sweep.dev /\ store'[e] = [val |-> sweep.seen, left |-> SweepTTL]
      BY <2>4 DEF TypeOK, Cache!TypeOK
    <3>2. \/ store'[e] = store[e]
          \/ store'[e].val = sweep.seen /\ sweep.seen >= confirmed[e]
      BY <2>1, <3>1 DEF Fresh
    <3> QED BY <1>1, <2>4, <2>5, <3>2 DEF Fresh
  <2> QED BY <2>3, <2>6, <2>7
<1>3. CASE ~SweepFills
  <2>1. UNCHANGED <<store, lock, queue, pc, key, result>>
    BY <1>3 DEF SweepStarts, SweepGoesOn, SweepAsks, SweepReads, SweepSkips,
                SweepSaves, SweepSaveFails, SweepEnds, cacheVars
  <2>2. Cache!TypeOK'
    BY <2>1, CacheStep DEF CacheMove, TypeOK, cacheVars
  <2>3. CASE SweepReads
    <3>1. /\ sweep.step = "reading" /\ sweep.dev \in Devices
          /\ sweep' = [sweep EXCEPT !.seen = device[sweep.dev]]
      BY <2>3 DEF SweepReads, Busy
    <3>2. TypeOK'
      BY <1>1, <2>2, <3>1 DEF TypeOK
    <3>3. /\ sweep'.step = "reading" /\ sweep'.dev = sweep.dev
          /\ sweep'.seen = device[sweep.dev]
      BY <3>1 DEF TypeOK
    <3>4. Busy' /\ Known'
      BY <1>1, <2>1, <3>1, <3>3 DEF Busy, Known
    <3>5. \A e \in Devices : Fresh(e)'
      BY <1>1, <2>1, <3>3 DEF Fresh, Known, TypeOK
    <3> QED BY <3>2, <3>4, <3>5
  <2>4. CASE ~SweepReads
    <3>1. /\ sweep' \in [step : {"idle", "next", "reading", "saving"},
                         todo : SUBSET Devices, dev : Devices \cup {NoDevice},
                         seen : Version \cup {NoVersion}]
          /\ sweep'.seen = NoVersion
          /\ sweep'.step = "reading" => sweep'.dev \in Devices
      <4>1. /\ sweep.todo \subseteq Devices
            /\ sweep.dev \in Devices \cup {NoDevice}
            /\ sweep = [step |-> sweep.step, todo |-> sweep.todo,
                        dev |-> sweep.dev, seen |-> sweep.seen]
        BY DEF TypeOK
      <4>2. CASE SweepStarts \/ SweepSaves \/ SweepSaveFails
        <5>1. sweep.seen = NoVersion
          BY <4>2 DEF SweepStarts, SweepSaves, SweepSaveFails, Busy
        <5>2. \E T \in SUBSET Devices :
                sweep' = [step |-> "next", todo |-> T,
                          dev |-> sweep.dev, seen |-> NoVersion]
          BY <4>1, <4>2, <5>1 DEF SweepStarts, SweepSaves, SweepSaveFails
        <5> QED BY <4>1, <5>2
      <4>3. CASE SweepSkips
        <5>1. sweep' = [step |-> "next", todo |-> sweep.todo,
                        dev |-> NoDevice, seen |-> NoVersion]
          BY <4>1, <4>3 DEF SweepSkips
        <5> QED BY <4>1, <5>1
      <4>4. CASE SweepEnds
        BY <4>4 DEF SweepEnds, NoSweep
      <4>5. ASSUME NEW d \in Devices, SweepAsks(d)
            PROVE  sweep' = [step |-> "reading", todo |-> sweep.todo \ {d},
                             dev |-> d, seen |-> NoVersion]
        BY <4>1, <4>5 DEF SweepAsks, Busy
      <4>6. CASE \E d \in Devices : SweepAsks(d)
        BY <4>1, <4>5, <4>6
      <4> QED BY <1>3, <2>4, <4>2, <4>3, <4>4, <4>6 DEF SweepGoesOn
    <3>2. TypeOK'
      BY <1>1, <2>2, <3>1 DEF TypeOK
    <3>3. Busy' /\ Known'
      BY <1>1, <2>1, <3>1 DEF Busy, Known
    <3>4. \A e \in Devices : Fresh(e)'
      BY <1>1, <2>1, <3>1 DEF Fresh
    <3> QED BY <3>2, <3>3, <3>4
  <2> QED BY <2>3, <2>4
<1> QED BY <1>2, <1>3

\* Automation moves the device on; time takes entries away.
LEMMA WorldStep ==
  ASSUME IInv, Tick \/ UNCHANGED vars \/ \E d \in Devices : Automation(d)
  PROVE  IInv'
<1> USE ControlAssumption DEF IInv, Version
<1>1. CASE Tick
  <2>1. /\ Cache!Tick /\ UNCHANGED <<lock, queue, pc, key, result>>
        /\ UNCHANGED <<device, read, command, sweep, confirmed, overtaken>>
    BY <1>1 DEF Tick, Cache!Tick, ghostVars
  <2>2. Cache!TypeOK'
    BY <2>1, CacheStep DEF CacheMove, TypeOK
  <2>3. TypeOK'
    BY <2>1, <2>2 DEF TypeOK
  <2>4. Busy' /\ Known'
    BY <2>1 DEF Busy, Known
  <2>5. \A e \in Devices : Fresh(e)'
    BY <2>1, TickFacts DEF Fresh
  <2> QED BY <2>3, <2>4, <2>5
<1>2. ASSUME NEW d \in Devices, Automation(d) PROVE IInv'
  <2>1. /\ device[d] < MaxVersion
        /\ device' = [device EXCEPT ![d] = device[d] + 1]
        /\ UNCHANGED <<store, lock, queue, pc, key, result>>
        /\ UNCHANGED <<read, command, sweep, confirmed, overtaken>>
    BY <1>2 DEF Automation, Changes, cacheVars, ghostVars
  <2>2. Cache!TypeOK'
    BY <2>1, CacheStep DEF CacheMove, TypeOK, cacheVars
  <2>3. device' \in [Devices -> Version]
    BY <2>1 DEF TypeOK
  <2>4. TypeOK'
    BY <2>1, <2>2, <2>3 DEF TypeOK
  <2>5. \A e \in Devices : device'[e] >= device[e] /\ device[e] \in Nat /\ device'[e] \in Nat
    BY <2>1 DEF TypeOK
  <2>6. Busy'
    BY <2>1 DEF Busy
  <2>7. Known'
    <3>1. \A e \in Devices : confirmed'[e] <= device'[e]
      BY <2>1, <2>5 DEF Known, TypeOK
    <3>2. ASSUME NEW u \in Operators, command'[u].step = "applied"
          PROVE  command'[u].made <= device'[command'[u].dev]
      <4>1. command[u].dev \in Devices /\ command[u].made \in Nat
        BY <2>1, <3>2 DEF Busy, TypeOK
      <4> QED BY <2>1, <2>5, <3>2, <4>1 DEF Known
    <3> QED BY <3>1, <3>2 DEF Known
  <2>8. \A e \in Devices : Fresh(e)'
    BY <2>1 DEF Fresh
  <2> QED BY <2>4, <2>6, <2>7, <2>8
<1>3. CASE UNCHANGED vars
  <2>1. /\ UNCHANGED <<store, lock, queue, pc, key, result>>
        /\ UNCHANGED <<device, read, command, sweep, confirmed, overtaken>>
    BY <1>3 DEF vars, cacheVars, ghostVars
  <2>2. Cache!TypeOK'
    BY <2>1, CacheStep DEF CacheMove, TypeOK, cacheVars
  <2> QED BY <2>1, <2>2 DEF TypeOK, Busy, Known, Fresh
<1> QED BY <1>1, <1>2, <1>3

LEMMA Invariance == Spec => []IInv
<1>1. Init => IInv
  <2> SUFFICES ASSUME Init PROVE IInv
    OBVIOUS
  <2> USE ControlAssumption DEF IInv, Version
  <2>1. Cache!TypeOK
    BY DEF Init, Cache!Init, Cache!TypeOK, Cache!Gone, Cache!Entry
  <2>2. TypeOK
    BY <2>1 DEF Init, TypeOK, NoCommand, NoSweep
  <2>3. Busy /\ Known
    BY DEF Init, Cache!Init, Busy, Known, NoCommand, NoSweep
  <2>4. \A d \in Devices : Fresh(d)
    BY DEF Init, Cache!Init, Cache!Gone, Fresh, NoSweep
  <2> QED BY <2>2, <2>3, <2>4
<1>2. IInv /\ [Next]_vars => IInv'
  <2> SUFFICES ASSUME IInv, [Next]_vars PROVE IInv'
    OBVIOUS
  <2> QED BY ViewStep, CommandStep, SweepStep, WorldStep DEF Next
<1> QED BY <1>1, <1>2, PTL DEF Spec

-----------------------------------------------------------------------------
(* The theorems.                                                           *)

\* Every variable has its type in every reachable state.
THEOREM TypeCorrect == Spec => []TypeOK
<1>1. IInv => TypeOK
  BY DEF IInv
<1> QED BY <1>1, Invariance, PTL

\* The cache is behind what was confirmed only where it was overtaken.
THEOREM StalenessIsOvertaking == Spec => []StaleOnlyIfOvertaken
<1>1. IInv => StaleOnlyIfOvertaken
  <2> SUFFICES ASSUME IInv, NEW d \in Devices, Stale(d) PROVE overtaken[d]
    BY DEF StaleOnlyIfOvertaken
  <2>1. /\ store[d].left > 0 /\ store[d].val < confirmed[d]
        /\ store[d] \in Cache!Entry /\ confirmed[d] \in Version
    BY DEF Stale, Cache!IsValid, IInv, TypeOK, Cache!TypeOK
  <2>2. store[d].val \in Version
    BY <2>1 DEF Cache!Entry, Cache!Gone
  <2> QED BY <2>1, <2>2, ControlAssumption DEF IInv, Fresh, Version
<1> QED BY <1>1, Invariance, PTL

-----------------------------------------------------------------------------
(* The views, the commands and the sweep compose with the cache.           *)

\* Every step does to the cache one of the things it may do.
LEMMA UsesCache == IInv /\ [Next]_vars => CacheMove
<1> SUFFICES ASSUME IInv, [Next]_vars PROVE CacheMove
  OBVIOUS
<1>1. ASSUME NEW c \in Viewers, NEW d \in Devices,
             View(c, d) \/ ViewReturns(c, d) \/ ViewRaises(c, d)
      PROVE  CacheMove
  <2>1. read[c] # NoVersion => read[c] \in Version
    BY DEF IInv, TypeOK
  <2> QED BY <1>1, <2>1 DEF View, ViewReturns, ViewRaises, CacheMove
<1>2. ASSUME NEW u \in Operators, Return(u) PROVE CacheMove
  <2>1. command[u].dev \in Devices
    BY <1>2 DEF IInv, Busy, Return
  <2> QED BY <1>2, <2>1 DEF Return, CacheMove
<1>3. CASE SweepFills
  <2>1. sweep.dev \in Devices /\ sweep.seen \in Version
    BY <1>3 DEF SweepFills, IInv, Busy, TypeOK
  <2> QED BY <1>3, <2>1 DEF SweepFills, CacheMove
<1>4. CASE Tick
  BY <1>4 DEF Tick, CacheMove
<1>5. CASE UNCHANGED cacheVars
  BY <1>5 DEF CacheMove
<1> QED
  BY <1>1, <1>2, <1>3, <1>4, <1>5
     DEF Next, ViewReads, Send, Apply, Raise, Automation, SweepStarts,
         SweepGoesOn, SweepAsks, SweepReads, SweepSkips, SweepSaves,
         SweepSaveFails, SweepEnds, vars

\* Device views, commands and the sweep use the cache as TTLCache says it can
\* be used: what its model leaves out, they do not do to it.
THEOREM CacheIsUsedAsModelled ==
  Spec => Cache!Init /\ [][Cache!Next]_(Cache!cacheVars)
<1>1. CacheMove => [Cache!Next]_(Cache!cacheVars)
  BY DEF CacheMove, Cache!Next, Cache!FetchEnds, Cache!cacheVars, cacheVars
<1>2. Init => Cache!Init
  BY DEF Init
<1> QED BY <1>1, <1>2, UsesCache, Invariance, PTL DEF Spec

\* So the cache they share keeps its inductive invariants.
LEMMA CacheInvariance ==
  Spec => [](IInv /\ CacheProofs!IInv /\ CacheProofs!QueueInv)
<1>1. Init => CacheProofs!IInv /\ CacheProofs!QueueInv
  <2>1. Init => CacheProofs!Init
    BY DEF Init, Cache!Init, Cache!Gone, CacheProofs!Init, CacheProofs!Gone
  <2>2. CacheProofs!Init => CacheProofs!IInv /\ CacheProofs!QueueInv
    BY Assumed, CacheProofs!StartsRight
  <2> QED BY <2>1, <2>2
<1>2. CacheProofs!IInv /\ IInv /\ [Next]_vars => CacheProofs!IInv'
  BY UsesCache, CacheMoves, Assumed, CacheProofs!TypeStep, CacheProofs!LockStep
     DEF CacheProofs!IInv
<1>3. /\ CacheProofs!IInv /\ CacheProofs!QueueInv /\ IInv /\ [Next]_vars
      => CacheProofs!QueueInv'
  BY UsesCache, CacheMoves, Assumed, CacheProofs!QueueStep DEF CacheProofs!IInv
<1> QED BY <1>1, <1>2, <1>3, Invariance, PTL DEF Spec

\* However many pages show a device, one of them at a time asks the box for
\* its state; commands and the sweep, which drop and set entries beside
\* them, let no second one in.
THEOREM OneViewAsks == Spec => []Cache!SingleFlight
<1>1. CacheProofs!IInv => Cache!SingleFlight
  BY DEF CacheProofs!IInv, CacheProofs!LockInv, Cache!SingleFlight
<1> QED BY <1>1, CacheInvariance, PTL

\* A page that waits for another's answer waits for a request to the box that
\* is under way, or for the first of those that wait, which is about to be
\* woken: no command, sweep or failing request takes the wake-up away.
THEOREM NoViewIsStranded == Spec => []CacheProofs!NobodyIsStranded
<1>1. CacheProofs!IInv /\ CacheProofs!QueueInv => CacheProofs!NobodyIsStranded
  BY Assumed, CacheProofs!LockServesQueue
<1> QED BY <1>1, CacheInvariance, PTL

\* Among commands and sweeps the device states keep the contract of the
\* cache: no request for a state begins while a valid one is cached or
\* another request for it is under way.
THEOREM ViewsKeepContract ==
  Spec => CacheProofs!Contract!Init
            /\ [][CacheProofs!Contract!Next]_(CacheProofs!Contract!vars)
<1>1. Init => CacheProofs!Contract!Init
  <2>1. Init => CacheProofs!Init
    BY DEF Init, Cache!Init, Cache!Gone, CacheProofs!Init, CacheProofs!Gone
  <2>2. CacheProofs!Init => CacheProofs!Contract!Init
    BY Assumed, CacheProofs!ContractStart
  <2> QED BY <2>1, <2>2
<1>2. CacheProofs!IInv /\ IInv /\ [Next]_vars =>
        [CacheProofs!Contract!Next]_(CacheProofs!Contract!vars)
  BY UsesCache, CacheMoves, Assumed, CacheProofs!ContractStep
     DEF CacheProofs!IInv
<1> QED BY <1>1, <1>2, CacheInvariance, PTL DEF Spec

=============================================================================
