--------------------------- MODULE FritzBoxProofs ---------------------------
(***************************************************************************)
(* Proofs about FritzBox, for any callers, devices and capabilities: the   *)
(* types, the one connection to the box, that nobody is left waiting for   *)
(* it, the account of its commands, and the truth of its readings.         *)
(***************************************************************************)
EXTENDS FritzBox, FiniteSetTheorems, TLAPS

-----------------------------------------------------------------------------
(* Calls.                                                                  *)

StepName == {"waiting", "connecting", "discovering", "listed", "reading",
             "read", "sent", "carried"}

Calls == [Callers -> Call \cup {Idle}]

\* Who is in some step is in a call.
LEMMA InCall ==
  ASSUME call \in Calls, NEW c \in Callers, call[c].step # "idle"
  PROVE  call[c] \in Call
BY DEF Calls, Idle

\* A call that goes on keeps what it is about; the others stand still.
LEMMA StepsCall ==
  ASSUME call \in Calls, NEW c \in Callers, call[c] \in Call,
         NEW s \in StepName, Steps(c, s)
  PROVE  /\ call' \in Calls /\ call'[c].step = s /\ call'[c].q = call[c].q
         /\ \A d \in Callers \ {c} : call'[d] = call[d]
BY DEF Calls, Call, Steps, StepName

\* A call that ends leaves the others alone.
LEMMA EndsCall ==
  ASSUME call \in Calls, NEW c \in Callers, Ends(c)
  PROVE  /\ call' \in Calls /\ call'[c].step = "idle"
         /\ \A d \in Callers \ {c} : call'[d] = call[d]
BY DEF Calls, Ends, Idle

\* What a call does first is one of the steps, and not a connection; only
\* commands are sent.
LEMMA FirstStepName ==
  ASSUME NEW q \in Queries
  PROVE  /\ FirstStep(q) \in StepName \ {"waiting", "connecting", "read",
                                         "carried"}
         /\ FirstStep(q) = "sent" => q \in Commands
BY DEF FirstStep, StepName, Queries, Commands, Reads

\* A new call is a call.
LEMMA CalledType ==
  ASSUME NEW q \in Queries, NEW s \in StepName
  PROVE  /\ Called(q, s) \in Call
         /\ Called(q, s).step = s /\ Called(q, s).q = q
<1>1. /\ q.op \in {"set_switch", "set_temperature", "get_state", "discover"}
  BY DEF Queries, Commands, Reads
<1> QED BY <1>1 DEF Called, Call, StepName, Reading

\* An answer that is read moves nobody.
LEMMA ReadsCall ==
  ASSUME call \in Calls, NEW c \in Callers, call[c] \in Call,
         NEW v,
         \/ Reads1(c, "is_on", v) /\ v \in BOOLEAN
         \/ Reads1(c, "target", v) /\ v \in Nat \cup {Nothing}
  PROVE  /\ call' \in Calls
         /\ \A d \in Callers : /\ call'[d].step = call[d].step
                              /\ call'[d].q = call[d].q
<1> DEFINE g == IF Reads1(c, "is_on", v) /\ v \in BOOLEAN
                THEN [call[c].got EXCEPT !["is_on"] = v]
                ELSE [call[c].got EXCEPT !["target"] = v]
<1>1. g \in Reading
  BY DEF Call, Reading
<1>2. call' = [call EXCEPT ![c].got = g]
  BY DEF Reads1
<1> HIDE DEF g
<1> QED BY <1>1, <1>2 DEF Calls, Call

-----------------------------------------------------------------------------
(* Type correctness.                                                       *)

\* The types, part by part.
WorldOK == /\ device \in [Ains -> Device]
           /\ paired \subseteq Ains
           /\ wanted \in [Ains -> Temps \cup {Unknown}]
ProviderOK == /\ fha \in BOOLEAN /\ holder \in Callers \cup {NoCaller}
              /\ queue \in Seq(Callers)
              /\ known \in [Ains -> (SUBSET {"SWITCH", "THERMOSTAT"})
                                      \cup {Unknown}]
SentOK == \A c \in Callers :
  call[c].step \in {"sent", "carried"} => call[c].q \in Commands
CountsOK == /\ carried \in [Ains -> Nat] /\ declined \in [Ains -> Nat]
            /\ unattended \in [Ains -> Nat] /\ unanswered \in [Ains -> Nat]
            /\ pending \in [Ains -> Nat]
            /\ events \in [Ains -> Nat] /\ lost \in [Ains -> Nat]

\* Together they are the type invariant.
LEMMA TypeParts ==
  /\ TypeOK <=> WorldOK /\ ProviderOK /\ call \in Calls /\ CountsOK
             /\ SentOK
  /\ TypeOK' <=> WorldOK' /\ ProviderOK' /\ (call \in Calls)' /\ CountsOK'
              /\ SentOK'
<1>1. TypeOK <=> WorldOK /\ ProviderOK /\ call \in Calls /\ CountsOK
             /\ SentOK
  BY DEF TypeOK, WorldOK, ProviderOK, CountsOK, SentOK, Calls
<1>2. TypeOK' <=> WorldOK' /\ ProviderOK' /\ (call \in Calls)' /\ CountsOK'
              /\ SentOK'
  BY DEF TypeOK, WorldOK, ProviderOK, CountsOK, SentOK, Calls
<1> QED BY <1>1, <1>2

\* A call is about a device, and a command about a temperature or a switch.
LEMMA QueryFields ==
  ASSUME NEW q \in Queries
  PROVE  /\ q.ain \in Ains
         /\ q.op = "set_switch" => q.arg \in BOOLEAN
         /\ q.op = "set_temperature" => q.arg \in Temps
BY DEF Queries, Commands, Reads

\* A temperature is sent as off, as boost, or as a number below both.
LEMMA EncodeType ==
  ASSUME NEW t \in Temps
  PROVE  \/ t = Off /\ Encode(t) = 253
         \/ t >= Boost /\ Encode(t) = 254
         \/ /\ t # Off /\ t < Boost
            /\ Encode(t) = t \div 2 /\ t \div 2 \in 0 .. 63
<1>1. t \in Nat
  BY BoxAssumption
<1>2. CASE t # 0 /\ t < 128
  <2>1. t \div 2 \in 0 .. 63
    BY <1>1, <1>2
  <2> QED BY <1>2, <2>1 DEF Encode, Off, Boost
<1> QED BY <1>1, <1>2 DEF Encode, Off, Boost

\* What is read of a number is a number.
LEMMA DecodeRaw ==
  /\ Decode(Nothing) = Nothing
  /\ \A raw \in Raw :
       /\ raw # Nothing
       /\ Decode(raw) \in Nat /\ Decode(raw) \notin {Unknown, Nothing}
       /\ raw = 253 => Decode(raw) = 0
       /\ raw = 254 => Decode(raw) = 128
       /\ raw \notin {253, 254} => Decode(raw) = 2 * raw
<1>1. Decode(Nothing) = Nothing
  BY DEF Decode
<1>2. ASSUME NEW raw \in Raw
      PROVE  /\ raw # Nothing /\ Decode(raw) \in Nat
             /\ raw = 253 => Decode(raw) = 0
             /\ raw = 254 => Decode(raw) = 128
             /\ raw \notin {253, 254} => Decode(raw) = 2 * raw
  <2>1. raw \in Nat
    BY DEF Raw
  <2>2. raw # Nothing
    BY <2>1, BoxAssumption
  <2> QED BY <2>1, <2>2 DEF Decode, Off, Boost
<1>3. \A n \in Nat : n \notin {Unknown, Nothing}
  BY BoxAssumption
<1> QED BY <1>1, <1>2, <1>3

\* The box can store what it makes of it, and what it answers is a number or
\* nothing.
LEMMA CodecType ==
  /\ \A t \in Temps : Kept(Encode(t)) \subseteq Raw
  /\ \A raw \in Raw \cup {Nothing} : Decode(raw) \in Nat \cup {Nothing}
<1>1. ASSUME NEW raw \in {253, 254} \cup 0 .. 63 PROVE Kept(raw) \subseteq Raw
  BY DEF Kept, Raw
<1>2. ASSUME NEW t \in Temps PROVE Kept(Encode(t)) \subseteq Raw
  BY <1>1, EncodeType
<1> QED BY <1>2, DecodeRaw

\* Whoever remembers what a device shows stays in its call.
LEMMA WitnessCall ==
  ASSUME WorldOK, NEW a \in Ains, NEW r \in Call
  PROVE  /\ Witness(r, a) \in Call
         /\ Witness(r, a).step = r.step /\ Witness(r, a).q = r.q
         /\ Witness(r, a).op = r.op /\ Witness(r, a).got = r.got
         /\ Witness(r, a).ons = r.ons \cup SwitchAnswers(device[a])
         /\ Witness(r, a).aims = r.aims \cup Aims(a)
<1>1. SwitchAnswers(device[a]) \subseteq {"0", "1", "inval"}
  BY DEF SwitchAnswers
<1>2. Aims(a) \subseteq Temps \cup {Unknown, Nothing}
  BY DEF Aims, WorldOK
<1> QED BY <1>1, <1>2 DEF Witness, Call

\* A device that changes moves no call.
LEMMA ChangesCall ==
  ASSUME WorldOK, NEW calls \in Calls, NEW a \in Ains, NEW d, NEW w,
         Changes(a, d, w, calls)
  PROVE  /\ call' \in Calls
         /\ \A c \in Callers : /\ call'[c].step = calls[c].step
                              /\ call'[c].q = calls[c].q
<1>1. \A c \in Callers : calls[c].step = "reading" => calls[c] \in Call
  BY DEF Calls, Idle
<1> QED BY <1>1, WitnessCall DEF Changes, Calls

\* A reading that is complete keeps what it has read, and remembers what the
\* device shows.
LEMMA ReadDoneCall ==
  ASSUME TypeOK, NEW c \in Callers, ReadDone(c)
  PROVE  /\ call[c] \in Call /\ call[c].step = "reading"
         /\ call' \in Calls /\ call'[c].step = "read"
         /\ call'[c].q = call[c].q /\ call'[c].got = call[c].got
         /\ call'[c].ons = call[c].ons
                             \cup SwitchAnswers(device[call[c].q.ain])
         /\ call'[c].aims = call[c].aims \cup Aims(call[c].q.ain)
         /\ \A d \in Callers \ {c} : call'[d] = call[d]
<1>1. call \in Calls /\ WorldOK /\ call[c] \in Call /\ call[c].step = "reading"
  BY TypeParts, InCall DEF ReadDone
<1>2. PICK a \in Ains : a = call[c].q.ain
  BY <1>1, QueryFields DEF Call
<1> DEFINE w == Witness(call[c], a)
<1>3. call' = [call EXCEPT ![c] = [w EXCEPT !.step = "read"]]
  BY <1>2 DEF ReadDone
<1>4. /\ w \in Call /\ w.q = call[c].q /\ w.got = call[c].got
      /\ w.ons = call[c].ons \cup SwitchAnswers(device[a])
      /\ w.aims = call[c].aims \cup Aims(a)
  BY <1>1, WitnessCall
<1> HIDE DEF w
<1> QED BY <1>1, <1>2, <1>3, <1>4 DEF Calls, Call

\* A step that only moves the call c.
LEMMA QuietStep ==
  ASSUME TypeOK, NEW c \in Callers, WorldOK', ProviderOK', CountsOK',
         \/ Ends(c)
         \/ /\ call[c].step # "idle"
            /\ \E s \in StepName :
                 /\ Steps(c, s)
                 /\ s \in {"sent", "carried"} => call[c].q \in Commands
  PROVE  TypeOK'
<1>1. call \in Calls /\ SentOK
  BY TypeParts
<1>2. CASE Ends(c)
  <2>1. /\ call' \in Calls /\ call'[c].step = "idle"
        /\ \A d \in Callers \ {c} : call'[d] = call[d]
    BY <1>1, <1>2, EndsCall
  <2> QED BY <1>1, <2>1, TypeParts DEF SentOK
<1>3. ASSUME NEW s \in StepName, Steps(c, s), call[c].step # "idle",
             s \in {"sent", "carried"} => call[c].q \in Commands
      PROVE  TypeOK'
  <2>1. /\ call' \in Calls /\ call'[c].step = s /\ call'[c].q = call[c].q
        /\ \A d \in Callers \ {c} : call'[d] = call[d]
    BY <1>1, <1>3, InCall, StepsCall
  <2> QED BY <1>1, <1>3, <2>1, TypeParts DEF SentOK
<1> QED BY <1>2, <1>3

\* What is left alone keeps its type.
LEMMA Untouched ==
  ASSUME TypeOK
  PROVE  /\ UNCHANGED world => WorldOK' /\ carried' \in [Ains -> Nat]
         /\ UNCHANGED provider => ProviderOK'
         /\ UNCHANGED <<world, audit>> => WorldOK' /\ CountsOK'
BY TypeParts DEF WorldOK, ProviderOK, CountsOK, world, provider, audit

\* The connection is asked for, awaited, made or refused.
LEMMA ConnectTypes ==
  ASSUME TypeOK, NEW c \in Callers,
         \/ \E q \in Queries : Begin(c, q)
         \/ Woken(c) \/ Connected(c) \/ ConnectFails(c)
  PROVE  TypeOK'
<1> USE TypeParts, Untouched
<1>1. ASSUME NEW q \in Queries, Begin(c, q) PROVE TypeOK'
  <2>1. PICK s \in StepName :
          /\ call' = [call EXCEPT ![c] = Called(q, s)]
          /\ holder' = IF s = "connecting" THEN c ELSE holder
          /\ queue' = IF s = "waiting" THEN Append(queue, c) ELSE queue
          /\ s \in {"sent", "carried"} => q \in Commands
    BY <1>1, FirstStepName DEF Begin, StepName
  <2>2. call' \in Calls /\ SentOK'
    BY <2>1, CalledType DEF Calls, SentOK
  <2>3. ProviderOK'
    BY <1>1, <2>1 DEF Begin, ProviderOK
  <2> QED BY <1>1, <2>2, <2>3 DEF Begin
<1>2. CASE Woken(c)
  <2>1. ProviderOK'
    BY <1>2 DEF Woken, Granted, ProviderOK
  <2>2. call[c].q \in Queries /\ call[c].step # "idle"
    BY <1>2, InCall DEF Woken, Granted, Call
  <2>3. Steps(c, FirstStep(call[c].q)) \/ Steps(c, "connecting")
    BY <1>2 DEF Woken
  <2> QED BY <1>2, <2>1, <2>2, <2>3, FirstStepName, QuietStep
          DEF Woken, StepName
<1>3. CASE Connected(c)
  <2>1. ProviderOK'
    BY <1>3 DEF Connected, ProviderOK
  <2>2. call[c].q \in Queries /\ call[c].step # "idle"
    BY <1>3, InCall DEF Connected, Call
  <2> QED BY <1>3, <2>1, <2>2, FirstStepName, QuietStep DEF Connected
<1>4. CASE ConnectFails(c)
  <2>1. ProviderOK'
    BY <1>4 DEF ConnectFails, ProviderOK
  <2> QED BY <1>4, <2>1, QuietStep DEF ConnectFails
<1> QED BY <1>1, <1>2, <1>3, <1>4

\* Discoveries and readings.
LEMMA ReadTypes ==
  ASSUME TypeOK, NEW c \in Callers,
         \/ Lists(c) \/ Learns(c)
         \/ ReadSwitch(c) \/ ReadTarget(c) \/ ReadDone(c) \/ ReadReturns(c)
         \/ ReadFails(c)
  PROVE  TypeOK'
<1> USE TypeParts, Untouched
<1>1. ASSUME UNCHANGED <<world, provider, audit>>, call' \in Calls, SentOK'
      PROVE  TypeOK'
  BY <1>1
<1>2. CASE Lists(c)
  <2> DEFINE r == [call[c] EXCEPT !.step = "listed", !.list = paired]
  <2>1. call[c] \in Call /\ call' = [call EXCEPT ![c] = r]
    BY <1>2, InCall DEF Lists
  <2>2. r \in Call /\ r.step = "listed"
    BY <2>1 DEF Call, WorldOK
  <2> HIDE DEF r
  <2>3. call' \in Calls /\ SentOK'
    BY <2>1, <2>2 DEF Calls, SentOK
  <2> QED BY <1>1, <1>2, <2>3 DEF Lists
<1>3. CASE Learns(c)
  <2>1. known' \in [Ains -> (SUBSET {"SWITCH", "THERMOSTAT"}) \cup {Unknown}]
    BY <1>3, BoxAssumption DEF Learns, ProviderOK
  <2>2. ProviderOK'
    BY <1>3, <2>1 DEF Learns, ProviderOK
  <2>3. Ends(c) \/ (call[c].step # "idle" /\ Steps(c, "reading"))
    BY <1>3 DEF Learns
  <2> QED BY <1>3, <2>2, <2>3, QuietStep DEF Learns, StepName
<1>4. CASE ReadSwitch(c)
  <2>1. call[c] \in Call
    BY <1>4, InCall DEF ReadSwitch
  <2>2. PICK raw : Reads1(c, "is_on", raw = "1")
    BY <1>4 DEF ReadSwitch
  <2>3. call' \in Calls /\ SentOK'
    BY <2>1, <2>2, ReadsCall DEF SentOK
  <2> QED BY <1>1, <1>4, <2>3 DEF ReadSwitch
<1>5. CASE ReadTarget(c)
  <2>1. call[c] \in Call
    BY <1>5, InCall DEF ReadTarget
  <2>2. PICK raw \in Raw \cup {Nothing} : Reads1(c, "target", Decode(raw))
    BY <1>5, <2>1, QueryFields DEF ReadTarget, TargetAnswers, Call, WorldOK, Device
  <2>3. call' \in Calls /\ SentOK'
    BY <2>1, <2>2, CodecType, ReadsCall DEF SentOK
  <2> QED BY <1>1, <1>5, <2>3 DEF ReadTarget
<1>6. CASE ReadDone(c)
  <2>1. /\ call' \in Calls /\ call'[c].step = "read"
        /\ \A d \in Callers \ {c} : call'[d] = call[d]
    BY <1>6, ReadDoneCall
  <2> QED BY <1>1, <1>6, <2>1 DEF ReadDone, SentOK
<1>7. CASE ReadReturns(c) \/ ReadFails(c)
  BY <1>7, QuietStep DEF ReadReturns, ReadFails
<1> QED BY <1>2, <1>3, <1>4, <1>5, <1>6, <1>7

\* A device takes a command, or is turned by hand.
LEMMA ChangedDevice ==
  ASSUME TypeOK, NEW a \in Ains, NEW d \in Device, NEW w \in Temps \cup {Unknown},
         NEW calls \in Calls, Changes(a, d, w, calls),
         \A c \in Callers :
           calls[c].step \in {"sent", "carried"} => calls[c].q \in Commands,
         UNCHANGED <<paired, provider, audit>>,
         carried' \in [Ains -> Nat]
  PROVE  TypeOK'
<1>1. device' \in [Ains -> Device] /\ wanted' \in [Ains -> Temps \cup {Unknown}]
  BY TypeParts DEF WorldOK, Changes
<1>2. WorldOK' /\ ProviderOK' /\ CountsOK'
  BY <1>1, TypeParts, Untouched DEF WorldOK, CountsOK, audit
<1>3. SentOK'
  BY ChangesCall, TypeParts DEF SentOK
<1> QED BY <1>2, <1>3, ChangesCall, TypeParts

\* Commands.
LEMMA CommandTypes ==
  ASSUME TypeOK, NEW c \in Callers,
         \/ Carries(c) \/ Declines(c) \/ CommandFails(c)
         \/ Answered(c) \/ AnswerLost(c)
  PROVE  TypeOK'
<1> USE TypeParts, Untouched
<1> DEFINE q == call[c].q
           a == q.ain
<1>1. call[c] \in Call /\ q \in Commands
  BY InCall DEF Carries, Declines, CommandFails, Answered, AnswerLost, SentOK
<1>2. /\ q \in Queries /\ a \in Ains
      /\ q.op = "set_temperature" => q.arg \in Temps
      /\ q.op = "set_switch" => q.arg \in BOOLEAN
      /\ q.op = "set_switch" \/ q.op = "set_temperature"
  BY <1>1, QueryFields DEF Call, Commands
<1>3. CASE Carries(c)
  <2> DEFINE w == IF q.op = "set_temperature" THEN q.arg ELSE wanted[a]
             calls == [call EXCEPT ![c].step = "carried"]
  <2>1. w \in Temps \cup {Unknown}
    BY <1>2 DEF WorldOK
  <2>2. carried' \in [Ains -> Nat]
    <3>1. carried' = [carried EXCEPT ![a] = carried[a] + 1]
      BY <1>3 DEF Carries
    <3> QED BY <1>2, <3>1 DEF CountsOK
  <2>3. After(device[a], q) \subseteq Device
    BY <1>2, CodecType DEF After, WorldOK, Device
  <2>4. calls \in Calls
    BY <1>1 DEF Calls, Call
  <2>5. \A d \in Callers :
          calls[d].step \in {"sent", "carried"} => calls[d].q \in Commands
    BY <1>1 DEF Calls, Call, SentOK
  <2>6. /\ \E d \in After(device[a], q) : Changes(a, d, w, calls)
        /\ UNCHANGED <<paired, provider, audit>>
    BY <1>3 DEF Carries
  <2> HIDE DEF calls, q, w
  <2> QED BY <1>2, <2>1, <2>2, <2>3, <2>4, <2>5, <2>6, ChangedDevice
<1>4. CASE CommandFails(c)
  BY <1>4, QuietStep DEF CommandFails
<1>5. CASE Answered(c) \/ AnswerLost(c) \/ Declines(c)
  <2>1. CountsOK'
    BY <1>2, <1>5 DEF Answered, AnswerLost, Declines, More, CountsOK, world
  <2> QED BY <1>5, <2>1, QuietStep DEF Answered, AnswerLost, Declines
<1> QED BY <1>3, <1>4, <1>5

\* What hands and the radio make of a device.
LEMMA TurnedDevice ==
  ASSUME WorldOK, NEW a \in Ains, ByHand(a) \/ Reaches(a)
  PROVE  \E d \in Device, w \in Temps \cup {Unknown} :
           /\ Changes(a, d, w, call)
           /\ w = Unknown \/ (d.hkr = device[a].hkr /\ w = wanted[a])
<1>1. /\ device[a] \in Device /\ 16 \in Raw
      /\ wanted[a] \in Temps \cup {Unknown}
  BY DEF WorldOK, Raw
<1>2. (~device[a].on) \in BOOLEAN /\ (~device[a].reach) \in BOOLEAN
  BY Zenon
<1>3. /\ [device[a] EXCEPT !.on = ~@] \in Device
      /\ [device[a] EXCEPT !.on = ~@].hkr = device[a].hkr
      /\ [device[a] EXCEPT !.hkr = 16] \in Device
      /\ [device[a] EXCEPT !.reach = ~@] \in Device
      /\ [device[a] EXCEPT !.reach = ~@].hkr = device[a].hkr
  BY <1>1, <1>2 DEF Device
<1> QED BY <1>1, <1>3 DEF ByHand, Reaches

\* The audit task, the household, and the end of the process.
LEMMA OutsideTypes ==
  ASSUME TypeOK,
         \/ \E a \in Ains : EventEnds(a) \/ ByHand(a) \/ Reaches(a) \/ Pairs(a)
         \/ Stop
  PROVE  TypeOK'
<1> USE TypeParts, Untouched
<1>1. ASSUME NEW a \in Ains, EventEnds(a) PROVE TypeOK'
  <2>1. CountsOK'
    BY <1>1 DEF EventEnds, CountsOK, world
  <2> QED BY <1>1, <2>1 DEF EventEnds, SentOK, Calls
<1>2. ASSUME NEW a \in Ains, ByHand(a) \/ Reaches(a) PROVE TypeOK'
  <2>1. PICK d \in Device, w \in Temps \cup {Unknown} : Changes(a, d, w, call)
    BY <1>2, TurnedDevice
  <2>2. carried' = carried
    BY <1>2 DEF ByHand, Reaches
  <2> QED BY <1>2, <2>1, <2>2, ChangedDevice
          DEF ByHand, Reaches, SentOK, CountsOK
<1>3. ASSUME NEW a \in Ains, Pairs(a) PROVE TypeOK'
  BY <1>3 DEF Pairs, WorldOK, CountsOK, SentOK, Calls, audit
<1>4. CASE Stop
  <2>1. \A a \in Ains : Cardinality({c \in Callers :
          call[c].step = "carried" /\ call[c].q.ain = a}) \in Nat
    <3> SUFFICES ASSUME NEW a \in Ains
                 PROVE  Cardinality({c \in Callers :
                          call[c].step = "carried" /\ call[c].q.ain = a}) \in Nat
      OBVIOUS
    <3>1. IsFiniteSet({c \in Callers :
            call[c].step = "carried" /\ call[c].q.ain = a})
      BY BoxAssumption, FS_Subset
    <3> QED BY <3>1, FS_CardinalityType
  <2> DEFINE n(a) == Cardinality({c \in Callers :
                       call[c].step = "carried" /\ call[c].q.ain = a})
  <2> HIDE DEF n
  <2>2. /\ unanswered' = [a \in Ains |-> unanswered[a] + n(a)]
        /\ unattended' = unattended /\ declined' = declined
        /\ lost' = [a \in Ains |-> lost[a] + pending[a]]
        /\ pending' = [a \in Ains |-> 0]
        /\ carried' = carried /\ events' = events
    BY <1>4 DEF Stop, Zero, world, n
  <2>3. CountsOK'
    <3>1. \A a \in Ains : n(a) \in Nat
      BY <2>1 DEF n
    <3> QED BY <2>2, <3>1 DEF CountsOK
  <2>4. ProviderOK'
    <3>1. <<>> \in Seq(Callers)
      OBVIOUS
    <3> QED BY <1>4, <3>1 DEF Stop, ProviderOK
  <2>5. call' \in Calls /\ SentOK'
    BY <1>4 DEF Stop, Calls, SentOK, Idle
  <2> QED BY <1>4, <2>3, <2>4, <2>5 DEF Stop
<1> QED BY <1>1, <1>2, <1>3, <1>4

\* Every variable has its type in every reachable state.
THEOREM TypeCorrect == Spec => []TypeOK
<1>1. Init => TypeOK
  <2> SUFFICES ASSUME Init PROVE TypeOK
    OBVIOUS
  <2>1. WorldOK
    BY DEF Init, WorldOK, Raw, Device
  <2>2. ProviderOK
    <3>1. <<>> \in Seq(Callers)
      OBVIOUS
    <3> QED BY <3>1 DEF Init, ProviderOK
  <2>3. CountsOK
    BY DEF Init, CountsOK, Zero
  <2>4. call \in Calls /\ SentOK
    BY DEF Init, Calls, SentOK, Idle
  <2> QED BY <2>1, <2>2, <2>3, <2>4, TypeParts
<1>2. TypeOK /\ [Next]_vars => TypeOK'
  <2> SUFFICES ASSUME TypeOK, [Next]_vars PROVE TypeOK'
    OBVIOUS
  <2>1. CASE UNCHANGED vars
    BY <2>1, TypeParts, Untouched DEF vars, SentOK, Calls
  <2> QED BY <2>1, ConnectTypes, ReadTypes, CommandTypes, OutsideTypes
          DEF Next, Proceeds
<1> QED BY <1>1, <1>2, PTL DEF Spec

-----------------------------------------------------------------------------
(* One connection.                                                         *)

\* Who is connecting holds the lock, and there is no connection yet.
ConnectorHoldsLock ==
  \A c \in Callers : call[c].step = "connecting" => holder = c /\ ~fha

\* A step that concerns neither the lock, nor who waits for it, nor who is
\* connecting.
Aside == /\ UNCHANGED <<fha, holder, queue>>
         /\ \A c \in Callers : \A s \in {"waiting", "connecting"} :
              call'[c].step = s <=> call[c].step = s

\* That is every step but those that ask for the connection, await it, make
\* it or give it up.
LEMMA AsideSteps ==
  ASSUME TypeOK,
         \/ \E c \in Callers :
              \/ Lists(c) \/ Learns(c)
              \/ ReadSwitch(c) \/ ReadTarget(c) \/ ReadDone(c) \/ ReadReturns(c)
              \/ ReadFails(c)
              \/ Carries(c) \/ Declines(c) \/ CommandFails(c)
              \/ Answered(c) \/ AnswerLost(c)
         \/ \E a \in Ains : EventEnds(a) \/ ByHand(a) \/ Reaches(a) \/ Pairs(a)
         \/ UNCHANGED vars
  PROVE  Aside
<1> USE TypeParts
<1> DEFINE Apart(s) == s \notin {"waiting", "connecting"}
<1>1. ASSUME NEW c \in Callers,
             Apart(call[c].step), Apart(call'[c].step),
             \A d \in Callers \ {c} : call'[d] = call[d],
             UNCHANGED <<fha, holder, queue>>
      PROVE  Aside
  BY <1>1 DEF Aside
<1>2. ASSUME NEW c \in Callers, Lists(c) PROVE Aside
  <2>1. call[c] \in Call
    BY <1>2, InCall DEF Lists
  <2>2. /\ call'[c].step = "listed"
        /\ \A d \in Callers \ {c} : call'[d] = call[d]
    BY <1>2, <2>1 DEF Lists, Calls, Call
  <2> QED BY <1>1, <1>2, <2>2 DEF Lists, provider
<1>3. ASSUME NEW c \in Callers,
             \/ Learns(c) \/ ReadReturns(c) \/ ReadFails(c)
             \/ Declines(c) \/ CommandFails(c) \/ Answered(c) \/ AnswerLost(c)
      PROVE  Aside
  <2>1. call[c] \in Call /\ Apart(call[c].step)
    BY <1>3, InCall DEF Learns, ReadReturns, ReadFails, Declines,
                        CommandFails, Answered, AnswerLost
  <2>2. Ends(c) \/ Steps(c, "reading")
    BY <1>3 DEF Learns, ReadReturns, ReadFails, Declines, CommandFails,
                Answered, AnswerLost
  <2>3. /\ Apart(call'[c].step)
        /\ \A d \in Callers \ {c} : call'[d] = call[d]
    BY <2>1, <2>2, StepsCall, EndsCall DEF StepName
  <2>4. UNCHANGED <<fha, holder, queue>>
    BY <1>3 DEF Learns, ReadReturns, ReadFails, Declines, CommandFails,
                Answered, AnswerLost, provider
  <2> QED BY <1>1, <2>1, <2>3, <2>4
<1>4. ASSUME NEW c \in Callers, ReadSwitch(c) \/ ReadTarget(c)
      PROVE  Aside
  <2>1. call[c] \in Call
    BY <1>4, InCall DEF ReadSwitch, ReadTarget
  <2>2. \A v : Reads1(c, "is_on", v) \/ Reads1(c, "target", v) =>
          /\ call'[c].step = call[c].step
          /\ \A d \in Callers \ {c} : call'[d] = call[d]
    BY <2>1 DEF Reads1, Calls, Call
  <2>3. /\ call'[c].step = call[c].step
        /\ \A d \in Callers \ {c} : call'[d] = call[d]
    BY <1>4, <2>2 DEF ReadSwitch, ReadTarget
  <2> QED BY <1>4, <2>3 DEF ReadSwitch, ReadTarget, provider, Aside
<1>5. ASSUME NEW c \in Callers, Carries(c) PROVE Aside
  <2> DEFINE calls == [call EXCEPT ![c].step = "carried"]
  <2>1. call[c] \in Call /\ Apart(call[c].step)
    BY <1>5, InCall DEF Carries
  <2>2. /\ calls \in Calls /\ Apart(calls[c].step)
        /\ \A d \in Callers \ {c} : calls[d] = call[d]
    BY <2>1 DEF Calls, Call
  <2>3. /\ \E d, w : Changes(call[c].q.ain, d, w, calls)
        /\ UNCHANGED <<fha, holder, queue>>
    BY <1>5 DEF Carries, provider
  <2>5. call[c].q.ain \in Ains
    BY <2>1, QueryFields DEF Call
  <2> HIDE DEF calls
  <2>4. \A d \in Callers : call'[d].step = calls[d].step
    BY <2>2, <2>3, <2>5, ChangesCall
  <2> QED BY <2>1, <2>2, <2>3, <2>4 DEF Aside
<1>6. ASSUME NEW a \in Ains,
             EventEnds(a) \/ ByHand(a) \/ Reaches(a) \/ Pairs(a)
      PROVE  Aside
  <2>1. call' = call \/ \E d, w : Changes(a, d, w, call)
    BY <1>6 DEF EventEnds, ByHand, Reaches, Pairs
  <2>2. UNCHANGED <<fha, holder, queue>>
    BY <1>6 DEF EventEnds, ByHand, Reaches, Pairs, provider
  <2> QED BY <2>1, <2>2, ChangesCall DEF Aside
<1>7. CASE UNCHANGED vars
  BY <1>7 DEF vars, provider, Aside
<1>8. ASSUME NEW c \in Callers, ReadDone(c) PROVE Aside
  BY <1>1, <1>8, ReadDoneCall DEF ReadDone, provider
<1> QED BY <1>2, <1>3, <1>4, <1>5, <1>6, <1>7, <1>8

\* What the other steps do to the lock and to the call they belong to.
LEMMA ConnectSteps ==
  ASSUME TypeOK, NEW c \in Callers,
         \/ \E q \in Queries : Begin(c, q)
         \/ Woken(c) \/ Connected(c) \/ ConnectFails(c)
  PROVE  /\ \A d \in Callers \ {c} : call'[d] = call[d]
         /\ \/ /\ call[c].step = "idle" /\ call'[c].step = "waiting"
               /\ ~fha /\ queue' = Append(queue, c) /\ UNCHANGED <<fha, holder>>
            \/ /\ call[c].step = "idle"
               /\ call'[c].step \notin {"waiting", "connecting"}
               /\ UNCHANGED <<fha, holder, queue>>
            \/ /\ call[c].step = "idle" /\ call'[c].step = "connecting"
               /\ ~fha /\ holder = NoCaller /\ holder' = c
               /\ UNCHANGED <<fha, queue>>
            \/ /\ Granted(c) /\ call'[c].step = "connecting"
               /\ ~fha /\ holder' = c /\ UNCHANGED fha
            \/ /\ Granted(c) /\ call'[c].step \notin {"waiting", "connecting"}
               /\ UNCHANGED <<fha, holder>>
            \/ /\ call[c].step = "connecting"
               /\ call'[c].step \notin {"waiting", "connecting"}
               /\ holder' = NoCaller /\ UNCHANGED queue
<1> USE TypeParts
<1>1. ASSUME NEW q \in Queries, Begin(c, q)
      PROVE  /\ call[c].step = "idle"
             /\ \A d \in Callers \ {c} : call'[d] = call[d]
             /\ \/ /\ call'[c].step = "waiting" /\ ~fha
                   /\ queue' = Append(queue, c) /\ UNCHANGED <<fha, holder>>
                \/ /\ call'[c].step = "connecting" /\ ~fha
                   /\ holder = NoCaller /\ holder' = c /\ UNCHANGED <<fha, queue>>
                \/ /\ call'[c].step \notin {"waiting", "connecting"}
                   /\ UNCHANGED <<fha, holder, queue>>
  <2>1. PICK s \in StepName :
          /\ call' = [call EXCEPT ![c] = Called(q, s)]
          /\ holder' = IF s = "connecting" THEN c ELSE holder
          /\ queue' = IF s = "waiting" THEN Append(queue, c) ELSE queue
          /\ s = "connecting" => ~fha /\ holder = NoCaller
          /\ s = "waiting" => ~fha
    BY <1>1, FirstStepName DEF Begin, StepName
  <2>2. call'[c].step = s /\ \A d \in Callers \ {c} : call'[d] = call[d]
    BY <2>1, CalledType DEF Calls
  <2> QED BY <1>1, <2>1, <2>2 DEF Begin, Idle
<1>2. ASSUME Woken(c)
      PROVE  /\ Granted(c) /\ UNCHANGED fha
             /\ \A d \in Callers \ {c} : call'[d] = call[d]
             /\ \/ call'[c].step = "connecting" /\ ~fha /\ holder' = c
                \/ /\ call'[c].step \notin {"waiting", "connecting"}
                   /\ UNCHANGED holder
  <2>1. call[c] \in Call
    BY <1>2, InCall DEF Woken, Granted
  <2>2. call[c].q \in Queries
    BY <2>1 DEF Call
  <2>3. PICK s \in StepName :
          /\ Steps(c, s)
          /\ \/ s = "connecting" /\ ~fha /\ holder' = c
             \/ s \notin {"waiting", "connecting"} /\ UNCHANGED holder
    BY <1>2, <2>2, FirstStepName DEF Woken, StepName
  <2>4. call'[c].step = s /\ \A d \in Callers \ {c} : call'[d] = call[d]
    BY <2>1, <2>3, StepsCall
  <2> QED BY <1>2, <2>3, <2>4 DEF Woken
<1>3. ASSUME Connected(c) \/ ConnectFails(c)
      PROVE  /\ call[c].step = "connecting" /\ holder' = NoCaller /\ UNCHANGED queue
             /\ call'[c].step \notin {"waiting", "connecting"}
             /\ \A d \in Callers \ {c} : call'[d] = call[d]
  <2>1. call[c] \in Call
    BY <1>3, InCall DEF Connected, ConnectFails
  <2>2. call[c].q \in Queries
    BY <2>1 DEF Call
  <2>3. Ends(c) \/ Steps(c, FirstStep(call[c].q))
    BY <1>3 DEF Connected, ConnectFails
  <2>4. /\ call'[c].step \notin {"waiting", "connecting"}
        /\ \A d \in Callers \ {c} : call'[d] = call[d]
    BY <2>1, <2>2, <2>3, FirstStepName, StepsCall, EndsCall
  <2> QED BY <1>3, <2>4 DEF Connected, ConnectFails
<1> QED BY <1>1, <1>2, <1>3

\* Every step keeps the lock with who is connecting.
LEMMA LockStep ==
  TypeOK /\ ConnectorHoldsLock /\ [Next]_vars => ConnectorHoldsLock'
<1> SUFFICES ASSUME TypeOK, ConnectorHoldsLock, [Next]_vars
             PROVE  ConnectorHoldsLock'
  OBVIOUS
<1>1. ASSUME NEW c \in Callers,
             \/ \E q \in Queries : Begin(c, q)
             \/ Woken(c) \/ Connected(c) \/ ConnectFails(c)
      PROVE  ConnectorHoldsLock'
  BY <1>1, ConnectSteps, BoxAssumption DEF Granted, ConnectorHoldsLock
<1>2. CASE Aside
  BY <1>2 DEF Aside, ConnectorHoldsLock
<1>3. CASE Stop
  BY <1>3 DEF Stop, Idle, ConnectorHoldsLock
<1> QED BY <1>1, <1>2, <1>3, AsideSteps DEF Next, Proceeds

\* One login at a time is sent to the box, and none over a connection, in
\* every reachable state.
THEOREM ConnectionIsOne == Spec => []OneConnection
<1>1. Init => ConnectorHoldsLock
  BY DEF Init, Idle, ConnectorHoldsLock
<1>2. ConnectorHoldsLock => OneConnection
  BY DEF ConnectorHoldsLock, OneConnection
<1> QED BY <1>1, <1>2, LockStep, TypeCorrect, PTL DEF Spec

-----------------------------------------------------------------------------
(* Nobody is left waiting for the connection.                              *)

\* q names every element of S once, and nothing else.
Names(q, S) ==
  /\ \A i \in 1 .. Len(q) : q[i] \in S
  /\ \A x \in S : \E i \in 1 .. Len(q) : q[i] = x
  /\ \A i, j \in 1 .. Len(q) : q[i] = q[j] => i = j

LEMMA EmptyNames == ASSUME NEW S PROVE Names(<<>>, S) <=> S = {}
BY DEF Names

LEMMA AppendNames ==
  ASSUME NEW T, NEW S, NEW q \in Seq(T), NEW x \in T, x \notin S, Names(q, S)
  PROVE  Names(Append(q, x), S \cup {x})
<1> DEFINE a == Append(q, x)
<1>1. /\ Len(q) \in Nat /\ Len(a) = Len(q) + 1
      /\ \A i \in 1 .. Len(q) : a[i] = q[i]
      /\ a[Len(q) + 1] = x
  OBVIOUS
<1> HIDE DEF a
<1>2. \A i \in 1 .. Len(a) : a[i] \in S \cup {x}
  BY <1>1 DEF Names
<1>3. \A y \in S \cup {x} : \E i \in 1 .. Len(a) : a[i] = y
  <2>1. ASSUME NEW y \in S PROVE \E i \in 1 .. Len(a) : a[i] = y
    BY <1>1 DEF Names
  <2>2. Len(q) + 1 \in 1 .. Len(a)
    BY <1>1
  <2> QED BY <1>1, <2>1, <2>2
<1>4. ASSUME NEW i \in 1 .. Len(a), NEW j \in 1 .. Len(a), a[i] = a[j]
      PROVE  i = j
  BY <1>1, <1>4 DEF Names
<1> QED BY <1>2, <1>3, <1>4 DEF Names, a

LEMMA TailNames ==
  ASSUME NEW T, NEW S, NEW q \in Seq(T), q # <<>>, Names(q, S)
  PROVE  /\ Head(q) \in S
         /\ Names(Tail(q), S \ {Head(q)})
<1> DEFINE t == Tail(q)
<1>1. /\ Len(q) \in Nat \ {0} /\ Len(t) = Len(q) - 1 /\ Head(q) = q[1]
      /\ \A i \in 1 .. Len(q) - 1 : t[i] = q[i + 1]
  OBVIOUS
<1> HIDE DEF t
<1>2. 1 \in 1 .. Len(q) /\ Head(q) \in S
  BY <1>1 DEF Names
<1>3. ASSUME NEW i \in 1 .. Len(t)
      PROVE  i + 1 \in 1 .. Len(q) /\ i + 1 # 1 /\ t[i] = q[i + 1]
  BY <1>1
<1>4. \A i \in 1 .. Len(t) : t[i] \in S \ {Head(q)}
  BY <1>1, <1>2, <1>3 DEF Names
<1>5. ASSUME NEW y \in S \ {Head(q)} PROVE \E i \in 1 .. Len(t) : t[i] = y
  <2>1. PICK i \in 1 .. Len(q) : q[i] = y
    BY DEF Names
  <2>2. i # 1
    BY <1>1, <2>1
  <2>3. i - 1 \in 1 .. Len(t) /\ t[i - 1] = q[i]
    BY <1>1, <2>2
  <2> QED BY <2>1, <2>3
<1>6. ASSUME NEW i \in 1 .. Len(t), NEW j \in 1 .. Len(t), t[i] = t[j]
      PROVE  i = j
  <2>1. i + 1 = j + 1
    BY <1>3, <1>6 DEF Names
  <2> QED BY <2>1
<1> QED BY <1>2, <1>4, <1>5, <1>6 DEF Names, t

Waiting == {c \in Callers : call[c].step = "waiting"}

\* The queue of the lock names those who wait for it, and a lock that is
\* taken is held by somebody who is connecting.
QueueInv == /\ Names(queue, Waiting)
            /\ holder # NoCaller => call[holder].step = "connecting"

\* Whatever became of the attempts before, if anybody waits for the
\* connection then somebody is making one, or the lock is free and the first
\* of the queue is about to be woken.
NobodyIsStranded ==
  \A c \in Callers : call[c].step = "waiting" =>
    \E d \in Callers :
      \/ call[d].step = "connecting"
      \/ /\ call[d].step = "waiting" /\ holder = NoCaller
         /\ queue # <<>> /\ Head(queue) = d

LEMMA QueueStep ==
  TypeOK /\ ConnectorHoldsLock /\ QueueInv /\ [Next]_vars => QueueInv'
<1> SUFFICES ASSUME TypeOK, ConnectorHoldsLock, QueueInv, [Next]_vars
             PROVE  QueueInv'
  OBVIOUS
<1>1. ASSUME NEW c \in Callers,
             \/ \E q \in Queries : Begin(c, q)
             \/ Woken(c) \/ Connected(c) \/ ConnectFails(c)
      PROVE  QueueInv'
  <2>1. /\ queue \in Seq(Callers) /\ Names(queue, Waiting)
        /\ \A d \in Callers \ {c} : call'[d] = call[d]
    BY <1>1, ConnectSteps DEF TypeOK, QueueInv
  <2>2. holder' # NoCaller => call'[holder'].step = "connecting"
    BY <1>1, <2>1, ConnectSteps, BoxAssumption DEF Granted, QueueInv, TypeOK
  <2>3. CASE /\ call[c].step = "idle" /\ call'[c].step = "waiting"
             /\ queue' = Append(queue, c)
    <3>1. Waiting' = Waiting \cup {c} /\ c \notin Waiting
      BY <2>1, <2>3 DEF Waiting
    <3> QED BY <2>1, <2>2, <2>3, <3>1, AppendNames DEF QueueInv, Names
  <2>4. CASE Granted(c) /\ call'[c].step # "waiting"
    <3>1. Waiting' = Waiting \ {c}
      BY <2>1, <2>4 DEF Waiting
    <3>2. queue' = Tail(queue) /\ queue # <<>> /\ Head(queue) = c
      BY <2>4 DEF Granted
    <3>3. Names(Tail(queue), Waiting \ {c})
      BY <2>1, <3>2, TailNames
    <3> QED BY <2>2, <3>1, <3>2, <3>3 DEF QueueInv, Names
  <2>5. CASE /\ call[c].step # "waiting" /\ call'[c].step # "waiting"
             /\ UNCHANGED queue
    <3>1. Waiting' = Waiting
      BY <2>1, <2>5 DEF Waiting
    <3> QED BY <2>1, <2>2, <2>5, <3>1 DEF QueueInv, Names
  <2> QED BY <1>1, <2>3, <2>4, <2>5, ConnectSteps
<1>2. CASE Aside
  <2>1. Waiting' = Waiting
    BY <1>2 DEF Aside, Waiting
  <2>2. holder' # NoCaller => call'[holder'].step = "connecting"
    BY <1>2 DEF Aside, QueueInv, TypeOK
  <2> QED BY <1>2, <2>1, <2>2 DEF Aside, QueueInv, Names
<1>3. CASE Stop
  <2>1. Waiting' = {} /\ queue' = <<>> /\ holder' = NoCaller
    BY <1>3 DEF Stop, Idle, Waiting
  <2> QED BY <2>1, EmptyNames DEF QueueInv, Names
<1> QED BY <1>1, <1>2, <1>3, AsideSteps DEF Next, Proceeds

\* However many callers find no connection, and however many attempts fail
\* one after the other, none of them is left behind a lock that nobody will
\* give back.
THEOREM NobodyWaitsInVain == Spec => []NobodyIsStranded
<1>1. Init => ConnectorHoldsLock /\ QueueInv
  <2> SUFFICES ASSUME Init PROVE ConnectorHoldsLock /\ QueueInv
    OBVIOUS
  <2>1. Waiting = {} /\ queue = <<>>
    BY DEF Init, Idle, Waiting
  <2> QED BY <2>1, EmptyNames DEF Init, Idle, ConnectorHoldsLock, QueueInv
<1>2. TypeOK /\ QueueInv => NobodyIsStranded
  <2> SUFFICES ASSUME TypeOK, QueueInv, NEW c \in Callers, c \in Waiting
               PROVE  \E d \in Callers :
                        \/ call[d].step = "connecting"
                        \/ /\ call[d].step = "waiting" /\ holder = NoCaller
                           /\ queue # <<>> /\ Head(queue) = d
    BY DEF NobodyIsStranded, Waiting
  <2>1. CASE holder # NoCaller
    BY <2>1 DEF TypeOK, QueueInv
  <2>2. CASE holder = NoCaller
    <3>1. queue # <<>> /\ queue \in Seq(Callers)
      BY EmptyNames DEF TypeOK, QueueInv
    <3>2. Head(queue) \in Waiting
      BY <3>1, TailNames DEF QueueInv
    <3> QED BY <2>2, <3>1, <3>2 DEF Waiting
  <2> QED BY <2>1, <2>2
<1> QED BY <1>1, <1>2, LockStep, QueueStep, TypeCorrect, PTL DEF Spec

-----------------------------------------------------------------------------
(* Every command is accounted for.                                         *)

\* The calls whose command for a the box has carried out, and which are not
\* over.
UnderWay(a) == {c \in Callers : call[c].step = "carried" /\ call[c].q.ain = a}

\* They are a finite set.
LEMMA UnderWayFinite ==
  ASSUME NEW a
  PROVE  IsFiniteSet(UnderWay(a)) /\ Cardinality(UnderWay(a)) \in Nat
BY BoxAssumption, FS_Subset, FS_CardinalityType DEF UnderWay

\* The account, device by device.
Balanced(a) ==
  carried[a] + declined[a]
    = events[a] + pending[a] + lost[a] + unattended[a] + unanswered[a]
      + Cardinality(UnderWay(a))

\* CommandsAccounted says that every device's account is balanced.
LEMMA Account ==
  /\ CommandsAccounted <=> \A a \in Ains : Balanced(a)
  /\ CommandsAccounted' <=> \A a \in Ains : Balanced(a)'
BY DEF CommandsAccounted, Balanced, UnderWay

\* A step that neither carries a command out nor ends one that was.
LEMMA OtherStep ==
  ASSUME TypeOK, CommandsAccounted, UNCHANGED <<carried, audit>>,
         \A c \in Callers :
           /\ call'[c].step = "carried" <=> call[c].step = "carried"
           /\ call[c].step = "carried" => call'[c].q = call[c].q
  PROVE  CommandsAccounted'
<1>1. \A a \in Ains :
        {c \in Callers : call[c].step = "carried" /\ call[c].q.ain = a}'
          = {c \in Callers : call[c].step = "carried" /\ call[c].q.ain = a}
  OBVIOUS
<1> QED BY <1>1 DEF CommandsAccounted, audit

\* A call that steps or ends, and has carried out nothing.
LEMMA MovedStep ==
  ASSUME TypeOK, CommandsAccounted, UNCHANGED <<carried, audit>>,
         NEW c \in Callers, call[c].step # "carried", call'[c].step # "carried",
         \A d \in Callers \ {c} : call'[d] = call[d]
  PROVE  CommandsAccounted'
BY OtherStep

\* Every step keeps the account.
LEMMA AccountStep ==
  TypeOK /\ CommandsAccounted /\ [Next]_vars => CommandsAccounted'
<1> SUFFICES ASSUME TypeOK, CommandsAccounted, [Next]_vars
             PROVE  CommandsAccounted'
  OBVIOUS
<1> USE TypeParts
<1>1. ASSUME NEW c \in Callers, NEW q \in Queries, Begin(c, q)
      PROVE  CommandsAccounted'
  <2>1. PICK s \in StepName \ {"carried"} :
          call' = [call EXCEPT ![c] = Called(q, s)]
    BY <1>1, FirstStepName DEF Begin, StepName
  <2>2. call'[c].step = s /\ \A d \in Callers \ {c} : call'[d] = call[d]
    BY <2>1, CalledType DEF Calls
  <2>3. call[c].step # "carried"
    BY <1>1 DEF Begin, Idle
  <2> QED BY <1>1, <2>2, <2>3, MovedStep DEF Begin, world, audit
<1>2. ASSUME NEW c \in Callers,
             Woken(c) \/ Connected(c) \/ ConnectFails(c) \/ Learns(c)
             \/ ReadReturns(c) \/ ReadFails(c) \/ CommandFails(c)
      PROVE  CommandsAccounted'
  <2>1. call[c].step \notin {"idle", "carried"} /\ UNCHANGED <<carried, audit>>
    BY <1>2 DEF Woken, Granted, Connected, ConnectFails, Learns, ReadReturns,
                ReadFails, CommandFails, world
  <2>2. call[c] \in Call /\ call[c].q \in Queries
    BY <2>1, InCall DEF Call
  <2>3. Ends(c) \/ \E s \in StepName \ {"carried"} : Steps(c, s)
    BY <1>2, <2>2, FirstStepName
       DEF Woken, Connected, ConnectFails, Learns, ReadReturns, ReadFails,
           CommandFails, StepName
  <2>4. /\ call'[c].step # "carried"
        /\ \A d \in Callers \ {c} : call'[d] = call[d]
    BY <2>2, <2>3, StepsCall, EndsCall
  <2> QED BY <2>1, <2>4, MovedStep
<1>3. ASSUME NEW c \in Callers, Lists(c) PROVE CommandsAccounted'
  <2>1. call[c] \in Call
    BY <1>3, InCall DEF Lists
  <2>2. /\ call'[c].step # "carried"
        /\ \A d \in Callers \ {c} : call'[d] = call[d]
    BY <1>3, <2>1 DEF Lists, Calls, Call
  <2> QED BY <1>3, <2>2, MovedStep DEF Lists, world
<1>4. ASSUME NEW c \in Callers, ReadSwitch(c) \/ ReadTarget(c)
      PROVE  CommandsAccounted'
  <2>1. call[c] \in Call
    BY <1>4, InCall DEF ReadSwitch, ReadTarget
  <2>2. \A v : Reads1(c, "is_on", v) \/ Reads1(c, "target", v) =>
          /\ call'[c].step = call[c].step
          /\ \A d \in Callers \ {c} : call'[d] = call[d]
    BY <2>1 DEF Reads1, Calls, Call
  <2>3. /\ call'[c].step # "carried"
        /\ \A d \in Callers \ {c} : call'[d] = call[d]
    BY <1>4, <2>2 DEF ReadSwitch, ReadTarget
  <2> QED BY <1>4, <2>3, MovedStep DEF ReadSwitch, ReadTarget, world
<1>5. ASSUME NEW c \in Callers, Carries(c) PROVE CommandsAccounted'
  <2> DEFINE calls == [call EXCEPT ![c].step = "carried"]
  <2>0. call[c] \in Call /\ call[c].step = "sent" /\ call[c].q.ain \in Ains
    BY <1>5, InCall, QueryFields DEF Carries, Call
  <2>1. PICK a \in Ains : call[c].q.ain = a
    BY <2>0
  <2>2. /\ calls \in Calls
        /\ calls[c].step = "carried" /\ calls[c].q = call[c].q
        /\ \A d \in Callers \ {c} : calls[d] = call[d]
    BY <2>0 DEF Calls, Call
  <2>3. /\ \E d, w : Changes(a, d, w, calls)
        /\ carried' = [carried EXCEPT ![a] = carried[a] + 1]
        /\ events' = events /\ pending' = pending /\ lost' = lost
        /\ unattended' = unattended /\ unanswered' = unanswered
        /\ declined' = declined
    BY <1>5, <2>1 DEF Carries, audit
  <2> HIDE DEF calls
  <2>4. \A d \in Callers : call'[d].step = calls[d].step
                           /\ call'[d].q = calls[d].q
    BY <2>2, <2>3, ChangesCall
  <2>5. UnderWay(a)' = UnderWay(a) \cup {c} /\ c \notin UnderWay(a)
    BY <2>0, <2>1, <2>2, <2>4 DEF UnderWay
  <2>6. ASSUME NEW b \in Ains PROVE Balanced(b)'
    <3>1. Balanced(b)
      BY Account
    <3>2. CASE b = a
      <4>1. Cardinality(UnderWay(b)') = Cardinality(UnderWay(b)) + 1
        BY <2>5, <3>2, UnderWayFinite, FS_AddElement
      <4>2. carried'[b] = carried[b] + 1
        BY <2>3, <3>2 DEF CountsOK
      <4>3. Cardinality(UnderWay(b)) \in Nat
        BY UnderWayFinite
      <4> HIDE DEF UnderWay
      <4> QED BY <2>3, <3>1, <4>1, <4>2, <4>3 DEF Balanced, CountsOK
    <3>3. CASE b # a
      <4>1. UnderWay(b)' = UnderWay(b)
        BY <2>0, <2>1, <2>2, <2>4, <3>3 DEF UnderWay
      <4> QED BY <2>3, <3>1, <3>3, <4>1 DEF Balanced, CountsOK
    <3> QED BY <3>2, <3>3
  <2> QED BY <2>6, Account
<1>6. ASSUME NEW c \in Callers, Answered(c) \/ AnswerLost(c)
      PROVE  CommandsAccounted'
  <2>0. call[c] \in Call /\ call[c].step = "carried" /\ call[c].q.ain \in Ains
    BY <1>6, InCall, QueryFields DEF Answered, AnswerLost, Call
  <2>1. PICK a \in Ains : call[c].q.ain = a
    BY <2>0
  <2>2. /\ call'[c].step = "idle"
        /\ \A d \in Callers \ {c} : call'[d] = call[d]
    BY <1>6, EndsCall DEF Answered, AnswerLost
  <2>3. UnderWay(a)' = UnderWay(a) \ {c} /\ c \in UnderWay(a)
    BY <2>0, <2>1, <2>2 DEF UnderWay
  <2>4. /\ carried' = carried /\ events' = events /\ lost' = lost
        /\ declined' = declined
        /\ \/ /\ pending' = [pending EXCEPT ![a] = pending[a] + 1]
              /\ unattended' = unattended /\ unanswered' = unanswered
           \/ /\ unattended' = [unattended EXCEPT ![a] = unattended[a] + 1]
              /\ pending' = pending /\ unanswered' = unanswered
           \/ /\ unanswered' = [unanswered EXCEPT ![a] = unanswered[a] + 1]
              /\ pending' = pending /\ unattended' = unattended
    BY <1>6, <2>1 DEF Answered, AnswerLost, More, world
  <2>5. ASSUME NEW b \in Ains PROVE Balanced(b)'
    <3>1. Balanced(b)
      BY Account
    <3>2. CASE b = a
      <4>1. Cardinality(UnderWay(b)') = Cardinality(UnderWay(b)) - 1
        BY <2>3, <3>2, UnderWayFinite, FS_RemoveElement
      <4> QED BY <2>4, <3>1, <3>2, <4>1, UnderWayFinite DEF Balanced, CountsOK
    <3>3. CASE b # a
      <4>1. UnderWay(b)' = UnderWay(b)
        BY <2>0, <2>1, <2>2, <3>3 DEF UnderWay
      <4> QED BY <2>4, <3>1, <3>3, <4>1 DEF Balanced, CountsOK
    <3> QED BY <3>2, <3>3
  <2> QED BY <2>5, Account
<1>7. ASSUME NEW a \in Ains, EventEnds(a) PROVE CommandsAccounted'
  <2>1. \A b \in Ains : UnderWay(b)' = UnderWay(b)
    BY <1>7 DEF EventEnds, UnderWay
  <2>2. /\ UNCHANGED <<carried, unattended, unanswered, declined>>
        /\ pending' = [pending EXCEPT ![a] = pending[a] - 1]
        /\ \/ events' = [events EXCEPT ![a] = events[a] + 1] /\ lost' = lost
           \/ lost' = [lost EXCEPT ![a] = lost[a] + 1] /\ events' = events
    BY <1>7 DEF EventEnds, world
  <2> QED BY <2>1, <2>2, UnderWayFinite, Account DEF Balanced, CountsOK
<1>8. ASSUME NEW a \in Ains, ByHand(a) \/ Reaches(a) \/ Pairs(a)
      PROVE  CommandsAccounted'
  <2>1. call' = call \/ \E d, w : Changes(a, d, w, call)
    BY <1>8 DEF ByHand, Reaches, Pairs
  <2>2. UNCHANGED <<carried, audit>>
    BY <1>8 DEF ByHand, Reaches, Pairs
  <2> QED BY <2>1, <2>2, ChangesCall, OtherStep
<1>9. CASE Stop
  <2>1. \A a \in Ains :
          /\ carried'[a] = carried[a] /\ events'[a] = events[a]
          /\ pending'[a] = 0
          /\ lost'[a] = lost[a] + pending[a]
          /\ unanswered'[a] = unanswered[a] + Cardinality(UnderWay(a))
          /\ unattended'[a] = unattended[a] /\ declined'[a] = declined[a]
    BY <1>9 DEF Stop, Zero, UnderWay, world
  <2>2. \A a \in Ains : UnderWay(a)' = {}
    BY <1>9 DEF Stop, Idle, UnderWay
  <2>3. \A a \in Ains : Cardinality(UnderWay(a)') = 0
    BY <2>2, FS_EmptySet
  <2>4. ASSUME NEW a \in Ains PROVE Balanced(a)'
    <3>1. Balanced(a) /\ Cardinality(UnderWay(a)) \in Nat
      BY Account, UnderWayFinite
    <3> QED BY <2>1, <2>3, <3>1 DEF Balanced, CountsOK
  <2> QED BY <2>4, Account
<1>10. CASE UNCHANGED vars
  BY <1>10, OtherStep DEF vars, world
<1>11. ASSUME NEW c \in Callers, ReadDone(c) PROVE CommandsAccounted'
  BY <1>11, ReadDoneCall, MovedStep DEF ReadDone, world
<1>12. ASSUME NEW c \in Callers, Declines(c) PROVE CommandsAccounted'
  <2>1. call[c] \in Call /\ call[c].step = "sent" /\ call[c].q.ain \in Ains
    BY <1>12, InCall, QueryFields DEF Declines, Call
  <2>2. PICK a \in Ains : call[c].q.ain = a
    BY <2>1
  <2>3. /\ call'[c].step = "idle"
        /\ \A d \in Callers \ {c} : call'[d] = call[d]
    BY <1>12, EndsCall DEF Declines
  <2>4. \A b \in Ains : UnderWay(b)' = UnderWay(b)
    BY <2>1, <2>3 DEF UnderWay
  <2>5. /\ UNCHANGED <<carried, unattended, unanswered, events, lost>>
        /\ \/ UNCHANGED <<pending, declined>>
           \/ /\ pending' = [pending EXCEPT ![a] = pending[a] + 1]
              /\ declined' = [declined EXCEPT ![a] = declined[a] + 1]
    BY <1>12, <2>2 DEF Declines, More, world
  <2>6. ASSUME NEW b \in Ains PROVE Balanced(b)'
    <3>1. Balanced(b) /\ Cardinality(UnderWay(b)) \in Nat
      BY Account, UnderWayFinite
    <3> QED BY <2>4, <2>5, <3>1 DEF Balanced, CountsOK
  <2> QED BY <2>6, Account
<1> QED BY <1>1, <1>2, <1>3, <1>4, <1>5, <1>6, <1>7, <1>8, <1>9, <1>10,
           <1>11, <1>12
        DEF Next, Proceeds

\* The audit log accounts for every command, in every reachable state.
THEOREM AccountIsKept == Spec => []CommandsAccounted
<1>1. Init => CommandsAccounted
  <2> SUFFICES ASSUME Init, NEW a \in Ains PROVE Balanced(a)
    BY Account
  <2>1. UnderWay(a) = {}
    BY DEF Init, Idle, UnderWay
  <2>2. Cardinality(UnderWay(a)) = 0
    BY <2>1, FS_EmptySet
  <2> QED BY <2>2 DEF Init, Zero, Balanced
<1> QED BY <1>1, AccountStep, TypeCorrect, PTL DEF Spec

-----------------------------------------------------------------------------
(* Readings are true.                                                      *)

\* The box keeps what was commanded, or what it makes of it.
Obeys == \A a \in Ains :
  wanted[a] # Unknown => device[a].hkr \in Kept(Encode(wanted[a]))

\* A value of the switch is one of the answers raws; a target is what is left
\* of one of the temperatures aims.
SwitchShown(v, raws) == /\ v = TRUE => "1" \in raws
                        /\ v = FALSE => "0" \in raws \/ "inval" \in raws
TargetShown(v, aims) ==
  /\ v = Nothing => Nothing \in aims
  /\ v \notin {Unknown, Nothing} =>
       \E t \in aims \ {Nothing} : t = Unknown \/ Renders(v, t)

\* What a reading has so far the device has shown, or shows now; before the
\* first request it has nothing.
Shows(c) ==
  LET r == call[c]
      a == r.q.ain IN
  /\ r.step = "reading" =>
       /\ SwitchShown(r.got.is_on, r.ons \cup SwitchAnswers(device[a]))
       /\ TargetShown(r.got.target, r.aims \cup Aims(a))
  /\ r.step = "read" => /\ SwitchShown(r.got.is_on, r.ons)
                        /\ TargetShown(r.got.target, r.aims)
  /\ r.step \notin {"idle", "reading", "read"} =>
       r.got = [is_on |-> Unknown, target |-> Unknown]

\* The inductive invariant.
ReadInv == Obeys /\ \A c \in Callers : Shows(c)

\* Sent to the box, perhaps corrected by it, and read again, a temperature is
\* rendered: it loses a quarter of a degree at most, and off and boost nothing.
LEMMA RoundTrip ==
  ASSUME NEW t \in Temps, NEW h \in Kept(Encode(t))
  PROVE  /\ Decode(h) \notin {Unknown, Nothing}
         /\ Renders(Decode(h), t)
<1>1. t \in Nat /\ h \in Raw
  BY CodecType, BoxAssumption
<1>2. Decode(h) \notin {Unknown, Nothing}
  BY <1>1, DecodeRaw
<1>3. CASE t = Off
  <2>1. h = 253
    BY <1>3, EncodeType DEF Kept, Off, Boost
  <2> QED BY <1>1, <1>2, <1>3, <2>1, DecodeRaw DEF Renders, Off, Boost
<1>4. CASE t >= Boost
  <2>1. h = 254
    BY <1>1, <1>4, EncodeType DEF Kept, Off, Boost
  <2> QED BY <1>1, <1>2, <1>4, <2>1, DecodeRaw DEF Renders, Off, Boost
<1>5. CASE t # Off /\ ~(t >= Boost)
  <2>1. /\ t \div 2 \in 0 .. 63 /\ h \in Kept(t \div 2)
        /\ t \in 1 .. 127
    BY <1>1, <1>5, EncodeType DEF Off, Boost
  <2>2. /\ h \in 0 .. 63 /\ Decode(h) = 2 * h
        /\ \/ h = t \div 2
           \/ h = 16 /\ t \div 2 < 16
           \/ h = 56 /\ t \div 2 > 56
    <3>1. \/ h = t \div 2
          \/ h = 16 /\ t \div 2 < 16
          \/ h = 56 /\ t \div 2 > 56
      BY <2>1 DEF Kept
    <3>2. h \in 0 .. 63
      BY <2>1, <3>1
    <3> QED BY <1>1, <3>1, <3>2, DecodeRaw
  <2>3. CASE h = t \div 2
    <3>1. 2 * (t \div 2) = t \/ 2 * (t \div 2) = t - 1
      BY <2>1
    <3> QED BY <1>2, <1>5, <2>2, <2>3, <3>1 DEF Renders
  <2>4. CASE \/ h = 16 /\ t \div 2 < 16
             \/ h = 56 /\ t \div 2 > 56
    <3>1. t \in Nat /\ (t < 32 \/ t > 112)
      BY <2>1, <2>4
    <3>2. Decode(h) \in {32, 112}
      BY <2>2, <2>4
    <3>3. t \notin 32 .. 112
      BY <3>1
    <3> QED BY <1>2, <1>5, <3>2, <3>3 DEF Renders, Offered
  <2> QED BY <2>2, <2>3, <2>4
<1> QED BY <1>2, <1>3, <1>4, <1>5

\* More answers and more temperatures show no less.
LEMMA ShownMonotone ==
  ASSUME NEW v, NEW S, NEW T, S \subseteq T
  PROVE  /\ SwitchShown(v, S) => SwitchShown(v, T)
         /\ TargetShown(v, S) => TargetShown(v, T)
BY DEF SwitchShown, TargetShown

\* What was not asked for needs not be shown.
LEMMA UnknownShown ==
  ASSUME NEW S
  PROVE  SwitchShown(Unknown, S) /\ TargetShown(Unknown, S)
BY BoxAssumption DEF SwitchShown, TargetShown

\* An answer about the switch, as the adapter reads it, is shown.
LEMMA SwitchIsShown ==
  ASSUME NEW a \in Ains, NEW raw \in SwitchAnswers(device[a])
  PROVE  SwitchShown(raw = "1", SwitchAnswers(device[a]))
<1>1. raw \in {"0", "1", "inval"}
  BY DEF SwitchAnswers
<1> QED BY <1>1 DEF SwitchShown

\* So is an answer about the temperature.
LEMMA TargetIsShown ==
  ASSUME WorldOK, Obeys, NEW a \in Ains, NEW raw \in TargetAnswers(device[a])
  PROVE  TargetShown(Decode(raw), Aims(a))
<1>1. CASE raw = Nothing
  <2>1. device[a].hkr # Nothing
    BY DecodeRaw DEF WorldOK, Device
  <2>2. ~device[a].reach
    BY <1>1, <2>1 DEF TargetAnswers
  <2>3. Nothing \in Aims(a) /\ Decode(raw) = Nothing
    BY <1>1, <2>2, DecodeRaw DEF Aims
  <2>4. Unknown # Nothing
    BY BoxAssumption
  <2> QED BY <2>3, <2>4 DEF TargetShown
<1>2. CASE raw # Nothing
  <2>1. raw = device[a].hkr /\ raw \in Raw
    BY <1>2 DEF TargetAnswers, WorldOK, Device
  <2>2. Decode(raw) # Nothing
    BY <2>1, DecodeRaw
  <2>3. wanted[a] \in Temps \cup {Unknown} /\ wanted[a] # Nothing
    BY BoxAssumption DEF WorldOK
  <2>4. wanted[a] \in Aims(a) \ {Nothing}
    BY <2>3 DEF Aims
  <2>5. wanted[a] = Unknown \/ Renders(Decode(raw), wanted[a])
    BY <2>1, <2>3, RoundTrip DEF Obeys
  <2> QED BY <2>2, <2>4, <2>5 DEF TargetShown
<1> QED BY <1>1, <1>2

\* The invariant says what it should.
LEMMA ReadInvSuffices == ReadInv => ReadingIsTrue
BY DEF ReadInv, Shows, SwitchShown, TargetShown, ReadingIsTrue

\* A step of one call that neither changes a device nor what others have read.
LEMMA OneCallMoves ==
  ASSUME ReadInv, NEW c \in Callers, UNCHANGED <<device, wanted>>,
         \A d \in Callers \ {c} : call'[d] = call[d],
         Shows(c)'
  PROVE  ReadInv'
BY DEF ReadInv, Obeys, Shows, Aims

\* A call that ends, or goes on without having read anything.
LEMMA CallGoesOn ==
  ASSUME TypeOK, ReadInv, NEW c \in Callers, UNCHANGED <<device, wanted>>,
         \/ Ends(c)
         \/ /\ call[c].step \notin {"idle", "reading", "read"}
            /\ \E s \in StepName \ {"read"} : Steps(c, s)
  PROVE  ReadInv'
<1>0. call \in Calls
  BY TypeParts
<1>1. CASE Ends(c)
  <2>1. call'[c] = Idle /\ \A d \in Callers \ {c} : call'[d] = call[d]
    BY <1>0, <1>1 DEF Calls, Ends
  <2>2. Shows(c)'
    BY <2>1 DEF Shows, Idle
  <2> QED BY <2>1, <2>2, OneCallMoves
<1>2. ASSUME NEW s \in StepName \ {"read"}, Steps(c, s),
             call[c].step \notin {"idle", "reading", "read"}
      PROVE  ReadInv'
  <2>1. /\ call'[c].step = s /\ call'[c].got = call[c].got
        /\ \A d \in Callers \ {c} : call'[d] = call[d]
    BY <1>0, <1>2, InCall DEF Calls, Call, Steps
  <2>2. call[c].got = [is_on |-> Unknown, target |-> Unknown]
    BY <1>2 DEF ReadInv, Shows
  <2>3. Shows(c)'
    BY <1>2, <2>1, <2>2, UnknownShown DEF Shows
  <2> QED BY <2>1, <2>3, OneCallMoves
<1> QED BY <1>1, <1>2

\* The connection is asked for, awaited, made or refused.
LEMMA ConnectReads ==
  ASSUME TypeOK, ReadInv, NEW c \in Callers,
         \/ \E q \in Queries : Begin(c, q)
         \/ Woken(c) \/ Connected(c) \/ ConnectFails(c)
  PROVE  ReadInv'
<1> USE TypeParts
<1>1. ASSUME NEW q \in Queries, Begin(c, q) PROVE ReadInv'
  <2>1. PICK s \in StepName \ {"read"} :
          call' = [call EXCEPT ![c] = Called(q, s)]
    BY <1>1, FirstStepName DEF Begin, StepName
  <2>2. /\ call'[c] = Called(q, s)
        /\ \A d \in Callers \ {c} : call'[d] = call[d]
    BY <2>1 DEF Calls
  <2>3. /\ Called(q, s).step = s
        /\ Called(q, s).got = [is_on |-> Unknown, target |-> Unknown]
    BY DEF Called
  <2>4. Shows(c)'
    BY <2>2, <2>3, UnknownShown DEF Shows
  <2> QED BY <1>1, <2>2, <2>4, OneCallMoves DEF Begin, world
<1>2. CASE Woken(c) \/ Connected(c) \/ ConnectFails(c)
  <2>1. /\ call[c].step \in {"waiting", "connecting"}
        /\ UNCHANGED <<device, wanted>>
    BY <1>2 DEF Woken, Granted, Connected, ConnectFails, world
  <2>2. call[c].q \in Queries
    BY <2>1, InCall DEF Call
  <2>3. Ends(c) \/ Steps(c, "connecting") \/ Steps(c, FirstStep(call[c].q))
    BY <1>2 DEF Woken, Connected, ConnectFails
  <2> QED BY <2>1, <2>2, <2>3, FirstStepName, CallGoesOn DEF StepName
<1> QED BY <1>1, <1>2

\* Discoveries and readings.
LEMMA ReadReads ==
  ASSUME TypeOK, ReadInv, NEW c \in Callers,
         \/ Lists(c) \/ Learns(c)
         \/ ReadSwitch(c) \/ ReadTarget(c) \/ ReadDone(c) \/ ReadReturns(c)
         \/ ReadFails(c)
  PROVE  ReadInv'
<1> USE TypeParts
<1>1. call[c] \in Call /\ call[c].step # "idle" /\ UNCHANGED <<device, wanted>>
  BY InCall DEF Lists, Learns, ReadSwitch, ReadTarget, ReadDone, ReadReturns,
                ReadFails, world
<1>2. PICK a \in Ains : a = call[c].q.ain
  BY <1>1, QueryFields DEF Call
<1>3. WorldOK /\ Obeys /\ Shows(c)
  BY DEF ReadInv
<1>4. CASE Lists(c)
  <2>1. /\ call'[c].step = "listed" /\ call'[c].got = call[c].got
        /\ call[c].step = "discovering"
        /\ \A d \in Callers \ {c} : call'[d] = call[d]
    BY <1>1, <1>4 DEF Lists, Calls, Call
  <2>2. Shows(c)'
    BY <1>3, <2>1 DEF Shows
  <2> QED BY <1>1, <2>1, <2>2, OneCallMoves
<1>5. CASE Learns(c) \/ ReadReturns(c) \/ ReadFails(c)
  <2>1. \/ Ends(c)
        \/ Steps(c, "reading") /\ call[c].step = "listed"
    BY <1>5 DEF Learns, ReadReturns, ReadFails
  <2> QED BY <1>1, <2>1, CallGoesOn DEF StepName
<1>6. CASE ReadSwitch(c)
  <2>1. PICK raw \in SwitchAnswers(device[a]) :
          call' = [call EXCEPT ![c].got["is_on"] = (raw = "1")]
    BY <1>2, <1>6 DEF ReadSwitch, Reads1
  <2>2. /\ call'[c].step = "reading" /\ call'[c].q = call[c].q
        /\ call'[c].got.is_on = (raw = "1")
        /\ call'[c].got.target = call[c].got.target
        /\ call'[c].ons = call[c].ons /\ call'[c].aims = call[c].aims
        /\ \A d \in Callers \ {c} : call'[d] = call[d]
    BY <1>1, <1>6, <2>1 DEF ReadSwitch, Calls, Call, Reading
  <2>3. SwitchShown(raw = "1", call[c].ons \cup SwitchAnswers(device[a]))
    BY SwitchIsShown, ShownMonotone
  <2>4. TargetShown(call[c].got.target, call[c].aims \cup Aims(a))
    BY <1>2, <1>3, <1>6 DEF ReadSwitch, Shows
  <2>5. Aims(a)' = Aims(a)
    BY <1>1 DEF Aims
  <2>6. Shows(c)'
    BY <1>1, <1>2, <2>2, <2>3, <2>4, <2>5 DEF Shows
  <2> QED BY <1>1, <2>2, <2>6, OneCallMoves
<1>7. CASE ReadTarget(c)
  <2>1. PICK raw \in TargetAnswers(device[a]) :
          call' = [call EXCEPT ![c].got["target"] = Decode(raw)]
    BY <1>2, <1>7 DEF ReadTarget, Reads1
  <2>2. /\ call'[c].step = "reading" /\ call'[c].q = call[c].q
        /\ call'[c].got.target = Decode(raw)
        /\ call'[c].got.is_on = call[c].got.is_on
        /\ call'[c].ons = call[c].ons /\ call'[c].aims = call[c].aims
        /\ \A d \in Callers \ {c} : call'[d] = call[d]
    BY <1>1, <1>7, <2>1 DEF ReadTarget, Calls, Call, Reading
  <2>3. TargetShown(Decode(raw), call[c].aims \cup Aims(a))
    BY <1>3, TargetIsShown, ShownMonotone
  <2>4. SwitchShown(call[c].got.is_on, call[c].ons \cup SwitchAnswers(device[a]))
    BY <1>2, <1>3, <1>7 DEF ReadTarget, Shows
  <2>5. Aims(a)' = Aims(a)
    BY <1>1 DEF Aims
  <2>6. Shows(c)'
    BY <1>1, <1>2, <2>2, <2>3, <2>4, <2>5 DEF Shows
  <2> QED BY <1>1, <2>2, <2>6, OneCallMoves
<1>8. CASE ReadDone(c)
  <2>1. Shows(c)'
    BY <1>3, <1>8, ReadDoneCall DEF Shows
  <2> QED BY <1>1, <1>8, <2>1, ReadDoneCall, OneCallMoves
<1> QED BY <1>4, <1>5, <1>6, <1>7, <1>8

\* A device that changes leaves what was read shown: who is reading it
\* remembers what it was.
LEMMA ChangeReads ==
  ASSUME TypeOK, ReadInv, NEW a \in Ains, NEW d, NEW w, NEW calls \in Calls,
         Changes(a, d, w, calls),
         \A c \in Callers :
           \/ calls[c] = call[c]
           \/ /\ call[c].step = "sent" /\ calls[c].step = "carried"
              /\ calls[c].got = call[c].got,
         w # Unknown => d.hkr \in Kept(Encode(w))
  PROVE  ReadInv'
<1> USE TypeParts
<1>1. /\ device'[a] = d /\ wanted'[a] = w
      /\ \A b \in Ains \ {a} : device'[b] = device[b] /\ wanted'[b] = wanted[b]
  BY DEF Changes, WorldOK
<1>2. Obeys'
  BY <1>1 DEF Obeys, ReadInv
<1>3. ASSUME NEW c \in Callers PROVE Shows(c)'
  <2>0. Shows(c)
    BY DEF ReadInv
  <2>1. CASE calls[c].step = "reading" /\ calls[c].q.ain = a
    <3>1. calls[c] = call[c] /\ call[c] \in Call
      BY <2>1 DEF Calls, Idle
    <3>2. call'[c] = Witness(call[c], a)
      BY <2>1, <3>1 DEF Changes
    <3>3. /\ call'[c].step = "reading" /\ call'[c].q.ain = a
          /\ call'[c].got = call[c].got
          /\ call'[c].ons = call[c].ons \cup SwitchAnswers(device[a])
          /\ call'[c].aims = call[c].aims \cup Aims(a)
      BY <2>1, <3>1, <3>2, WitnessCall
    <3>4. /\ SwitchShown(call'[c].got.is_on, call'[c].ons)
          /\ TargetShown(call'[c].got.target, call'[c].aims)
      BY <2>0, <2>1, <3>1, <3>3 DEF Shows
    <3>5. /\ SwitchShown(call'[c].got.is_on,
                         call'[c].ons \cup SwitchAnswers(device'[a]))
          /\ TargetShown(call'[c].got.target, call'[c].aims \cup Aims(a)')
      BY <3>4, ShownMonotone
    <3> QED BY <3>3, <3>5 DEF Shows
  <2>2. CASE ~(calls[c].step = "reading" /\ calls[c].q.ain = a)
    <3>1. call'[c] = calls[c]
      BY <2>2 DEF Changes
    <3>2. CASE calls[c] = call[c] /\ call[c].step = "reading"
      <4>1. call[c] \in Call /\ call[c].q.ain # a
        BY <2>2, <3>2 DEF Calls, Idle
      <4>2. call[c].q.ain \in Ains \ {a}
        BY <4>1, QueryFields DEF Call
      <4>3. /\ device'[call[c].q.ain] = device[call[c].q.ain]
            /\ Aims(call[c].q.ain)' = Aims(call[c].q.ain)
        BY <1>1, <3>1, <3>2, <4>2 DEF Aims
      <4> QED BY <2>0, <3>1, <3>2, <4>3 DEF Shows, Aims
    <3>3. CASE calls[c] = call[c] /\ call[c].step # "reading"
      BY <2>0, <3>1, <3>3 DEF Shows
    <3>4. CASE /\ call[c].step = "sent" /\ calls[c].step = "carried"
               /\ calls[c].got = call[c].got
      BY <2>0, <3>1, <3>4 DEF Shows
    <3> QED BY <3>2, <3>3, <3>4
  <2> QED BY <2>1, <2>2
<1> QED BY <1>2, <1>3 DEF ReadInv

\* Commands.
LEMMA CommandReads ==
  ASSUME TypeOK, ReadInv, NEW c \in Callers,
         \/ Carries(c) \/ Declines(c) \/ CommandFails(c)
         \/ Answered(c) \/ AnswerLost(c)
  PROVE  ReadInv'
<1> USE TypeParts
<1>1. CASE Declines(c) \/ CommandFails(c) \/ Answered(c) \/ AnswerLost(c)
  BY <1>1, CallGoesOn DEF Declines, CommandFails, Answered, AnswerLost, world
<1>2. CASE Carries(c)
  <2>1. PICK q \in Queries, a \in Ains :
          /\ q = call[c].q /\ a = q.ain /\ call[c] \in Call
          /\ q \in Commands /\ call[c].step = "sent"
    BY <1>2, InCall, QueryFields DEF Carries, Call, SentOK
  <2> DEFINE calls == [call EXCEPT ![c].step = "carried"]
             w == IF q.op = "set_temperature" THEN q.arg ELSE wanted[a]
  <2>2. PICK d \in After(device[a], q) : Changes(a, d, w, calls)
    BY <1>2, <2>1 DEF Carries
  <2>3. calls \in Calls
    BY <2>1 DEF Calls, Call
  <2>4. q.op \in {"set_switch", "set_temperature"}
    BY <2>1 DEF Commands
  <2>5. \A b \in Callers :
          \/ calls[b] = call[b]
          \/ /\ call[b].step = "sent" /\ calls[b].step = "carried"
             /\ calls[b].got = call[b].got
    BY <2>1 DEF Calls, Call
  <2>6. w # Unknown => d.hkr \in Kept(Encode(w))
    <3>1. CASE q.op = "set_switch"
      <4>1. d.hkr = device[a].hkr
        BY <2>2, <3>1 DEF After, WorldOK, Device
      <4> QED BY <3>1, <4>1 DEF ReadInv, Obeys
    <3>2. CASE q.op = "set_temperature"
      <4>1. d.hkr \in Kept(Encode(q.arg))
        BY <2>2, <3>2 DEF After, WorldOK, Device
      <4> QED BY <3>2, <4>1
    <3> QED BY <2>4, <3>1, <3>2
  <2> HIDE DEF calls, w
  <2> QED BY <2>2, <2>3, <2>5, <2>6, ChangeReads
<1> QED BY <1>1, <1>2

\* The audit task, the household, and the end of the process.
LEMMA OutsideReads ==
  ASSUME TypeOK, ReadInv,
         \/ \E a \in Ains : EventEnds(a) \/ ByHand(a) \/ Reaches(a) \/ Pairs(a)
         \/ Stop
  PROVE  ReadInv'
<1> USE TypeParts
<1>1. ASSUME NEW a \in Ains, EventEnds(a) \/ Pairs(a) PROVE ReadInv'
  BY <1>1 DEF EventEnds, Pairs, world, ReadInv, Obeys, Shows, Aims
<1>2. ASSUME NEW a \in Ains, ByHand(a) \/ Reaches(a) PROVE ReadInv'
  <2>1. PICK d \in Device, w \in Temps \cup {Unknown} :
          /\ Changes(a, d, w, call)
          /\ w = Unknown \/ (d.hkr = device[a].hkr /\ w = wanted[a])
    BY <1>2, TurnedDevice
  <2>2. w # Unknown => d.hkr \in Kept(Encode(w))
    BY <2>1 DEF ReadInv, Obeys
  <2> QED BY <2>1, <2>2, ChangeReads
<1>3. CASE Stop
  BY <1>3 DEF Stop, world, Idle, ReadInv, Obeys, Shows
<1> QED BY <1>1, <1>2, <1>3

\* For any temperatures, whatever commands, hands and the radio do between the
\* requests of a reading, in every reachable state what it returns was shown by
\* the device during that reading, up to the quarter of a degree that the half
\* degrees of the box leave out.
THEOREM ReadingsAreTrue == Spec => []ReadingIsTrue
<1>1. Init => ReadInv
  <2> SUFFICES ASSUME Init PROVE ReadInv
    OBVIOUS
  <2>1. Obeys
    BY DEF Init, Obeys
  <2>2. \A c \in Callers : call[c].step = "idle"
    BY DEF Init, Idle
  <2> QED BY <2>1, <2>2 DEF ReadInv, Shows
<1>2. TypeOK /\ ReadInv /\ [Next]_vars => ReadInv'
  <2> SUFFICES ASSUME TypeOK, ReadInv, [Next]_vars PROVE ReadInv'
    OBVIOUS
  <2>1. CASE UNCHANGED vars
    BY <2>1 DEF vars, world, ReadInv, Obeys, Shows, Aims
  <2> QED BY <2>1, ConnectReads, ReadReads, CommandReads, OutsideReads
          DEF Next, Proceeds
<1> QED BY <1>1, <1>2, ReadInvSuffices, TypeCorrect, PTL DEF Spec

=============================================================================
