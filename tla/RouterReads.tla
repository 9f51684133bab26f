----------------------------- MODULE RouterReads -----------------------------
(***************************************************************************)
(* The phone and network pages: readings of the router's call list, WAN    *)
(* status, radios and hosts, kept in phone_cache and network_cache         *)
(* (app/phone, app/network and their routes, over app/cache.py).           *)
(*                                                                         *)
(* A fetch makes one request to the router after another (the parts of its *)
(* key).  A request that fails is not an error for the caller: the page    *)
(* shows what a missing answer leaves, and the cache keeps it like any     *)
(* other answer.                                                           *)
(*                                                                         *)
(* Keys have nothing in common, so one behaviour is about one key; "hosts" *)
(* stands for both keys of the host list.  The call list is the number of  *)
(* its newest call; how many calls a list may have at most is left out,    *)
(* and so are wording, units and the mock mode, which has no state.        *)
(* `Variant' marks bugs the code might have, as in TTLCache.               *)
(***************************************************************************)
EXTENDS Naturals, Sequences

CONSTANTS
  Callers,   \* coroutines of handlers
  Visitors,  \* Visitors[k]: those that ask for k
  Radios,    \* the indices of _live_wlan_networks, in order
  Hosts,
  TTLs,      \* TTLs[k]: how long k is kept
  MaxCalls,  \* bounds the call list
  NoCaller, NoKey, NoValue,
  Failed,    \* the router did not answer
  Absent     \* it answered that it has no such service (fiber)

Keys == {"calls", "dsl", "wlan", "hosts"}

ASSUME ReadsAssumption ==
  /\ Visitors \in [Keys -> SUBSET Callers]
  /\ Radios \in Seq({"radio1", "radio2", "radio3"})
  /\ MaxCalls \in Nat
  /\ TTLs \in [Keys -> Nat \ {0}]
  /\ NoCaller \notin Callers /\ NoKey \notin Keys

VARIABLES
  store, lock, queue, pc, key, result,   \* the caches, see TTLCache
  topic,     \* the key this behaviour is about
  up,        \* the router answers
  router,    \* what it would say about each part
  got,       \* got[c]: the answers the fetch of c has so far
  asked      \* asked[c]: for a forced read of the call list, the newest call
             \* at the time and whether a fetch had read the list already

\* The requests of a fetch, in order.
Parts(k) == CASE k = "calls" -> <<"calls">>
              [] k = "dsl" -> <<"is_connected", "is_linked", "link_props">>
              [] k = "wlan" -> Radios
              [] OTHER -> <<"hosts">>

\* What the router may say about a part.
Content(part) ==
  CASE part = "calls" -> 0 .. MaxCalls
    [] part \in {"is_connected", "is_linked"} -> BOOLEAN \cup {Absent}
    [] part = "link_props" -> BOOLEAN
    [] part = "hosts" -> SUBSET Hosts
    [] OTHER -> 0 .. 1

AllParts == UNION {{Parts(k)[i] : i \in DOMAIN Parts(k)} : k \in Keys}

-----------------------------------------------------------------------------
(* What a page shows of the answers g to the requests for k.               *)

\* Variant: no bool() around is_linked.
StatusUnconverted(g) == [connected |-> g[1] = TRUE \/ g[3] = TRUE,
                         linked |-> IF g[3] = Failed THEN g[2] ELSE g[3]]

\* _live_dsl_status: the state of the physical link, if the router tells it,
\* overrides what the DSL services say, and a link that is up counts as
\* connected.
Status(g) == [connected |-> g[1] = TRUE \/ g[3] = TRUE,
              linked |-> IF g[3] = Failed THEN g[2] = TRUE ELSE g[3]]

\* A radio that does not answer is left out; without the list there is no
\* host, and no call.
Shown(k, g) == CASE k = "dsl" -> Status(g)
                 [] k = "wlan" -> {<<i, g[i]>> : i \in {j \in DOMAIN g : g[j] # Failed}}
                 [] k = "calls" -> IF g[1] = Failed THEN 0 ELSE g[1]
                 [] OTHER -> IF g[1] = Failed THEN {} ELSE g[1]

\* `whole' is not in the code: no request has failed.
Answer(k, g) == [shown |-> Shown(k, g),
                 whole |-> \A i \in DOMAIN g : g[i] # Failed]

\* Values matters to Cache!TypeOK only, which is not used.
Cache == INSTANCE TTLCache WITH Values <- {}, FetchTTL <- TTLs, SetTTL <- 1

cacheVars == <<store, lock, queue, pc, key, result>>
vars == <<cacheVars, topic, up, router, got, asked>>

NotForced == [newest |-> 0, late |-> FALSE]

\* What a page may show of k.
Views(k) == CASE k = "dsl" -> [connected : BOOLEAN, linked : BOOLEAN]
              [] k = "wlan" -> SUBSET ((DOMAIN Radios) \X (0 .. 1))
              [] k = "calls" -> 0 .. MaxCalls
              [] OTHER -> SUBSET Hosts

Reading(k) == [shown : Views(k), whole : BOOLEAN]

ASSUME ReadingAssumption == \A k \in Keys : NoValue \notin Reading(k)

Entry(k) == [val : Reading(k), left : 0 .. TTLs[k]] \cup {Cache!Gone}

\* What the requests for k may bring.
Said(k) == {Failed} \cup UNION {Content(Parts(k)[i]) : i \in DOMAIN Parts(k)}

TypeOK ==
  /\ topic \in Keys /\ up \in BOOLEAN
  /\ store \in [Keys -> Entry(topic)]
  /\ \A k \in Keys \ {topic} : store[k] = Cache!Gone
  /\ pc \in [Callers -> {"idle", "waiting", "fetching"}]
  /\ key \in [Callers -> {topic, NoKey}]
  /\ result \in [Callers -> Reading(topic) \cup {NoValue}]
  /\ DOMAIN router = AllParts /\ \A p \in AllParts : router[p] \in Content(p)
  /\ got \in [Callers -> Seq(Said(topic))]
  /\ \A c \in Callers :
       /\ Len(got[c]) > 0 => pc[c] = "fetching"
       /\ Len(got[c]) <= Len(Parts(topic))
       /\ \A i \in DOMAIN got[c] : got[c][i] \in Content(Parts(topic)[i]) \cup {Failed}
  /\ asked \in [Callers -> [newest : 0 .. MaxCalls, late : BOOLEAN]]

Init == /\ Cache!Init
        /\ topic \in Keys
        /\ up = TRUE
        /\ router = [p \in AllParts |->
             CASE p = "hosts" -> {}
               [] p \in {"is_connected", "is_linked", "link_props"} -> FALSE
               [] OTHER -> 0]
        /\ got = [c \in Callers |-> <<>>]
        /\ asked = [c \in Callers |-> NotForced]

-----------------------------------------------------------------------------
(* get_calls, get_stats, get_dsl_status, get_wlan_networks, get_hosts.     *)

Ask(c, k) == /\ Cache!Call(c, k)
             /\ asked' = [asked EXCEPT ![c] = NotForced]
             /\ UNCHANGED <<topic, up, router, got>>

\* What a read that the user forces must not miss.
Notes(c) == asked' = [asked EXCEPT ![c] =
  [newest |-> router["calls"],
   late |-> \E d \in Callers : pc[d] = "fetching" /\ got[d] # <<>>]]

\* Variant: another key is invalidated.
AskForcedInVain(c) == /\ Cache!Call(c, "calls")
                      /\ Notes(c)
                      /\ UNCHANGED <<topic, up, router, got>>

\* force_refresh: invalidate, then get_or_fetch, without an await between.
AskForced(c) ==
  /\ pc[c] = "idle"
  /\ store' = [store EXCEPT !["calls"] = Cache!Gone]
  /\ key' = [key EXCEPT ![c] = "calls"]
  /\ IF Cache!Acquirable("calls")
       THEN /\ lock' = [lock EXCEPT !["calls"] = c]
            /\ pc' = [pc EXCEPT ![c] = "fetching"]
            /\ UNCHANGED queue
       ELSE /\ queue' = [queue EXCEPT !["calls"] = Append(@, c)]
            /\ pc' = [pc EXCEPT ![c] = "waiting"]
            /\ UNCHANGED lock
  /\ Notes(c)
  /\ UNCHANGED <<result, topic, up, router, got>>

Wakes(c, k) == /\ Cache!Wake(c, k)
               /\ UNCHANGED <<topic, up, router, got, asked>>

\* The next request of the fetch is answered, or fails.
Request(c) ==
  LET parts == Parts(key[c]) IN
  /\ pc[c] = "fetching"
  /\ Len(got[c]) < Len(parts)
  /\ got' = [got EXCEPT ![c] =
       Append(@, IF up THEN router[parts[Len(@) + 1]] ELSE Failed)]
  /\ UNCHANGED <<cacheVars, topic, up, router, asked>>

\* No exception leaves a fetch: whatever came is the answer.
Returns(c, k) == /\ pc[c] = "fetching" /\ key[c] = k
                 /\ Len(got[c]) = Len(Parts(k))
                 /\ Cache!FetchReturns(c, k, Answer(k, got[c]))
                 /\ got' = [got EXCEPT ![c] = <<>>]
                 /\ UNCHANGED <<topic, up, router, asked>>

-----------------------------------------------------------------------------
(* The router, and the clock.                                              *)

RouterChanges(part) ==
  /\ part \in {Parts(topic)[i] : i \in DOMAIN Parts(topic)}
  /\ \E v \in Content(part) :
       /\ part = "calls" => v = router[part] + 1
       /\ router' = [router EXCEPT ![part] = v]
  /\ UNCHANGED <<cacheVars, topic, up, got, asked>>

RouterComesAndGoes == /\ up' = ~up
                      /\ UNCHANGED <<cacheVars, topic, router, got, asked>>

Tick == /\ Cache!Tick
        /\ UNCHANGED <<topic, up, router, got, asked>>

Next == \/ \E c \in Visitors[topic] :
             \/ Ask(c, topic) \/ Wakes(c, topic) \/ Returns(c, topic)
             \/ topic = "calls" /\ AskForced(c)
             \/ Request(c)
        \/ \E part \in AllParts : RouterChanges(part)
        \/ RouterComesAndGoes
        \/ Tick

(* Time passes, the event loop runs what is ready, and a request to the    *)
(* router ends.  Nobody is obliged to ask, and the router may stay away.   *)
Fairness == /\ WF_vars(Tick)
            /\ \A c \in Callers :
                 /\ WF_vars(Request(c))
                 /\ \A k \in Keys : WF_vars(Wakes(c, k) \/ Returns(c, k))

Spec == Init /\ [][Next]_vars /\ Fairness

-----------------------------------------------------------------------------
(* Properties.                                                             *)

\* phone/service.py:202-203 says that a forced read "bypasses the cache" and
\* "always gets fresh data".  It only invalidates and may then queue behind an
\* older fetch: it misses a call that was there when it was asked for, but
\* only if a fetch under way at that time had read the list already, however
\* many callers queue and force at once.
OlderOnlyIfAlreadyRead ==
  topic = "calls" =>
    \A c \in Callers :
      pc[c] = "idle" /\ result[c] # NoValue /\ result[c].whole =>
        asked[c].late \/ result[c].shown >= asked[c].newest

\* What failed requests left out is cached like an answer, but once the
\* router answers and goes on answering, the pages are whole again, however
\* many viewers keep asking.
FailuresPass ==
  <>[]up => <>[](Cache!IsValid(topic) => store[topic].val.whole)

=============================================================================
