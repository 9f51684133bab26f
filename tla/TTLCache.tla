------------------------------ MODULE TTLCache ------------------------------
(***************************************************************************)
(* The in-process cache of app/cache.py: get_or_fetch with its lock-free   *)
(* fast path, its per-key asyncio.Lock and the second look under the lock, *)
(* and set, invalidate and clear.                                          *)
(*                                                                         *)
(* Coroutines interleave only at an await that suspends.  Acquiring a free *)
(* asyncio.Lock nobody waits for does not suspend, and the meta lock of    *)
(* _key_lock is never held across an await, so the code from the fast path *)
(* to the start of the fetch (or to the wait for the key's lock) is one    *)
(* step.  A released lock is handed to its waiters in FIFO order: until    *)
(* the first of them has run, acquire() makes newcomers wait.              *)
(*                                                                         *)
(* An entry carries how long it stays valid (`left') in place of the       *)
(* absolute expires_at: left = expires_at - time.monotonic(), counted down *)
(* by Tick, and left = 0 is "expired or not there", which no caller can    *)
(* tell apart.                                                             *)
(*                                                                         *)
(* A definition marked `Variant' is not part of the specification: it is a *)
(* bug the code might have, kept to see which property notices it.         *)
(***************************************************************************)
EXTENDS Integers, Sequences

CONSTANTS
  Callers,   \* coroutines that call get_or_fetch
  Keys,      \* cache keys
  Values,    \* what a fetch or a set may deliver
  NoCaller,  \* "the lock is free"
  NoKey,     \* "this coroutine is not inside get_or_fetch"
  NoValue,   \* no value yet, or the call raised
  FetchTTL,  \* FetchTTL[k]: the ttl the callers of get_or_fetch pass for k
  SetTTL     \* the ttl passed to set()

ASSUME CacheAssumption ==
  /\ NoCaller \notin Callers
  /\ NoKey \notin Keys
  /\ NoValue \notin Values
  /\ FetchTTL \in [Keys -> Nat \ {0}]
  /\ SetTTL \in Nat \ {0}

VARIABLES
  store,    \* _store: the entry of each key
  lock,     \* lock[k]: the holder of k's asyncio.Lock
  queue,    \* queue[k]: coroutines suspended in acquire(), oldest first
  pc,       \* where each coroutine is
  key,      \* the key argument of the call under way
  result    \* what the last finished call returned; NoValue if it raised

cacheVars == <<store, lock, queue, pc, key, result>>

Gone == [val |-> NoValue, left |-> 0]

Entry == [val : Values, left : Nat] \cup {Gone}

TypeOK == /\ store \in [Keys -> Entry]
          /\ lock \in [Keys -> Callers \cup {NoCaller}]
          /\ queue \in [Keys -> Seq(Callers)]
          /\ pc \in [Callers -> {"idle", "waiting", "fetching"}]
          /\ key \in [Callers -> Keys \cup {NoKey}]
          /\ result \in [Callers -> Values \cup {NoValue}]

Init == /\ store = [k \in Keys |-> Gone]
        /\ lock = [k \in Keys |-> NoCaller]
        /\ queue = [k \in Keys |-> <<>>]
        /\ pc = [c \in Callers |-> "idle"]
        /\ key = [c \in Callers |-> NoKey]
        /\ result = [c \in Callers |-> NoValue]

-----------------------------------------------------------------------------
(* Entries.                                                                *)

IsValid(k) == store[k].left > 0

Put(k, v, ttl) ==
  store' = [store EXCEPT ![k] = [val |-> v, left |-> ttl]]

-----------------------------------------------------------------------------
(* get_or_fetch.                                                           *)

Returns(c, v) == /\ pc' = [pc EXCEPT ![c] = "idle"]
                 /\ key' = [key EXCEPT ![c] = NoKey]
                 /\ result' = [result EXCEPT ![c] = v]

StartsFetch(c, k) == /\ lock' = [lock EXCEPT ![k] = c]
                     /\ pc' = [pc EXCEPT ![c] = "fetching"]
                     /\ key' = [key EXCEPT ![c] = k]
                     /\ UNCHANGED <<store, result>>

\* Variant: no lock around the fetch.
AcquirableAlways(k) == TRUE

\* acquire() does not suspend: unlocked, and nobody is ahead in the queue.
Acquirable(k) == lock[k] = NoCaller /\ queue[k] = <<>>

\* Variant: a hit renews the entry.
HitRenews(c, k) == /\ pc[c] = "idle"
                   /\ IsValid(k)
                   /\ Returns(c, store[k].val)
                   /\ Put(k, store[k].val, FetchTTL[k])
                   /\ UNCHANGED <<lock, queue>>

Hit(c, k) == /\ pc[c] = "idle"
             /\ IsValid(k)
             /\ Returns(c, store[k].val)
             /\ UNCHANGED <<store, lock, queue>>

Lead(c, k) == /\ pc[c] = "idle"
              /\ ~IsValid(k)
              /\ Acquirable(k)
              /\ StartsFetch(c, k)
              /\ UNCHANGED queue

Wait(c, k) == /\ pc[c] = "idle"
              /\ ~IsValid(k)
              /\ ~Acquirable(k)
              /\ queue' = [queue EXCEPT ![k] = Append(@, c)]
              /\ pc' = [pc EXCEPT ![c] = "waiting"]
              /\ key' = [key EXCEPT ![c] = k]
              /\ UNCHANGED <<store, lock, result>>

\* The oldest waiter gets the released lock and looks at the store again.
Granted(c, k) == /\ pc[c] = "waiting"
                 /\ key[c] = k
                 /\ lock[k] = NoCaller
                 /\ queue[k] # <<>>
                 /\ c = Head(queue[k])
                 /\ queue' = [queue EXCEPT ![k] = Tail(@)]

\* Another coroutine has filled the entry: take and release the lock at once.
WakeHit(c, k) == /\ Granted(c, k)
                 /\ IsValid(k)
                 /\ Returns(c, store[k].val)
                 /\ UNCHANGED <<store, lock>>

\* Variant: no second look under the lock.
WakeBlind(c, k) == Granted(c, k) /\ StartsFetch(c, k)

WakeMiss(c, k) == /\ Granted(c, k)
                  /\ ~IsValid(k)
                  /\ StartsFetch(c, k)

Releases(c, k) == /\ pc[c] = "fetching"
                  /\ key[c] = k
                  /\ lock' = [lock EXCEPT ![k] = NoCaller]
                  /\ UNCHANGED queue

FetchReturns(c, k, v) == /\ Releases(c, k)
                         /\ Put(k, v, FetchTTL[k])
                         /\ Returns(c, v)

\* Variant: the exception leaves the lock taken.
FetchRaisesLocked(c, k) == /\ pc[c] = "fetching"
                           /\ key[c] = k
                           /\ Returns(c, NoValue)
                           /\ UNCHANGED <<store, lock, queue>>

\* Variant: the failure is caught and kept for the ttl like a value.
FetchRaisesKept(c, k) == /\ Releases(c, k)
                         /\ Put(k, NoValue, FetchTTL[k])
                         /\ Returns(c, NoValue)

FetchRaises(c, k) == /\ Releases(c, k)
                     /\ Returns(c, NoValue)
                     /\ UNCHANGED store

-----------------------------------------------------------------------------
(* set, invalidate, clear, and the clock.                                  *)

Set(k, v) == /\ Put(k, v, SetTTL)
             /\ UNCHANGED <<lock, queue, pc, key, result>>

Invalidate(k) == /\ store' = [store EXCEPT ![k] = Gone]
                 /\ UNCHANGED <<lock, queue, pc, key, result>>

Clear == /\ store' = [k \in Keys |-> Gone]
         /\ UNCHANGED <<lock, queue, pc, key, result>>

Older(e) == [e EXCEPT !.left = IF @ = 0 THEN 0 ELSE @ - 1]

Tick == /\ store' = [k \in Keys |-> Older(store[k])]
        /\ UNCHANGED <<lock, queue, pc, key, result>>

-----------------------------------------------------------------------------

FetchEnds(c, k) == FetchRaises(c, k) \/ \E v \in Values : FetchReturns(c, k, v)

Call(c, k) == Hit(c, k) \/ Lead(c, k) \/ Wait(c, k)

Wake(c, k) == WakeHit(c, k) \/ WakeMiss(c, k)

Next == \/ \E c \in Callers, k \in Keys :
             Call(c, k) \/ Wake(c, k) \/ FetchEnds(c, k)
        \/ \E k \in Keys : Invalidate(k) \/ \E v \in Values : Set(k, v)
        \/ Clear
        \/ Tick

(* The event loop runs every coroutine that is ready, and a provider call  *)
(* ends, with an answer or an error: it is one HTTP request in a worker    *)
(* thread.  Nothing obliges anybody to call, set or invalidate.            *)
Fairness == \A c \in Callers, k \in Keys :
              WF_cacheVars(Wake(c, k)) /\ WF_cacheVars(FetchEnds(c, k))

Spec == Init /\ [][Next]_cacheVars /\ Fairness

-----------------------------------------------------------------------------
(* Properties.                                                             *)

\* "Only one caller fetches from FRITZ!Box" (cache.py:9-11): no two
\* coroutines are ever inside fetch() for the same key, whatever is set,
\* invalidated, cleared or raised meanwhile.
SingleFlight ==
  \A c, d \in Callers :
    pc[c] = "fetching" /\ pc[d] = "fetching" /\ key[c] = key[d] => c = d

\* Every call of get_or_fetch ends, also behind a convoy of waiters whose
\* fetches raise one after the other.
EveryCallReturns ==
  \A c \in Callers : pc[c] # "idle" ~> pc[c] = "idle"

\* The cache implements its contract: one fetcher a key, no fetch while a
\* valid value is cached, and every fetch ends.
Contract == INSTANCE CacheContract WITH
              live <- [k \in Keys |-> IsValid(k)],
              leader <- lock

ImplementsContract == Contract!Spec

=============================================================================
