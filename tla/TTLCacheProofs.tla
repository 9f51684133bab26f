--------------------------- MODULE TTLCacheProofs ---------------------------
(***************************************************************************)
(* Theorems about TTLCache for any callers, keys, values and ttls.  The    *)
(* argument for SingleFlight is that the lock knows who fetches: a caller  *)
(* inside fetch() holds its key's lock, and whoever holds a lock is inside *)
(* fetch() for that key.  SingleFlight alone is not inductive, because it  *)
(* does not say that a free lock means that nobody fetches.                *)
(*                                                                           *)
(* That a lock's queue is those who wait for it, each once, is the second  *)
(* invariant (QueueInv): it says that nobody is left waiting for a lock    *)
(* that no fetch will release.                                             *)
(***************************************************************************)
EXTENDS TTLCache, TLAPS

\* The lock's holder is the one coroutine that fetches the key.
LockInv ==
  /\ \A c \in Callers : pc[c] = "fetching" => key[c] \in Keys /\ lock[key[c]] = c
  /\ \A k \in Keys : lock[k] # NoCaller =>
       pc[lock[k]] = "fetching" /\ key[lock[k]] = k

IInv == TypeOK /\ LockInv

-----------------------------------------------------------------------------
(* Type correctness, one lemma for the steps.                              *)

LEMMA GoneIsEntry == Gone \in Entry
  BY DEF Gone, Entry

\* A tick keeps an entry an entry, and takes one from what is left of it.
LEMMA OlderType ==
  ASSUME NEW e \in Entry
  PROVE  /\ Older(e) \in Entry
         /\ e.left \in Nat
         /\ Older(e).left = IF e.left = 0 THEN 0 ELSE e.left - 1
  <1>1. CASE e = Gone
    BY <1>1 DEF Gone, Older, Entry
  <1>2. CASE e \in [val : Values, left : Nat]
    <2> DEFINE left == IF e.left = 0 THEN 0 ELSE e.left - 1
    <2>1. left \in Nat /\ e.left \in Nat
      BY <1>2
    <2>2. Older(e) = [e EXCEPT !.left = left]
      BY DEF Older
    <2>3. QED
      BY <1>2, <2>1, <2>2 DEF Entry
  <1>3. QED
    BY <1>1, <1>2 DEF Entry

\* Writing an entry keeps the store well-formed.
LEMMA PutType ==
  ASSUME TypeOK, NEW k \in Keys, NEW v \in Values, NEW ttl \in Nat, Put(k, v, ttl)
  PROVE  store' \in [Keys -> Entry]
  BY DEF TypeOK, Put, Entry

\* Handing the head of a queue the lock keeps the queues well-formed.
LEMMA GrantedType ==
  ASSUME TypeOK, NEW c \in Callers, NEW k \in Keys, Granted(c, k)
  PROVE  queue' \in [Keys -> Seq(Callers)]
  <1>1. queue[k] \in Seq(Callers) /\ queue[k] # <<>>
    BY DEF TypeOK, Granted
  <1>2. Tail(queue[k]) \in Seq(Callers)
    BY <1>1
  <1>3. QED
    BY <1>2 DEF TypeOK, Granted

LEMMA TypeStep == TypeOK /\ [Next]_cacheVars => TypeOK'
  <1> SUFFICES ASSUME TypeOK, [Next]_cacheVars
               PROVE  TypeOK'
    OBVIOUS
  <1>1. ASSUME NEW c \in Callers, NEW k \in Keys, Hit(c, k) \/ WakeHit(c, k)
        PROVE  TypeOK'
    <2>1. store[k].val \in Values \cup {NoValue}
      BY DEF TypeOK, Entry, Gone
    <2>2. queue' \in [Keys -> Seq(Callers)]
      BY <1>1, GrantedType DEF Hit, WakeHit, TypeOK
    <2>3. QED
      BY <1>1, <2>1, <2>2 DEF TypeOK, Hit, WakeHit, Returns
  <1>2. ASSUME NEW c \in Callers, NEW k \in Keys, Lead(c, k) \/ WakeMiss(c, k)
        PROVE  TypeOK'
    <2>1. queue' \in [Keys -> Seq(Callers)]
      BY <1>2, GrantedType DEF Lead, WakeMiss, TypeOK
    <2>2. QED
      BY <1>2, <2>1 DEF TypeOK, Lead, WakeMiss, StartsFetch
  <1>3. ASSUME NEW c \in Callers, NEW k \in Keys, Wait(c, k)
        PROVE  TypeOK'
    <2>1. Append(queue[k], c) \in Seq(Callers)
      BY DEF TypeOK
    <2>2. QED
      BY <1>3, <2>1 DEF TypeOK, Wait
  <1>4. ASSUME NEW c \in Callers, NEW k \in Keys, NEW v \in Values,
               FetchReturns(c, k, v)
        PROVE  TypeOK'
    <2>1. store' \in [Keys -> Entry]
      BY <1>4, PutType, CacheAssumption DEF FetchReturns, CacheAssumption
    <2>2. QED
      BY <1>4, <2>1 DEF TypeOK, FetchReturns, Releases, Returns
  <1>5. ASSUME NEW c \in Callers, NEW k \in Keys, FetchRaises(c, k)
        PROVE  TypeOK'
    BY <1>5 DEF TypeOK, FetchRaises, Releases, Returns
  <1>6. ASSUME NEW k \in Keys, NEW v \in Values, Set(k, v)
        PROVE  TypeOK'
    <2>1. store' \in [Keys -> Entry]
      BY <1>6, PutType, CacheAssumption DEF Set, CacheAssumption
    <2>2. QED
      BY <1>6, <2>1 DEF TypeOK, Set
  <1>7. ASSUME NEW k \in Keys, Invalidate(k)
        PROVE  TypeOK'
    BY <1>7, GoneIsEntry DEF TypeOK, Invalidate
  <1>8. CASE Clear
    BY <1>8, GoneIsEntry DEF TypeOK, Clear
  <1>9. CASE Tick
    <2>1. \A k \in Keys : Older(store[k]) \in Entry
      BY OlderType DEF TypeOK
    <2>2. QED
      BY <1>9, <2>1 DEF TypeOK, Tick
  <1>10. CASE UNCHANGED cacheVars
    BY <1>10 DEF TypeOK, cacheVars
  <1>11. QED
    BY <1>1, <1>2, <1>3, <1>4, <1>5, <1>6, <1>7, <1>8, <1>9, <1>10
       DEF Next, Call, Wake, FetchEnds

\* Every variable of the cache always has its type.
THEOREM TypeCorrect == Spec => []TypeOK
  <1>1. Init => TypeOK
    BY GoneIsEntry DEF Init, TypeOK
  <1>2. QED
    BY <1>1, TypeStep, PTL DEF Spec

-----------------------------------------------------------------------------
(* Mutual exclusion per key.                                               *)

LEMMA LockStep == TypeOK /\ LockInv /\ [Next]_cacheVars => LockInv'
  <1> SUFFICES ASSUME TypeOK, LockInv, [Next]_cacheVars
               PROVE  LockInv'
    OBVIOUS
  <1>1. ASSUME NEW c \in Callers, NEW k \in Keys, Lead(c, k) \/ WakeMiss(c, k)
        PROVE  LockInv'
    <2>1. /\ pc[c] # "fetching" /\ lock[k] = NoCaller
          /\ lock' = [lock EXCEPT ![k] = c]
          /\ pc' = [pc EXCEPT ![c] = "fetching"]
          /\ key' = [key EXCEPT ![c] = k]
      BY <1>1 DEF Lead, WakeMiss, Granted, Acquirable, StartsFetch
    <2>2. QED
      BY <2>1, CacheAssumption DEF LockInv, TypeOK, CacheAssumption
  <1>2. ASSUME NEW c \in Callers, NEW k \in Keys,
               FetchRaises(c, k) \/ \E v \in Values : FetchReturns(c, k, v)
        PROVE  LockInv'
    <2>1. /\ pc[c] = "fetching" /\ key[c] = k
          /\ lock' = [lock EXCEPT ![k] = NoCaller]
          /\ pc' = [pc EXCEPT ![c] = "idle"]
          /\ key' = [key EXCEPT ![c] = NoKey]
      BY <1>2 DEF FetchRaises, FetchReturns, Releases, Returns
    <2>2. QED
      BY <2>1, CacheAssumption DEF LockInv, TypeOK, CacheAssumption
  \* Neither the lock nor a fetching caller is touched.
  <1>3. ASSUME NEW c \in Callers, NEW k \in Keys,
               Hit(c, k) \/ WakeHit(c, k) \/ Wait(c, k)
        PROVE  LockInv'
    <2>1. /\ pc[c] # "fetching"
          /\ lock' = lock
          /\ \E p \in {"idle", "waiting"} : pc' = [pc EXCEPT ![c] = p]
          /\ \E x \in Keys \cup {NoKey} : key' = [key EXCEPT ![c] = x]
      BY <1>3 DEF Hit, WakeHit, Wait, Granted, Returns
    <2>2. QED
      BY <2>1, CacheAssumption DEF LockInv, TypeOK, CacheAssumption
  <1>4. CASE UNCHANGED <<lock, pc, key>>
    BY <1>4 DEF LockInv
  <1>5. QED
    BY <1>1, <1>2, <1>3, <1>4
       DEF Next, Call, Wake, FetchEnds, Invalidate, Set, Clear, Tick, cacheVars

\* The strengthened invariant holds in every reachable state.
THEOREM LockHolderFetches == Spec => []IInv
  <1>1. Init => LockInv
    BY CacheAssumption DEF Init, LockInv, CacheAssumption
  <1>2. QED
    BY <1>1, LockStep, TypeStep, TypeCorrect, PTL DEF Spec, IInv

\* No two coroutines fetch the same key at the same time.
THEOREM FetchIsExclusive == Spec => []SingleFlight
  <1>1. IInv => SingleFlight
    BY DEF IInv, LockInv, SingleFlight
  <1>2. QED
    BY <1>1, LockHolderFetches, PTL

-----------------------------------------------------------------------------
(* Progress, as far as a state invariant says it: nobody is stranded.      *)

\* q names every element of S once, and nothing else.
Lists(q, S) ==
  /\ \A i \in 1 .. Len(q) : q[i] \in S
  /\ \A x \in S : \E i \in 1 .. Len(q) : q[i] = x
  /\ \A i, j \in 1 .. Len(q) : q[i] = q[j] => i = j

LEMMA EmptyLists == ASSUME NEW S PROVE Lists(<<>>, S) <=> S = {}
  BY DEF Lists

LEMMA AppendLists ==
  ASSUME NEW T, NEW S, NEW q \in Seq(T), NEW x \in T, x \notin S, Lists(q, S)
  PROVE  Lists(Append(q, x), S \cup {x})
  <1> DEFINE a == Append(q, x)
  <1>1. /\ Len(q) \in Nat /\ Len(a) = Len(q) + 1
        /\ \A i \in 1 .. Len(q) : a[i] = q[i]
        /\ a[Len(q) + 1] = x
    OBVIOUS
  <1> HIDE DEF a
  <1>2. \A i \in 1 .. Len(a) : a[i] \in S \cup {x}
    BY <1>1 DEF Lists
  <1>3. \A y \in S \cup {x} : \E i \in 1 .. Len(a) : a[i] = y
    <2>1. ASSUME NEW y \in S PROVE \E i \in 1 .. Len(a) : a[i] = y
      BY <1>1 DEF Lists
    <2>2. Len(q) + 1 \in 1 .. Len(a)
      BY <1>1
    <2> QED BY <1>1, <2>1, <2>2
  <1>4. ASSUME NEW i \in 1 .. Len(a), NEW j \in 1 .. Len(a), a[i] = a[j]
        PROVE  i = j
    BY <1>1, <1>4 DEF Lists
  <1> QED BY <1>2, <1>3, <1>4 DEF Lists, a

LEMMA TailLists ==
  ASSUME NEW T, NEW S, NEW q \in Seq(T), q # <<>>, Lists(q, S)
  PROVE  /\ Head(q) \in S
         /\ Lists(Tail(q), S \ {Head(q)})
  <1> DEFINE t == Tail(q)
  <1>1. /\ Len(q) \in Nat \ {0} /\ Len(t) = Len(q) - 1 /\ Head(q) = q[1]
        /\ \A i \in 1 .. Len(q) - 1 : t[i] = q[i + 1]
    OBVIOUS
  <1> HIDE DEF t
  <1>2. 1 \in 1 .. Len(q) /\ Head(q) \in S
    BY <1>1 DEF Lists
  <1>3. ASSUME NEW i \in 1 .. Len(t)
        PROVE  i + 1 \in 1 .. Len(q) /\ i + 1 # 1 /\ t[i] = q[i + 1]
    BY <1>1
  <1>4. \A i \in 1 .. Len(t) : t[i] \in S \ {Head(q)}
    BY <1>1, <1>2, <1>3 DEF Lists
  <1>5. ASSUME NEW y \in S \ {Head(q)} PROVE \E i \in 1 .. Len(t) : t[i] = y
    <2>1. PICK i \in 1 .. Len(q) : q[i] = y
      BY DEF Lists
    <2>2. i # 1
      BY <1>1, <2>1
    <2>3. i - 1 \in 1 .. Len(t) /\ t[i - 1] = q[i]
      BY <1>1, <2>2
    <2> QED BY <2>1, <2>3
  <1>6. ASSUME NEW i \in 1 .. Len(t), NEW j \in 1 .. Len(t), t[i] = t[j]
        PROVE  i = j
    <2>1. i + 1 = j + 1
      BY <1>3, <1>6 DEF Lists
    <2> QED BY <2>1
  <1> QED BY <1>2, <1>4, <1>5, <1>6 DEF Lists, t

Waiters(k) == {c \in Callers : pc[c] = "waiting" /\ key[c] = k}

\* Whoever waits is queued, once, at the lock of the key it asked for.
QueueInv ==
  /\ \A c \in Callers : pc[c] = "waiting" => key[c] \in Keys
  /\ \A k \in Keys : Lists(queue[k], Waiters(k))

\* d is the next to get k's lock, and nothing is left to wait for.
IsNext(d, k) == /\ pc[d] = "waiting" /\ key[d] = k
                /\ lock[k] = NoCaller
                /\ queue[k] # <<>> /\ d = Head(queue[k])

\* Behind whatever convoy a caller waits, somebody can go on: the one that
\* fetches its key, whose provider call ends, or else the first of the queue,
\* who is handed the lock.  No exception, invalidation or set loses a wake-up.
NobodyIsStranded ==
  \A c \in Callers : pc[c] = "waiting" =>
    \E d \in Callers : \/ pc[d] = "fetching" /\ key[d] = key[c]
                       \/ IsNext(d, key[c])

LEMMA QueueStep == TypeOK /\ QueueInv /\ [Next]_cacheVars => QueueInv'
  <1> SUFFICES ASSUME TypeOK, QueueInv, [Next]_cacheVars
               PROVE  QueueInv'
    OBVIOUS
  <1>1. ASSUME NEW c \in Callers, NEW k \in Keys, Wait(c, k)
        PROVE  QueueInv'
    <2>1. /\ pc[c] = "idle"
          /\ queue' = [queue EXCEPT ![k] = Append(queue[k], c)]
          /\ pc' = [pc EXCEPT ![c] = "waiting"]
          /\ key' = [key EXCEPT ![c] = k]
      BY <1>1 DEF Wait
    <2>2. /\ Waiters(k)' = Waiters(k) \cup {c} /\ c \notin Waiters(k)
          /\ \A x \in Keys \ {k} : Waiters(x)' = Waiters(x)
      BY <2>1 DEF Waiters, TypeOK
    <2>3. queue[k] \in Seq(Callers) /\ Lists(queue[k], Waiters(k))
      BY DEF TypeOK, QueueInv
    <2>4. Lists(Append(queue[k], c), Waiters(k)')
      BY <2>2, <2>3, AppendLists
    <2>5. \A x \in Keys : Lists(queue'[x], Waiters(x)')
      BY <2>1, <2>2, <2>4 DEF TypeOK, QueueInv
    <2>6. \A b \in Callers : pc'[b] = "waiting" => key'[b] \in Keys
      BY <2>1 DEF TypeOK, QueueInv
    <2> QED BY <2>5, <2>6 DEF QueueInv, Lists
  \* The head of the queue waits no longer, whether it finds or fetches.
  <1>2. ASSUME NEW c \in Callers, NEW k \in Keys, Wake(c, k)
        PROVE  QueueInv'
    <2>1. /\ pc[c] = "waiting" /\ key[c] = k /\ queue[k] # <<>>
          /\ c = Head(queue[k])
          /\ queue' = [queue EXCEPT ![k] = Tail(queue[k])]
          /\ \E p \in {"idle", "fetching"} : pc' = [pc EXCEPT ![c] = p]
          /\ \E x \in Keys \cup {NoKey} : key' = [key EXCEPT ![c] = x]
      BY <1>2 DEF Wake, WakeHit, WakeMiss, Granted, Returns, StartsFetch
    <2>2. /\ Waiters(k)' = Waiters(k) \ {c}
          /\ \A x \in Keys \ {k} : Waiters(x)' = Waiters(x)
      BY <2>1 DEF Waiters, TypeOK
    <2>3. queue[k] \in Seq(Callers) /\ Lists(queue[k], Waiters(k))
      BY DEF TypeOK, QueueInv
    <2>4. Lists(Tail(queue[k]), Waiters(k)')
      BY <2>1, <2>2, <2>3, TailLists
    <2>5. \A x \in Keys : Lists(queue'[x], Waiters(x)')
      <3>1. queue'[k] = Tail(queue[k]) /\ \A x \in Keys \ {k} : queue'[x] = queue[x]
        BY <2>1 DEF TypeOK
      <3> QED BY <2>2, <2>4, <3>1 DEF QueueInv
    <2>6. \A b \in Callers : pc'[b] = "waiting" => key'[b] \in Keys
      BY <2>1 DEF TypeOK, QueueInv
    <2> QED BY <2>5, <2>6 DEF QueueInv, Lists
  \* Nobody begins or ceases to wait.
  <1>3. ASSUME NEW c \in Callers, NEW k \in Keys,
               Hit(c, k) \/ Lead(c, k) \/ FetchEnds(c, k)
        PROVE  QueueInv'
    <2>1. /\ pc[c] # "waiting" /\ queue' = queue
          /\ \E p \in {"idle", "fetching"} : pc' = [pc EXCEPT ![c] = p]
          /\ \E x \in Keys \cup {NoKey} : key' = [key EXCEPT ![c] = x]
      BY <1>3 DEF Hit, Lead, FetchEnds, FetchRaises, FetchReturns, Releases,
                  Returns, StartsFetch
    <2>2. \A x \in Keys : Waiters(x)' = Waiters(x)
      BY <2>1 DEF Waiters, TypeOK
    <2>3. \A b \in Callers : pc'[b] = "waiting" => key'[b] \in Keys
      BY <2>1 DEF TypeOK, QueueInv
    <2> QED BY <2>1, <2>2, <2>3 DEF QueueInv, Lists
  <1>4. CASE UNCHANGED <<queue, pc, key>>
    BY <1>4 DEF QueueInv, Lists, Waiters
  <1>5. QED
    BY <1>1, <1>2, <1>3, <1>4
       DEF Next, Call, Invalidate, Set, Clear, Tick, cacheVars

\* At first nobody fetches and nobody waits.
LEMMA StartsRight == Init => IInv /\ QueueInv
  <1> SUFFICES ASSUME Init PROVE IInv /\ QueueInv
    OBVIOUS
  <1>1. TypeOK /\ LockInv
    BY GoneIsEntry, CacheAssumption DEF Init, TypeOK, LockInv, CacheAssumption
  <1>2. ASSUME NEW k \in Keys PROVE Lists(queue[k], Waiters(k))
    <2>1. queue[k] = <<>> /\ Waiters(k) = {}
      BY DEF Init, Waiters
    <2> QED BY <2>1, EmptyLists
  <1>3. \A c \in Callers : pc[c] # "waiting"
    BY DEF Init
  <1> QED BY <1>1, <1>2, <1>3 DEF IInv, QueueInv

\* In every reachable state each queue lists the callers that wait there.
THEOREM WaitersAreQueued == Spec => []QueueInv
  BY StartsRight, QueueStep, TypeCorrect, PTL DEF Spec

\* The step from the invariants to progress, for the modules that use the cache.
LEMMA LockServesQueue == IInv /\ QueueInv => NobodyIsStranded
  <1> SUFFICES ASSUME IInv, QueueInv, NEW c \in Callers, pc[c] = "waiting"
               PROVE  \E d \in Callers : \/ pc[d] = "fetching" /\ key[d] = key[c]
                                         \/ IsNext(d, key[c])
    BY DEF NobodyIsStranded
  <1> PICK k \in Keys : k = key[c]
    BY DEF QueueInv
  <1>1. CASE lock[k] # NoCaller
    BY <1>1 DEF IInv, TypeOK, LockInv
  <1>2. CASE lock[k] = NoCaller
    <2>1. queue[k] \in Seq(Callers) /\ Lists(queue[k], Waiters(k)) /\ c \in Waiters(k)
      BY DEF IInv, TypeOK, QueueInv, Waiters
    <2>2. queue[k] # <<>>
      BY <2>1, EmptyLists
    <2>3. Head(queue[k]) \in Waiters(k)
      BY <2>1, <2>2, TailLists
    <2> QED BY <1>2, <2>2, <2>3 DEF Waiters, IsNext
  <1> QED BY <1>1, <1>2

\* However many callers queue up, and whatever becomes of the fetches before
\* them, none is ever left waiting for a coroutine that is gone.
THEOREM NobodyWaitsInVain == Spec => []NobodyIsStranded
  BY LockHolderFetches, WaitersAreQueued, LockServesQueue, PTL

-----------------------------------------------------------------------------
(* The contract: every step of the cache is a step CacheContract allows.   *)

\* Entries that become invalid, and only those, are a lapse.
LEMMA LapseRule ==
  ASSUME NEW K \in SUBSET Keys, lock' = lock,
         \A k \in Keys : IsValid(k)' = (IsValid(k) /\ k \notin K)
  PROVE  Contract!Lapse(K)
  <1>1. [k \in Keys |-> IsValid(k)]'
          = [k \in Keys |-> IsValid(k) /\ k \notin K]
    OBVIOUS
  <1>2. [k \in Keys |-> IsValid(k) /\ k \notin K]
          = [k \in Keys |-> [x \in Keys |-> IsValid(x)][k] /\ k \notin K]
    OBVIOUS
  <1>3. QED
    BY <1>1, <1>2 DEF Contract!Lapse

LEMMA ContractStep ==
  TypeOK /\ LockInv /\ [Next]_cacheVars => [Contract!Next]_(Contract!vars)
  <1> SUFFICES ASSUME TypeOK, LockInv, [Next]_cacheVars
               PROVE  Contract!Next \/ UNCHANGED Contract!vars
    OBVIOUS
  <1> DEFINE Live == [k \in Keys |-> IsValid(k)]
  \* A fetch begins only when nothing valid is cached and nobody fetches.
  <1>1. ASSUME NEW c \in Callers, NEW k \in Keys, Lead(c, k) \/ WakeMiss(c, k)
        PROVE  Contract!Lead(c, k)
    <2>1. /\ ~IsValid(k) /\ lock[k] = NoCaller
          /\ lock' = [lock EXCEPT ![k] = c] /\ store' = store
      BY <1>1 DEF Lead, WakeMiss, Granted, Acquirable, StartsFetch
    <2>2. QED
      BY <2>1 DEF Contract!Lead, IsValid
  <1>2. ASSUME NEW c \in Callers, NEW k \in Keys, NEW v \in Values,
               FetchReturns(c, k, v)
        PROVE  Contract!Land(k)
    <2>1. FetchTTL[k] \in Nat /\ FetchTTL[k] > 0 /\ c # NoCaller
      BY CacheAssumption DEF CacheAssumption
    <2>2. lock[k] = c /\ lock' = [lock EXCEPT ![k] = NoCaller]
      BY <1>2 DEF FetchReturns, Releases, LockInv
    <2>3. store' = [store EXCEPT ![k] = [val |-> v, left |-> FetchTTL[k]]]
      BY <1>2 DEF FetchReturns, Put
    <2>4. Live' = [Live EXCEPT ![k] = TRUE]
      BY <2>1, <2>3 DEF IsValid, TypeOK
    <2>5. QED
      BY <2>1, <2>2, <2>4 DEF Contract!Land
  <1>3. ASSUME NEW c \in Callers, NEW k \in Keys, FetchRaises(c, k)
        PROVE  Contract!GiveUp(k)
    <2>1. /\ lock[k] = c /\ c # NoCaller
          /\ lock' = [lock EXCEPT ![k] = NoCaller] /\ store' = store
      BY <1>3, CacheAssumption DEF FetchRaises, Releases, LockInv, CacheAssumption
    <2>2. QED
      BY <2>1 DEF Contract!GiveUp, IsValid
  <1>4. ASSUME NEW k \in Keys, NEW v \in Values, Set(k, v)
        PROVE  Contract!Provide(k)
    <2>1. SetTTL \in Nat /\ SetTTL > 0
      BY CacheAssumption DEF CacheAssumption
    <2>2. /\ store' = [store EXCEPT ![k] = [val |-> v, left |-> SetTTL]]
          /\ lock' = lock
      BY <1>4 DEF Set, Put
    <2>3. Live' = [Live EXCEPT ![k] = TRUE]
      BY <2>1, <2>2 DEF IsValid, TypeOK
    <2>4. QED
      BY <2>2, <2>3 DEF Contract!Provide
  <1>5. ASSUME NEW k \in Keys, Invalidate(k)
        PROVE  Contract!Lapse({k})
    <2>1. \A x \in Keys : IsValid(x)' = (IsValid(x) /\ x \notin {k})
      BY <1>5 DEF Invalidate, Gone, IsValid, TypeOK
    <2>2. QED
      BY <1>5, <2>1, LapseRule DEF Invalidate
  <1>6. CASE Clear
    <2>1. Contract!Lapse(Keys)
      BY <1>6 DEF Clear, Gone, IsValid, Contract!Lapse
    <2>2. QED
      BY <2>1 DEF Contract!Next
  <1>7. CASE Tick
    <2> DEFINE Expiring == {k \in Keys : store[k].left = 1}
    <2>1. \A k \in Keys : IsValid(k)' = (IsValid(k) /\ k \notin Expiring)
      <3> SUFFICES ASSUME NEW k \in Keys
                   PROVE  IsValid(k)' = (IsValid(k) /\ k \notin Expiring)
        OBVIOUS
      <3>1. store[k] \in Entry /\ store'[k] = Older(store[k])
        BY <1>7 DEF Tick, TypeOK
      <3>2. /\ store[k].left \in Nat
            /\ Older(store[k]).left = IF store[k].left = 0 THEN 0
                                      ELSE store[k].left - 1
        BY <3>1, OlderType
      <3>3. QED
        BY <3>1, <3>2 DEF IsValid
    <2>2. Contract!Lapse(Expiring)
      BY <1>7, <2>1, LapseRule DEF Tick
    <2>3. QED
      BY <2>2 DEF Contract!Next
  <1>8. ASSUME NEW c \in Callers, NEW k \in Keys,
               Hit(c, k) \/ WakeHit(c, k) \/ Wait(c, k)
        PROVE  UNCHANGED Contract!vars
    BY <1>8 DEF Hit, WakeHit, Wait, Contract!vars, IsValid
  <1>9. CASE UNCHANGED cacheVars
    BY <1>9 DEF cacheVars, Contract!vars, IsValid
  <1>10. QED
    BY <1>1, <1>2, <1>3, <1>4, <1>5, <1>6, <1>7, <1>8, <1>9
       DEF Next, Call, Wake, FetchEnds, Contract!Next

LEMMA ContractStart == Init => Contract!Init
  <1>1. ASSUME Init, NEW k \in Keys PROVE IsValid(k) = FALSE
    BY <1>1 DEF Init, IsValid, Gone
  <1>2. QED
    BY <1>1, Zenon DEF Init, Contract!Init

\* The cache keeps the safety part of its contract: one fetcher a key, and no
\* fetch begins while a valid value is cached.
THEOREM ContractIsKept ==
  Spec => Contract!Init /\ [][Contract!Next]_(Contract!vars)
  BY ContractStart, ContractStep, LockHolderFetches, PTL DEF Spec, IInv

=============================================================================
