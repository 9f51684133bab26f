--------------------------- MODULE CacheContract ---------------------------
(***************************************************************************)
(* What app/cache.py promises to its callers, without saying how: for each *)
(* key there is at most one fetch under way, a fetch is begun only while   *)
(* nothing valid is cached, and a fetch that was begun ends.  TTLCache is  *)
(* shown to implement this specification; its locks, waiters and clocks    *)
(* are not visible here.                                                   *)
(***************************************************************************)

CONSTANTS
  Callers,   \* coroutines that may call get_or_fetch
  Keys,      \* cache keys
  NoCaller   \* "nobody is fetching this key"

VARIABLES
  live,      \* live[k]: a valid value is cached under k
  leader     \* leader[k]: the caller fetching k, or NoCaller

vars == <<live, leader>>

Init == /\ live = [k \in Keys |-> FALSE]
        /\ leader = [k \in Keys |-> NoCaller]

\* A caller finds nothing valid and nobody fetching, and becomes the fetcher.
Lead(c, k) == /\ ~live[k]
              /\ leader[k] = NoCaller
              /\ leader' = [leader EXCEPT ![k] = c]
              /\ UNCHANGED live

\* The fetch succeeds: its value is cached.
Land(k) == /\ leader[k] # NoCaller
           /\ leader' = [leader EXCEPT ![k] = NoCaller]
           /\ live' = [live EXCEPT ![k] = TRUE]

\* The fetch raises: nothing is cached and the next caller may try.
GiveUp(k) == /\ leader[k] # NoCaller
             /\ leader' = [leader EXCEPT ![k] = NoCaller]
             /\ UNCHANGED live

\* Somebody else provides a value.
Provide(k) == /\ live' = [live EXCEPT ![k] = TRUE]
              /\ UNCHANGED leader

\* Values lapse, by age or because they are thrown away.
Lapse(K) == /\ live' = [k \in Keys |-> live[k] /\ k \notin K]
            /\ UNCHANGED leader

Next == \/ \E k \in Keys : \/ \E c \in Callers : Lead(c, k)
                           \/ Land(k)
                           \/ GiveUp(k)
                           \/ Provide(k)
        \/ \E K \in SUBSET Keys : Lapse(K)

Fairness == \A k \in Keys : WF_vars(Land(k) \/ GiveUp(k))

Spec == Init /\ [][Next]_vars /\ Fairness

=============================================================================
