--------------------------- MODULE MirrorsProofs ---------------------------
(***************************************************************************)
(* Theorems about what the process mirrors of the world outside, for any   *)
(* number of callers, devices, parts and answers: the device rows          *)
(* (Inventory), the weather row (WeatherCache) and the call list with the  *)
(* other readings of the router (RouterReads).  The three have no step in  *)
(* common.  The device rows are this module's own variables; the other two *)
(* are instances, and a theorem about one says that it follows from the    *)
(* assumptions of that module on its constants.                            *)
(*                                                                         *)
(* Inventory.  What a discovery has flushed, and what it has yet to do,    *)
(* fits what the box reported and the rows as they are (Orderly), although *)
(* others write them meanwhile: nobody removes a row, and a row with a     *)
(* flushed statement is locked.  Of a row nobody else has written since    *)
(* the box was asked it goes by the current is_active (Current).  At the   *)
(* commit the two say that every row follows the report.  FavouritesKept   *)
(* needs to know that a device without a row is nobody's favourite, and    *)
(* that an insert is flushed only for such a device.  A discovery that     *)
(* walks the report locks rows in the order of the AINs (Climbing): those  *)
(* that walk never wait for each other in a circle.                        *)
(*                                                                         *)
(* WeatherCache.  The row is never removed, so a filler that has loaded it *)
(* updates one that is there; a filler that is about to write holds a      *)
(* response.                                                               *)
(*                                                                         *)
(* RouterReads.  Until a forced read is answered, nothing that is cached   *)
(* or that a fetch has received is older than the newest call at the time  *)
(* of the question, unless a fetch had the list already: the read empties  *)
(* the cache, and the list only grows.  What TTLCacheProofs says of a      *)
(* cache is true of these: a forced read is the call of one whose entries  *)
(* are all gone (Emptied), any other step one of the cache (Cached).       *)
(***************************************************************************)
EXTENDS Inventory, Sequences, SequenceTheorems, TLAPS

CONSTANTS Handlers, Job, Rule, Responses, Provider, TTL, NoResponse, Null
VARIABLES keyed, weatherRow, filler, overtaken

Weather == INSTANCE WeatherCache WITH Requests <- Handlers, row <- weatherRow

CONSTANTS Callers, Visitors, Radios, Hosts, TTLs, MaxCalls, NoCaller, NoKey,
          NoValue, Failed, Absent
VARIABLES store, lock, queue, pc, key, result, topic, up, router, got, asked

Reads == INSTANCE RouterReads

-----------------------------------------------------------------------------
(* The rows of devices.                                                    *)

\* No row is locked by two discoveries.
LocksHeld == \A d, e \in Discoveries :
  d # e => DOMAIN disc[d].work \cap DOMAIN disc[e].work = {}

\* What a discovery has flushed and has yet to do fits what the box reported
\* and the rows r, whoever else has written them.
Orderly(p, r) ==
  /\ \A a \in DOMAIN p.work : /\ p.work[a] = "insert" <=> r[a] = NoRow
                              /\ p.work[a] = "deactivate" <=> a \notin p.report
  /\ p.step \in {"asked", "looked"} => p.todo \cup DOMAIN p.work = p.report
  /\ p.step = "looked" => p.ain \in p.todo /\ (p.seen # NoRow => r[p.ain] # NoRow)
  /\ p.step = "dropping" =>
       /\ p.report \subseteq DOMAIN p.work
       /\ \A a \in p.todo : a \notin p.report /\ r[a] # NoRow

\* Of the devices A it goes by what the rows r say.
Current(p, A, r) == \A a \in A :
  /\ p.step = "looked" /\ p.ain = a /\ r[a] # NoRow => p.seen = r[a].is_active
  /\ a \in DOMAIN p.work /\ p.work[a] = "touch" => r[a].is_active
  /\ p.step = "dropping" /\ a \notin DOMAIN p.work /\ r[a] # NoRow
       /\ r[a].is_active => a \in p.todo

\* An edit q does what was asked for; who edits a device has found its row.
AsAsked(q, r) == /\ q # Idle => q.op = q.req.op
                 /\ q.op = "patch" => q # Idle /\ r[q.req.ain] # NoRow

EditsAsAsked == \A e \in Editors : AsAsked(editor[e], row)

\* A device without a row is nobody's favourite.
Wishes == \A a \in Ains : IF row[a] = NoRow THEN ~wish[a]
                          ELSE row[a].is_favorite = wish[a] \/ raced[a]

DiscoveriesInv == \A d \in Discoveries :
  Orderly(disc[d], row) /\ Current(disc[d], Ains \ touched[d], row)

InventoryInv == TypeOK /\ LocksHeld /\ EditsAsAsked /\ Wishes /\ DiscoveriesInv

\* The work of a discovery is a set of statements, one for each of some AINs.
LEMMA WorkType ==
  ASSUME NEW w
  PROVE  w \in Works <=> DOMAIN w \subseteq Ains /\ w \in [DOMAIN w -> Statement]
<1>1. ASSUME NEW A \in SUBSET Ains, w \in [A -> Statement]
      PROVE  DOMAIN w \subseteq Ains /\ w \in [DOMAIN w -> Statement]
  BY <1>1
<1> QED BY <1>1 DEF Works

\* An idle discovery has nothing to be wrong about.
LEMMA QuietIsFine ==
  ASSUME NEW A, NEW r
  PROVE  Quiet \in Discovery /\ Orderly(Quiet, r) /\ Current(Quiet, A, r)
<1>1. Quiet.work \in [{} -> Statement] /\ DOMAIN Quiet.work = {}
  BY DEF Quiet
<1>2. Quiet.work \in Works
  BY <1>1, WorkType
<1>3. Quiet \in Discovery
  BY <1>2 DEF Quiet, Discovery
<1>4. Quiet.step = "idle"
  BY DEF Quiet
<1> QED BY <1>1, <1>3, <1>4 DEF Orderly, Current

\* A discovery goes on to q, and writes no row.
LEMMA DiscoveryGoesOn ==
  ASSUME InventoryInv, NEW d \in Discoveries, NEW q \in Discovery, Goes(d, q),
         touched' \in [Discoveries -> SUBSET Ains],
         \A e \in Discoveries \ {d} : disc[e] = Quiet \/ touched'[e] = touched[e],
         \A a \in DOMAIN q.work : ~LockedByOther(d, a),
         Orderly(q, row), Current(q, Ains \ touched'[d], row)
  PROVE  InventoryInv'
<1>0. /\ disc' = [disc EXCEPT ![d] = q] /\ disc \in [Discoveries -> Discovery]
      /\ UNCHANGED <<row, groups, made, members, editor, wish, raced>>
  BY DEF Goes, rows, InventoryInv, TypeOK
<1>1. TypeOK'
  BY <1>0 DEF InventoryInv, TypeOK, Known
<1>2. LocksHeld'
  BY <1>0 DEF InventoryInv, LocksHeld, LockedByOther
<1>3. EditsAsAsked' /\ Wishes'
  BY <1>0 DEF InventoryInv, EditsAsAsked, AsAsked, Wishes
<1>4. DiscoveriesInv'
  <2>1. ASSUME NEW e \in Discoveries
        PROVE  Orderly(disc'[e], row) /\ Current(disc'[e], Ains \ touched'[e], row)
    <3>1. CASE e = d
      BY <1>0, <3>1
    <3>2. CASE e # d /\ disc[e] = Quiet
      BY <1>0, <3>2, QuietIsFine
    <3>3. CASE e # d /\ touched'[e] = touched[e]
      BY <1>0, <3>3 DEF InventoryInv, DiscoveriesInv
    <3> QED BY <3>1, <3>2, <3>3
  <2> QED BY <1>0, <2>1 DEF DiscoveriesInv, Orderly, Current
<1> QED BY <1>1, <1>2, <1>3, <1>4 DEF InventoryInv

\* Of what is known of a discovery, what its steps use.
LEMMA DiscoveryFacts ==
  ASSUME InventoryInv, NEW d \in Discoveries
  PROVE  /\ disc[d] \in Discovery
         /\ Orderly(disc[d], row) /\ Current(disc[d], Ains \ touched[d], row)
         /\ \A a \in DOMAIN disc[d].work : ~LockedByOther(d, a)
         /\ touched \in [Discoveries -> SUBSET Ains]
         /\ row \in [Ains -> Device \cup {NoRow}]
<1>1. \A a \in DOMAIN disc[d].work : ~LockedByOther(d, a)
  BY DEF InventoryInv, LocksHeld, LockedByOther
<1> QED BY <1>1 DEF InventoryInv, TypeOK, DiscoveriesInv

LEMMA DiscoveryAsks ==
  ASSUME InventoryInv, NEW d \in Discoveries, Ask(d)
  PROVE  InventoryInv'
<1>1. PICK report \in SUBSET Ains :
        Goes(d, [Quiet EXCEPT !.step = "asked", !.report = report,
                              !.todo = report])
  BY DEF Ask
<1> DEFINE q == [Quiet EXCEPT !.step = "asked", !.report = report, !.todo = report]
<1>2. /\ q.step = "asked" /\ q.report = report /\ q.todo = report
      /\ q.work = Quiet.work
  BY DEF Quiet
<1>3. q \in Discovery
  BY QuietIsFine DEF Discovery
<1>4. DOMAIN q.work = {}
  BY <1>2 DEF Quiet
<1> HIDE DEF q
<1>5. Orderly(q, row) /\ Current(q, Ains \ touched'[d], row)
  BY <1>2, <1>4 DEF Orderly, Current
<1>6. UNCHANGED touched /\ Goes(d, q)
  BY <1>1 DEF Ask, q
<1> QED BY <1>3, <1>4, <1>5, <1>6, DiscoveryFacts, DiscoveryGoesOn

LEMMA DiscoveryLooks ==
  ASSUME InventoryInv, NEW d \in Discoveries, NEW a \in Ains, Look(d, a)
  PROVE  InventoryInv'
<1>1. PICK v \in BOOLEAN \cup {NoRow} :
        /\ v = IF row[a] = NoRow THEN NoRow ELSE row[a].is_active
        /\ v # NoRow => row[a] # NoRow
  BY DiscoveryFacts DEF Device
<1> DEFINE q == [disc[d] EXCEPT !.step = "looked", !.ain = a, !.seen = v]
<1>2. Goes(d, q) /\ UNCHANGED touched /\ disc[d].step = "asked"
      /\ a \in disc[d].todo
  BY <1>1 DEF Look
<1>3. q \in Discovery
  BY DiscoveryFacts DEF Discovery
<1>4. /\ q.step = "looked" /\ q.ain = a /\ q.seen = v /\ q.work = disc[d].work
      /\ q.report = disc[d].report /\ q.todo = disc[d].todo
  BY DiscoveryFacts DEF Discovery
<1> HIDE DEF q
<1>5. Orderly(q, row)
  BY <1>1, <1>2, <1>4, DiscoveryFacts DEF Orderly
<1>6. Current(q, Ains \ touched'[d], row)
  BY <1>1, <1>2, <1>4, DiscoveryFacts DEF Current
<1> QED BY <1>2, <1>3, <1>4, <1>5, <1>6, DiscoveryFacts, DiscoveryGoesOn

\* The flush of a statement that fits what was reported and what is there.
LEMMA DiscoveryFlushes ==
  ASSUME InventoryInv, NEW d \in Discoveries, NEW a \in Ains, NEW s \in Statement,
         Flushed(d, a, s), ~LockedByOther(d, a),
         disc[d].step \in {"looked", "dropping"}, a \in disc[d].todo,
         s = "insert" <=> row[a] = NoRow,
         s = "deactivate" <=> a \notin disc[d].report,
         s = "touch" => a \in touched[d] \/ row[a].is_active
  PROVE  InventoryInv'
<1>1. PICK p \in {"asked", "dropping"} :
        /\ p = IF disc[d].step = "looked" THEN "asked" ELSE disc[d].step
        /\ p = "asked" <=> disc[d].step = "looked"
  OBVIOUS
<1>2. PICK todo \in SUBSET Ains : todo = disc[d].todo \ {a}
  BY DiscoveryFacts DEF Discovery
<1>3. PICK w \in Works :
        /\ w = With(d, a, s)
        /\ DOMAIN w = DOMAIN disc[d].work \cup {a}
        /\ \A b \in DOMAIN w : w[b] = IF b = a THEN s ELSE disc[d].work[b]
  <2>1. /\ DOMAIN disc[d].work \subseteq Ains
        /\ disc[d].work \in [DOMAIN disc[d].work -> Statement]
    <3>1. disc[d].work \in Works
      BY DiscoveryFacts DEF Discovery
    <3> QED BY <3>1, WorkType
  <2>2. With(d, a, s) \in [DOMAIN disc[d].work \cup {a} -> Statement]
    BY <2>1 DEF With
  <2>3. DOMAIN disc[d].work \cup {a} \in SUBSET Ains
    BY <2>1
  <2>4. With(d, a, s) \in Works
    BY <2>2, <2>3 DEF Works
  <2> QED BY <2>4 DEF With
<1> DEFINE q == [disc[d] EXCEPT !.step = p, !.todo = todo, !.ain = NoAin,
                                !.seen = NoRow, !.work = w]
<1>4. Goes(d, q) /\ UNCHANGED touched
  BY <1>1, <1>2, <1>3 DEF Flushed
<1>5. q \in Discovery
  BY DiscoveryFacts DEF Discovery
<1>6. /\ q.step = p /\ q.todo = todo /\ q.work = w
      /\ q.report = disc[d].report
  BY DiscoveryFacts DEF Discovery
<1> HIDE DEF q
<1>7. Orderly(q, row)
  <2>0. \A b \in DOMAIN disc[d].work :
          /\ disc[d].work[b] = "insert" <=> row[b] = NoRow
          /\ disc[d].work[b] = "deactivate" <=> b \notin disc[d].report
    BY DiscoveryFacts DEF Orderly
  <2>1. \A b \in DOMAIN w : /\ w[b] = "insert" <=> row[b] = NoRow
                            /\ w[b] = "deactivate" <=> b \notin disc[d].report
    <3>1. ASSUME NEW b \in DOMAIN w, b # a
          PROVE  b \in DOMAIN disc[d].work /\ w[b] = disc[d].work[b]
      BY <1>3, <3>1
    <3>2. a \in DOMAIN w => w[a] = s
      BY <1>3
    <3> QED BY <2>0, <3>1, <3>2
  <2>2. CASE p = "asked"
    <3>1. disc[d].todo \cup DOMAIN disc[d].work = disc[d].report
      BY <1>1, <2>2, DiscoveryFacts DEF Orderly
    <3>2. todo \cup DOMAIN w = disc[d].report
      BY <1>2, <1>3, <3>1
    <3> QED BY <1>6, <2>1, <2>2, <3>2 DEF Orderly
  <2>3. CASE p = "dropping"
    <3>1. disc[d].step = "dropping"
      BY <1>1, <2>3
    <3>2. /\ disc[d].report \subseteq DOMAIN disc[d].work
          /\ \A b \in disc[d].todo : b \notin disc[d].report /\ row[b] # NoRow
      BY <3>1, DiscoveryFacts DEF Orderly
    <3> QED BY <1>2, <1>3, <1>6, <2>1, <2>3, <3>2 DEF Orderly
  <2> QED BY <2>2, <2>3
<1>8. Current(q, Ains \ touched'[d], row)
  <2> SUFFICES ASSUME NEW b \in Ains \ touched[d]
               PROVE  /\ b \in DOMAIN w /\ w[b] = "touch" => row[b].is_active
                      /\ p = "dropping" /\ b \notin DOMAIN w /\ row[b] # NoRow
                           /\ row[b].is_active => b \in todo
    BY <1>4, <1>6 DEF Current
  <2> QED BY <1>1, <1>2, <1>3, DiscoveryFacts DEF Current
<1>9. \A b \in DOMAIN q.work : ~LockedByOther(d, b)
  BY <1>3, <1>6, DiscoveryFacts
<1> QED BY <1>4, <1>5, <1>7, <1>8, <1>9, DiscoveryFacts, DiscoveryGoesOn

LEMMA DiscoveryWrites ==
  ASSUME InventoryInv, NEW d \in Discoveries,
         Insert(d) \/ Update(d) \/ \E a \in Ains : Drop(d, a)
  PROVE  InventoryInv'
<1> USE DEF Statement
<1>1. disc[d].step = "looked" =>
        /\ disc[d].ain \in disc[d].todo /\ disc[d].ain \in disc[d].report
        /\ disc[d].ain \in Ains
        /\ disc[d].seen # NoRow => row[disc[d].ain] # NoRow
  BY DiscoveryFacts DEF Orderly, Discovery
<1>2. CASE Insert(d)
  BY <1>1, <1>2, DiscoveryFlushes DEF Insert
<1>3. CASE Update(d)
  <2>1. PICK s \in {"touch", "activate"} :
          s = IF disc[d].seen THEN "touch" ELSE "activate"
    OBVIOUS
  <2>2. disc[d].seen => s = "touch"
    BY <2>1
  <2>3. ~disc[d].seen => s = "activate"
    BY <2>1
  <2>4. s = "touch" => disc[d].seen
    BY <2>3
  <2>5. Flushed(d, disc[d].ain, s)
    BY <1>3, <2>1 DEF Update
  <2>6. disc[d].step = "looked" /\ disc[d].seen # NoRow
        /\ ~LockedByOther(d, disc[d].ain)
    BY <1>3 DEF Update
  <2>7. disc[d].ain \notin touched[d] => disc[d].seen = row[disc[d].ain].is_active
    BY <1>1, <2>6, DiscoveryFacts DEF Current
  <2>8. s = "touch" => disc[d].ain \in touched[d] \/ row[disc[d].ain].is_active
    BY <2>4, <2>7, Zenon
  <2> QED BY <1>1, <2>5, <2>6, <2>8, DiscoveryFlushes
<1>4. ASSUME NEW a \in Ains, Drop(d, a) PROVE InventoryInv'
  <2>1. a \notin disc[d].report /\ row[a] # NoRow
    BY <1>4, DiscoveryFacts DEF Drop, Orderly
  <2> QED BY <1>4, <2>1, DiscoveryFlushes DEF Drop
<1> QED BY <1>2, <1>3, <1>4

LEMMA DiscoveryMisses ==
  ASSUME InventoryInv, NEW d \in Discoveries, Missing(d)
  PROVE  InventoryInv'
<1>1. PICK todo \in SUBSET Ains :
        todo = {a \in Ains \ disc[d].report : row[a] # NoRow /\ row[a].is_active}
  OBVIOUS
<1> DEFINE q == [disc[d] EXCEPT !.step = "dropping", !.todo = todo]
<1>2. Goes(d, q) /\ UNCHANGED touched /\ disc[d].step = "asked"
      /\ disc[d].todo = {}
  BY <1>1 DEF Missing
<1>3. q \in Discovery
  BY DiscoveryFacts DEF Discovery
<1>4. /\ q.step = "dropping" /\ q.todo = todo /\ q.work = disc[d].work
      /\ q.report = disc[d].report
  BY DiscoveryFacts DEF Discovery
<1> HIDE DEF q
<1>5. DOMAIN disc[d].work = disc[d].report
  BY <1>2, DiscoveryFacts DEF Orderly
<1>6. Orderly(q, row)
  <2>1. \A a \in DOMAIN disc[d].work :
          /\ disc[d].work[a] = "insert" <=> row[a] = NoRow
          /\ disc[d].work[a] = "deactivate" <=> a \notin disc[d].report
    BY DiscoveryFacts DEF Orderly
  <2> QED BY <1>1, <1>4, <1>5, <2>1 DEF Orderly
<1>7. Current(q, Ains \ touched'[d], row)
  <2>1. \A a \in Ains \ touched[d] :
          a \in DOMAIN disc[d].work /\ disc[d].work[a] = "touch"
            => row[a].is_active
    BY DiscoveryFacts DEF Current
  <2> QED BY <1>1, <1>2, <1>4, <1>5, <2>1 DEF Current
<1> QED BY <1>2, <1>3, <1>4, <1>6, <1>7, DiscoveryFacts, DiscoveryGoesOn

\* A rollback, whatever the reason.
LEMMA DiscoveryAborts ==
  ASSUME InventoryInv, NEW d \in Discoveries, Abort(d)
  PROVE  InventoryInv'
<1>1. Goes(d, Quiet) /\ DOMAIN Quiet.work = {}
  BY DEF Abort, Quiet
<1>2. touched' \in [Discoveries -> SUBSET Ains]
  BY DiscoveryFacts DEF Abort, Touches
<1>3. \A e \in Discoveries \ {d} : disc[e] = Quiet \/ touched'[e] = touched[e]
  BY DEF Abort, Touches
<1> QED BY <1>1, <1>2, <1>3, QuietIsFine, DiscoveryGoesOn

\* A flushed statement, committed, leaves a row, and a favourite what it was.
LEMMA CommittedRow ==
  ASSUME NEW r \in Device \cup {NoRow}, NEW s \in Statement,
         s = "insert" <=> r = NoRow
  PROVE  /\ After(r, s) \in Device /\ After(r, s) # NoRow
         /\ After(r, s).is_favorite = IF r = NoRow THEN FALSE ELSE r.is_favorite
         /\ s \in {"insert", "activate"} => After(r, s).is_active
         /\ s = "deactivate" => ~After(r, s).is_active
         /\ s = "touch" => After(r, s) = r
<1> USE DEF Statement, Device
<1>1. CASE s = "insert"
  <2>1. After(r, s) = Fresh
    BY <1>1 DEF After
  <2>2. Fresh \in Device /\ Fresh.is_active = TRUE /\ Fresh.is_favorite = FALSE
    BY DEF Fresh
  <2>3. Fresh # NoRow
    BY <2>2, InventoryAssumption
  <2> QED BY <1>1, <2>1, <2>2, <2>3
<1>2. CASE s = "touch"
  <2>1. After(r, s) = r
    BY <1>2 DEF After
  <2> QED BY <1>2, <2>1, InventoryAssumption
<1>3. ASSUME NEW b \in BOOLEAN, After(r, s) = [r EXCEPT !.is_active = b],
             \/ s = "activate" /\ b = TRUE
             \/ s = "deactivate" /\ b = FALSE
      PROVE  /\ After(r, s) \in Device
             /\ After(r, s).is_favorite = r.is_favorite /\ After(r, s).is_active = b
             /\ r # NoRow
  BY <1>3
<1>4. CASE s = "activate"
  <2>1. After(r, s) = [r EXCEPT !.is_active = TRUE]
    BY <1>4 DEF After
  <2> QED BY <1>3, <1>4, <2>1, InventoryAssumption
<1>5. CASE s = "deactivate"
  <2>1. After(r, s) = [r EXCEPT !.is_active = FALSE]
    BY <1>5 DEF After
  <2> QED BY <1>3, <1>5, <2>1, InventoryAssumption
<1> QED BY <1>1, <1>2, <1>4, <1>5

\* What a commit makes of every row.
LEMMA CommitRows ==
  ASSUME InventoryInv, NEW d \in Discoveries, Commit(d), NEW a \in Ains
  PROVE  /\ a \in DOMAIN disc[d].work =>
              /\ disc[d].work[a] \in Statement
              /\ disc[d].work[a] = "insert" <=> row[a] = NoRow
              /\ disc[d].work[a] = "deactivate" <=> a \notin disc[d].report
              /\ row'[a] = After(row[a], disc[d].work[a])
         /\ a \notin DOMAIN disc[d].work => row'[a] = row[a]
<1>1. disc[d].work \in [DOMAIN disc[d].work -> Statement]
  BY DiscoveryFacts, WorkType DEF Discovery
<1>2. a \in DOMAIN disc[d].work =>
        /\ disc[d].work[a] = "insert" <=> row[a] = NoRow
        /\ disc[d].work[a] = "deactivate" <=> a \notin disc[d].report
  BY DiscoveryFacts DEF Orderly
<1>3. row'[a] = IF a \in DOMAIN disc[d].work THEN After(row[a], disc[d].work[a])
                                             ELSE row[a]
  BY DEF Commit
<1> QED BY <1>1, <1>2, <1>3

\* Others write the rows of A, none of which the discovery d has locked.
LEMMA OthersWrite ==
  ASSUME InventoryInv, NEW d \in Discoveries, disc'[d] = disc[d],
         NEW A \in SUBSET Ains, DOMAIN disc[d].work \cap A = {},
         touched'[d] = touched[d] \cup A,
         \A a \in Ains \ A : row'[a] = row[a],
         \A a \in Ains : row[a] # NoRow => row'[a] # NoRow
  PROVE  Orderly(disc'[d], row') /\ Current(disc'[d], Ains \ touched'[d], row')
<1>1. \A a \in DOMAIN disc[d].work : row'[a] = row[a]
  BY DiscoveryFacts, WorkType DEF Discovery
<1>2. disc[d].ain \in Ains \cup {NoAin} /\ disc[d].todo \subseteq Ains
  BY DiscoveryFacts DEF Discovery
<1>3. Orderly(disc[d], row) /\ Current(disc[d], Ains \ touched[d], row)
  BY DiscoveryFacts
<1>4. Orderly(disc[d], row')
  <2>1. disc[d].step = "looked" /\ disc[d].seen # NoRow => row'[disc[d].ain] # NoRow
    BY <1>2, <1>3 DEF Orderly
  <2>2. disc[d].step = "dropping" => \A a \in disc[d].todo : row'[a] # NoRow
    BY <1>2, <1>3 DEF Orderly
  <2> QED BY <1>1, <1>3, <2>1, <2>2 DEF Orderly
<1>5. Current(disc[d], Ains \ touched'[d], row')
  <2>1. \A a \in Ains \ touched'[d] : row'[a] = row[a] /\ a \notin touched[d]
    OBVIOUS
  <2> QED BY <1>3, <2>1 DEF Current
<1> QED BY <1>4, <1>5

LEMMA DiscoveryCommits ==
  ASSUME InventoryInv, NEW d \in Discoveries, Commit(d)
  PROVE  InventoryInv'
<1>1. /\ disc' = [disc EXCEPT ![d] = Quiet] /\ disc \in [Discoveries -> Discovery]
      /\ UNCHANGED <<groups, made, members, editor, wish, raced>>
      /\ touched' = [e \in Discoveries |->
           IF e = d \/ disc[e] = Quiet THEN {}
                                     ELSE touched[e] \cup DOMAIN disc[d].work]
      /\ DOMAIN disc[d].work \subseteq Ains
  <2>1. DOMAIN disc[d].work \subseteq Ains
    BY DiscoveryFacts, WorkType DEF Discovery
  <2> QED BY <2>1 DEF Commit, Touches, InventoryInv, TypeOK
<1>2. \A a \in Ains : /\ row'[a] \in Device \cup {NoRow}
                      /\ row[a] # NoRow => /\ row'[a] # NoRow
                                           /\ row'[a].is_favorite = row[a].is_favorite
                      /\ row[a] = NoRow /\ row'[a] # NoRow => ~row'[a].is_favorite
  <2> SUFFICES ASSUME NEW a \in Ains
               PROVE  /\ row'[a] \in Device \cup {NoRow}
                      /\ row[a] # NoRow => /\ row'[a] # NoRow
                                           /\ row'[a].is_favorite = row[a].is_favorite
                      /\ row[a] = NoRow /\ row'[a] # NoRow => ~row'[a].is_favorite
    OBVIOUS
  <2>1. row[a] \in Device \cup {NoRow}
    BY DiscoveryFacts
  <2>2. CASE a \in DOMAIN disc[d].work
    <3>1. PICK s \in Statement : /\ s = "insert" <=> row[a] = NoRow
                                 /\ row'[a] = After(row[a], s)
      BY <2>2, CommitRows
    <3>2. After(row[a], s) \in Device /\ After(row[a], s) # NoRow
      BY <2>1, <3>1, CommittedRow
    <3>3. After(row[a], s).is_favorite
            = IF row[a] = NoRow THEN FALSE ELSE row[a].is_favorite
      BY <2>1, <3>1, CommittedRow
    <3> QED BY <3>1, <3>2, <3>3
  <2>3. CASE a \notin DOMAIN disc[d].work
    BY <2>1, <2>3, CommitRows
  <2> QED BY <2>2, <2>3
<1>3. row' \in [Ains -> Device \cup {NoRow}]
  BY <1>2 DEF Commit
<1>4. TypeOK'
  <2>1. disc' \in [Discoveries -> Discovery]
    BY <1>1, QuietIsFine
  <2>2. touched' \in [Discoveries -> SUBSET Ains]
    BY <1>1 DEF InventoryInv, TypeOK
  <2>3. Known \subseteq Known'
    BY <1>2 DEF Known
  <2> QED BY <1>1, <1>3, <2>1, <2>2, <2>3 DEF InventoryInv, TypeOK
<1>5. LocksHeld'
  <2>1. DOMAIN Quiet.work = {}
    BY DEF Quiet
  <2> QED BY <1>1, <2>1 DEF InventoryInv, LocksHeld
<1>6. EditsAsAsked'
  <2> SUFFICES ASSUME NEW e \in Editors, editor[e].op = "patch"
               PROVE  row'[editor[e].req.ain] # NoRow
    BY <1>1 DEF EditsAsAsked, AsAsked, InventoryInv
  <2>1. /\ editor[e] \in Edit /\ editor[e].req.op = "patch"
        /\ row[editor[e].req.ain] # NoRow
    BY DEF InventoryInv, EditsAsAsked, AsAsked, TypeOK
  <2>2. editor[e].req \in AllRequests
    BY <2>1, InventoryAssumption DEF Edit
  <2>3. editor[e].req.ain \in Ains
    BY <2>1, <2>2 DEF AllRequests
  <2> QED BY <1>2, <2>1, <2>3
<1>7. Wishes'
  <2> SUFFICES ASSUME NEW a \in Ains
               PROVE  IF row'[a] = NoRow THEN ~wish[a]
                      ELSE row'[a].is_favorite = wish[a] \/ raced[a]
    BY <1>1 DEF Wishes
  <2>1. IF row[a] = NoRow THEN ~wish[a]
        ELSE row[a].is_favorite = wish[a] \/ raced[a]
    BY DEF InventoryInv, Wishes
  <2>2. /\ row[a] # NoRow => /\ row'[a] # NoRow
                             /\ row'[a].is_favorite = row[a].is_favorite
        /\ row[a] = NoRow /\ row'[a] # NoRow => ~row'[a].is_favorite
    BY <1>2
  <2>3. wish[a] \in BOOLEAN
    BY DEF InventoryInv, TypeOK
  <2>4. row'[a] # NoRow => row'[a].is_favorite \in BOOLEAN
    BY <1>2 DEF Device
  <2>5. CASE row[a] # NoRow
    BY <2>1, <2>2, <2>5
  <2>6. CASE row[a] = NoRow
    BY <2>1, <2>2, <2>3, <2>4, <2>6
  <2> QED BY <2>5, <2>6
<1>8. DiscoveriesInv'
  <2> SUFFICES ASSUME NEW e \in Discoveries
               PROVE  /\ Orderly(disc'[e], row')
                      /\ Current(disc'[e], Ains \ touched'[e], row')
    BY DEF DiscoveriesInv, Orderly, Current
  <2>1. CASE e = d
    BY <1>1, <2>1, QuietIsFine
  <2>2. CASE e # d /\ disc[e] = Quiet
    BY <1>1, <2>2, QuietIsFine
  <2>3. CASE e # d /\ disc[e] # Quiet
    <3>1. /\ disc'[e] = disc[e] /\ touched'[e] = touched[e] \cup DOMAIN disc[d].work
          /\ disc[e] \in Discovery
      BY <1>1, <2>3
    <3>2. DOMAIN disc[e].work \cap DOMAIN disc[d].work = {}
      BY <2>3 DEF InventoryInv, LocksHeld
    <3>3. \A a \in Ains \ DOMAIN disc[d].work : row'[a] = row[a]
      BY CommitRows
    <3> QED BY <1>1, <1>2, <3>1, <3>2, <3>3, OthersWrite
  <2> QED BY <2>1, <2>2, <2>3
<1> QED BY <1>4, <1>5, <1>6, <1>7, <1>8 DEF InventoryInv

-----------------------------------------------------------------------------

\* An edit that writes no device changes nothing a discovery goes by.
LEMMA EditorGoesOn ==
  ASSUME InventoryInv, NEW e \in Editors, NEW q \in Edit \cup {Idle},
         editor' = [editor EXCEPT ![e] = q],
         UNCHANGED <<row, made, disc, touched, wish, raced>>,
         groups' \subseteq made, members' \subseteq groups' \X Known,
         AsAsked(q, row)
  PROVE  InventoryInv'
<1>1. TypeOK'
  BY DEF InventoryInv, TypeOK, Known
<1>2. LocksHeld' /\ Wishes' 
  BY DEF InventoryInv, LocksHeld, Wishes
<1>3. DiscoveriesInv'
  BY DEF InventoryInv, DiscoveriesInv, Orderly, Current
<1>4. EditsAsAsked'
  BY DEF InventoryInv, EditsAsAsked, AsAsked, TypeOK
<1> QED BY <1>1, <1>2, <1>3, <1>4 DEF InventoryInv

\* Of what is known of an editor, what its steps use.
LEMMA EditorFacts ==
  ASSUME InventoryInv, NEW e \in Editors
  PROVE  /\ editor[e] \in Edit \cup {Idle} /\ AsAsked(editor[e], row)
         /\ editor[e].op = "patch" =>
              /\ editor[e].req.ain \in Ains /\ row[editor[e].req.ain] \in Device
              /\ editor[e].req.field \in {"is_active", "is_favorite"}
              /\ editor[e].req.val \in BOOLEAN /\ editor[e].seen \in BOOLEAN
         /\ editor[e].op = "join" =>
              <<editor[e].req.group, editor[e].req.ain>> \in Groups \X Ains
<1>1. editor[e] \in Edit \cup {Idle} /\ AsAsked(editor[e], row)
  BY DEF InventoryInv, TypeOK, EditsAsAsked
<1>2. CASE editor[e].op = "patch"
  <2>1. /\ editor[e].req \in AllRequests /\ editor[e].req.op = "patch"
        /\ row[editor[e].req.ain] # NoRow /\ editor[e].seen \in BOOLEAN
    BY <1>1, <1>2, InventoryAssumption DEF AsAsked, Edit
  <2>2. /\ editor[e].req.ain \in Ains /\ editor[e].req.val \in BOOLEAN
        /\ editor[e].req.field \in {"is_active", "is_favorite"}
    BY <2>1 DEF AllRequests
  <2> QED BY <1>1, <1>2, <2>1, <2>2 DEF InventoryInv, TypeOK
<1>3. CASE editor[e].op = "join"
  <2>1. editor[e] # Idle
    BY <1>3 DEF Idle
  <2>2. editor[e].req \in AllRequests /\ editor[e].req.op = "join"
    BY <1>1, <1>3, <2>1, InventoryAssumption DEF AsAsked, Edit
  <2>3. editor[e].req \in [op : {"join", "leave"}, group : Groups, ain : Ains]
    BY <2>2 DEF AllRequests
  <2>4. editor[e].op # "patch"
    BY <1>3
  <2> QED BY <1>1, <2>3, <2>4
<1> QED BY <1>1, <1>2, <1>3

\* A column of a device is set.
LEMMA PatchedRow ==
  ASSUME NEW r \in Device, NEW f \in {"is_active", "is_favorite"}, NEW v \in BOOLEAN
  PROVE  /\ [r EXCEPT ![f] = v] \in Device
         /\ f = "is_active" => [r EXCEPT ![f] = v].is_favorite = r.is_favorite
         /\ f = "is_favorite" => [r EXCEPT ![f] = v].is_favorite = v
BY DEF Device

LEMMA EditorPatches ==
  ASSUME InventoryInv, NEW e \in Editors, Patch(e)
  PROVE  InventoryInv'
<1>1. PICK a \in Ains, f \in {"is_active", "is_favorite"}, v, seen \in BOOLEAN :
        /\ editor[e].req.ain = a /\ editor[e].req.field = f
        /\ editor[e].req.val = v /\ editor[e].seen = seen
        /\ v \in BOOLEAN /\ row[a] \in Device
  BY EditorFacts DEF Patch
<1> DEFINE n == [row[a] EXCEPT ![f] = v]
<1>2. /\ n \in Device
      /\ f = "is_active" => n.is_favorite = row[a].is_favorite
      /\ f = "is_favorite" => n.is_favorite = v
  BY <1>1, PatchedRow
<1>3. /\ editor' = [editor EXCEPT ![e] = Idle]
      /\ UNCHANGED <<disc, groups, made, members>>
      /\ v # seen => /\ ~Locked(a) /\ row' = [row EXCEPT ![a] = n]
                     /\ Touches({a}, e)
      /\ v = seen => UNCHANGED <<row, touched>>
  BY <1>1 DEF Patch, Answers
<1>4. /\ f = "is_active" => UNCHANGED <<wish, raced>>
      /\ f = "is_favorite" =>
           /\ wish' = [wish EXCEPT ![a] = v]
           /\ raced' = [raced EXCEPT ![a] = v = seen /\ seen # row[a].is_favorite]
  BY <1>1 DEF Patch
<1> HIDE DEF n
<1>5. /\ \A b \in Ains \ {a} : row'[b] = row[b]
      /\ \A b \in Ains : row[b] # NoRow => row'[b] # NoRow
      /\ row' \in [Ains -> Device \cup {NoRow}]
      /\ row'[a] = IF v = seen THEN row[a] ELSE n
  BY <1>1, <1>2, <1>3, InventoryAssumption DEF InventoryInv, TypeOK
<1>6. touched' \in [Discoveries -> SUBSET Ains]
  BY <1>1, <1>3 DEF InventoryInv, TypeOK, Touches
<1>7. TypeOK'
  <2>1. Known \subseteq Known'
    BY <1>5 DEF Known
  <2> QED BY <1>3, <1>4, <1>5, <1>6, <2>1 DEF InventoryInv, TypeOK
<1>8. LocksHeld'
  BY <1>3 DEF InventoryInv, LocksHeld
<1>9. EditsAsAsked'
  <2> SUFFICES ASSUME NEW x \in Editors PROVE AsAsked(editor'[x], row')
    BY DEF EditsAsAsked, AsAsked
  <2>1. CASE x = e
    BY <1>3, <2>1 DEF AsAsked, Idle, InventoryInv, TypeOK
  <2>2. CASE x # e
    <3>1. editor'[x] = editor[x] /\ AsAsked(editor[x], row)
      BY <1>3, <2>2, EditorFacts DEF InventoryInv, TypeOK
    <3>2. editor[x].op = "patch" => editor[x].req.ain \in Ains
      BY EditorFacts
    <3> QED BY <1>5, <3>1, <3>2 DEF AsAsked
  <2> QED BY <2>1, <2>2
<1>10. Wishes'
  <2> SUFFICES ASSUME NEW b \in Ains
               PROVE  IF row'[b] = NoRow THEN ~wish'[b]
                      ELSE row'[b].is_favorite = wish'[b] \/ raced'[b]
    BY DEF Wishes
  <2>1. IF row[b] = NoRow THEN ~wish[b]
        ELSE row[b].is_favorite = wish[b] \/ raced[b]
    BY DEF InventoryInv, Wishes
  <2>2. wish \in [Ains -> BOOLEAN] /\ raced \in [Ains -> BOOLEAN]
    BY DEF InventoryInv, TypeOK
  <2>3. CASE b # a
    BY <1>4, <1>5, <2>1, <2>2, <2>3
  <2>4. CASE b = a /\ f = "is_active"
    BY <1>1, <1>2, <1>4, <1>5, <2>1, <2>4, InventoryAssumption
  <2>5. CASE b = a /\ f = "is_favorite" /\ v # seen
    BY <1>1, <1>2, <1>4, <1>5, <2>2, <2>5, InventoryAssumption
  <2>6. CASE b = a /\ f = "is_favorite" /\ v = seen
    BY <1>1, <1>4, <1>5, <2>2, <2>6, InventoryAssumption
  <2> QED BY <1>1, <2>3, <2>4, <2>5, <2>6
<1>11. DiscoveriesInv'
  <2> SUFFICES ASSUME NEW d \in Discoveries
               PROVE  /\ Orderly(disc'[d], row')
                      /\ Current(disc'[d], Ains \ touched'[d], row')
    BY DEF DiscoveriesInv, Orderly, Current
  <2>1. CASE v = seen
    BY <1>3, <2>1 DEF InventoryInv, DiscoveriesInv
  <2>2. CASE disc[d] = Quiet
    BY <1>3, <2>2, QuietIsFine
  <2>3. CASE v # seen /\ disc[d] # Quiet
    <3>1. touched'[d] = touched[d] \cup {a} /\ disc'[d] = disc[d]
      BY <1>3, <2>3, InventoryAssumption DEF Touches
    <3>2. DOMAIN disc[d].work \cap {a} = {}
      BY <1>3, <2>3 DEF Locked
    <3> QED BY <1>5, <3>1, <3>2, OthersWrite
  <2> QED BY <2>1, <2>2, <2>3
<1> QED BY <1>7, <1>8, <1>9, <1>10, <1>11 DEF InventoryInv

LEMMA EditorTakes ==
  ASSUME InventoryInv, NEW e \in Editors, NEW q \in Requests, Takes(e, q)
  PROVE  InventoryInv'
<1>1. PICK b \in BOOLEAN : b = (q.op = "patch" /\ row[q.ain][q.field])
  <2>1. q \in AllRequests
    BY InventoryAssumption
  <2>2. q.op = "patch" => row[q.ain] \in Device
                          /\ q.field \in {"is_active", "is_favorite"}
    BY <2>1 DEF Takes, AllRequests, InventoryInv, TypeOK
  <2>3. q.op = "patch" => row[q.ain][q.field] \in BOOLEAN
    BY <2>2 DEF Device
  <2> QED BY <2>3
<1> DEFINE x == [op |-> q.op, req |-> q, seen |-> b]
<1>2. /\ editor' = [editor EXCEPT ![e] = x]
      /\ UNCHANGED <<row, groups, made, members, disc, touched, wish, raced>>
      /\ q.op = "patch" => row[q.ain] # NoRow
  BY <1>1 DEF Takes, rows
<1>3. x \in Edit
  <2>1. q.op \in {"patch", "join", "leave", "delete"}
    BY InventoryAssumption DEF AllRequests
  <2> QED BY <2>1 DEF Edit
<1>4. x.op = q.op /\ x.req = q /\ x # Idle
  BY DEF Idle
<1> HIDE DEF x
<1> QED BY <1>2, <1>3, <1>4, EditorGoesOn DEF AsAsked, InventoryInv, TypeOK

\* The edits that only write memberships, and those that fail.
LEMMA EditorAnswers ==
  ASSUME InventoryInv, NEW e \in Editors, Answers(e),
         UNCHANGED <<row, made, touched, wish, raced>>,
         groups' \subseteq groups, members' \subseteq groups' \X Known
  PROVE  InventoryInv'
BY EditorGoesOn DEF Answers, AsAsked, Idle, InventoryInv, TypeOK

LEMMA GroupIsMade ==
  ASSUME InventoryInv, NEW g \in Groups, NewGroup(g)
  PROVE  InventoryInv'
<1>1. UNCHANGED <<row, members, disc, editor, touched, wish, raced>>
  BY DEF NewGroup
<1>2. TypeOK'
  BY DEF NewGroup, InventoryInv, TypeOK, Known
<1> QED BY <1>1, <1>2 DEF InventoryInv, LocksHeld, EditsAsAsked, AsAsked, Wishes,
                          DiscoveriesInv, Orderly, Current

LEMMA InventoryStep ==
  ASSUME InventoryInv, [Next]_vars
  PROVE  InventoryInv'
<1>1. ASSUME NEW d \in Discoveries,
             Ask(d) \/ Discovers(d) \/ Deadlocked(d) \/ Fail(d)
      PROVE  InventoryInv'
  BY <1>1, DiscoveryAsks, DiscoveryLooks, DiscoveryWrites, DiscoveryMisses,
     DiscoveryCommits, DiscoveryAborts
     DEF Discovers, InsertClashes, Deadlocked, Fail
<1>2. ASSUME NEW e \in Editors, Edits(e) PROVE InventoryInv'
  <2>1. members \subseteq groups \X Known
    BY DEF InventoryInv, TypeOK
  <2>2. CASE Join(e)
    BY <2>1, <2>2, EditorFacts, EditorAnswers DEF Join, Known
  <2>3. CASE Leave(e)
    BY <2>1, <2>3, EditorAnswers DEF Leave
  <2>4. CASE DeleteGroup(e)
    BY <2>1, <2>4, EditorAnswers DEF DeleteGroup
  <2>5. CASE EditFails(e)
    BY <2>1, <2>5, EditorAnswers DEF EditFails, rows
  <2> QED BY <1>2, <2>2, <2>3, <2>4, <2>5, EditorPatches DEF Edits
<1>3. CASE UNCHANGED vars
  BY <1>3 DEF vars, rows, InventoryInv, TypeOK, Known, LocksHeld, EditsAsAsked,
              AsAsked, Wishes, DiscoveriesInv, Orderly, Current
<1> QED BY <1>1, <1>2, <1>3, EditorTakes, GroupIsMade DEF Next

\* It holds in every reachable state.
LEMMA InventoryInvariant == Spec => []InventoryInv
<1>1. Init => InventoryInv
  <2> SUFFICES ASSUME Init PROVE InventoryInv
    OBVIOUS
  <2>1. TypeOK
    BY QuietIsFine DEF Init, TypeOK
  <2>2. DOMAIN Quiet.work = {}
    BY DEF Quiet
  <2>3. LocksHeld /\ DiscoveriesInv
    BY <2>2, QuietIsFine DEF Init, LocksHeld, DiscoveriesInv
  <2>4. EditsAsAsked /\ Wishes
    BY DEF Init, EditsAsAsked, AsAsked, Idle, Wishes
  <2> QED BY <2>1, <2>3, <2>4 DEF InventoryInv
<1>2. InventoryInv /\ [Next]_vars => InventoryInv'
  BY InventoryStep
<1> QED BY <1>1, <1>2, PTL DEF Spec

\* Every variable of the inventory has its type in every reachable state.
THEOREM InventoryTypes == Spec => []TypeOK
<1>1. InventoryInv => TypeOK
  BY DEF InventoryInv
<1> QED BY <1>1, InventoryInvariant, PTL

\* No number of discoveries undoes a favourite a user was told is saved.
THEOREM FavouritesStay == Spec => []FavouritesKept
<1>1. InventoryInv => FavouritesKept
  BY DEF InventoryInv, Wishes, FavouritesKept
<1> QED BY <1>1, InventoryInvariant, PTL

\* What a discovery commits is what the box reported, but for the rows that
\* others have written since it asked.
THEOREM CommitsMirrorReports == Spec => MirrorsReport
<1>1. ASSUME InventoryInv, NEW d \in Discoveries, Commit(d),
             NEW a \in Ains \ touched[d]
      PROVE  (row'[a] # NoRow /\ row'[a].is_active) <=> a \in disc[d].report
  <2>1. /\ disc[d].step = "dropping" /\ disc[d].todo = {}
        /\ disc[d].report \subseteq DOMAIN disc[d].work
        /\ row[a] \in Device \cup {NoRow}
    BY <1>1, DiscoveryFacts DEF Commit, Orderly
  <2>2. CASE a \in DOMAIN disc[d].work
    <3>1. PICK s \in Statement :
            /\ s = disc[d].work[a] /\ row'[a] = After(row[a], s)
            /\ s = "insert" <=> row[a] = NoRow
            /\ s = "deactivate" <=> a \notin disc[d].report
      BY <1>1, <2>2, CommitRows
    <3>2. /\ After(row[a], s) # NoRow
          /\ s \in {"insert", "activate"} => After(row[a], s).is_active
          /\ s = "deactivate" => ~After(row[a], s).is_active
          /\ s = "touch" => After(row[a], s) = row[a]
      BY <2>1, <3>1, CommittedRow
    <3>3. s = "touch" => row[a].is_active
      BY <1>1, <2>2, <3>1, DiscoveryFacts DEF Current
    <3> QED BY <3>1, <3>2, <3>3 DEF Statement
  <2>3. CASE a \notin DOMAIN disc[d].work
    <3>1. row'[a] = row[a]
      BY <1>1, <2>3, CommitRows
    <3>2. ~(row[a] # NoRow /\ row[a].is_active)
      BY <1>1, <2>1, <2>3, DiscoveryFacts DEF Current
    <3> QED BY <2>1, <2>3, <3>1, <3>2
  <2> QED BY <2>2, <2>3
<1>2. InventoryInv /\ [Next]_vars =>
        [\A d \in Discoveries : Commit(d) =>
           \A a \in Ains \ touched[d] :
             (row'[a] # NoRow /\ row'[a].is_active) <=> a \in disc[d].report]_vars
  BY <1>1
<1> QED BY <1>2, InventoryInvariant, PTL DEF Spec, MirrorsReport

-----------------------------------------------------------------------------
(* The locks of the device rows.                                           *)

\* A discovery that still walks the report has dealt with the AINs below
\* those it has to do, and looks at the least of these or at none.
Walking(p) == p.step \in {"asked", "looked"}

Climbs(p) ==
  /\ p.step = "asked" => p.ain = NoAin
  /\ Walking(p) => \A b \in p.todo : /\ \A a \in DOMAIN p.work : a < b
                                     /\ p.step = "looked" => p.ain <= b

Climbing == \A d \in Discoveries : Climbs(disc[d])

\* Of two that walk and wait one for the other, the first wants the lesser
\* AIN.  So in no circle of any length is everyone walking: it takes
\* deactivate_missing for PostgreSQL to end a discovery.
WaitsClimb == \A d, e \in Discoveries :
  Walking(disc[d]) /\ Walking(disc[e]) /\ WaitsFor(d, e) =>
    \A a \in Wanted(d), b \in Wanted(e) : a < b

\* While a discovery holds a row's lock, nothing changes the row but the
\* commit of that discovery: no other one, and no user's edit.
DiscoveredRowsAreSafe ==
  [][\A d \in Discoveries : \A a \in DOMAIN disc[d].work :
       row'[a] # row[a] =>
         disc[d].step = "dropping" /\ disc[d].todo = {} /\ disc'[d] = Quiet]_vars

\* What one discovery becomes decides whether all still climb.
LEMMA KeepsClimbing ==
  ASSUME Climbing, disc \in [Discoveries -> Discovery], NEW d \in Discoveries,
         NEW q, disc' = [disc EXCEPT ![d] = q], Climbs(q)
  PROVE  Climbing'
<1>1. \A e \in Discoveries : disc'[e] = IF e = d THEN q ELSE disc[e]
  OBVIOUS
<1> QED BY <1>1 DEF Climbing, Climbs, Walking

\* The statement for the least AIN leaves greater ones to do.
LEMMA FlushClimbs ==
  ASSUME InventoryInv, Climbing, NEW d \in Discoveries, NEW a \in Ains, NEW s,
         Flushed(d, a, s),
         \/ disc[d].step = "looked" /\ a = disc[d].ain
         \/ disc[d].step = "dropping"
  PROVE  Climbing'
<1> DEFINE q == [disc[d] EXCEPT !.step = IF @ = "looked" THEN "asked" ELSE @,
                   !.todo = @ \ {a}, !.ain = NoAin, !.seen = NoRow,
                   !.work = With(d, a, s)]
<1>1. disc' = [disc EXCEPT ![d] = q] /\ disc \in [Discoveries -> Discovery]
  BY DEF Flushed, Goes, InventoryInv, TypeOK
<1>2. disc[d] \in Discovery /\ Climbs(disc[d])
  BY <1>1 DEF Climbing
<1>3. /\ q.todo = disc[d].todo \ {a}
      /\ DOMAIN q.work = DOMAIN disc[d].work \cup {a}
      /\ q.step = IF disc[d].step = "looked" THEN "asked" ELSE disc[d].step
      /\ q.ain = NoAin
  BY <1>2 DEF Discovery, With
<1>4. Climbs(q)
  <2>1. CASE disc[d].step = "dropping"
    BY <1>3, <2>1 DEF Climbs, Walking
  <2>2. CASE disc[d].step = "looked" /\ a = disc[d].ain
    <3> SUFFICES ASSUME NEW b \in q.todo, NEW c \in DOMAIN q.work
                 PROVE  c < b
      BY <1>3, <2>2 DEF Climbs
    <3>1. b \in disc[d].todo /\ b # a /\ c \in DOMAIN disc[d].work \cup {a}
      BY <1>3
    <3>2. a <= b /\ (c # a => c < b)
      BY <1>2, <2>2, <3>1 DEF Climbs, Walking
    <3>3. a \in Nat /\ b \in Nat
      BY <1>2, <3>1, InventoryAssumption DEF Discovery
    <3> QED BY <3>1, <3>2, <3>3
  <2> QED BY <2>1, <2>2
<1> HIDE DEF q
<1> QED BY <1>1, <1>4, KeepsClimbing

LEMMA QuietClimbs == Climbs(Quiet)
  BY DEF Climbs, Walking, Quiet

LEMMA ClimbStep == InventoryInv /\ Climbing /\ [Next]_vars => Climbing'
<1> SUFFICES ASSUME InventoryInv, Climbing, [Next]_vars PROVE Climbing'
  OBVIOUS
<1>0. disc \in [Discoveries -> Discovery]
  BY DEF InventoryInv, TypeOK
<1>1. ASSUME NEW d \in Discoveries, Ask(d) PROVE Climbing'
  <2>1. PICK report \in SUBSET Ains :
          Goes(d, [Quiet EXCEPT !.step = "asked", !.report = report,
                                !.todo = report])
    BY <1>1 DEF Ask
  <2> DEFINE q == [Quiet EXCEPT !.step = "asked", !.report = report,
                                !.todo = report]
  <2>2. q.step = "asked" /\ DOMAIN q.work = {} /\ q.ain = NoAin
    BY DEF Quiet
  <2>3. Climbs(q)
    BY <2>2 DEF Climbs
  <2>4. disc' = [disc EXCEPT ![d] = q]
    BY <2>1 DEF Goes
  <2> HIDE DEF q
  <2> QED BY <1>0, <2>3, <2>4, KeepsClimbing
<1>2. ASSUME NEW d \in Discoveries, NEW a \in Ains, Look(d, a) PROVE Climbing'
  <2>1. PICK v : Goes(d, [disc[d] EXCEPT !.step = "looked", !.ain = a, !.seen = v])
    BY <1>2 DEF Look
  <2> DEFINE q == [disc[d] EXCEPT !.step = "looked", !.ain = a, !.seen = v]
  <2>2. /\ q.todo = disc[d].todo /\ q.work = disc[d].work /\ q.ain = a
        /\ q.step = "looked"
    BY <1>0 DEF Discovery
  <2>3. Climbs(q)
    BY <1>2, <2>2 DEF Climbing, Climbs, Walking, Look
  <2>4. disc' = [disc EXCEPT ![d] = q]
    BY <2>1 DEF Goes
  <2> HIDE DEF q
  <2> QED BY <1>0, <2>3, <2>4, KeepsClimbing
<1>3. ASSUME NEW d \in Discoveries, Insert(d) \/ Update(d) PROVE Climbing'
  <2>1. disc[d].step = "looked"
    BY <1>3 DEF Insert, Update
  <2>2. disc[d].ain \in Ains
    BY <2>1, DiscoveryFacts, InventoryAssumption DEF Orderly, Discovery
  <2>3. PICK s : Flushed(d, disc[d].ain, s)
    BY <1>3 DEF Insert, Update
  <2> QED BY <2>1, <2>2, <2>3, FlushClimbs
<1>4. ASSUME NEW d \in Discoveries, NEW a \in Ains, Drop(d, a) PROVE Climbing'
  BY <1>4, FlushClimbs DEF Drop
<1>5. ASSUME NEW d \in Discoveries, Missing(d) PROVE Climbing'
  <2> DEFINE q == [disc[d] EXCEPT !.step = "dropping",
                     !.todo = {a \in Ains \ disc[d].report :
                                 row[a] # NoRow /\ row[a].is_active}]
  <2>1. Climbs(q)
    BY <1>0 DEF Climbs, Walking, Discovery
  <2>2. disc' = [disc EXCEPT ![d] = q]
    BY <1>5 DEF Missing, Goes
  <2> HIDE DEF q
  <2> QED BY <1>0, <2>1, <2>2, KeepsClimbing
<1>6. ASSUME NEW d \in Discoveries, disc' = [disc EXCEPT ![d] = Quiet]
      PROVE  Climbing'
  BY <1>0, <1>6, QuietClimbs, KeepsClimbing
<1>7. CASE UNCHANGED disc
  BY <1>7 DEF Climbing, Climbs, Walking
<1> QED
  BY <1>1, <1>2, <1>3, <1>4, <1>5, <1>6, <1>7
     DEF Next, Discovers, InsertClashes, Commit, Deadlocked, Fail, Abort, Goes,
         Edits, Takes, Answers, Patch, Join, Leave, DeleteGroup, EditFails,
         NewGroup, vars

\* Discoveries that walk the report never wait for each other in a circle.
THEOREM WalkersNeverDeadlock == Spec => []WaitsClimb
<1>1. Init => Climbing
  BY QuietClimbs DEF Init, Climbing
<1>2. InventoryInv /\ Climbing => WaitsClimb
  <2> SUFFICES ASSUME InventoryInv, Climbing,
                      NEW d \in Discoveries, NEW e \in Discoveries,
                      Walking(disc[d]), Walking(disc[e]), WaitsFor(d, e),
                      NEW a \in Wanted(d), NEW b \in Wanted(e)
               PROVE  a < b
    BY DEF WaitsClimb
  <2>1. a = disc[d].ain /\ a \in DOMAIN disc[e].work
    BY DEF Wanted, Walking, WaitsFor
  <2>2. b = disc[e].ain /\ disc[e].step = "looked"
    <3>1. b = disc[e].ain /\ b # NoAin
      BY DEF Wanted, Walking
    <3> QED BY <3>1 DEF Climbing, Climbs, Walking
  <2>3. b \in disc[e].todo
    BY <2>2, DiscoveryFacts DEF Orderly
  <2> QED BY <2>1, <2>3 DEF Climbing, Climbs
<1> QED BY <1>1, <1>2, ClimbStep, InventoryInvariant, PTL DEF Spec

\* In every behaviour a row that a discovery has locked waits for its commit.
THEOREM DiscoveriesKeepTheirRows == Spec => DiscoveredRowsAreSafe
<1>1. ASSUME InventoryInv, Next, NEW d \in Discoveries,
             NEW a \in DOMAIN disc[d].work, row'[a] # row[a]
      PROVE  disc[d].step = "dropping" /\ disc[d].todo = {} /\ disc'[d] = Quiet
  <2>1. a \in Ains /\ disc \in [Discoveries -> Discovery]
    BY <1>1, DiscoveryFacts, WorkType DEF Discovery, InventoryInv, TypeOK
  <2>2. ASSUME NEW e \in Discoveries, Commit(e)
        PROVE  disc[d].step = "dropping" /\ disc[d].todo = {} /\ disc'[d] = Quiet
    <3>1. a \in DOMAIN disc[e].work
      BY <1>1, <2>1, <2>2, CommitRows
    <3>2. e = d
      BY <1>1, <3>1 DEF InventoryInv, LocksHeld
    <3> QED BY <2>1, <2>2, <3>2 DEF Commit
  <2>3. ASSUME NEW e \in Editors, Patch(e) PROVE FALSE
    <3>1. PICK q : /\ q = editor[e].req
                   /\ ~Locked(q.ain)
                   /\ row' = [row EXCEPT ![q.ain][q.field] = q.val]
      BY <1>1, <2>3 DEF Patch
    <3>2. a # q.ain
      BY <1>1, <3>1 DEF Locked
    <3> QED BY <1>1, <2>1, <3>1, <3>2 DEF InventoryInv, TypeOK
  <2> QED
    BY <1>1, <2>2, <2>3
       DEF Next, Ask, Discovers, Look, Insert, Update, Drop, Flushed, InsertClashes,
           Missing, Deadlocked, Fail, Abort, Goes, rows, Takes, Edits, Join,
           Leave, DeleteGroup, EditFails, NewGroup
<1>2. InventoryInv /\ [Next]_vars =>
        [\A d \in Discoveries : \A a \in DOMAIN disc[d].work :
           row'[a] # row[a] =>
             disc[d].step = "dropping" /\ disc[d].todo = {} /\ disc'[d] = Quiet]_vars
  BY <1>1
<1> QED BY <1>2, InventoryInvariant, PTL DEF Spec, DiscoveredRowsAreSafe

-----------------------------------------------------------------------------
WeatherAssumed == Weather!WeatherAssumption /\ Weather!RowAssumption

\* The row is never removed, and who has an answer knows which.
WeatherInv ==
  /\ Weather!TypeOK
  /\ \A f \in Weather!Fillers :
       /\ filler[f].seen # NoRow => weatherRow # NoRow
       /\ filler[f].step \in {"answered", "writing"} =>
            filler[f].got \in Responses

Filling == [step : {"idle", "fetching", "answered", "writing"},
            seen : Weather!Row \cup {NoRow},
            got : Responses \cup {NoResponse}]

\* What the columns take from a response are values of the columns.
LEMMA ParsedType ==
  ASSUME NEW r \in Responses
  PROVE  /\ Weather!Parsed(r) \in Weather!Columns
         /\ DOMAIN Weather!Parsed(r) = {"temp", "wind", "condition"}
BY DEF Weather!Parsed, Weather!Columns

\* So are those that an UPDATE leaves.
LEMMA UpdatedType ==
  ASSUME WeatherAssumed, NEW old \in Weather!Row, NEW seen \in Weather!Row,
         NEW r \in Responses
  PROVE  [raw |-> Weather!Written(old.raw, seen.raw, r),
          shown |-> [c \in DOMAIN Weather!Parsed(r) |->
                       Weather!Written(old.shown[c], seen.shown[c],
                                       Weather!Parsed(r)[c])],
          left |-> TTL] \in Weather!Row
<1> DEFINE new == Weather!Parsed(r)
           w == [c \in {"temp", "wind", "condition"} |->
                   Weather!Written(old.shown[c], seen.shown[c], new[c])]
<1>1. new \in Weather!Columns /\ DOMAIN new = {"temp", "wind", "condition"}
  BY ParsedType
<1>2. old.shown \in Weather!Columns /\ old.raw \in Responses
  BY DEF Weather!Row
<1>3. \A c \in {"temp", "wind", "condition"} : w[c] \in {old.shown[c], new[c]}
  BY DEF Weather!Written
<1>4. w \in Weather!Columns
  <2>1. w = [temp |-> w["temp"], wind |-> w["wind"],
             condition |-> w["condition"]]
    OBVIOUS
  <2> HIDE DEF w, new
  <2> QED BY <1>1, <1>2, <1>3, <2>1 DEF Weather!Columns
<1>5. TTL \in 0 .. TTL
  BY DEF WeatherAssumed, Weather!WeatherAssumption
<1>6. Weather!Written(old.raw, seen.raw, r) \in Responses
  BY <1>2 DEF Weather!Written
<1> HIDE DEF w, new
<1>7. [c \in DOMAIN new |->
         Weather!Written(old.shown[c], seen.shown[c], new[c])] = w
  BY <1>1 DEF w
<1> QED BY <1>4, <1>5, <1>6, <1>7 DEF Weather!Row, new

\* A filler goes on, and the row stays or is written.
LEMMA FillerGoes ==
  ASSUME WeatherAssumed, WeatherInv, NEW f \in Weather!Fillers, NEW q \in Filling,
         Weather!Goes(f, q), keyed' = keyed,
         weatherRow' \in Weather!Row \/ weatherRow' = weatherRow,
         q.seen # NoRow => weatherRow # NoRow,
         q.step \in {"answered", "writing"} => q.got \in Responses,
         overtaken' \in BOOLEAN
  PROVE  WeatherInv'
<1>1. filler' = [filler EXCEPT ![f] = q]
  BY DEF Weather!Goes
<1>2. /\ weatherRow' \in Weather!Row \cup {NoRow}
      /\ weatherRow # NoRow => weatherRow' # NoRow
  BY DEF WeatherInv, Weather!TypeOK, WeatherAssumed, Weather!RowAssumption
<1> QED BY <1>1, <1>2 DEF WeatherInv, Weather!TypeOK, Filling

LEMMA WeatherStep ==
  ASSUME WeatherAssumed, WeatherInv, [Weather!Next]_(Weather!vars)
  PROVE  WeatherInv'
<1> DEFINE Resting == Weather!Idle
<1>0. /\ Resting \in Filling /\ Resting.seen = NoRow /\ Resting.step = "idle"
      /\ \A f \in Weather!Fillers : filler[f] \in Filling
      /\ weatherRow \in Weather!Row \cup {NoRow} /\ overtaken \in BOOLEAN
      /\ Weather!Loaded \in Weather!Row \cup {NoRow}
      /\ Weather!Loaded # NoRow => weatherRow # NoRow
  <2>1. TTL \in Nat
    BY DEF WeatherAssumed, Weather!WeatherAssumption
  <2>2. weatherRow \in Weather!Row \cup {NoRow}
    BY DEF WeatherInv, Weather!TypeOK
  <2>3. weatherRow \in Weather!Row => [weatherRow EXCEPT !.left = 0] \in Weather!Row
    BY <2>1 DEF Weather!Row
  <2>4. Weather!Loaded \in Weather!Row \cup {NoRow}
    BY <2>2, <2>3 DEF Weather!Loaded
  <2>5. Weather!Loaded # NoRow => weatherRow # NoRow
    BY DEF Weather!Loaded
  <2>6. Resting \in Filling /\ Resting.seen = NoRow /\ Resting.step = "idle"
    BY DEF Weather!Idle, Filling
  <2> QED BY <2>2, <2>4, <2>5, <2>6 DEF WeatherInv, Weather!TypeOK, Filling
<1>1. ASSUME NEW f \in Weather!Fillers, Weather!Goes(f, Resting),
             UNCHANGED <<keyed, weatherRow, overtaken>>
      PROVE  WeatherInv'
  BY <1>0, <1>1, FillerGoes
<1>2. ASSUME NEW f \in Weather!Fillers, Weather!Miss(f) PROVE WeatherInv'
  <2>1. PICK v \in Weather!Row \cup {NoRow} : v = Weather!Loaded
    BY <1>0
  <2> DEFINE q == [Resting EXCEPT !.step = "fetching", !.seen = v]
  <2>2. Weather!Goes(f, q) /\ UNCHANGED <<keyed, weatherRow, overtaken>>
    BY <1>2, <2>1 DEF Weather!Miss
  <2>3. q \in Filling /\ q.seen = v /\ q.step = "fetching"
    BY DEF Filling, Weather!Idle
  <2> HIDE DEF q
  <2> QED BY <1>0, <2>1, <2>2, <2>3, FillerGoes
<1>3. CASE Weather!Refresh
  <2> DEFINE q == [step |-> "fetching", seen |-> NoRow, got |-> NoResponse]
  <2>1. [Resting EXCEPT !.step = "fetching"] = q
    BY DEF Weather!Idle
  <2>2. Weather!Goes(Job, q) /\ UNCHANGED <<keyed, weatherRow, overtaken>>
    BY <1>3, <2>1 DEF Weather!Refresh
  <2>3. /\ q \in Filling /\ q.seen = NoRow /\ q.step = "fetching"
        /\ Job \in Weather!Fillers
    BY <1>0 DEF Filling, Weather!Fillers
  <2> HIDE DEF q
  <2> QED BY <1>0, <2>2, <2>3, FillerGoes
<1>4. ASSUME NEW f \in Weather!Fillers, Weather!Answered(f) PROVE WeatherInv'
  <2>1. PICK r \in Responses :
          Weather!Goes(f, [filler[f] EXCEPT !.step = "answered", !.got = r])
    BY <1>4 DEF Weather!Answered
  <2> DEFINE q == [filler[f] EXCEPT !.step = "answered", !.got = r]
  <2>2. /\ q \in Filling /\ q.seen = filler[f].seen /\ q.got = r
    BY <1>0 DEF Filling
  <2>3. filler[f].seen # NoRow => weatherRow # NoRow
    BY DEF WeatherInv
  <2>4. UNCHANGED <<keyed, weatherRow, overtaken>>
    BY <1>4 DEF Weather!Answered
  <2> HIDE DEF q
  <2> QED BY <1>0, <2>1, <2>2, <2>3, <2>4, FillerGoes DEF q
<1>5. ASSUME NEW f \in Weather!Fillers, Weather!LookAgain(f) PROVE WeatherInv'
  <2>1. PICK v \in Weather!Row \cup {NoRow} :
          /\ v = IF filler[f].seen = NoRow THEN Weather!Loaded ELSE filler[f].seen
          /\ v # NoRow => weatherRow # NoRow
    BY <1>0 DEF WeatherInv, Filling
  <2> DEFINE q == [filler[f] EXCEPT !.step = "writing", !.seen = v]
  <2>2. Weather!Goes(f, q) /\ UNCHANGED <<keyed, weatherRow, overtaken>>
    BY <1>5, <2>1 DEF Weather!LookAgain
  <2>3. filler[f].got \in Responses
    BY <1>5 DEF Weather!LookAgain, WeatherInv
  <2>4. q \in Filling /\ q.seen = v /\ q.got = filler[f].got
    BY <1>0, <2>3 DEF Filling
  <2> HIDE DEF q
  <2> QED BY <1>0, <2>1, <2>2, <2>3, <2>4, FillerGoes
<1>6. ASSUME NEW f \in Weather!Fillers, Weather!Write(f) PROVE WeatherInv'
  <2>1. /\ Weather!Goes(f, Resting) /\ keyed' = keyed
        /\ filler[f].got \in Responses
        /\ overtaken' \in BOOLEAN
    BY <1>6 DEF Weather!Write, Weather!Insert, Weather!Update, WeatherInv
  <2>2. TTL \in 0 .. TTL
    BY DEF WeatherAssumed, Weather!WeatherAssumption
  <2>3. weatherRow' \in Weather!Row
    <3>1. CASE Weather!Insert(f)
      BY <2>1, <2>2, <3>1, ParsedType
         DEF Weather!Insert, Weather!Fresh, Weather!Row
    <3>2. CASE Weather!Update(f)
      <4>1. filler[f].seen \in Weather!Row /\ weatherRow \in Weather!Row
        BY <1>0, <3>2 DEF Weather!Update, Filling, WeatherInv
      <4> QED BY <2>1, <3>2, <4>1, UpdatedType DEF Weather!Update
    <3> QED BY <1>6, <3>1, <3>2 DEF Weather!Write
  <2> QED BY <1>0, <2>1, <2>3, FillerGoes
<1>7. CASE Weather!Tick
  <2>1. weatherRow \in Weather!Row
    BY <1>0, <1>7 DEF Weather!Tick
  <2>2. Weather!Older(weatherRow.left) \in 0 .. TTL
    BY <2>1 DEF Weather!Older, Weather!Row, WeatherAssumed,
                Weather!WeatherAssumption
  <2>3. weatherRow' \in Weather!Row
    BY <1>7, <2>1, <2>2 DEF Weather!Tick, Weather!Row
  <2>4. weatherRow' # NoRow
    BY <2>3 DEF WeatherAssumed, Weather!RowAssumption
  <2> QED BY <1>7, <2>3, <2>4 DEF Weather!Tick, WeatherInv, Weather!TypeOK
<1>8. CASE UNCHANGED Weather!vars
  BY <1>8 DEF Weather!vars, WeatherInv, Weather!TypeOK
<1> QED
  BY <1>1, <1>2, <1>3, <1>4, <1>5, <1>6, <1>7, <1>8
  DEF Weather!Next, Weather!FetchFails, Weather!InsertClashes, Weather!Fail,
      Weather!RuleRollsBack, Weather!Fillers

\* It holds in every reachable state.
LEMMA WeatherInvariant ==
  ASSUME WeatherAssumed
  PROVE  Weather!Spec => []WeatherInv
<1>1. Weather!Init => WeatherInv
  <2> SUFFICES ASSUME Weather!Init PROVE WeatherInv
    OBVIOUS
  <2>1. /\ keyed \in BOOLEAN /\ weatherRow = NoRow /\ overtaken \in BOOLEAN
        /\ filler = [f \in Weather!Fillers |-> Weather!Idle]
    BY DEF Weather!Init
  <2>2. Weather!Idle \in Filling /\ Weather!Idle.seen = NoRow
        /\ Weather!Idle.step = "idle"
    BY DEF Weather!Idle, Filling
  <2> QED BY <2>1, <2>2 DEF WeatherInv, Weather!TypeOK, Filling
<1>2. WeatherInv /\ [Weather!Next]_(Weather!vars) => WeatherInv'
  BY WeatherStep
<1> QED BY <1>1, <1>2, PTL DEF Weather!Spec

\* Every variable of the weather cache has its type in every reachable state.
THEOREM WeatherTypes == WeatherAssumed => (Weather!Spec => []Weather!TypeOK)
<1> SUFFICES ASSUME WeatherAssumed PROVE Weather!Spec => []Weather!TypeOK
  OBVIOUS
<1>1. WeatherInv => Weather!TypeOK
  BY DEF WeatherInv
<1> QED BY <1>1, WeatherInvariant, PTL

\* The columns and the response of the row are of one answer, unless the
\* last writer had been overtaken, in every reachable state.
THEOREM MixingIsOvertaking ==
  WeatherAssumed => (Weather!Spec => []Weather!MixedOnlyIfOvertaken)
<1> SUFFICES ASSUME WeatherAssumed
             PROVE  Weather!Spec => []Weather!MixedOnlyIfOvertaken
  OBVIOUS
<1> USE DEF Weather!MixedOnlyIfOvertaken, Weather!ColumnsMatchResponse
<1>1. Weather!Init => Weather!MixedOnlyIfOvertaken
  BY DEF Weather!Init
<1>2. WeatherInv /\ Weather!MixedOnlyIfOvertaken /\ [Weather!Next]_(Weather!vars)
        => Weather!MixedOnlyIfOvertaken'
  <2> SUFFICES ASSUME WeatherInv, Weather!MixedOnlyIfOvertaken,
                      [Weather!Next]_(Weather!vars)
               PROVE  Weather!MixedOnlyIfOvertaken'
    OBVIOUS
  <2>0. weatherRow \in Weather!Row \cup {NoRow}
    BY DEF WeatherInv, Weather!TypeOK
  <2>1. ASSUME NEW f \in Weather!Fillers, Weather!Insert(f)
        PROVE  Weather!MixedOnlyIfOvertaken'
    BY <2>1 DEF Weather!Insert, Weather!Fresh
  <2>2. ASSUME NEW f \in Weather!Fillers, Weather!Update(f)
        PROVE  Weather!MixedOnlyIfOvertaken'
    <3> DEFINE q == filler[f]
               new == Weather!Parsed(q.got)
    <3>1. /\ weatherRow' =
               [raw |-> Weather!Written(weatherRow.raw, q.seen.raw, q.got),
                     shown |-> [c \in DOMAIN new |->
                         Weather!Written(weatherRow.shown[c],
                                         q.seen.shown[c], new[c])],
                     left |-> TTL]
          /\ overtaken' = (Weather!Loaded # q.seen)
          /\ q.seen # NoRow
      BY <2>2 DEF Weather!Update
    <3>2. CASE Weather!Loaded = q.seen
      <4>1. weatherRow \in Weather!Row
        BY <2>0, <3>1, <3>2 DEF Weather!Loaded
      <4>2. q.seen.raw = weatherRow.raw /\ q.seen.shown = weatherRow.shown
        BY <3>1, <3>2, <4>1 DEF Weather!Loaded, Weather!Row
      <4>3. /\ weatherRow'.raw = q.got
            /\ weatherRow'.shown = [c \in DOMAIN new |-> new[c]]
        BY <3>1, <4>2 DEF Weather!Written
      <4>4. [c \in DOMAIN new |-> new[c]] = new
        BY DEF Weather!Parsed
      <4> QED BY <4>3, <4>4 DEF Weather!Parsed
    <3> QED BY <3>1, <3>2
  <2>3. CASE Weather!Tick
    <3>1. weatherRow \in Weather!Row /\ UNCHANGED overtaken
      BY <2>0, <2>3 DEF Weather!Tick
    <3>2. weatherRow'.shown = weatherRow.shown /\ weatherRow'.raw = weatherRow.raw
      BY <2>3, <3>1 DEF Weather!Tick, Weather!Row
    <3> QED BY <3>1, <3>2, <2>3 DEF Weather!Parsed, Weather!Tick
  <2>4. CASE UNCHANGED <<weatherRow, overtaken>>
    BY <2>4 DEF Weather!Parsed
  <2> QED
    BY <2>1, <2>2, <2>3, <2>4
    DEF Weather!Next, Weather!Write, Weather!Miss, Weather!Refresh,
        Weather!Answered, Weather!FetchFails, Weather!LookAgain,
        Weather!InsertClashes, Weather!Fail, Weather!RuleRollsBack, Weather!vars
<1> QED BY <1>1, <1>2, WeatherInvariant, PTL DEF Weather!Spec

-----------------------------------------------------------------------------
(* Readings of the router.                                                 *)

\* A fetch makes at least no request, and each asks for a part.
LEMMA PartsType ==
  ASSUME Reads!ReadsAssumption, NEW k \in Reads!Keys
  PROVE  /\ Len(Reads!Parts(k)) \in Nat
         /\ DOMAIN Reads!Parts(k) = 1 .. Len(Reads!Parts(k))
         /\ \A i \in DOMAIN Reads!Parts(k) : Reads!Parts(k)[i] \in Reads!AllParts
         /\ k = "calls" => Reads!Parts(k) = <<"calls">>
<1>1. Len(Reads!Parts(k)) \in Nat
      /\ DOMAIN Reads!Parts(k) = 1 .. Len(Reads!Parts(k))
  <2>1. CASE k = "wlan"
    BY <2>1 DEF Reads!Parts, Reads!ReadsAssumption
  <2>2. CASE k = "dsl"
    <3>1. Reads!Parts(k) = <<"is_connected", "is_linked", "link_props">>
      BY <2>2 DEF Reads!Parts
    <3> QED BY <3>1
  <2>3. CASE k = "calls"
    <3>1. Reads!Parts(k) = <<"calls">>
      BY <2>3 DEF Reads!Parts
    <3> QED BY <3>1
  <2>4. CASE k = "hosts"
    <3>1. Reads!Parts(k) = <<"hosts">>
      BY <2>4 DEF Reads!Parts
    <3> QED BY <3>1
  <2> QED BY <2>1, <2>2, <2>3, <2>4 DEF Reads!Keys
<1>2. \A i \in DOMAIN Reads!Parts(k) : Reads!Parts(k)[i] \in Reads!AllParts
  BY DEF Reads!AllParts
<1>3. k = "calls" => Reads!Parts(k) = <<"calls">>
  BY DEF Reads!Parts
<1> QED BY <1>1, <1>2, <1>3

\* The answers g are answers to requests for k.
AnswersTo(k, g) ==
  /\ g \in Seq(Reads!Said(k)) /\ Len(g) <= Len(Reads!Parts(k))
  /\ \A i \in DOMAIN g : g[i] \in Reads!Content(Reads!Parts(k)[i]) \cup {Failed}

\* What Append leaves, and adds.
LEMMA Appended ==
  ASSUME NEW S, NEW g \in Seq(S), NEW x \in S
  PROVE  /\ Append(g, x) \in Seq(S) /\ Len(Append(g, x)) = Len(g) + 1
         /\ \A i \in 1 .. Len(g) : Append(g, x)[i] = g[i]
         /\ Append(g, x)[Len(g) + 1] = x
OBVIOUS

LEMMA OneElement ==
  ASSUME NEW S, NEW g \in Seq(S), g # <<>>, Len(g) <= 1
  PROVE  Len(g) = 1 /\ 1 \in DOMAIN g
<1>1. Len(g) \in Nat \ {0}
  BY EmptySeq, Zenon
<1>2. DOMAIN g = 1 .. Len(g)
  BY LenProperties, Zenon
<1> QED BY <1>1, <1>2

\* One more request is answered, or fails.
LEMMA OneMoreAnswer ==
  ASSUME Reads!ReadsAssumption, NEW k \in Reads!Keys, NEW g, AnswersTo(k, g),
         Len(g) < Len(Reads!Parts(k)),
         NEW x, x \in Reads!Content(Reads!Parts(k)[Len(g) + 1]) \cup {Failed}
  PROVE  /\ AnswersTo(k, Append(g, x)) /\ Append(g, x) # <<>>
         /\ g # <<>> => Append(g, x)[1] = g[1]
         /\ g = <<>> => Append(g, x)[1] = x
<1>1. Len(g) \in Nat /\ DOMAIN g = 1 .. Len(g) /\ Len(Reads!Parts(k)) \in Nat
      /\ DOMAIN Reads!Parts(k) = 1 .. Len(Reads!Parts(k))
  BY PartsType DEF AnswersTo
<1>2. x \in Reads!Said(k)
  <2>1. Len(g) + 1 \in DOMAIN Reads!Parts(k)
    BY <1>1
  <2> QED BY <2>1 DEF Reads!Said
<1>3. /\ Append(g, x) \in Seq(Reads!Said(k)) /\ Len(Append(g, x)) = Len(g) + 1
      /\ \A i \in 1 .. Len(g) : Append(g, x)[i] = g[i]
      /\ Append(g, x)[Len(g) + 1] = x
  <2>1. g \in Seq(Reads!Said(k))
    BY DEF AnswersTo
  <2> QED BY <1>2, <2>1, Appended
<1>4. DOMAIN Append(g, x) = 1 .. Len(g) + 1
  BY <1>3
<1>5. \A i \in DOMAIN Append(g, x) :
        Append(g, x)[i] \in Reads!Content(Reads!Parts(k)[i]) \cup {Failed}
  BY <1>1, <1>3, <1>4 DEF AnswersTo
<1> QED BY <1>1, <1>3, <1>5 DEF AnswersTo

\* A fetch that made every request has something to show.
LEMMA AnswerType ==
  ASSUME Reads!ReadsAssumption, NEW k \in Reads!Keys, NEW g, AnswersTo(k, g),
         Len(g) = Len(Reads!Parts(k))
  PROVE  Reads!Answer(k, g) \in Reads!Reading(k)
<1>1. DOMAIN g = DOMAIN Reads!Parts(k)
  BY PartsType DEF AnswersTo
<1>2. Reads!Shown(k, g) \in Reads!Views(k)
  <2>1. CASE k = "dsl"
    <3>1. Reads!Parts(k) = <<"is_connected", "is_linked", "link_props">>
      BY <2>1 DEF Reads!Parts
    <3>2. g[3] \in BOOLEAN \cup {Failed}
      BY <1>1, <3>1 DEF AnswersTo, Reads!Content
    <3>3. Reads!Status(g) \in [connected : BOOLEAN, linked : BOOLEAN]
      BY <3>2 DEF Reads!Status
    <3> QED BY <2>1, <3>3 DEF Reads!Shown, Reads!Views
  <2>2. CASE k = "wlan"
    <3>1. Reads!Parts(k) = Radios
      BY <2>2 DEF Reads!Parts
    <3>2. \A i \in DOMAIN Radios : Radios[i] \in {"radio1", "radio2", "radio3"}
      BY DEF Reads!ReadsAssumption
    <3>3. \A i \in DOMAIN Radios : g[i] \in (0 .. 1) \cup {Failed}
      BY <1>1, <3>1, <3>2 DEF AnswersTo, Reads!Content
    <3>4. Reads!Shown(k, g) = {<<i, g[i]>> : i \in {j \in DOMAIN g : g[j] # Failed}}
      BY <2>2 DEF Reads!Shown
    <3> QED BY <1>1, <2>2, <3>1, <3>3, <3>4 DEF Reads!Views
  <2>3. CASE k = "calls"
    <3>1. Reads!Parts(k) = <<"calls">>
      BY <2>3 DEF Reads!Parts
    <3>2. g[1] \in (0 .. MaxCalls) \cup {Failed}
      BY <1>1, <3>1 DEF AnswersTo, Reads!Content
    <3>3. MaxCalls \in Nat
      BY DEF Reads!ReadsAssumption
    <3> QED BY <2>3, <3>2, <3>3 DEF Reads!Shown, Reads!Views
  <2>4. CASE k = "hosts"
    <3>1. Reads!Parts(k) = <<"hosts">>
      BY <2>4 DEF Reads!Parts
    <3>2. g[1] \in (SUBSET Hosts) \cup {Failed}
      BY <1>1, <3>1 DEF AnswersTo, Reads!Content
    <3> QED BY <2>4, <3>2 DEF Reads!Shown, Reads!Views
  <2> QED BY <2>1, <2>2, <2>3, <2>4 DEF Reads!Keys
<1>3. (\A i \in DOMAIN g : g[i] # Failed) \in BOOLEAN
  OBVIOUS
<1> QED BY <1>2, <1>3 DEF Reads!Answer, Reads!Reading


\* Nothing that is cached, or on its way to be, is older than call n.
NothingBefore(n) ==
  /\ \A d \in Callers : got[d] # <<>> /\ got[d][1] # Failed => got[d][1] >= n
  /\ store["calls"] # Reads!Cache!Gone /\ store["calls"].val.whole =>
       store["calls"].val.shown >= n

\* Whoever forced a read before every fetch under way misses no call.
Misses(c) == IF pc[c] = "idle"
  THEN result[c] # NoValue /\ result[c].whole /\ result[c].shown < asked[c].newest
  ELSE ~NothingBefore(asked[c].newest)

ReadsInv ==
  /\ Reads!TypeOK
  /\ \A c \in Callers : pc[c] # "idle" => key[c] = topic
  /\ topic = "calls" => \A c \in Callers :
       asked[c].newest <= router["calls"] /\ (asked[c].late \/ ~Misses(c))

\* An entry that is not gone is a reading, younger than its ttl.
LEMMA StoreType ==
  ASSUME Reads!TypeOK, store[topic] # Reads!Cache!Gone
  PROVE  store[topic].val \in Reads!Reading(topic)
BY DEF Reads!TypeOK, Reads!Entry

LEMMA CallListPart ==
  ASSUME Reads!ReadsAssumption
  PROVE  /\ "calls" \in Reads!AllParts /\ MaxCalls \in Nat
         /\ Reads!Content("calls") = 0 .. MaxCalls
<1>1. PICK k \in Reads!Keys : k = "calls"
  BY DEF Reads!Keys
<1>2. Reads!Parts(k) = <<"calls">>
  BY <1>1, PartsType
<1>3. 1 \in DOMAIN Reads!Parts(k) /\ Reads!Parts(k)[1] = "calls"
  BY <1>2
<1> QED BY <1>3, PartsType DEF Reads!Content, Reads!ReadsAssumption

LEMMA CallsType ==
  ASSUME Reads!ReadsAssumption, Reads!TypeOK, topic = "calls"
  PROVE  /\ router["calls"] \in 0 .. MaxCalls /\ MaxCalls \in Nat
         /\ \A c \in Callers :
              /\ asked[c].newest \in 0 .. MaxCalls /\ asked[c].late \in BOOLEAN
              /\ result[c] # NoValue =>
                   result[c].shown \in 0 .. MaxCalls /\ result[c].whole \in BOOLEAN
              /\ got[c] # <<>> => Len(got[c]) = 1
                   /\ got[c][1] \in (0 .. MaxCalls) \cup {Failed}
         /\ store["calls"] # Reads!Cache!Gone =>
              store["calls"].val.shown \in 0 .. MaxCalls
<1>1. "calls" \in Reads!AllParts
  BY CallListPart
<1>2. Reads!Content("calls") = 0 .. MaxCalls /\ MaxCalls \in Nat
  BY CallListPart
<1>3. Reads!Reading(topic) = [shown : 0 .. MaxCalls, whole : BOOLEAN]
  BY DEF Reads!Reading, Reads!Views
<1>4. router["calls"] \in 0 .. MaxCalls
  BY <1>1, <1>2 DEF Reads!TypeOK
<1>5. ASSUME NEW c \in Callers
      PROVE  /\ asked[c].newest \in 0 .. MaxCalls /\ asked[c].late \in BOOLEAN
             /\ result[c] # NoValue =>
                  result[c].shown \in 0 .. MaxCalls /\ result[c].whole \in BOOLEAN
  <2>1. asked[c] \in [newest : 0 .. MaxCalls, late : BOOLEAN]
    BY DEF Reads!TypeOK
  <2>2. result[c] \in Reads!Reading(topic) \cup {NoValue}
    BY DEF Reads!TypeOK
  <2>3. result[c] # NoValue => result[c] \in [shown : 0 .. MaxCalls, whole : BOOLEAN]
    BY <1>3, <2>2
  <2> QED BY <2>1, <2>3
<1>6. ASSUME NEW c \in Callers, got[c] # <<>>
      PROVE  Len(got[c]) = 1 /\ got[c][1] \in (0 .. MaxCalls) \cup {Failed}
  <2>1. Reads!Parts(topic) = <<"calls">>
    BY PartsType DEF Reads!TypeOK
  <2>2. /\ got[c] \in Seq(Reads!Said(topic)) /\ Len(got[c]) <= 1
        /\ \A i \in DOMAIN got[c] :
             got[c][i] \in Reads!Content(Reads!Parts(topic)[i]) \cup {Failed}
    BY <2>1 DEF Reads!TypeOK
  <2>3. Len(got[c]) = 1 /\ 1 \in DOMAIN got[c]
    BY <1>6, <2>2, OneElement
  <2> QED BY <1>2, <2>1, <2>2, <2>3
<1>7. store["calls"] # Reads!Cache!Gone =>
        store["calls"].val.shown \in 0 .. MaxCalls
  <2>1. store[topic] # Reads!Cache!Gone =>
          store[topic].val \in Reads!Reading(topic)
    BY StoreType
  <2>2. store["calls"] # Reads!Cache!Gone =>
          store["calls"].val \in [shown : 0 .. MaxCalls, whole : BOOLEAN]
    BY <1>3, <2>1
  <2> QED BY <2>2
<1> QED BY <1>2, <1>4, <1>5, <1>6, <1>7

\* A caller that is not fetching goes on; the store may lose its entry.
LEMMA ReaderMoves ==
  ASSUME Reads!TypeOK, NEW c \in Callers, pc[c] # "fetching",
         NEW p \in {"idle", "waiting", "fetching"}, pc' = [pc EXCEPT ![c] = p],
         NEW k \in {topic, NoKey}, key' = [key EXCEPT ![c] = k],
         result' \in [Callers -> Reads!Reading(topic) \cup {NoValue}],
         \/ store' = store
         \/ store' = [store EXCEPT !["calls"] = Reads!Cache!Gone],
         asked' \in [Callers -> [newest : 0 .. MaxCalls, late : BOOLEAN]],
         UNCHANGED <<topic, up, router, got>>
  PROVE  Reads!TypeOK'
<1>1. /\ store' \in [Reads!Keys -> Reads!Entry(topic)]
      /\ \A x \in Reads!Keys \ {topic} : store'[x] = Reads!Cache!Gone
  BY DEF Reads!TypeOK, Reads!Entry, Reads!Keys
<1>2. /\ pc' \in [Callers -> {"idle", "waiting", "fetching"}]
      /\ key' \in [Callers -> {topic, NoKey}]
      /\ \A d \in Callers : Len(got[d]) > 0 => pc'[d] = "fetching"
  BY DEF Reads!TypeOK
<1>3. /\ topic' \in Reads!Keys /\ up' \in BOOLEAN
      /\ DOMAIN router' = Reads!AllParts
      /\ \A x \in Reads!AllParts : router'[x] \in Reads!Content(x)
      /\ got' \in [Callers -> Seq(Reads!Said(topic))]
      /\ \A d \in Callers :
           /\ Len(got'[d]) <= Len(Reads!Parts(topic))
           /\ \A i \in DOMAIN got'[d] :
                got'[d][i] \in Reads!Content(Reads!Parts(topic)[i]) \cup {Failed}
  BY DEF Reads!TypeOK
<1> QED BY <1>1, <1>2, <1>3 DEF Reads!TypeOK

\* What a valid entry holds is a reading.
LEMMA CachedReading ==
  ASSUME Reads!TypeOK, Reads!Cache!IsValid(topic)
  PROVE  store[topic] # Reads!Cache!Gone /\ store[topic].val \in Reads!Reading(topic)
<1>1. store[topic] # Reads!Cache!Gone
  BY DEF Reads!Cache!IsValid, Reads!Cache!Gone
<1> QED BY <1>1, StoreType

\* A caller is answered from the cache.
LEMMA ReadHits ==
  ASSUME Reads!ReadsAssumption, ReadsInv, NEW c \in Callers,
         pc[c] # "fetching", Reads!Cache!IsValid(topic),
         pc' = [pc EXCEPT ![c] = "idle"], key' = [key EXCEPT ![c] = NoKey],
         result' = [result EXCEPT ![c] = store[topic].val],
         UNCHANGED <<store, topic, up, router, got>>,
         NEW x \in [newest : 0 .. MaxCalls, late : BOOLEAN],
         asked' = [asked EXCEPT ![c] = x],
         x.newest = 0 \/ (pc[c] = "waiting" /\ x = asked[c])
  PROVE  ReadsInv'
<1>1. Reads!TypeOK /\ store[topic] # Reads!Cache!Gone
      /\ store[topic].val \in Reads!Reading(topic)
  BY CachedReading DEF ReadsInv
<1>2. Reads!TypeOK'
  <2>1. result' \in [Callers -> Reads!Reading(topic) \cup {NoValue}]
    BY <1>1 DEF Reads!TypeOK
  <2>2. asked' \in [Callers -> [newest : 0 .. MaxCalls, late : BOOLEAN]]
    BY <1>1 DEF Reads!TypeOK
  <2>3. "idle" \in {"idle", "waiting", "fetching"} /\ NoKey \in {topic, NoKey}
    OBVIOUS
  <2> QED BY <1>1, <2>1, <2>2, <2>3, ReaderMoves
<1>3. \A d \in Callers : pc'[d] # "idle" => key'[d] = topic
  BY <1>1 DEF ReadsInv, Reads!TypeOK
<1>4. ASSUME topic = "calls", NEW d \in Callers
      PROVE  /\ asked'[d].newest <= router["calls"]
             /\ asked'[d].late \/ ~Misses(d)'
  <2>1. asked[d].newest <= router["calls"] /\ (asked[d].late \/ ~Misses(d))
    BY <1>4 DEF ReadsInv
  <2>2. CASE d # c
    <3>1. pc'[d] = pc[d] /\ result'[d] = result[d] /\ asked'[d] = asked[d]
      BY <1>1, <2>2 DEF Reads!TypeOK
    <3> QED BY <2>1, <3>1 DEF Misses, NothingBefore
  <2>3. CASE d = c
    <3>1. pc'[c] = "idle" /\ result'[c] = store["calls"].val /\ asked'[c] = x
      BY <1>1, <1>4 DEF Reads!TypeOK
    <3>2. store["calls"].val.shown \in 0 .. MaxCalls /\ MaxCalls \in Nat
          /\ router["calls"] \in 0 .. MaxCalls
      BY <1>1, <1>4, CallsType
    <3>3. CASE x.newest = 0
      BY <2>3, <3>1, <3>2, <3>3 DEF Misses
    <3>4. CASE pc[c] = "waiting" /\ x = asked[c]
      <4>1. x.late \/ NothingBefore(x.newest)
        BY <2>1, <2>3, <3>4 DEF Misses
      <4>2. x.late \/ (store["calls"].val.whole =>
                         store["calls"].val.shown >= x.newest)
        BY <1>1, <1>4, <4>1 DEF NothingBefore
      <4> QED BY <2>1, <2>3, <3>1, <3>2, <3>4, <4>2 DEF Misses
    <3> QED BY <3>3, <3>4
  <2> QED BY <2>2, <2>3
<1> QED BY <1>2, <1>3, <1>4 DEF ReadsInv

\* A caller waits, or begins to fetch.
LEMMA ReadStarts ==
  ASSUME Reads!ReadsAssumption, ReadsInv, NEW c \in Callers,
         pc[c] # "fetching", NEW p \in {"waiting", "fetching"},
         pc' = [pc EXCEPT ![c] = p], key' = [key EXCEPT ![c] = topic],
         \/ store' = store
         \/ store' = [store EXCEPT !["calls"] = Reads!Cache!Gone],
         UNCHANGED <<result, topic, up, router, got>>,
         NEW x \in [newest : 0 .. MaxCalls, late : BOOLEAN],
         asked' = [asked EXCEPT ![c] = x],
         topic = "calls" => /\ x.newest <= router["calls"]
                            /\ x.late \/ NothingBefore(x.newest)'
  PROVE  ReadsInv'
<1>1. Reads!TypeOK
  BY DEF ReadsInv
<1>2. Reads!TypeOK'
  <2>1. result' \in [Callers -> Reads!Reading(topic) \cup {NoValue}]
    BY <1>1 DEF Reads!TypeOK
  <2>2. asked' \in [Callers -> [newest : 0 .. MaxCalls, late : BOOLEAN]]
    BY <1>1 DEF Reads!TypeOK
  <2>3. p \in {"idle", "waiting", "fetching"} /\ topic \in {topic, NoKey}
    OBVIOUS
  <2> QED BY <1>1, <2>1, <2>2, <2>3, ReaderMoves
<1>3. \A d \in Callers : pc'[d] # "idle" => key'[d] = topic
  BY <1>1 DEF ReadsInv, Reads!TypeOK
<1>4. ASSUME topic = "calls", NEW d \in Callers
      PROVE  /\ asked'[d].newest <= router["calls"]
             /\ asked'[d].late \/ ~Misses(d)'
  <2>1. asked[d].newest <= router["calls"] /\ (asked[d].late \/ ~Misses(d))
    BY <1>4 DEF ReadsInv
  <2>2. CASE d # c
    <3>1. pc'[d] = pc[d] /\ result'[d] = result[d] /\ asked'[d] = asked[d]
      BY <1>1, <2>2 DEF Reads!TypeOK
    <3>2. store'["calls"] = store["calls"] \/ store'["calls"] = Reads!Cache!Gone
      BY <1>1, <1>4 DEF Reads!TypeOK
    <3> QED BY <2>1, <3>1, <3>2 DEF Misses, NothingBefore
  <2>3. CASE d = c
    <3>1. pc'[c] # "idle" /\ asked'[c] = x
      BY <1>1 DEF Reads!TypeOK
    <3> QED BY <1>4, <2>3, <3>1 DEF Misses
  <2> QED BY <2>2, <2>3
<1> QED BY <1>2, <1>3, <1>4 DEF ReadsInv

LEMMA ReadAsks ==
  ASSUME Reads!ReadsAssumption, ReadsInv, NEW c \in Callers, Reads!Ask(c, topic)
  PROVE  ReadsInv'
<1> DEFINE x == Reads!NotForced
<1>1. /\ asked' = [asked EXCEPT ![c] = x] /\ UNCHANGED <<topic, up, router, got>>
      /\ Reads!Cache!Call(c, topic)
  BY DEF Reads!Ask
<1>2. x \in [newest : 0 .. MaxCalls, late : BOOLEAN] /\ x.newest = 0
  BY DEF Reads!NotForced, Reads!ReadsAssumption
<1> HIDE DEF x
<1>3. CASE Reads!Cache!Hit(c, topic)
  BY <1>1, <1>2, <1>3, ReadHits DEF Reads!Cache!Hit, Reads!Cache!Returns
<1>4. ASSUME NEW p \in {"waiting", "fetching"}, pc' = [pc EXCEPT ![c] = p],
             pc[c] = "idle", key' = [key EXCEPT ![c] = topic],
             UNCHANGED <<store, result>>
      PROVE  ReadsInv'
  <2>1. topic = "calls" => x.newest <= router["calls"] /\ NothingBefore(x.newest)'
    <3> SUFFICES ASSUME topic = "calls"
                 PROVE  x.newest <= router["calls"] /\ NothingBefore(x.newest)'
      OBVIOUS
    <3>1. /\ router["calls"] \in 0 .. MaxCalls /\ MaxCalls \in Nat
          /\ \A d \in Callers :
               got[d] # <<>> => got[d][1] \in (0 .. MaxCalls) \cup {Failed}
          /\ store["calls"] # Reads!Cache!Gone =>
               store["calls"].val.shown \in 0 .. MaxCalls
      BY CallsType DEF ReadsInv
    <3> QED BY <1>1, <1>2, <1>4, <3>1 DEF NothingBefore
  <2> QED BY <1>1, <1>2, <1>4, <2>1, ReadStarts
<1>5. CASE Reads!Cache!Lead(c, topic)
  BY <1>4, <1>5 DEF Reads!Cache!Lead, Reads!Cache!StartsFetch
<1>6. CASE Reads!Cache!Wait(c, topic)
  BY <1>4, <1>6 DEF Reads!Cache!Wait
<1> QED BY <1>1, <1>3, <1>5, <1>6 DEF Reads!Cache!Call

LEMMA ReadWakes ==
  ASSUME Reads!ReadsAssumption, ReadsInv, NEW c \in Callers, Reads!Wakes(c, topic)
  PROVE  ReadsInv'
<1> DEFINE x == asked[c]
<1>1. /\ UNCHANGED <<topic, up, router, got>> /\ Reads!Cache!Wake(c, topic)
      /\ pc[c] = "waiting"
  BY DEF Reads!Wakes, Reads!Cache!Wake, Reads!Cache!WakeHit, Reads!Cache!WakeMiss,
         Reads!Cache!Granted
<1>2. PICK y \in [newest : 0 .. MaxCalls, late : BOOLEAN] :
        y = asked[c] /\ asked' = [asked EXCEPT ![c] = y]
  BY DEF Reads!Wakes, ReadsInv, Reads!TypeOK
<1>3. CASE Reads!Cache!WakeHit(c, topic)
  BY <1>1, <1>2, <1>3, ReadHits DEF Reads!Cache!WakeHit, Reads!Cache!Returns
<1>4. CASE Reads!Cache!WakeMiss(c, topic)
  <2>1. topic = "calls" => /\ y.newest <= router["calls"]
                           /\ y.late \/ NothingBefore(y.newest)
    BY <1>1, <1>2 DEF ReadsInv, Misses
  <2>2. NothingBefore(y.newest) => NothingBefore(y.newest)'
    BY <1>1, <1>4 DEF NothingBefore, Reads!Cache!WakeMiss, Reads!Cache!StartsFetch
  <2> QED BY <1>1, <1>2, <1>4, <2>1, <2>2, ReadStarts
          DEF Reads!Cache!WakeMiss, Reads!Cache!StartsFetch
<1> QED BY <1>1, <1>3, <1>4 DEF Reads!Cache!Wake

\* A forced read notes the newest call, and whether it comes too late.
LEMMA ReadIsForced ==
  ASSUME Reads!ReadsAssumption, ReadsInv, NEW c \in Callers,
         topic = "calls", Reads!AskForced(c)
  PROVE  ReadsInv'
<1>1. PICK late \in BOOLEAN :
        late = \E d \in Callers : pc[d] = "fetching" /\ got[d] # <<>>
  OBVIOUS
<1>2. PICK x \in [newest : 0 .. MaxCalls, late : BOOLEAN] :
        x = [newest |-> router["calls"], late |-> late]
  BY CallsType DEF ReadsInv
<1>3. /\ asked' = [asked EXCEPT ![c] = x] /\ pc[c] = "idle"
      /\ store' = [store EXCEPT !["calls"] = Reads!Cache!Gone]
      /\ key' = [key EXCEPT ![c] = topic]
      /\ UNCHANGED <<result, topic, up, router, got>>
  BY <1>1, <1>2 DEF Reads!AskForced, Reads!Notes
<1>4. PICK p \in {"waiting", "fetching"} : pc' = [pc EXCEPT ![c] = p]
  BY DEF Reads!AskForced
<1>5. x.newest = router["calls"] /\ x.late = late
  BY <1>2
<1>6. late \/ NothingBefore(x.newest)'
  <2> SUFFICES ASSUME ~late PROVE NothingBefore(x.newest)'
    OBVIOUS
  <2>1. \A d \in Callers : got[d] = <<>>
    BY <1>1, EmptySeq DEF ReadsInv, Reads!TypeOK
  <2>2. store'["calls"] = Reads!Cache!Gone
    BY <1>3 DEF ReadsInv, Reads!TypeOK
  <2> QED BY <1>3, <2>1, <2>2 DEF NothingBefore
<1>7. x.newest <= router["calls"]
  BY <1>5, CallsType DEF ReadsInv
<1> QED BY <1>3, <1>4, <1>2, <1>5, <1>6, <1>7, ReadStarts

LEMMA ReadRequests ==
  ASSUME Reads!ReadsAssumption, ReadsInv, NEW c \in Callers, Reads!Request(c)
  PROVE  ReadsInv'
<1>0. Reads!TypeOK /\ topic \in Reads!Keys
  BY DEF ReadsInv, Reads!TypeOK
<1>1. /\ pc[c] = "fetching" /\ key[c] = topic
      /\ Len(got[c]) < Len(Reads!Parts(topic))
      /\ UNCHANGED <<store, pc, key, result, topic, up, router, asked>>
  BY DEF Reads!Request, ReadsInv, Reads!cacheVars
<1> DEFINE part == Reads!Parts(topic)[Len(got[c]) + 1]
<1>2. PICK v : /\ got' = [got EXCEPT ![c] = Append(got[c], v)]
               /\ v = router[part] \/ v = Failed
  <2>1. got' = [got EXCEPT ![c] =
          Append(got[c], IF up THEN router[part] ELSE Failed)]
    BY <1>1 DEF Reads!Request
  <2> QED BY <2>1
<1>3. part \in Reads!AllParts
  <2>1. Len(got[c]) + 1 \in DOMAIN Reads!Parts(topic)
    BY <1>0, <1>1, PartsType DEF Reads!TypeOK
  <2> QED BY <1>0, <2>1, PartsType
<1>4. v \in Reads!Content(part) \cup {Failed}
  BY <1>0, <1>2, <1>3 DEF Reads!TypeOK
<1>5. \A d \in Callers : AnswersTo(topic, got[d])
  BY <1>0 DEF Reads!TypeOK, AnswersTo
<1>6. /\ AnswersTo(topic, Append(got[c], v)) /\ Append(got[c], v) # <<>>
      /\ got[c] # <<>> => Append(got[c], v)[1] = got[c][1]
      /\ got[c] = <<>> => Append(got[c], v)[1] = v
  <2>1. AnswersTo(topic, got[c])
    BY <1>5
  <2>2. v \in Reads!Content(Reads!Parts(topic)[Len(got[c]) + 1]) \cup {Failed}
    BY <1>4
  <2>3. PICK g : g = got[c]
    OBVIOUS
  <2>4. /\ AnswersTo(topic, g) /\ Len(g) < Len(Reads!Parts(topic))
        /\ v \in Reads!Content(Reads!Parts(topic)[Len(g) + 1]) \cup {Failed}
    BY <1>1, <2>1, <2>2, <2>3
  <2>5. PICK k \in Reads!Keys : k = topic
    BY <1>0
  <2>6. /\ AnswersTo(k, g) /\ Len(g) < Len(Reads!Parts(k))
        /\ v \in Reads!Content(Reads!Parts(k)[Len(g) + 1]) \cup {Failed}
    BY <2>4, <2>5
  <2>7. /\ AnswersTo(k, Append(g, v)) /\ Append(g, v) # <<>>
        /\ g # <<>> => Append(g, v)[1] = g[1]
        /\ g = <<>> => Append(g, v)[1] = v
    BY <2>6, OneMoreAnswer
  <2> QED BY <2>3, <2>5, <2>7
<1> HIDE DEF part
<1>7. got \in [Callers -> Seq(Reads!Said(topic))]
  BY <1>0 DEF Reads!TypeOK
<1>8. Reads!TypeOK'
  <2>1. got' \in [Callers -> Seq(Reads!Said(topic))]
    BY <1>2, <1>6, <1>7 DEF AnswersTo
  <2>2. \A d \in Callers : AnswersTo(topic, got'[d])
    BY <1>2, <1>5, <1>6, <1>7
  <2>3. \A d \in Callers : Len(got'[d]) > 0 => pc[d] = "fetching"
    BY <1>0, <1>1, <1>2, <1>7 DEF Reads!TypeOK
  <2> QED BY <1>0, <1>1, <2>1, <2>2, <2>3 DEF Reads!TypeOK, AnswersTo
<1>9. ASSUME topic = "calls", NEW d \in Callers
      PROVE  /\ asked'[d].newest <= router'["calls"]
             /\ asked'[d].late \/ ~Misses(d)'
  <2>1. asked[d].newest <= router["calls"] /\ (asked[d].late \/ ~Misses(d))
    BY <1>9 DEF ReadsInv
  <2>2. part = "calls"
    BY <1>0, <1>1, <1>7, <1>9, PartsType DEF part
  <2>3. NothingBefore(asked[d].newest) => NothingBefore(asked[d].newest)'
    BY <1>1, <1>2, <1>6, <1>7, <2>1, <2>2 DEF NothingBefore
  <2> QED BY <1>1, <2>1, <2>3 DEF Misses
<1> QED BY <1>1, <1>8, <1>9 DEF ReadsInv

LEMMA ReadReturns ==
  ASSUME Reads!ReadsAssumption, ReadsInv, NEW c \in Callers, Reads!Returns(c, topic)
  PROVE  ReadsInv'
<1>0. Reads!TypeOK /\ topic \in Reads!Keys
  BY DEF ReadsInv, Reads!TypeOK
<1>1. PICK a \in Reads!Reading(topic) : a = Reads!Answer(topic, got[c])
  <2>1. AnswersTo(topic, got[c])
    BY <1>0 DEF Reads!TypeOK, AnswersTo
  <2> QED BY <1>0, <2>1, AnswerType DEF Reads!Returns
<1>2. /\ pc[c] = "fetching" /\ Len(got[c]) = Len(Reads!Parts(topic))
      /\ pc' = [pc EXCEPT ![c] = "idle"] /\ key' = [key EXCEPT ![c] = NoKey]
      /\ result' = [result EXCEPT ![c] = a]
      /\ store' = [store EXCEPT ![topic] = [val |-> a, left |-> TTLs[topic]]]
      /\ got' = [got EXCEPT ![c] = <<>>]
      /\ UNCHANGED <<topic, up, router, asked>>
  BY <1>1 DEF Reads!Returns, Reads!Cache!FetchReturns, Reads!Cache!Releases,
              Reads!Cache!Put, Reads!Cache!Returns
<1>3. Reads!TypeOK'
  <2>1. TTLs[topic] \in 0 .. TTLs[topic]
    BY <1>0 DEF Reads!ReadsAssumption
  <2>2. [val |-> a, left |-> TTLs[topic]] \in Reads!Entry(topic)
    BY <2>1 DEF Reads!Entry
  <2>3. /\ store' \in [Reads!Keys -> Reads!Entry(topic)]
        /\ \A k \in Reads!Keys \ {topic} : store'[k] = Reads!Cache!Gone
    BY <1>0, <1>2, <2>2 DEF Reads!TypeOK
  <2>4. /\ pc' \in [Callers -> {"idle", "waiting", "fetching"}]
        /\ key' \in [Callers -> {topic, NoKey}]
        /\ result' \in [Callers -> Reads!Reading(topic) \cup {NoValue}]
    BY <1>0, <1>2 DEF Reads!TypeOK
  <2>5. \A d \in Callers : AnswersTo(topic, got[d])
    BY <1>0 DEF Reads!TypeOK, AnswersTo
  <2>6. AnswersTo(topic, <<>>) /\ Len(<<>>) = 0
    <3>1. Len(Reads!Parts(topic)) \in Nat
      BY <1>0, PartsType
    <3>2. <<>> \in Seq(Reads!Said(topic)) /\ Len(<<>>) = 0 /\ DOMAIN <<>> = {}
      OBVIOUS
    <3> QED BY <3>1, <3>2 DEF AnswersTo
  <2>7. got \in [Callers -> Seq(Reads!Said(topic))]
    BY <1>0 DEF Reads!TypeOK
  <2>8. got' \in [Callers -> Seq(Reads!Said(topic))]
    BY <1>2, <2>6, <2>7 DEF AnswersTo
  <2>9. \A d \in Callers : AnswersTo(topic, got'[d])
    BY <1>2, <2>5, <2>6, <2>7
  <2>10. \A d \in Callers : Len(got'[d]) > 0 => pc'[d] = "fetching"
    BY <1>0, <1>2, <2>6 DEF Reads!TypeOK
  <2> QED BY <1>0, <1>2, <2>3, <2>4, <2>8, <2>9, <2>10 DEF Reads!TypeOK, AnswersTo
<1>4. \A d \in Callers : pc'[d] # "idle" => key'[d] = topic
  BY <1>0, <1>2 DEF ReadsInv, Reads!TypeOK
<1>5. ASSUME topic = "calls", NEW d \in Callers
      PROVE  /\ asked'[d].newest <= router'["calls"]
             /\ asked'[d].late \/ ~Misses(d)'
  <2>1. /\ asked[d].newest <= router["calls"] /\ (asked[d].late \/ ~Misses(d))
        /\ asked[d].newest \in Nat
    BY <1>0, <1>5, CallsType DEF ReadsInv
  <2>2. Len(got[c]) = 1 /\ got[c] # <<>> /\ 1 \in DOMAIN got[c]
    <3>1. Len(got[c]) = 1 /\ got[c] \in Seq(Reads!Said(topic))
      BY <1>0, <1>2, <1>5, PartsType DEF Reads!TypeOK
    <3> QED BY <3>1
  <2>3. a.whole => got[c][1] # Failed /\ a.shown = got[c][1]
    BY <1>1, <1>5, <2>2 DEF Reads!Answer, Reads!Shown
  <2>4. ASSUME NEW n \in Nat, NothingBefore(n)
        PROVE  a.whole => a.shown >= n
    BY <2>2, <2>3, <2>4 DEF NothingBefore
  <2>5. CASE d = c
    <3>1. asked[c].late \/ NothingBefore(asked[c].newest)
      BY <1>2, <2>1, <2>5 DEF Misses
    <3>2. asked[c].late \/ (a.whole => a.shown >= asked[c].newest)
      BY <2>1, <2>4, <2>5, <3>1
    <3>3. pc'[c] = "idle" /\ result'[c] = a
      BY <1>0, <1>2 DEF Reads!TypeOK
    <3>4. a.shown \in 0 .. MaxCalls
      BY <1>5, <1>1 DEF Reads!Reading, Reads!Views
    <3>5. MaxCalls \in Nat
      BY DEF Reads!ReadsAssumption
    <3> QED BY <1>2, <2>1, <2>5, <3>2, <3>3, <3>4, <3>5 DEF Misses
  <2>6. CASE d # c
    <3>1. pc'[d] = pc[d] /\ result'[d] = result[d] /\ asked'[d] = asked[d]
      BY <1>0, <1>2, <2>6 DEF Reads!TypeOK
    <3>2. store'["calls"].val = a /\ got'[c] = <<>>
          /\ \A e \in Callers \ {c} : got'[e] = got[e]
      BY <1>0, <1>2, <1>5 DEF Reads!TypeOK
    <3>3. NothingBefore(asked[d].newest) => NothingBefore(asked[d].newest)'
      BY <2>1, <2>4, <3>1, <3>2 DEF NothingBefore
    <3> QED BY <1>2, <2>1, <3>1, <3>3 DEF Misses
  <2> QED BY <2>5, <2>6
<1> QED BY <1>2, <1>3, <1>4, <1>5 DEF ReadsInv

\* The router's answers change, and calls are only added.
LEMMA RouterMoves ==
  ASSUME Reads!ReadsAssumption, ReadsInv, NEW part \in Reads!AllParts,
         Reads!RouterChanges(part)
  PROVE  ReadsInv'
<1>0. Reads!TypeOK
  BY DEF ReadsInv
<1>1. PICK v \in Reads!Content(part) :
        /\ part = "calls" => v = router[part] + 1
        /\ router' = [router EXCEPT ![part] = v]
  BY DEF Reads!RouterChanges
<1>2. UNCHANGED <<store, pc, key, result, topic, up, got, asked>>
  BY DEF Reads!RouterChanges, Reads!cacheVars
<1>3. Reads!TypeOK'
  <2>1. DOMAIN router' = Reads!AllParts
        /\ \A p \in Reads!AllParts : router'[p] \in Reads!Content(p)
    BY <1>0, <1>1 DEF Reads!TypeOK
  <2> QED BY <1>0, <1>2, <2>1 DEF Reads!TypeOK
<1>4. topic = "calls" => router'["calls"] >= router["calls"]
  <2>1. topic = "calls" => router["calls"] \in 0 .. MaxCalls
    BY <1>0, CallsType
  <2>2. CASE part = "calls"
    BY <1>0, <1>1, <2>1, <2>2 DEF Reads!TypeOK
  <2>3. CASE part # "calls"
    <3>1. router'["calls"] = router["calls"]
      BY <1>1, <2>3
    <3> QED BY <2>1, <3>1
  <2> QED BY <2>2, <2>3
<1>5. ASSUME topic = "calls", NEW d \in Callers
      PROVE  /\ asked'[d].newest <= router'["calls"]
             /\ asked'[d].late \/ ~Misses(d)'
  <2>1. /\ asked[d].newest <= router["calls"] /\ (asked[d].late \/ ~Misses(d))
        /\ asked[d].newest \in 0 .. MaxCalls /\ router["calls"] \in 0 .. MaxCalls
        /\ router'["calls"] \in 0 .. MaxCalls /\ MaxCalls \in Nat
    <3>1. router'["calls"] \in 0 .. MaxCalls
      BY <1>3, CallListPart DEF Reads!TypeOK
    <3> QED BY <1>0, <1>5, <3>1, CallsType DEF ReadsInv
  <2>2. Misses(d)' <=> Misses(d)
    BY <1>2 DEF Misses, NothingBefore
  <2> QED BY <1>2, <1>4, <1>5, <2>1, <2>2
<1> QED BY <1>2, <1>3, <1>5 DEF ReadsInv

LEMMA ReadsAge ==
  ASSUME Reads!ReadsAssumption, ReadsInv, Reads!Tick
  PROVE  ReadsInv'
<1>0. Reads!TypeOK /\ topic \in Reads!Keys
  BY DEF ReadsInv, Reads!TypeOK
<1>1. /\ UNCHANGED <<pc, key, result, topic, up, router, got, asked>>
      /\ store' = [k \in Reads!Keys |-> Reads!Cache!Older(store[k])]
  BY DEF Reads!Tick, Reads!Cache!Tick
<1>2. ASSUME NEW e \in Reads!Entry(topic)
      PROVE  /\ Reads!Cache!Older(e) \in Reads!Entry(topic)
             /\ e = Reads!Cache!Gone => Reads!Cache!Older(e) = e
             /\ e # Reads!Cache!Gone => Reads!Cache!Older(e).val = e.val
  <2>1. CASE e = Reads!Cache!Gone
    BY <2>1 DEF Reads!Cache!Gone, Reads!Cache!Older, Reads!Entry
  <2>2. CASE e \in [val : Reads!Reading(topic), left : 0 .. TTLs[topic]]
                /\ e # Reads!Cache!Gone
    <3>1. TTLs[topic] \in Nat
      BY <1>0 DEF Reads!ReadsAssumption
    <3>2. PICK left \in 0 .. TTLs[topic] :
            left = IF e.left = 0 THEN 0 ELSE e.left - 1
      BY <2>2, <3>1
    <3>3. Reads!Cache!Older(e) = [e EXCEPT !.left = left]
      BY <3>2 DEF Reads!Cache!Older
    <3> QED BY <2>2, <3>3 DEF Reads!Entry
  <2> QED BY <2>1, <2>2 DEF Reads!Entry
<1>3. Reads!TypeOK'
  <2>1. /\ store' \in [Reads!Keys -> Reads!Entry(topic)]
        /\ \A k \in Reads!Keys \ {topic} : store'[k] = Reads!Cache!Gone
    BY <1>0, <1>1, <1>2 DEF Reads!TypeOK
  <2> QED BY <1>0, <1>1, <2>1 DEF Reads!TypeOK
<1>4. ASSUME topic = "calls", NEW d \in Callers
      PROVE  /\ asked'[d].newest <= router'["calls"]
             /\ asked'[d].late \/ ~Misses(d)'
  <2>1. asked[d].newest <= router["calls"] /\ (asked[d].late \/ ~Misses(d))
    BY <1>4 DEF ReadsInv
  <2>2. /\ store["calls"] = Reads!Cache!Gone => store'["calls"] = Reads!Cache!Gone
        /\ store["calls"] # Reads!Cache!Gone =>
             store'["calls"].val = store["calls"].val
    BY <1>0, <1>1, <1>2, <1>4 DEF Reads!TypeOK
  <2>3. NothingBefore(asked[d].newest) => NothingBefore(asked[d].newest)'
    BY <1>1, <2>2 DEF NothingBefore
  <2> QED BY <1>1, <2>1, <2>3 DEF Misses
<1> QED BY <1>1, <1>3, <1>4 DEF ReadsInv

LEMMA ReadsStep ==
  ASSUME Reads!ReadsAssumption, ReadsInv, [Reads!Next]_(Reads!vars)
  PROVE  ReadsInv'
<1>1. ASSUME UNCHANGED <<store, pc, key, result, topic, router, got, asked>>,
             up' \in BOOLEAN
      PROVE  ReadsInv'
  <2>1. Reads!TypeOK'
    BY <1>1 DEF ReadsInv, Reads!TypeOK
  <2> QED BY <1>1, <2>1 DEF ReadsInv, Misses, NothingBefore
<1>2. CASE Reads!RouterComesAndGoes \/ UNCHANGED Reads!vars
  BY <1>1, <1>2 DEF Reads!RouterComesAndGoes, Reads!vars, Reads!cacheVars,
                    ReadsInv, Reads!TypeOK
<1>3. Visitors[topic] \subseteq Callers
  BY DEF Reads!ReadsAssumption, ReadsInv, Reads!TypeOK
<1> QED
  BY <1>2, <1>3, ReadAsks, ReadIsForced, ReadWakes, ReadRequests, ReadReturns,
     RouterMoves, ReadsAge
  DEF Reads!Next

\* It holds in every reachable state.
LEMMA ReadsInvariant ==
  ASSUME Reads!ReadsAssumption
  PROVE  Reads!Spec => []ReadsInv
<1>1. Reads!Init => ReadsInv
  <2> SUFFICES ASSUME Reads!Init PROVE ReadsInv
    OBVIOUS
  <2>1. /\ store = [k \in Reads!Keys |-> Reads!Cache!Gone]
        /\ pc = [c \in Callers |-> "idle"] /\ key = [c \in Callers |-> NoKey]
        /\ result = [c \in Callers |-> NoValue] /\ topic \in Reads!Keys /\ up = TRUE
        /\ got = [c \in Callers |-> <<>>]
        /\ asked = [c \in Callers |-> Reads!NotForced]
    BY DEF Reads!Init, Reads!Cache!Init
  <2>2. MaxCalls \in Nat /\ Len(Reads!Parts(topic)) \in Nat
    BY <2>1, PartsType DEF Reads!ReadsAssumption
  <2>3. DOMAIN router = Reads!AllParts
        /\ \A p \in Reads!AllParts : router[p] \in Reads!Content(p)
    <3>1. DOMAIN router = Reads!AllParts
      BY DEF Reads!Init
    <3>2. ASSUME NEW p \in Reads!AllParts
          PROVE  router[p] = CASE p = "hosts" -> {}
                   [] p \in {"is_connected", "is_linked", "link_props"} -> FALSE
                   [] OTHER -> 0
      BY DEF Reads!Init
    <3>3. ASSUME NEW p \in Reads!AllParts PROVE router[p] \in Reads!Content(p)
      <4>1. CASE p = "hosts"
        <5>1. router[p] = {}
          BY <3>2, <4>1
        <5> QED BY <4>1, <5>1 DEF Reads!Content
      <4>2. CASE p \in {"is_connected", "is_linked", "link_props"}
        <5>1. router[p] = FALSE
          BY <3>2, <4>2
        <5> QED BY <4>2, <5>1 DEF Reads!Content
      <4>3. CASE p \notin {"hosts", "is_connected", "is_linked", "link_props"}
        <5>1. router[p] = 0
          BY <3>2, <4>3
        <5> QED BY <2>2, <4>3, <5>1 DEF Reads!Content
      <4> QED BY <4>1, <4>2, <4>3
    <3> QED BY <3>1, <3>3
  <2>4. Reads!NotForced \in [newest : 0 .. MaxCalls, late : BOOLEAN]
        /\ Reads!NotForced.newest = 0
    BY <2>2 DEF Reads!NotForced
  <2>5. <<>> \in Seq(Reads!Said(topic)) /\ Len(<<>>) = 0 /\ DOMAIN <<>> = {}
    OBVIOUS
  <2>6. \A c \in Callers : got[c] = <<>>
    BY <2>1
  <2>7. /\ got \in [Callers -> Seq(Reads!Said(topic))]
        /\ \A c \in Callers :
             /\ Len(got[c]) > 0 => pc[c] = "fetching"
             /\ Len(got[c]) <= Len(Reads!Parts(topic))
             /\ \A i \in DOMAIN got[c] :
                  got[c][i] \in Reads!Content(Reads!Parts(topic)[i]) \cup {Failed}
    BY <2>1, <2>2, <2>5, <2>6
  <2>8. Reads!TypeOK
    BY <2>1, <2>3, <2>4, <2>7 DEF Reads!TypeOK, Reads!Entry
  <2>9. topic = "calls" => router["calls"] \in 0 .. MaxCalls
    BY <2>8, CallsType
  <2> QED BY <2>1, <2>2, <2>4, <2>8, <2>9 DEF ReadsInv, Misses
<1>2. ReadsInv /\ [Reads!Next]_(Reads!vars) => ReadsInv'
  BY ReadsStep
<1> QED BY <1>1, <1>2, PTL DEF Reads!Spec

\* The caches of the phone and network pages, and the fetches that fill
\* them, have their types in every reachable state.
THEOREM ReadsTypes == Reads!ReadsAssumption => (Reads!Spec => []Reads!TypeOK)
<1> SUFFICES ASSUME Reads!ReadsAssumption PROVE Reads!Spec => []Reads!TypeOK
  OBVIOUS
<1>1. ReadsInv => Reads!TypeOK
  BY DEF ReadsInv
<1> QED BY <1>1, ReadsInvariant, PTL

\* A forced read misses a call that was there only if a fetch under way had
\* read the list already, in every reachable state.
THEOREM ForcedReadsAreFresh ==
  Reads!ReadsAssumption => (Reads!Spec => []Reads!OlderOnlyIfAlreadyRead)
<1> SUFFICES ASSUME Reads!ReadsAssumption
             PROVE  Reads!Spec => []Reads!OlderOnlyIfAlreadyRead
  OBVIOUS
<1>1. ReadsInv => Reads!OlderOnlyIfAlreadyRead
  <2> SUFFICES ASSUME ReadsInv, topic = "calls", NEW c \in Callers,
                      pc[c] = "idle", result[c] # NoValue, result[c].whole
               PROVE  asked[c].late \/ result[c].shown >= asked[c].newest
    BY DEF Reads!OlderOnlyIfAlreadyRead
  <2>1. /\ MaxCalls \in Nat /\ result[c].shown \in 0 .. MaxCalls
        /\ asked[c].newest \in 0 .. MaxCalls
    BY CallsType DEF ReadsInv
  <2> QED BY <2>1 DEF ReadsInv, Misses
<1> QED BY <1>1, ReadsInvariant, PTL

-----------------------------------------------------------------------------
(* The caches of the router's pages, as caches: forced reads included.     *)

\* What the pages cache of the router.
Readings == UNION {Reads!Reading(k) : k \in Reads!Keys}

ReadsAssumed == Reads!ReadsAssumption /\ Reads!ReadingAssumption

Cached == INSTANCE TTLCacheProofs WITH
            Keys <- Reads!Keys, Values <- Readings, FetchTTL <- TTLs, SetTTL <- 1

\* The same locks and callers around a cache that has nothing: so a forced
\* read finds it.
Emptied == INSTANCE TTLCacheProofs WITH
             Keys <- Reads!Keys, Values <- Readings, FetchTTL <- TTLs, SetTTL <- 1,
             store <- [k \in Reads!Keys |-> Reads!Cache!Gone]

LEMMA CachedAssumed ==
  ASSUME ReadsAssumed
  PROVE  Cached!CacheAssumption /\ Emptied!CacheAssumption
<1>1. 1 \in Nat \ {0} /\ NoValue \notin Readings
  BY DEF ReadsAssumed, Reads!ReadingAssumption, Readings
<1> QED BY <1>1 DEF ReadsAssumed, Reads!ReadsAssumption, Cached!CacheAssumption,
                    Emptied!CacheAssumption

CachedInv == Cached!IInv /\ Cached!QueueInv

\* The locks and their queues do not depend on what is stored.
LEMMA SameLocks ==
  /\ Cached!LockInv <=> Emptied!LockInv
  /\ Cached!LockInv' <=> Emptied!LockInv'
  /\ Cached!QueueInv <=> Emptied!QueueInv
  /\ Cached!QueueInv' <=> Emptied!QueueInv'
BY DEF Cached!LockInv, Emptied!LockInv, Cached!QueueInv, Emptied!QueueInv,
       Cached!Waiters, Emptied!Waiters, Cached!Lists, Emptied!Lists

LEMMA SameTypes ==
  ASSUME ReadsAssumed
  PROVE  /\ Cached!TypeOK => Emptied!TypeOK
         /\ Emptied!TypeOK' /\ store' \in [Reads!Keys -> Cached!Entry]
              => Cached!TypeOK'
BY DEF Cached!TypeOK, Emptied!TypeOK, Cached!Entry, Emptied!Entry, Cached!Gone,
       Emptied!Gone, Reads!Cache!Gone

\* A forced read takes the lock of the call list, or queues up for it, as any
\* read that finds nothing.
LEMMA ForcedIsAMiss ==
  ASSUME NEW c \in Callers, Reads!AskForced(c)
  PROVE  Emptied!Call(c, "calls")
<1>1. "calls" \in Reads!Keys
  BY DEF Reads!Keys
<1>2. ~Emptied!IsValid("calls")
  BY <1>1 DEF Emptied!IsValid, Reads!Cache!Gone
<1> QED
  BY <1>2 DEF Reads!AskForced, Reads!Cache!Acquirable, Emptied!Call,
     Emptied!Lead, Emptied!Wait, Emptied!Acquirable, Emptied!StartsFetch

LEMMA ForcedKeeps ==
  ASSUME ReadsAssumed, CachedInv, NEW c \in Callers, Reads!AskForced(c)
  PROVE  CachedInv'
<1>1. [Emptied!Next]_(Emptied!cacheVars)
  BY ForcedIsAMiss DEF Emptied!Next, Reads!Keys
<1>2. Emptied!TypeOK /\ Emptied!LockInv /\ Emptied!QueueInv
  BY SameLocks, SameTypes DEF CachedInv, Cached!IInv
<1>3. Emptied!TypeOK' /\ Emptied!LockInv' /\ Emptied!QueueInv'
  BY <1>1, <1>2, CachedAssumed, Emptied!TypeStep, Emptied!LockStep,
     Emptied!QueueStep
<1>4. store' \in [Reads!Keys -> Cached!Entry]
  BY DEF Reads!AskForced, CachedInv, Cached!IInv, Cached!TypeOK, Cached!Entry,
         Cached!Gone, Reads!Cache!Gone
<1> QED BY <1>3, <1>4, SameLocks, SameTypes DEF CachedInv, Cached!IInv

\* Every other step does to the cache what TTLCacheProofs speaks of.
LEMMA ReadsUseCache ==
  ASSUME Reads!ReadsAssumption, ReadsInv, [Reads!Next]_(Reads!vars),
         ~ \E c \in Visitors[topic] : Reads!AskForced(c)
  PROVE  [Cached!Next]_(Cached!cacheVars)
<1>0. topic \in Reads!Keys /\ Visitors[topic] \subseteq Callers
  BY DEF Reads!ReadsAssumption, ReadsInv, Reads!TypeOK
<1>1. ASSUME NEW c \in Callers, Reads!Ask(c, topic)
      PROVE  Cached!Call(c, topic)
  BY <1>1 DEF Reads!Ask, Reads!Cache!Call, Reads!Cache!Hit, Reads!Cache!Lead,
         Reads!Cache!Wait, Reads!Cache!IsValid, Reads!Cache!Returns,
         Reads!Cache!StartsFetch, Reads!Cache!Acquirable,
         Cached!Call, Cached!Hit, Cached!Lead, Cached!Wait, Cached!IsValid,
         Cached!Returns, Cached!StartsFetch, Cached!Acquirable
<1>2. ASSUME NEW c \in Callers, Reads!Wakes(c, topic)
      PROVE  Cached!Wake(c, topic)
  BY <1>2 DEF Reads!Wakes, Reads!Cache!Wake, Reads!Cache!WakeHit,
         Reads!Cache!WakeMiss, Reads!Cache!IsValid, Reads!Cache!Granted,
         Reads!Cache!Returns, Reads!Cache!StartsFetch,
         Cached!Wake, Cached!WakeHit, Cached!WakeMiss, Cached!IsValid,
         Cached!Granted, Cached!Returns, Cached!StartsFetch
<1>3. ASSUME NEW c \in Callers, Reads!Returns(c, topic)
      PROVE  Cached!FetchEnds(c, topic)
  <2>1. AnswersTo(topic, got[c])
    BY DEF ReadsInv, Reads!TypeOK, AnswersTo
  <2>2. Reads!Answer(topic, got[c]) \in Readings
    BY <1>0, <1>3, <2>1, AnswerType DEF Reads!Returns, Readings
  <2>3. Cached!FetchReturns(c, topic, Reads!Answer(topic, got[c]))
    BY <1>3 DEF Reads!Returns, Reads!Cache!FetchReturns, Reads!Cache!Releases,
           Reads!Cache!Returns, Reads!Cache!Put, Cached!FetchReturns,
           Cached!Releases, Cached!Returns, Cached!Put
  <2> QED BY <2>2, <2>3 DEF Cached!FetchEnds
<1>4. CASE Reads!Tick
  BY <1>4 DEF Reads!Tick, Reads!Cache!Tick, Reads!Cache!Older, Cached!Next,
         Cached!Tick, Cached!Older
<1>5. CASE UNCHANGED Reads!cacheVars
  BY <1>5 DEF Reads!cacheVars, Cached!cacheVars
<1> QED
  BY <1>0, <1>1, <1>2, <1>3, <1>4, <1>5
     DEF Reads!Next, Reads!Request, Reads!RouterChanges,
         Reads!RouterComesAndGoes, Reads!vars, Cached!Next

LEMMA CachedInvariant ==
  ASSUME ReadsAssumed
  PROVE  Reads!Spec => []CachedInv
<1>1. Reads!Init => CachedInv
  <2>1. Reads!Init => Cached!Init
    BY DEF Reads!Init, Reads!Cache!Init, Reads!Cache!Gone, Cached!Init, Cached!Gone
  <2> QED BY <2>1, CachedAssumed, Cached!StartsRight DEF CachedInv
<1>2. ReadsInv /\ CachedInv /\ [Reads!Next]_(Reads!vars) => CachedInv'
  <2> SUFFICES ASSUME ReadsInv, CachedInv, [Reads!Next]_(Reads!vars)
               PROVE  CachedInv'
    OBVIOUS
  <2>1. CASE \E c \in Visitors[topic] : Reads!AskForced(c)
    BY <2>1, ForcedKeeps
       DEF ReadsAssumed, Reads!ReadsAssumption, ReadsInv, Reads!TypeOK
  <2>2. CASE ~ \E c \in Visitors[topic] : Reads!AskForced(c)
    BY <2>2, ReadsUseCache, CachedAssumed, Cached!TypeStep, Cached!LockStep,
       Cached!QueueStep DEF ReadsAssumed, CachedInv, Cached!IInv
  <2> QED BY <2>1, <2>2
<1>3. Reads!ReadsAssumption
  BY DEF ReadsAssumed
<1> QED BY <1>1, <1>2, <1>3, ReadsInvariant, PTL DEF Reads!Spec

\* One fetch at a time asks the router for what a page shows, also when
\* several users force a read of the call list, each emptying the cache
\* under the fetch the others wait for.
THEOREM OneFetchAsksTheRouter ==
  ReadsAssumed => (Reads!Spec => []Reads!Cache!SingleFlight)
<1> SUFFICES ASSUME ReadsAssumed PROVE Reads!Spec => []Reads!Cache!SingleFlight
  OBVIOUS
<1>1. CachedInv => Reads!Cache!SingleFlight
  BY DEF CachedInv, Cached!IInv, Cached!LockInv, Reads!Cache!SingleFlight
<1> QED BY <1>1, CachedInvariant, PTL

\* Nobody who waits for a reading is left behind, forced or not: a fetch of
\* it is under way, or the first of those that wait is about to be woken.
THEOREM NoReaderIsStranded ==
  ReadsAssumed => (Reads!Spec => []Cached!NobodyIsStranded)
<1> SUFFICES ASSUME ReadsAssumed PROVE Reads!Spec => []Cached!NobodyIsStranded
  OBVIOUS
<1>1. CachedInv => Cached!NobodyIsStranded
  BY CachedAssumed, Cached!LockServesQueue DEF CachedInv
<1> QED BY <1>1, CachedInvariant, PTL

=============================================================================
