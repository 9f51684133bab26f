------------------------------ MODULE Inventory ------------------------------
(***************************************************************************)
(* The rows of devices, device_groups and device_group_members, and who    *)
(* writes them: discoveries (discover_and_sync), the PATCH of a device,    *)
(* and the group routes (app/devices, app/groups).                         *)
(*                                                                         *)
(* A discovery is one long transaction.  Each UPDATE it flushes locks its  *)
(* row until the end, and an INSERT makes every other INSERT of the AIN    *)
(* wait; PostgreSQL runs at READ COMMITTED.  The other writers flush and   *)
(* commit in one step, as in UserAccounts.                                 *)
(*                                                                         *)
(* Of a device's columns two are kept: is_active, which discoveries and    *)
(* users write (as they do name), and is_favorite, which only users write  *)
(* (as they do location and display_order).  An UPDATE names the columns   *)
(* that differ from the loaded ones.  `Variant' marks bugs the code might  *)
(* have, as in TTLCache.                                                   *)
(***************************************************************************)
EXTENDS Naturals, FiniteSets, Functions

CONSTANTS
  Ains,          \* numbered as the box lists them; also stand for the ids
  Groups,        \* ids that may be generated for groups
  Discoveries,   \* handlers of POST /devices/discover
  Editors,       \* handlers of the other writing routes
  Requests,      \* what their callers ask for, among AllRequests
  NoRow, NoAin,
  MaxBusy,       \* requests handled at once (bounds the model)
  MayFail        \* statements and commits can fail

AllRequests ==
  [op : {"patch"}, ain : Ains, field : {"is_active", "is_favorite"}, val : BOOLEAN]
    \cup [op : {"join", "leave"}, group : Groups, ain : Ains]
    \cup [op : {"delete"}, group : Groups]

Device == [is_active : BOOLEAN, is_favorite : BOOLEAN]

ASSUME InventoryAssumption ==
  /\ Requests \subseteq AllRequests
  /\ Ains \subseteq Nat /\ NoAin \notin Ains
  /\ Discoveries \cap Editors = {}
  /\ NoRow \notin Device \cup BOOLEAN
  /\ MaxBusy \in Nat \ {0} /\ MayFail \in BOOLEAN

VARIABLES
  row,       \* row[a]: the committed row of a device, or NoRow
  groups,    \* committed groups
  made,      \* group ids generated so far
  members,   \* committed memberships: <<group, device>>
  disc,      \* disc[d]: the discovery d is running
  editor,    \* editor[e]: the request e is handling
  touched,   \* touched[d]: devices others have written since d asked the box
  wish,      \* wish[a]: the is_favorite a user was last told is saved
  raced      \* raced[a]: that user had loaded another value than was there

rows == <<row, groups, made, members>>
vars == <<rows, disc, editor, touched, wish, raced>>

\* A flushed statement that is not committed yet.
Statement == {"insert", "activate", "deactivate", "touch"}

\* One for each of some devices.
Works == UNION {[A -> Statement] : A \in SUBSET Ains}

Discovery == [step : {"idle", "asked", "looked", "dropping"},
              report : SUBSET Ains, todo : SUBSET Ains,
              ain : Ains \cup {NoAin}, seen : BOOLEAN \cup {NoRow},
              work : Works]

Quiet == [step |-> "idle", report |-> {}, todo |-> {}, ain |-> NoAin,
          seen |-> NoRow, work |-> [a \in {} |-> "touch"]]

Edit == [op : {"patch", "join", "leave", "delete"}, req : Requests, seen : BOOLEAN]

Idle == [op |-> "none"]

Known == {a \in Ains : row[a] # NoRow}

\* Together with the types: a membership is one of a group and a device that
\* are there, whoever deletes the group while a device is put into it.
TypeOK ==
  /\ row \in [Ains -> Device \cup {NoRow}]
  /\ groups \subseteq made /\ made \subseteq Groups
  /\ members \subseteq groups \X Known
  /\ disc \in [Discoveries -> Discovery]
  /\ editor \in [Editors -> Edit \cup {Idle}]
  /\ touched \in [Discoveries -> SUBSET Ains]
  /\ wish \in [Ains -> BOOLEAN] /\ raced \in [Ains -> BOOLEAN]

Init == /\ row = [a \in Ains |-> NoRow]
        /\ groups = {} /\ made = {} /\ members = {}
        /\ disc = [d \in Discoveries |-> Quiet]
        /\ editor = [e \in Editors |-> Idle]
        /\ touched = [d \in Discoveries |-> {}]
        /\ wish = [a \in Ains |-> FALSE]
        /\ raced = [a \in Ains |-> FALSE]

HandlerFree ==
  Cardinality({d \in Discoveries : disc[d] # Quiet}
                \cup {e \in Editors : editor[e] # Idle}) < MaxBusy

-----------------------------------------------------------------------------
(* Discoveries.                                                            *)

Locked(a) == \E d \in Discoveries : a \in DOMAIN disc[d].work

LockedByOther(d, a) == \E e \in Discoveries \ {d} : a \in DOMAIN disc[e].work

Goes(d, q) == /\ disc' = [disc EXCEPT ![d] = q]
              /\ UNCHANGED <<rows, editor, wish, raced>>

\* The rows of A are committed, by d if d is a discovery.
Touches(A, d) == touched' = [e \in Discoveries |->
  IF e = d \/ disc[e] = Quiet THEN {} ELSE touched[e] \cup A]

\* The provider lists the devices of the box.
Ask(d) == /\ disc[d] = Quiet /\ HandlerFree
          /\ \E report \in SUBSET Ains :
               Goes(d, [Quiet EXCEPT !.step = "asked", !.report = report,
                                     !.todo = report])
          /\ UNCHANGED touched

\* get_by_ain, twice; the second look returns what the first has loaded.
Look(d, a) ==
  /\ disc[d].step = "asked"
  /\ a \in disc[d].todo /\ \A b \in disc[d].todo : a <= b
  /\ Goes(d, [disc[d] EXCEPT !.step = "looked", !.ain = a,
               !.seen = IF row[a] = NoRow THEN NoRow ELSE row[a].is_active])
  /\ UNCHANGED touched

With(d, a, s) == [b \in DOMAIN disc[d].work \cup {a} |->
                    IF b = a THEN s ELSE disc[d].work[b]]

\* The statement for a is flushed.
Flushed(d, a, s) ==
  /\ Goes(d, [disc[d] EXCEPT !.step = IF @ = "looked" THEN "asked" ELSE @,
               !.todo = @ \ {a}, !.ain = NoAin, !.seen = NoRow,
               !.work = With(d, a, s)])
  /\ UNCHANGED touched

Insert(d) == LET a == disc[d].ain IN
  /\ disc[d].step = "looked"
  /\ disc[d].seen = NoRow /\ row[a] = NoRow
  /\ ~LockedByOther(d, a)
  /\ Flushed(d, a, "insert")

\* Variant: a device that comes back is not activated.
UpdateKeepsInactive(d) == LET a == disc[d].ain IN
  /\ disc[d].step = "looked"
  /\ disc[d].seen # NoRow
  /\ ~LockedByOther(d, a)
  /\ Flushed(d, a, "touch")

\* There is something to update: last_seen is new (only the mock provider
\* reports absent devices, whose last_seen is NULL).
Update(d) == LET a == disc[d].ain IN
  /\ disc[d].step = "looked"
  /\ disc[d].seen # NoRow
  /\ ~LockedByOther(d, a)
  /\ Flushed(d, a, IF disc[d].seen THEN "touch" ELSE "activate")

\* deactivate_missing selects the active devices that were not reported.
Missing(d) ==
  /\ disc[d].step = "asked" /\ disc[d].todo = {}
  /\ Goes(d, [disc[d] EXCEPT !.step = "dropping",
                !.todo = {a \in Ains \ disc[d].report :
                            row[a] # NoRow /\ row[a].is_active}])
  /\ UNCHANGED touched

Drop(d, a) == /\ disc[d].step = "dropping"
              /\ a \in disc[d].todo
              /\ ~LockedByOther(d, a)
              /\ Flushed(d, a, "deactivate")

Fresh == [is_active |-> TRUE, is_favorite |-> FALSE]

\* Variant: session.merge(device), defaults and all.
AfterMerge(r, s) == IF s = "deactivate" THEN [r EXCEPT !.is_active = FALSE]
                                        ELSE Fresh

After(r, s) == CASE s = "insert" -> Fresh
                 [] s = "activate" -> [r EXCEPT !.is_active = TRUE]
                 [] s = "deactivate" -> [r EXCEPT !.is_active = FALSE]
                 [] s = "touch" -> r

Commit(d) == LET work == disc[d].work IN
  /\ disc[d].step = "dropping" /\ disc[d].todo = {}
  /\ row' = [a \in Ains |-> IF a \in DOMAIN work THEN After(row[a], work[a])
                                                 ELSE row[a]]
  /\ disc' = [disc EXCEPT ![d] = Quiet]
  /\ Touches(DOMAIN work, d)
  /\ UNCHANGED <<groups, made, members, editor, wish, raced>>

\* Variant: the session of the failed request is never rolled back.
AbortLocked(d) == /\ Goes(d, [Quiet EXCEPT !.work = disc[d].work])
                  /\ Touches({}, d)

\* get_db rolls back: not one device of this discovery is kept.
Abort(d) == Goes(d, Quiet) /\ Touches({}, d)

\* Another discovery has inserted the AIN meanwhile.
InsertClashes(d) == /\ disc[d].step = "looked"
                    /\ disc[d].seen = NoRow /\ row[disc[d].ain] # NoRow
                    /\ Abort(d)

\* The AINs d may be waiting for.
Wanted(d) == IF disc[d].step = "dropping" THEN disc[d].todo
             ELSE {disc[d].ain} \ {NoAin}

WaitsFor(d, e) == d # e /\ Wanted(d) \cap DOMAIN disc[e].work # {}

\* PostgreSQL ends one of those that wait for each other in a circle.
Deadlocked(d) == /\ \E circle \in SUBSET Discoveries :
                      /\ d \in circle
                      /\ \A e \in circle : \E f, g \in circle :
                           WaitsFor(e, f) /\ WaitsFor(g, e)
                 /\ Abort(d)

Fail(d) == MayFail /\ disc[d] # Quiet /\ Abort(d)

-----------------------------------------------------------------------------
(* The other writers.  get_by_id of a device or a group comes first.       *)

Takes(e, q) ==
  /\ editor[e] = Idle /\ HandlerFree
  /\ q.op = "patch" => row[q.ain] # NoRow
  /\ q.op \in {"join", "delete"} => q.group \in groups
  /\ q.op = "leave" => <<q.group, q.ain>> \in members
  /\ editor' = [editor EXCEPT ![e] =
                  [op |-> q.op, req |-> q,
                   seen |-> q.op = "patch" /\ row[q.ain][q.field]]]
  /\ UNCHANGED <<rows, disc, touched, wish, raced>>

Answers(e) == editor' = [editor EXCEPT ![e] = Idle] /\ UNCHANGED disc

\* No UPDATE is sent for a value that was loaded.
Patch(e) ==
  LET q == editor[e].req
      sent == q.val # editor[e].seen IN
  /\ editor[e].op = "patch"
  /\ IF sent THEN /\ ~Locked(q.ain)
                  /\ row' = [row EXCEPT ![q.ain][q.field] = q.val]
                  /\ Touches({q.ain}, e)
             ELSE UNCHANGED <<row, touched>>
  /\ IF q.field = "is_favorite"
       THEN /\ wish' = [wish EXCEPT ![q.ain] = q.val]
            /\ raced' = [raced EXCEPT ![q.ain] = /\ ~sent
                 /\ editor[e].seen # row[q.ain].is_favorite]
       ELSE UNCHANGED <<wish, raced>>
  /\ Answers(e) /\ UNCHANGED <<groups, made, members>>

\* create_group.
NewGroup(g) == /\ g \notin made
               /\ made' = made \cup {g} /\ groups' = groups \cup {g}
               /\ UNCHANGED <<row, members, disc, editor, touched, wish, raced>>

\* Variant: no foreign keys.
JoinUnchecked(e) == LET q == editor[e].req IN
  /\ editor[e].op = "join"
  /\ members' = members \cup {<<q.group, q.ain>>}
  /\ Answers(e) /\ UNCHANGED <<row, groups, made, touched, wish, raced>>

\* Any failure of the INSERT, whatever the reason, is answered with 409.
Join(e) == LET q == editor[e].req IN
  /\ editor[e].op = "join"
  /\ members' = IF q.group \in groups /\ row[q.ain] # NoRow
                  THEN members \cup {<<q.group, q.ain>>} ELSE members
  /\ Answers(e) /\ UNCHANGED <<row, groups, made, touched, wish, raced>>

\* Deleting what is gone already is only a warning.
Leave(e) == LET q == editor[e].req IN
  /\ editor[e].op = "leave"
  /\ members' = members \ {<<q.group, q.ain>>}
  /\ Answers(e) /\ UNCHANGED <<row, groups, made, touched, wish, raced>>

\* The memberships go with the group, those it never loaded included.
DeleteGroup(e) == LET g == editor[e].req.group IN
  /\ editor[e].op = "delete"
  /\ groups' = groups \ {g}
  /\ members' = {m \in members : m[1] # g}
  /\ Answers(e) /\ UNCHANGED <<row, made, touched, wish, raced>>

EditFails(e) == /\ MayFail /\ editor[e] # Idle
                /\ Answers(e) /\ UNCHANGED <<rows, touched, wish, raced>>

-----------------------------------------------------------------------------

Discovers(d) == \/ \E a \in Ains : Look(d, a) \/ Drop(d, a)
                \/ Insert(d) \/ Update(d) \/ InsertClashes(d)
                \/ Missing(d) \/ Commit(d)

Edits(e) == Patch(e) \/ Join(e) \/ Leave(e) \/ DeleteGroup(e) \/ EditFails(e)

Next == \/ \E d \in Discoveries : \/ Ask(d) \/ Discovers(d)
                                  \/ Deadlocked(d) \/ Fail(d)
        \/ \E e \in Editors : (\E q \in Requests : Takes(e, q)) \/ Edits(e)
        \/ \E g \in Groups : NewGroup(g)

(* The event loop and the database go on with every transaction, and one   *)
(* that waits for a lock gets it when its turn comes: PostgreSQL grants a  *)
(* lock to its waiters in order.  Nothing obliges anybody to ask.          *)
Fairness == \A d \in Discoveries : /\ SF_vars(Discovers(d))
                                   /\ WF_vars(Deadlocked(d))

Spec == Init /\ [][Next]_vars /\ Fairness

-----------------------------------------------------------------------------
(* Properties.                                                             *)

\* "Devices no longer returned by discovery are deactivated" (service.py:36)
\* and those it returns are active, each unless somebody else has written
\* its row since the box was asked: a device discovered by two at once, or
\* edited under way, is the only exception.
MirrorsReport ==
  [][\A d \in Discoveries : Commit(d) =>
       \A a \in Ains \ touched[d] :
         (row'[a] # NoRow /\ row'[a].is_active) <=> a \in disc[d].report]_vars

\* What a user was told is saved stays saved, through any number of
\* discoveries of the device; only a user who had loaded the device before
\* another one changed it may find that nothing was written.
FavouritesKept ==
  \A a \in Ains : row[a] # NoRow => row[a].is_favorite = wish[a] \/ raced[a]

\* Every discovery ends, though two of them may take the same rows in
\* conflicting orders.
EveryDiscoveryEnds ==
  \A d \in Discoveries : disc[d].step # "idle" ~> disc[d].step = "idle"

=============================================================================
