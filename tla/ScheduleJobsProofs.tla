-------------------------- MODULE ScheduleJobsProofs --------------------------
(***************************************************************************)
(* Proofs about ScheduleJobs, for any schedules, requests and              *)
(* configurations: the types, that nothing but the three causes parts a    *)
(* job from its row or lets a run execute what is not saved, that no       *)
(* request takes back a stamp, and that the rows' locks protect the rows   *)
(* and are never waited for in a circle.                                   *)
(***************************************************************************)
EXTENDS ScheduleJobs, TLAPS

Requested == [step : {"idle", "flush", "refresh", "sync", "commit"},
              op : {"none", "create", "update", "delete"},
              sch : Schedules \cup {NoSchedule}, put : Change,
              seen : Row \cup {NoRow}, touched : BOOLEAN]
Running == [step : {"idle", "acting", "stamping"}, cfg : Configs \cup {NoConfig}]

-----------------------------------------------------------------------------
(* What the operators return.                                              *)

LEMMA ChangeFields ==
  ASSUME NEW put \in Change
  PROVE  put.on \in BOOLEAN \cup {Same} /\ put.cfg \in Configs \cup {Same}
<1>1. CASE put = Renaming
  BY <1>1 DEF Renaming
<1>2. CASE put \in [on : BOOLEAN \cup {Same}, cfg : Configs \cup {Same},
                   other : {FALSE}]
  <2>1. put.on \in BOOLEAN \cup {Same}
    BY <1>2, Zenon
  <2>2. put.cfg \in Configs \cup {Same}
    BY <1>2, Zenon
  <2> QED BY <2>1, <2>2
<1> QED BY <1>1, <1>2 DEF Change

LEMMA UpdatedRow ==
  ASSUME NEW w \in Row, NEW put \in Change
  PROVE  /\ Updated(w, put) \in Row
         /\ Updated(w, put).on = IF put.on = Same THEN w.on ELSE put.on
         /\ Updated(w, put).cfg = IF put.cfg = Same THEN w.cfg ELSE put.cfg
         /\ Updated(w, put).kind = w.kind
         /\ Updated(w, put).fired = w.fired
<1> DEFINE on == IF put.on = Same THEN w.on ELSE put.on
           cfg == IF put.cfg = Same THEN w.cfg ELSE put.cfg
<1>1. Updated(w, put) = [w EXCEPT !.on = on, !.cfg = cfg]
  BY DEF Updated
<1>2. on \in BOOLEAN /\ cfg \in Configs
  <2>1. put.on \in BOOLEAN \cup {Same} /\ put.cfg \in Configs \cup {Same}
    BY ChangeFields
  <2> QED BY <2>1 DEF Row
<1> HIDE DEF on, cfg
<1>3. [w EXCEPT !.on = on, !.cfg = cfg] \in Row
  BY <1>2 DEF Row
<1>4. /\ [w EXCEPT !.on = on, !.cfg = cfg].on = on
      /\ [w EXCEPT !.on = on, !.cfg = cfg].cfg = cfg
      /\ [w EXCEPT !.on = on, !.cfg = cfg].kind = w.kind
      /\ [w EXCEPT !.on = on, !.cfg = cfg].fired = w.fired
  BY <1>2 DEF Row
<1> QED BY <1>1, <1>3, <1>4 DEF on, cfg

LEMMA NetChangeType ==
  ASSUME NEW w \in Row, NEW put \in Change
  PROVE  NetChange(w, put) \in Change
<1> DEFINE on == IF put.on = w.on THEN Same ELSE put.on
           cfg == IF put.cfg = w.cfg THEN Same ELSE put.cfg
<1>1. NetChange(w, put) = [on |-> on, cfg |-> cfg, other |-> put.other]
  BY DEF NetChange
<1>2. CASE put = Renaming
  <2>1. put.on = Same /\ put.cfg = Same /\ put.other = TRUE
    BY <1>2 DEF Renaming
  <2>2. NetChange(w, put) = Renaming
    BY <2>1 DEF NetChange, Renaming
  <2> QED BY <2>2 DEF Change
<1>3. CASE put # Renaming
  <2>1. put.on \in BOOLEAN \cup {Same} /\ put.cfg \in Configs \cup {Same}
    BY ChangeFields
  <2>2. put.other \in {FALSE}
    BY <1>3, Zenon DEF Change
  <2>3. [on |-> on, cfg |-> cfg, other |-> put.other]
          \in [on : BOOLEAN \cup {Same}, cfg : Configs \cup {Same},
               other : {FALSE}]
    BY <2>1, <2>2, Zenon
  <2> QED BY <1>1, <2>3 DEF Change
<1> QED BY <1>2, <1>3

LEMMA RegisteredType ==
  ASSUME TypeOK, NEW s \in Schedules, NEW w \in Row
  PROVE  /\ Registered(s, w) \in [Schedules -> Job \cup {NoJob}]
         /\ \A z \in Schedules \ {s} : Registered(s, w)[z] = job[z]
         /\ Registered(s, w)[s] = IF w.kind = "unknown" THEN job[s]
              ELSE [cfg |-> w.cfg, once |-> w.kind = "once"]
<1>1. [cfg |-> w.cfg, once |-> w.kind = "once"] \in Job
  BY DEF Job, Row
<1>2. job \in [Schedules -> Job \cup {NoJob}]
  BY DEF TypeOK
<1> DEFINE j == [cfg |-> w.cfg, once |-> w.kind = "once"]
<1>3. Registered(s, w) = IF w.kind = "unknown" THEN job ELSE [job EXCEPT ![s] = j]
  BY DEF Registered
<1> HIDE DEF j
<1> QED BY <1>1, <1>2, <1>3 DEF j

LEMMA UsedUpType ==
  ASSUME TypeOK, NEW s \in Schedules, job[s] # NoJob
  PROVE  /\ UsedUp(s) \in [Schedules -> Job \cup {NoJob}]
         /\ \A z \in Schedules \ {s} : UsedUp(s)[z] = job[z]
         /\ UsedUp(s)[s] = IF job[s].once THEN NoJob ELSE job[s]
<1>1. job \in [Schedules -> Job \cup {NoJob}]
  BY DEF TypeOK
<1> DEFINE j == IF job[s].once THEN NoJob ELSE job[s]
<1>2. UsedUp(s) = [job EXCEPT ![s] = j]
  BY DEF UsedUp
<1>3. j \in Job \cup {NoJob}
  BY <1>1
<1> HIDE DEF j
<1>4. /\ [job EXCEPT ![s] = j] \in [Schedules -> Job \cup {NoJob}]
      /\ \A z \in Schedules \ {s} : [job EXCEPT ![s] = j][z] = job[z]
      /\ [job EXCEPT ![s] = j][s] = j
  BY <1>1, <1>3
<1> QED BY <1>2, <1>4 DEF j

LEMMA UnlockedType ==
  ASSUME TypeOK, NEW r \in Requests
  PROVE  /\ Unlocked(r) \in [Schedules -> Requests \cup {Nobody}]
         /\ \A s \in Schedules :
              Unlocked(r)[s] = IF rowLock[s] = r THEN Nobody ELSE rowLock[s]
BY DEF TypeOK, Unlocked

LEMMA IdleType == Idle \in Requested /\ NoRun \in Running
BY DEF Idle, NoRun, NoChange, Requested, Running, Change

-----------------------------------------------------------------------------
(* What a step does to the requests, and that types stay.                  *)

Others(r) == \A p \in Requests \ {r} : req'[p] = req[p]

\* Request r begins as q.
Begins(r, q) == /\ req' \in [Requests -> Requested]
                /\ Others(r)
                /\ req'[r] = q

\* Request r goes on.
Moves(r, step, seen, touched) ==
  /\ req' \in [Requests -> Requested]
  /\ Others(r)
  /\ req'[r].op = req[r].op /\ req'[r].sch = req[r].sch
  /\ req'[r].put = req[r].put
  /\ req'[r].step = step /\ req'[r].seen = seen /\ req'[r].touched = touched

LEMMA GoesMoves ==
  ASSUME TypeOK, NEW r \in Requests,
         NEW step \in {"idle", "flush", "refresh", "sync", "commit"},
         Goes(r, step)
  PROVE  Moves(r, step, req[r].seen, req[r].touched)
<1>1. req \in [Requests -> Requested]
  BY DEF TypeOK, Requested
<1>2. PICK q \in Requested : q = req[r]
  BY <1>1
<1> DEFINE p == [q EXCEPT !.step = step]
<1>3. req' = [req EXCEPT ![r] = p]
  BY <1>1, <1>2 DEF Goes
<1>4. /\ p \in Requested
      /\ p.op = q.op /\ p.sch = q.sch /\ p.put = q.put
      /\ p.step = step /\ p.seen = q.seen /\ p.touched = q.touched
  BY DEF Requested
<1> HIDE DEF p
<1> QED BY <1>1, <1>2, <1>3, <1>4 DEF Moves, Others

LEMMA AbortsBegins ==
  ASSUME TypeOK, NEW r \in Requests,
         req' = [req EXCEPT ![r] = Idle]
  PROVE  Begins(r, Idle)
BY IdleType DEF TypeOK, Requested, Begins, Others

LEMMA ArrivesBegins ==
  ASSUME TypeOK, NEW r \in Requests, NEW q \in Requested,
         req' = [req EXCEPT ![r] = q]
  PROVE  Begins(r, q)
BY DEF TypeOK, Requested, Begins, Others

LEMMA RefreshMoves ==
  ASSUME TypeOK, NEW r \in Requests, req[r].sch \in Schedules, Refresh(r)
  PROVE  /\ Moves(r, "sync", Updated(row[req[r].sch], req[r].put),
                  req[r].touched)
         /\ row[req[r].sch] \in Row
         /\ Updated(row[req[r].sch], req[r].put) \in Row
<1>1. req \in [Requests -> Requested]
  BY DEF TypeOK, Requested
<1>2. PICK q \in Requested : q = req[r]
  BY <1>1
<1>3. Updated(row[q.sch], q.put) \in Row /\ row[q.sch] \in Row
  <2>1. q.put \in Change /\ q.sch \in Schedules
    BY <1>2 DEF Requested
  <2>2. row[q.sch] \in Row
    BY <1>2, <2>1 DEF Refresh, TypeOK
  <2> QED BY <2>1, <2>2, UpdatedRow
<1>4. PICK v \in Row : v = Updated(row[q.sch], q.put)
  BY <1>3
<1> DEFINE p == [q EXCEPT !.step = "sync", !.seen = v]
<1>5. req' = [req EXCEPT ![r] = p]
  BY <1>1, <1>2, <1>4 DEF Refresh
<1>6. /\ p \in Requested
      /\ p.op = q.op /\ p.sch = q.sch /\ p.put = q.put
      /\ p.step = "sync" /\ p.seen = v /\ p.touched = q.touched
  BY DEF Requested
<1> HIDE DEF p
<1> QED BY <1>1, <1>2, <1>3, <1>4, <1>5, <1>6 DEF Moves, Others

LEMMA SyncMoves ==
  ASSUME TypeOK, NEW r \in Requests,
         req' = [req EXCEPT ![r].step = "commit", ![r].touched = TRUE]
  PROVE  Moves(r, "commit", req[r].seen, TRUE)
<1>1. req \in [Requests -> Requested]
  BY DEF TypeOK, Requested
<1>2. PICK q \in Requested : q = req[r]
  BY <1>1
<1> DEFINE p == [q EXCEPT !.step = "commit", !.touched = TRUE]
<1>3. req' = [req EXCEPT ![r] = p]
  BY <1>1, <1>2
<1>4. /\ p \in Requested
      /\ p.op = q.op /\ p.sch = q.sch /\ p.put = q.put
      /\ p.step = "commit" /\ p.seen = q.seen /\ p.touched = TRUE
  BY DEF Requested
<1> HIDE DEF p
<1> QED BY <1>1, <1>2, <1>3, <1>4 DEF Moves, Others


-----------------------------------------------------------------------------
(* The invariant.                                                          *)

\* The job j is what the row w, or no row, should have.
Follows(j, w) ==
  /\ j # NoJob => /\ w # NoRow
                  /\ w.on /\ w.cfg = j.cfg
                  /\ w.kind = IF j.once THEN "once" ELSE "recurring"
  /\ w # NoRow /\ w.on /\ w.kind = "recurring" => j # NoJob

\* The rows v and w ask for the same job.
Alike(v, w) == v.on = w.on /\ v.cfg = w.cfg /\ v.kind = w.kind

\* What the request q of r knows, and what ids and locks say of it.
InOrder(r, q) ==
  /\ q.op = "none" \/ q.step = "idle" => q = Idle
  /\ q # Idle => q.sch \in born
  /\ q.op = "create" => /\ q.step \in {"sync", "commit"}
                        /\ row[q.sch] = NoRow
                        /\ q.seen \in Row
  /\ q.op = "delete" => q.step \in {"flush", "commit"}
  /\ q.step = "sync" => q.seen \in Row
  /\ q.touched <=> (q.op = "delete" \/ q.step = "commit")
  /\ (/\ q.op = "update" /\ q.put # NoChange
      /\ q.step \in {"refresh", "sync", "commit"}) => rowLock[q.sch] = r

\* Nobody else has a request on a schedule that is being created.
CreatesAlone == \A r, p \in Requests :
  req[r].op = "create" /\ req[p].sch = req[r].sch => p = r

\* The request q on s, its job j and its row w fit together.
Fits(q, j, w) ==
  /\ q.op = "create" /\ q.touched => Follows(j, q.seen)
  /\ q.op = "delete" => j = NoJob
  /\ q.op = "update" => /\ w # NoRow
                        /\ q.touched => Follows(j, Updated(w, q.put))
                        /\ q.step = "sync" => Alike(q.seen, Updated(w, q.put))

\* What holds of a schedule that is not exposed.
Settled(s) ==
  /\ \A r, p \in Requests :
       req[r].sch = s /\ req[p].sch = s /\ r # p => ~Lockless(req[r])
  /\ (\A r \in Requests : req[r].sch = s => ~req[r].touched)
       => Follows(job[s], row[s])
  /\ \A r \in Requests : req[r].sch = s => Fits(req[r], job[s], row[s])

Orderly == /\ \A s \in Schedules : row[s] # NoRow => s \in born
           /\ \A r \in Requests : InOrder(r, req[r])
           /\ CreatesAlone

IInv == /\ TypeOK
        /\ Orderly
        /\ \A s \in Schedules : ~exposed[s] => Settled(s)

LEMMA Typed ==
  ASSUME TypeOK
  PROVE  /\ req \in [Requests -> Requested]
         /\ run \in [Schedules -> Running]
BY DEF TypeOK, Requested, Running

LEMMA Placed ==
  ASSUME TypeOK, Orderly, NEW r \in Requests, req[r].step # "idle"
  PROVE  req[r].sch \in Schedules
BY DEF TypeOK, Orderly, InOrder, Idle

LEMMA StartsRight == Init => IInv
<1> SUFFICES ASSUME Init PROVE IInv
  OBVIOUS
<1>1. TypeOK
  BY IdleType, ScheduleAssumption
     DEF Init, TypeOK, Requested, Running
<1>2. Orderly
  BY ScheduleAssumption DEF Init, Orderly, InOrder, CreatesAlone, Idle
<1>3. ASSUME NEW s \in Schedules PROVE Settled(s)
  BY ScheduleAssumption DEF Init, Settled, Follows, Fits, Idle
<1> QED BY <1>1, <1>2, <1>3 DEF IInv

\* A schedule that a step leaves alone stays settled.
LEMMA Elsewhere ==
  ASSUME TypeOK, NEW s \in Schedules, NEW r \in Requests, Settled(s),
         Others(r), req[r].sch # s, req'[r].sch # s,
         row'[s] = row[s], job'[s] = job[s]
  PROVE  Settled(s)'
<1>1. \A p \in Requests :
        req'[p].sch = s => p # r /\ req[p].sch = s /\ req'[p] = req[p]
  BY DEF Others
<1>2. \A p \in Requests :
        req[p].sch = s => p # r /\ req'[p].sch = s /\ req'[p] = req[p]
  BY DEF Others
<1>3. (\A p, q \in Requests :
         req[p].sch = s /\ req[q].sch = s /\ p # q => ~Lockless(req[p]))'
  BY <1>1 DEF Settled, Lockless
<1>4. ((\A p \in Requests : req[p].sch = s => ~req[p].touched)
         => Follows(job[s], row[s]))'
  BY <1>1, <1>2 DEF Settled, Follows
<1>5. ASSUME NEW p \in Requests, req'[p].sch = s
      PROVE  Fits(req[p], job[s], row[s])'
  <2>1. Fits(req[p], job[s], row[s]) /\ req'[p] = req[p]
    BY <1>1, <1>5 DEF Settled
  <2> QED BY <2>1 DEF Fits, Follows, Alike
<1> QED BY <1>3, <1>4, <1>5 DEF Settled


\* What a step of request r must respect.
LEMMA OrderlyStep ==
  ASSUME TypeOK, Orderly, NEW r \in Requests, Others(r),
         InOrder(r, req[r])',
         born \subseteq born',
         \A s \in Schedules : row'[s] # NoRow => s \in born',
         \A p \in Requests \ {r} :
           /\ req[p].op = "create" => row'[req[p].sch] = NoRow
           /\ req'[r].sch = req[p].sch => /\ req'[r].op # "create"
                                         /\ req[p].op # "create"
           /\ \A s \in Schedules : rowLock[s] = p => rowLock'[s] = p
  PROVE  Orderly'
<1>1. ASSUME NEW p \in Requests \ {r} PROVE InOrder(p, req[p])'
  <2>1. InOrder(p, req[p]) /\ req'[p] = req[p]
    BY DEF Orderly, Others
  <2>2. req[p].step # "idle" => req[p].sch \in Schedules
    BY Placed
  <2>3. req[p].step = "idle" => req[p] = Idle
    BY <2>1 DEF InOrder
  <2> QED BY <2>1, <2>2, <2>3 DEF InOrder, Idle
<1>2. CreatesAlone'
  BY DEF CreatesAlone, Others, Orderly
<1> QED BY <1>1, <1>2 DEF Orderly

\* A row that is being created is not there yet.
LEMMA NotYetThere ==
  ASSUME TypeOK, Orderly, NEW p \in Requests, req[p].op = "create"
  PROVE  req[p].sch \in Schedules /\ row[req[p].sch] = NoRow
BY DEF TypeOK, Orderly, InOrder, Idle

\* A request on an unexposed schedule that others are about too.
LEMMA Together ==
  ASSUME TypeOK, Orderly, NEW s \in Schedules, Settled(s),
         NEW r \in Requests, NEW p \in Requests, r # p,
         req[r].sch = s, req[p].sch = s
  PROVE  /\ req[r].op = "update" /\ req[r].put # NoChange
         /\ req[r].step \in {"refresh", "sync", "commit"} => rowLock[s] = r
         /\ req[r].touched => req[r].step = "commit"
<1>1. ~Lockless(req[r])
  BY DEF Settled
<1>2. req[r].op # "create"
  BY DEF Orderly, CreatesAlone
<1>3. InOrder(r, req[r]) /\ req[r] # Idle
  BY ScheduleAssumption DEF Orderly, Idle
<1>4. req[r].op \in {"none", "create", "update", "delete"}
  BY DEF TypeOK
<1> QED BY <1>1, <1>2, <1>3, <1>4 DEF InOrder, Lockless

-----------------------------------------------------------------------------
(* Steps of a request.                                                     *)

\* A request that has not touched the job goes on.
LEMMA SettledMoves ==
  ASSUME TypeOK, NEW s \in Schedules, Settled(s),
         NEW r \in Requests, req[r].sch = s,
         NEW step, NEW seen,
         Moves(r, step, seen, req[r].touched),
         row'[s] = row[s], job'[s] = job[s],
         req[r].op # "update" => seen = req[r].seen,
         req[r].op = "update" /\ step = "sync" =>
           Alike(seen, Updated(row[s], req[r].put))
  PROVE  Settled(s)'
<1>1. \A p \in Requests :
        /\ req'[p].sch = req[p].sch /\ req'[p].op = req[p].op
        /\ req'[p].put = req[p].put /\ req'[p].touched = req[p].touched
        /\ p # r => req'[p] = req[p]
  BY DEF Moves, Others
<1>2. (\A p, q \in Requests :
         req[p].sch = s /\ req[q].sch = s /\ p # q => ~Lockless(req[p]))'
  BY <1>1 DEF Settled, Lockless
<1>3. ((\A p \in Requests : req[p].sch = s => ~req[p].touched)
         => Follows(job[s], row[s]))'
  BY <1>1 DEF Settled, Follows
<1>4. ASSUME NEW p \in Requests, req'[p].sch = s
      PROVE  Fits(req[p], job[s], row[s])'
  <2>1. Fits(req[p], job[s], row[s])
    BY <1>1, <1>4 DEF Settled
  <2>2. CASE p # r
    BY <1>1, <2>1, <2>2 DEF Fits, Follows, Alike
  <2>3. CASE p = r
    BY <1>1, <2>1, <2>3 DEF Fits, Follows, Alike, Moves
  <2> QED BY <2>2, <2>3
<1> QED BY <1>2, <1>3, <1>4 DEF Settled

\* A request that has not touched the job comes to its end.
LEMMA SettledRests ==
  ASSUME TypeOK, NEW s \in Schedules, Settled(s),
         NEW r \in Requests, req[r].sch = s, ~req[r].touched,
         Begins(r, Idle),
         row'[s] = row[s], job'[s] = job[s]
  PROVE  Settled(s)'
<1>1. req'[r].sch # s /\ \A p \in Requests : p # r => req'[p] = req[p]
  BY ScheduleAssumption DEF Begins, Others, Idle
<1>2. (\A p, q \in Requests :
         req[p].sch = s /\ req[q].sch = s /\ p # q => ~Lockless(req[p]))'
  BY <1>1 DEF Settled, Lockless
<1>3. ((\A p \in Requests : req[p].sch = s => ~req[p].touched)
         => Follows(job[s], row[s]))'
  BY <1>1 DEF Settled, Follows
<1>4. ASSUME NEW p \in Requests, req'[p].sch = s
      PROVE  Fits(req[p], job[s], row[s])'
  <2>1. Fits(req[p], job[s], row[s]) /\ p # r
    BY <1>1, <1>4 DEF Settled
  <2> QED BY <1>1, <2>1 DEF Fits, Follows, Alike
<1> QED BY <1>2, <1>3, <1>4 DEF Settled

LEMMA CreateStep ==
  ASSUME IInv, NEW r \in Requests, NEW s \in Schedules, NEW w \in NewRow,
         Create(r, s, w)
  PROVE  IInv'
<1>0. TypeOK /\ Orderly
  BY DEF IInv
<1> DEFINE q == Asked("sync", "create", s, NoChange, w)
<1>1. w \in Row /\ q \in Requested /\ q # Idle
  BY DEF NewRow, Row, Requested, NoChange, Change, Idle, Asked
<1>2. /\ req' = [req EXCEPT ![r] = q]
      /\ req[r] = Idle
      /\ q.step = "sync" /\ q.op = "create" /\ q.sch = s /\ q.seen = w
      /\ ~q.touched
  BY DEF Create, Asked
<1> HIDE DEF q
<1>3. Begins(r, q)
  BY <1>0, <1>1, <1>2, ArrivesBegins
<1>4. TypeOK'
  BY <1>0, <1>3 DEF TypeOK, Begins, Requested, Create
<1>5. s \notin born /\ row[s] = NoRow /\ row' = row
  BY <1>0 DEF Create, Orderly
<1>6. \A p \in Requests : req[p].sch # s
  BY <1>0, <1>5, ScheduleAssumption DEF Orderly, InOrder, Idle
<1>7. InOrder(r, req[r])'
  BY <1>1, <1>2, <1>3, <1>5 DEF Begins, InOrder, Create
<1>8. Orderly'
  <2>1. \A p \in Requests \ {r} : req[p].op = "create" =>
          row'[req[p].sch] = NoRow
    BY <1>0, <1>5, NotYetThere
  <2> QED
    BY <1>0, <1>2, <1>3, <1>5, <1>6, <1>7, <2>1, OrderlyStep
       DEF Begins, Create, Orderly
<1>9. ASSUME NEW z \in Schedules, ~exposed'[z]
      PROVE  Settled(z)'
  <2>1. Settled(z)
    BY <1>9 DEF IInv, Create
  <2>2. CASE z # s
    BY <1>0, <1>2, <1>3, <2>1, <2>2, Elsewhere, ScheduleAssumption
       DEF Begins, Create, Idle
  <2>3. CASE z = s
    <3>1. Follows(job[s], row[s])
      BY <1>6, <2>1, <2>3 DEF Settled
    <3>2. (\A p, y \in Requests :
             req[p].sch = s /\ req[y].sch = s /\ p # y => ~Lockless(req[p]))'
      BY <1>3, <1>6 DEF Begins, Others
    <3>3. Follows(job[s], row[s])'
      BY <3>1 DEF Follows, Create
    <3>4. ASSUME NEW p \in Requests, req'[p].sch = s
          PROVE  Fits(req[p], job[s], row[s])'
      BY <1>2, <1>3, <1>6, <3>4 DEF Begins, Others, Fits
    <3> QED BY <2>3, <3>2, <3>3, <3>4 DEF Settled
  <2> QED BY <2>2, <2>3
<1> QED BY <1>4, <1>8, <1>9 DEF IInv

\* A request on a row begins: the schedule is exposed when it meets another
\* and one of them takes no lock.
LEMMA ArrivalStep ==
  ASSUME IInv, NEW r \in Requests, NEW s \in Schedules, NEW q \in Requested,
         Arrives(r, q), row[s] # NoRow, q.sch = s, q.step = "flush",
         q.op \in {"update", "delete"}, q.touched <=> q.op = "delete",
         job' \in [Schedules -> Job \cup {NoJob}],
         \A z \in Schedules \ {s} : job'[z] = job[z],
         job'[s] = IF q.op = "delete" THEN NoJob ELSE job[s]
  PROVE  IInv'
<1>0. TypeOK /\ Orderly
  BY DEF IInv
<1>1. Begins(r, q) /\ req[r] = Idle /\ q # Idle
  <2>1. req[r] = Idle /\ req' = [req EXCEPT ![r] = q]
    BY DEF Arrives
  <2>2. q # Idle
    BY DEF Idle
  <2> QED BY <1>0, <2>1, <2>2, ArrivesBegins
<1>2. exposed' \in [Schedules -> BOOLEAN]
  BY <1>0 DEF Arrives, TypeOK, Meets
<1>3. TypeOK'
  BY <1>0, <1>1, <1>2 DEF TypeOK, Begins, Requested, Arrives
<1>4. s \in born
  BY <1>0 DEF Orderly
<1>5. InOrder(r, req[r])'
  BY <1>1, <1>4 DEF Begins, InOrder, Arrives
<1>6. Orderly'
  <2>1. \A p \in Requests \ {r} :
          req[p].op = "create" => /\ row'[req[p].sch] = NoRow
                                  /\ req[p].sch # s
    BY <1>0, NotYetThere DEF Arrives
  <2> QED
    BY <1>0, <1>1, <1>5, <2>1, OrderlyStep DEF Begins, Arrives, Orderly
<1>7. ASSUME NEW z \in Schedules, ~exposed'[z]
      PROVE  Settled(z)'
  <2>1. CASE z # s
    <3>1. Settled(z)
      BY <1>0, <1>7, <2>1 DEF IInv, Arrives, TypeOK
    <3> QED
      BY <1>0, <1>1, <2>1, <3>1, Elsewhere, ScheduleAssumption
         DEF Begins, Arrives, Idle
  <2>2. CASE z = s
    <3>1. ~exposed[s] /\ ~Meets(q)
      BY <1>0, <1>7, <2>2 DEF Arrives, TypeOK
    <3>2. Settled(s)
      BY <3>1 DEF IInv
    <3>3. \A p \in Requests : req[p].sch = s =>
            p # r /\ ~Lockless(q) /\ ~Lockless(req[p])
      BY <1>1, <3>1, ScheduleAssumption DEF Meets, Idle
    <3>4. (\A p, y \in Requests :
             req[p].sch = s /\ req[y].sch = s /\ p # y => ~Lockless(req[p]))'
      BY <1>1, <3>2, <3>3 DEF Begins, Others, Settled, Lockless
    <3>5. ((\A p \in Requests : req[p].sch = s => ~req[p].touched)
             => Follows(job[s], row[s]))'
      <4>1. SUFFICES ASSUME \A p \in Requests :
                              req'[p].sch = s => ~req'[p].touched
                     PROVE  Follows(job[s], row[s])'
        OBVIOUS
      <4>2. ~q.touched /\ job'[s] = job[s]
        BY <1>1, <4>1 DEF Begins
      <4>3. Follows(job[s], row[s])
        BY <1>1, <3>2, <3>3, <4>1 DEF Settled, Begins, Others
      <4> QED BY <4>2, <4>3 DEF Follows, Arrives
    <3>6. ASSUME NEW p \in Requests, req'[p].sch = s
          PROVE  Fits(req[p], job[s], row[s])'
      <4>1. CASE p = r
        BY <1>1, <4>1 DEF Begins, Fits, Arrives
      <4>2. CASE p # r
        <5>1. req'[p] = req[p] /\ Fits(req[p], job[s], row[s])
          BY <1>1, <3>2, <3>6, <4>2 DEF Begins, Others, Settled
        <5>2. job'[s] = job[s]
          BY <3>3, <3>6, <5>1 DEF Lockless
        <5> QED BY <5>1, <5>2 DEF Fits, Follows, Alike, Arrives
      <4> QED BY <4>1, <4>2
    <3> QED BY <2>2, <3>4, <3>5, <3>6 DEF Settled
  <2> QED BY <2>1, <2>2
<1> QED BY <1>3, <1>6, <1>7 DEF IInv

LEMMA UpdateStep ==
  ASSUME IInv, NEW r \in Requests, NEW s \in Schedules, NEW put \in Change,
         Update(r, s, put)
  PROVE  IInv'
<1>1. row[s] \in Row
  BY DEF Update, IInv, TypeOK
<1> DEFINE q == Asked("flush", "update", s, NetChange(row[s], put), NoRow)
<1>2. q \in Requested
  BY <1>1, NetChangeType DEF Requested, Asked
<1>3. Arrives(r, q) /\ row[s] # NoRow /\ job' = job
  BY DEF Update
<1>4. job' \in [Schedules -> Job \cup {NoJob}]
  BY <1>3 DEF IInv, TypeOK
<1>5. /\ q.sch = s /\ q.step = "flush" /\ q.op = "update"
      /\ q.touched = FALSE
  BY DEF Asked
<1> HIDE DEF q
<1> QED BY <1>2, <1>3, <1>4, <1>5, ArrivalStep

LEMMA DeleteStep ==
  ASSUME IInv, NEW r \in Requests, NEW s \in Schedules, Delete(r, s)
  PROVE  IInv'
<1> DEFINE q == Asked("flush", "delete", s, NoChange, NoRow)
<1>1. q \in Requested
  BY DEF Requested, NoChange, Change, Asked
<1>2. Arrives(r, q) /\ row[s] # NoRow
  BY DEF Delete
<1>3. /\ job' \in [Schedules -> Job \cup {NoJob}]
      /\ \A z \in Schedules \ {s} : job'[z] = job[z]
      /\ job'[s] = NoJob
  BY DEF Delete, IInv, TypeOK
<1>4. q.sch = s /\ q.step = "flush" /\ q.op = "delete" /\ q.touched = TRUE
  BY DEF Asked
<1> HIDE DEF q
<1> QED BY <1>1, <1>2, <1>3, <1>4, ArrivalStep

\* A request that has not touched the job goes on and may take the lock.
LEMMA MoveStep ==
  ASSUME IInv, NEW r \in Requests, NEW s \in Schedules, req[r].sch = s,
         NEW step \in {"refresh", "sync", "commit"}, NEW seen,
         Moves(r, step, seen, req[r].touched),
         UNCHANGED <<row, born, job, run, exposed>>,
         rowLock' \in [Schedules -> Requests \cup {Nobody}],
         \A z \in Schedules : rowLock[z] # Nobody => rowLock'[z] = rowLock[z],
         InOrder(r, req[r])',
         req[r].op # "update" => seen = req[r].seen,
         req[r].op = "update" /\ step = "sync" =>
           Alike(seen, Updated(row[s], req[r].put))
  PROVE  IInv'
<1>0. TypeOK /\ Orderly
  BY DEF IInv
<1>1. TypeOK'
  BY <1>0 DEF TypeOK, Moves, Requested
<1>2. Orderly'
  <2>1. \A p \in Requests \ {r} :
          req[p].op = "create" => row'[req[p].sch] = NoRow
    BY <1>0, NotYetThere
  <2>2. \A p \in Requests \ {r} :
          req'[r].sch = req[p].sch => req'[r].op # "create" /\ req[p].op # "create"
    BY <1>0 DEF Moves, Orderly, CreatesAlone
  <2>3. \A p \in Requests \ {r}, z \in Schedules :
          rowLock[z] = p => rowLock'[z] = p
    BY ScheduleAssumption
  <2> QED
    BY <1>0, <2>1, <2>2, <2>3, OrderlyStep DEF Moves, Orderly
<1>3. ASSUME NEW z \in Schedules, ~exposed'[z]
      PROVE  Settled(z)'
  <2>1. Settled(z) /\ row'[z] = row[z] /\ job'[z] = job[z]
    BY <1>3 DEF IInv
  <2>2. CASE z # s
    BY <1>0, <2>1, <2>2, Elsewhere DEF Moves
  <2>3. CASE z = s
    BY <1>0, <2>1, <2>3, SettledMoves
  <2> QED BY <2>2, <2>3
<1> QED BY <1>1, <1>2, <1>3 DEF IInv

LEMMA FlushStep ==
  ASSUME IInv, NEW r \in Requests, Flush(r)
  PROVE  IInv'
<1>0. TypeOK /\ Orderly
  BY DEF IInv
<1>1. req[r].step = "flush"
  BY DEF Flush, FlushUpdate, FlushNothing, FlushDelete, At
<1>2. PICK s \in Schedules : s = req[r].sch
  BY <1>0, <1>1, Placed
<1>3. InOrder(r, req[r]) /\ req[r] # Idle
  BY <1>0, <1>1 DEF Orderly, Idle
<1>4. CASE FlushUpdate(r)
  <2>1. Moves(r, "refresh", req[r].seen, req[r].touched)
    BY <1>0, <1>4, GoesMoves DEF FlushUpdate
  <2>2. /\ rowLock[s] = Nobody /\ rowLock' = [rowLock EXCEPT ![s] = r]
        /\ UNCHANGED <<row, born, job, run, exposed>>
        /\ req[r].op = "update"
    BY <1>2, <1>4 DEF FlushUpdate, Locks, At
  <2>3. /\ rowLock' \in [Schedules -> Requests \cup {Nobody}]
        /\ rowLock'[s] = r
        /\ \A z \in Schedules : rowLock[z] # Nobody => rowLock'[z] = rowLock[z]
    BY <1>0, <2>2 DEF TypeOK
  <2>4. InOrder(r, req[r])'
    BY <1>1, <1>2, <1>3, <2>1, <2>2, <2>3 DEF InOrder, Moves, Idle
  <2> QED BY <1>2, <2>1, <2>2, <2>3, <2>4, MoveStep
<1>5. CASE FlushNothing(r)
  <2>1. Moves(r, "refresh", req[r].seen, req[r].touched)
    BY <1>0, <1>5, GoesMoves DEF FlushNothing
  <2>2. /\ UNCHANGED <<row, born, rowLock, job, run, exposed>>
        /\ req[r].op = "update" /\ req[r].put = NoChange
    BY <1>5 DEF FlushNothing, At
  <2>3. InOrder(r, req[r])'
    BY <1>1, <1>3, <2>1, <2>2 DEF InOrder, Moves, Idle
  <2>4. rowLock' \in [Schedules -> Requests \cup {Nobody}]
    BY <1>0, <2>2 DEF TypeOK
  <2> QED BY <1>2, <2>1, <2>2, <2>3, <2>4, MoveStep
<1>6. CASE FlushDelete(r)
  <2>1. Moves(r, "commit", req[r].seen, req[r].touched)
    BY <1>0, <1>6, GoesMoves DEF FlushDelete
  <2>2. /\ rowLock[s] = Nobody /\ rowLock' = [rowLock EXCEPT ![s] = r]
        /\ UNCHANGED <<row, born, job, run, exposed>>
        /\ req[r].op = "delete"
    BY <1>2, <1>6 DEF FlushDelete, Locks, At
  <2>3. /\ rowLock' \in [Schedules -> Requests \cup {Nobody}]
        /\ \A z \in Schedules : rowLock[z] # Nobody => rowLock'[z] = rowLock[z]
    BY <1>0, <2>2 DEF TypeOK
  <2>4. InOrder(r, req[r])'
    BY <1>1, <1>3, <2>1, <2>2 DEF InOrder, Moves, Idle
  <2> QED BY <1>2, <2>1, <2>2, <2>3, <2>4, MoveStep
<1> QED BY <1>4, <1>5, <1>6 DEF Flush

LEMMA RefreshStep ==
  ASSUME IInv, NEW r \in Requests, Refresh(r)
  PROVE  IInv'
<1>0. TypeOK /\ Orderly
  BY DEF IInv
<1>1. req[r].step = "refresh" /\ req[r].op = "update"
  BY DEF Refresh, At
<1>2. PICK s \in Schedules : s = req[r].sch
  BY <1>0, <1>1, Placed
<1>3. InOrder(r, req[r]) /\ req[r] # Idle
  BY <1>0, <1>1 DEF Orderly, Idle
<1>4. PICK w \in Row : w = Updated(row[s], req[r].put)
  BY <1>0, <1>2, RefreshMoves
<1>5. Moves(r, "sync", w, req[r].touched)
  BY <1>0, <1>2, <1>4, RefreshMoves
<1>6. UNCHANGED <<row, born, rowLock, job, run, exposed>>
  BY DEF Refresh
<1>7. InOrder(r, req[r])'
  BY <1>1, <1>3, <1>4, <1>5, <1>6 DEF InOrder, Moves, Idle
<1>8. rowLock' \in [Schedules -> Requests \cup {Nobody}]
  BY <1>0, <1>6 DEF TypeOK
<1>9. Alike(w, Updated(row[s], req[r].put))
  BY <1>4 DEF Alike
<1> QED BY <1>1, <1>2, <1>5, <1>6, <1>7, <1>8, <1>9, MoveStep

\* A transaction is rolled back; one that has touched the job exposes it.
LEMMA AbortStep ==
  ASSUME IInv, NEW r \in Requests, req[r].step # "idle", Aborts(r),
         exposed' \in [Schedules -> BOOLEAN],
         \A z \in Schedules : exposed[z] => exposed'[z],
         req[r].touched => exposed'[req[r].sch]
  PROVE  IInv'
<1>0. TypeOK /\ Orderly
  BY DEF IInv
<1>1. Begins(r, Idle)
  BY <1>0, AbortsBegins DEF Aborts
<1>2. TypeOK'
  BY <1>0, <1>1, UnlockedType DEF TypeOK, Begins, Requested, Aborts
<1>3. Orderly'
  <2>1. \A p \in Requests \ {r} :
          req[p].op = "create" => /\ row'[req[p].sch] = NoRow
                                  /\ req[p].sch \in Schedules
    BY <1>0, NotYetThere DEF Aborts
  <2>2. \A p \in Requests \ {r} :
          req'[r].sch = req[p].sch => req'[r].op # "create" /\ req[p].op # "create"
    BY <1>1, <2>1, ScheduleAssumption DEF Begins, Idle
  <2>3. \A p \in Requests \ {r}, z \in Schedules :
          rowLock[z] = p => rowLock'[z] = p
    BY <1>0, UnlockedType DEF Aborts
  <2>4. InOrder(r, req[r])'
    BY <1>1 DEF Begins, InOrder, Idle
  <2> QED
    BY <1>0, <1>1, <2>1, <2>2, <2>3, <2>4, OrderlyStep
       DEF Begins, Aborts, Orderly
<1>4. ASSUME NEW z \in Schedules, ~exposed'[z]
      PROVE  Settled(z)'
  <2>1. Settled(z) /\ row'[z] = row[z] /\ job'[z] = job[z]
    BY <1>4 DEF IInv, Aborts
  <2>2. CASE z # req[r].sch
    BY <1>0, <1>1, <2>1, <2>2, Elsewhere, ScheduleAssumption
       DEF Begins, Idle
  <2>3. CASE z = req[r].sch
    BY <1>0, <1>1, <1>4, <2>1, <2>3, SettledRests
  <2> QED BY <2>2, <2>3
<1> QED BY <1>2, <1>3, <1>4 DEF IInv

LEMMA EndsEarlyStep ==
  ASSUME IInv, NEW r \in Requests, RowVanished(r) \/ SyncRaises(r) \/ Fail(r)
  PROVE  IInv'
<1>1. req[r].step # "idle" /\ Aborts(r)
  BY DEF RowVanished, SyncRaises, Fail
<1>2. TypeOK /\ InOrder(r, req[r])
  BY DEF IInv, Orderly
<1>3. CASE RowVanished(r) \/ SyncRaises(r)
  <2>1. ~req[r].touched
    <3>1. CASE RowVanished(r)
      BY <1>2, <3>1 DEF RowVanished, InOrder
    <3>2. CASE SyncRaises(r)
      BY <1>2, <3>2 DEF SyncRaises, InOrder
    <3> QED BY <1>3, <3>1, <3>2
  <2>2. exposed' = exposed
    BY <1>3 DEF RowVanished, SyncRaises
  <2>3. exposed' \in [Schedules -> BOOLEAN]
    BY <1>2, <2>2 DEF TypeOK
  <2> QED BY <1>1, <2>1, <2>2, <2>3, AbortStep
<1>4. CASE Fail(r)
  <2>1. PICK s \in Schedules : s = req[r].sch
    BY <1>1, Placed DEF IInv
  <2>2. PICK t \in BOOLEAN : t = req[r].touched
    BY <1>2 DEF TypeOK
  <2>3. exposed' = [exposed EXCEPT ![s] = exposed[s] \/ t]
    BY <1>4, <2>1, <2>2 DEF Fail
  <2>4. PICK x \in BOOLEAN : x = (exposed[s] \/ t)
    OBVIOUS
  <2>5. exposed' = [exposed EXCEPT ![s] = x] /\ exposed \in [Schedules -> BOOLEAN]
    BY <1>2, <2>3, <2>4 DEF TypeOK
  <2>6. /\ exposed' \in [Schedules -> BOOLEAN]
        /\ \A z \in Schedules : exposed[z] => exposed'[z]
        /\ t => exposed'[s]
    BY <2>4, <2>5
  <2> QED BY <1>1, <2>1, <2>2, <2>6, AbortStep
<1> QED BY <1>3, <1>4

\* The job that is registered for a row, and no job, follow it.
LEMMA NewJobFollows ==
  ASSUME NEW w \in Row
  PROVE  /\ w.on /\ w.kind # "unknown" =>
              Follows([cfg |-> w.cfg, once |-> w.kind = "once"], w)
         /\ ~w.on \/ w.kind = "unknown" => Follows(NoJob, w)
<1>1. w # NoRow /\ w.kind \in {"recurring", "once", "unknown"}
  BY ScheduleAssumption DEF Row
<1>2. [cfg |-> w.cfg, once |-> w.kind = "once"] # NoJob
  <2>1. [cfg |-> w.cfg, once |-> w.kind = "once"] \in Job
    BY DEF Row, Job
  <2> QED BY <2>1, ScheduleAssumption
<1>3. ~w.on \/ w.kind = "unknown" => Follows(NoJob, w)
  BY <1>1 DEF Follows
<1>4. ASSUME w.on, w.kind # "unknown"
      PROVE  Follows([cfg |-> w.cfg, once |-> w.kind = "once"], w)
  <2>1. w.kind = IF w.kind = "once" THEN "once" ELSE "recurring"
    BY <1>1, <1>4
  <2> QED BY <1>1, <1>2, <1>4, <2>1 DEF Follows
<1> QED BY <1>3, <1>4

\* Nobody else has touched the job of a request that is about to.
LEMMA TouchesAlone ==
  ASSUME TypeOK, Orderly, NEW s \in Schedules, Settled(s),
         NEW r \in Requests, req[r].sch = s,
         req[r].step \in {"sync", "commit"},
         NEW p \in Requests, p # r, req[p].sch = s
  PROVE  /\ ~req[p].touched /\ req[p].op = "update" /\ req[p].step # "sync"
         /\ req[r].op = "update"
<1>1. /\ req[r].op = "update" /\ rowLock[s] = r
      /\ req[p].op = "update" /\ rowLock[s] # p => req[p].step # "sync"
  BY Together
<1>2. /\ req[p].step \in {"refresh", "sync", "commit"} => rowLock[s] = p
      /\ req[p].touched => req[p].step = "commit"
      /\ req[p].op = "update"
  BY Together
<1> QED BY <1>1, <1>2

LEMMA SyncStep ==
  ASSUME IInv, NEW r \in Requests, Sync(r)
  PROVE  IInv'
<1>0. TypeOK /\ Orderly
  BY DEF IInv
<1>1. req[r].step = "sync"
  BY DEF Sync
<1>2. PICK s \in Schedules : s = req[r].sch
  BY <1>0, <1>1, Placed
<1>3. InOrder(r, req[r]) /\ req[r] # Idle /\ req[r].op \in {"create", "update"}
  BY <1>0, <1>1 DEF Orderly, Idle, InOrder, TypeOK
<1>4. PICK w \in Row : w = req[r].seen
  BY <1>1, <1>3 DEF InOrder
<1>5. Moves(r, "commit", w, TRUE)
  BY <1>0, <1>4, SyncMoves DEF Sync
<1>6. UNCHANGED <<row, born, rowLock, run, exposed>>
  BY DEF Sync
<1>7. /\ job' \in [Schedules -> Job \cup {NoJob}]
      /\ \A z \in Schedules \ {s} : job'[z] = job[z]
      /\ job'[s] = IF w.on THEN Registered(s, w)[s]
                   ELSE IF req[r].op = "update" THEN NoJob ELSE job[s]
  <2>1. CASE w.on
    <3>1. job' = Registered(s, w)
      BY <1>2, <1>4, <2>1 DEF Sync
    <3> QED BY <1>0, <2>1, <3>1, RegisteredType
  <2>2. CASE ~w.on /\ req[r].op = "update"
    <3>1. job' = [job EXCEPT ![s] = NoJob]
      BY <1>2, <1>4, <2>2 DEF Sync
    <3> QED BY <1>0, <2>2, <3>1 DEF TypeOK
  <2>3. CASE ~w.on /\ req[r].op # "update"
    <3>1. job' = job
      BY <1>2, <1>4, <2>3 DEF Sync
    <3> QED BY <1>0, <2>3, <3>1 DEF TypeOK
  <2> QED BY <2>1, <2>2, <2>3
<1>8. TypeOK'
  BY <1>0, <1>5, <1>6, <1>7 DEF TypeOK, Moves, Requested
<1>9. Orderly'
  <2>1. \A p \in Requests \ {r} :
          req[p].op = "create" => row'[req[p].sch] = NoRow
    BY <1>0, <1>6, NotYetThere
  <2>2. \A p \in Requests \ {r} :
          req'[r].sch = req[p].sch => req'[r].op # "create" /\ req[p].op # "create"
    BY <1>0, <1>5 DEF Moves, Orderly, CreatesAlone
  <2>3. InOrder(r, req[r])'
    BY <1>1, <1>3, <1>4, <1>5, <1>6 DEF InOrder, Moves, Idle
  <2> QED
    BY <1>0, <1>5, <1>6, <2>1, <2>2, <2>3, OrderlyStep DEF Moves, Orderly
<1>10. ASSUME NEW z \in Schedules, ~exposed'[z]
       PROVE  Settled(z)'
  <2>1. Settled(z)
    BY <1>6, <1>10 DEF IInv
  <2>2. CASE z # s
    BY <1>0, <1>2, <1>5, <1>6, <1>7, <2>1, <2>2, Elsewhere DEF Moves
  <2>3. CASE z = s
    <3>1. Settled(s)
      BY <2>1, <2>3
    <3>2. ASSUME NEW p \in Requests, p # r, req[p].sch = s
          PROVE  /\ ~req[p].touched /\ req[p].op = "update"
                 /\ req[p].step # "sync" /\ req[r].op = "update"
      BY <1>0, <1>1, <1>2, <3>1, <3>2, TouchesAlone
    <3>3. ~req[r].touched
      BY <1>1, <1>3 DEF InOrder
    <3>4. Follows(job[s], row[s]) /\ Fits(req[r], job[s], row[s])
      BY <1>2, <3>1, <3>2, <3>3 DEF Settled
    <3>5. Follows(job'[s], w)
      <4>1. w.on /\ w.kind # "unknown" =>
              job'[s] = [cfg |-> w.cfg, once |-> w.kind = "once"]
        BY <1>0, <1>7, RegisteredType
      <4>2. w.on /\ w.kind = "unknown" => job'[s] = job[s]
        BY <1>0, <1>7, RegisteredType
      <4>3. CASE req[r].op = "create"
        <5>1. job[s] = NoJob
          BY <1>2, <1>3, <3>4, <4>3 DEF InOrder, Follows
        <5> QED BY <1>7, <4>1, <4>2, <4>3, <5>1, NewJobFollows
      <4>4. CASE req[r].op = "update"
        <5>1. PICK v \in Row : v = row[s]
          BY <1>0, <3>4, <4>4 DEF Fits, TypeOK
        <5>2. w.kind = v.kind
          BY <1>0, <1>1, <1>4, <3>4, <4>4, <5>1, UpdatedRow
             DEF Fits, Alike, TypeOK
        <5>3. w.kind = "unknown" => job[s] = NoJob
          BY <3>4, <5>1, <5>2 DEF Follows
        <5> QED BY <1>7, <4>1, <4>2, <4>4, <5>3, NewJobFollows
      <4> QED BY <1>3, <4>3, <4>4
    <3>6. (\A p, y \in Requests :
             req[p].sch = s /\ req[y].sch = s /\ p # y => ~Lockless(req[p]))'
      BY <1>5, <3>1 DEF Moves, Others, Settled, Lockless
    <3>7. ((\A p \in Requests : req[p].sch = s => ~req[p].touched)
             => Follows(job[s], row[s]))'
      BY <1>2, <1>5 DEF Moves
    <3>8. ASSUME NEW p \in Requests, req'[p].sch = s
          PROVE  Fits(req[p], job[s], row[s])'
      <4>1. CASE p # r
        <5>1. req'[p] = req[p] /\ Fits(req[p], job[s], row[s])
          BY <1>5, <3>1, <3>8, <4>1 DEF Moves, Others, Settled
        <5>2. req[p].op = "update" /\ ~req[p].touched /\ req[p].step # "sync"
          BY <3>2, <3>8, <4>1, <5>1
        <5> QED BY <1>6, <5>1, <5>2 DEF Fits
      <4>2. CASE p = r
        <5>1. CASE req[r].op = "create"
          BY <1>5, <3>5, <4>2, <5>1 DEF Moves, Fits, Follows
        <5>2. CASE req[r].op = "update"
          <6>1. PICK v \in Row : v = row[s]
            BY <1>0, <3>4, <5>2 DEF Fits, TypeOK
          <6>2. PICK put \in Change : put = req[r].put
            BY <1>0 DEF TypeOK
          <6>3. PICK u \in Row : u = Updated(v, put)
            BY UpdatedRow
          <6>4. Alike(w, u)
            BY <1>1, <1>4, <3>4, <5>2, <6>1, <6>2, <6>3 DEF Fits
          <6>5. Follows(job'[s], u)
            BY <3>5, <6>4, ScheduleAssumption DEF Follows, Alike
          <6>6. row'[s] = v /\ req'[r].put = put
            BY <1>5, <1>6, <6>1, <6>2 DEF Moves
          <6>7. v # NoRow /\ req'[r].op = "update" /\ req'[r].step = "commit"
            BY <1>5, <5>2, ScheduleAssumption DEF Moves
          <6> QED
            BY <4>2, <6>3, <6>5, <6>6, <6>7 DEF Fits
        <5> QED BY <1>3, <5>1, <5>2
      <4> QED BY <4>1, <4>2
    <3> QED BY <2>3, <3>6, <3>7, <3>8 DEF Settled
  <2> QED BY <2>2, <2>3
<1> QED BY <1>8, <1>9, <1>10 DEF IInv

LEMMA CommitFacts ==
  ASSUME TypeOK, Orderly, NEW r \in Requests, Commit(r)
  PROVE  /\ req[r].sch \in Schedules
         /\ req[r].op \in {"create", "update", "delete"}
         /\ row' \in [Schedules -> Row \cup {NoRow}]
         /\ \A z \in Schedules : z # req[r].sch => row'[z] = row[z]
         /\ req[r].op = "create" =>
              row[req[r].sch] = NoRow /\ row'[req[r].sch] = req[r].seen
         /\ req[r].op = "delete" => row'[req[r].sch] = NoRow
         /\ req[r].op = "update" /\ row[req[r].sch] = NoRow =>
              row'[req[r].sch] = NoRow
         /\ req[r].op = "update" /\ row[req[r].sch] # NoRow =>
              row'[req[r].sch] = Updated(row[req[r].sch], req[r].put)
<1>1. req[r].step = "commit"
  BY DEF Commit
<1>2. PICK s \in Schedules : s = req[r].sch
  BY <1>1, Placed
<1>3. InOrder(r, req[r]) /\ req[r] # Idle
  BY <1>1 DEF Orderly, Idle
<1>4. req[r].op \in {"create", "update", "delete"}
  BY <1>3 DEF TypeOK, InOrder
<1>5. row \in [Schedules -> Row \cup {NoRow}]
  BY DEF TypeOK
<1>6. CASE req[r].op = "create"
  <2>1. PICK w \in Row : w = req[r].seen
    BY <1>3, <1>6 DEF InOrder
  <2>2. row' = [row EXCEPT ![s] = w]
    BY <1>2, <1>6, <2>1 DEF Commit
  <2> QED BY <1>2, <1>3, <1>5, <1>6, <2>1, <2>2 DEF InOrder
<1>7. CASE req[r].op = "delete"
  <2>1. row' = [row EXCEPT ![s] = NoRow]
    BY <1>2, <1>7 DEF Commit
  <2> QED BY <1>2, <1>5, <1>7, <2>1
<1>8. CASE req[r].op = "update" /\ row[s] = NoRow
  <2>1. row' = row
    BY <1>2, <1>8 DEF Commit
  <2> QED BY <1>2, <1>5, <1>8, <2>1
<1>9. CASE req[r].op = "update" /\ row[s] # NoRow
  <2>1. PICK put \in Change : put = req[r].put
    BY DEF TypeOK
  <2>2. PICK v \in Row : v = row[s]
    BY <1>5, <1>9
  <2>3. PICK u \in Row : u = Updated(v, put)
    BY UpdatedRow
  <2>4. row' = [row EXCEPT ![s] = u]
    BY <1>2, <1>9, <2>1, <2>2, <2>3 DEF Commit
  <2> QED BY <1>2, <1>5, <1>9, <2>1, <2>2, <2>3, <2>4
<1> QED BY <1>2, <1>4, <1>6, <1>7, <1>8, <1>9

LEMMA CommitStep ==
  ASSUME IInv, NEW r \in Requests, Commit(r)
  PROVE  IInv'
<1>0. TypeOK /\ Orderly
  BY DEF IInv
<1>1. req[r].step = "commit"
  BY DEF Commit
<1>2. PICK s \in Schedules : s = req[r].sch
  BY <1>0, <1>1, Placed
<1>3. InOrder(r, req[r]) /\ req[r].sch \in born /\ req[r].touched
  BY <1>0, <1>1 DEF Orderly, InOrder, Idle
<1>4. Begins(r, Idle)
  BY <1>0, AbortsBegins DEF Commit
<1>5. rowLock' = Unlocked(r) /\ UNCHANGED <<born, job, run, exposed>>
  BY DEF Commit
<1>6. TypeOK'
  BY <1>0, <1>4, <1>5, CommitFacts, UnlockedType DEF TypeOK, Begins, Requested
<1>7. Orderly'
  <2>1. \A z \in Schedules : row'[z] # NoRow => z \in born'
    BY <1>0, <1>2, <1>3, <1>5, CommitFacts DEF Orderly
  <2>2. \A p \in Requests \ {r} :
          req[p].op = "create" => /\ req[p].sch \in Schedules
                                  /\ req[p].sch # s
                                  /\ row[req[p].sch] = NoRow
    BY <1>0, <1>2, NotYetThere DEF Orderly, CreatesAlone
  <2>3. \A p \in Requests \ {r} :
          /\ req[p].op = "create" => row'[req[p].sch] = NoRow
          /\ req'[r].sch = req[p].sch => req'[r].op # "create" /\ req[p].op # "create"
    BY <1>0, <1>2, <1>4, <2>2, CommitFacts, ScheduleAssumption
       DEF Begins, Idle
  <2>4. \A p \in Requests \ {r}, z \in Schedules :
          rowLock[z] = p => rowLock'[z] = p
    BY <1>0, <1>5, UnlockedType
  <2>5. InOrder(r, req[r])'
    BY <1>4 DEF Begins, InOrder, Idle
  <2> QED
    BY <1>0, <1>4, <1>5, <2>1, <2>3, <2>4, <2>5, OrderlyStep DEF Begins
<1>8. ASSUME NEW z \in Schedules, ~exposed'[z]
      PROVE  Settled(z)'
  <2>1. Settled(z)
    BY <1>5, <1>8 DEF IInv
  <2>2. CASE z # s
    <3>1. row'[z] = row[z] /\ job'[z] = job[z]
      BY <1>0, <1>2, <1>5, <2>2, CommitFacts
    <3>2. req[r].sch # z /\ req'[r].sch # z
      BY <1>2, <1>4, <2>2, ScheduleAssumption DEF Begins, Idle
    <3> QED BY <1>0, <1>4, <2>1, <3>1, <3>2, Elsewhere DEF Begins
  <2>3. CASE z = s
    <3>1. Settled(s)
      BY <2>1, <2>3
    <3>2. \A p \in Requests : req'[p].sch = s =>
            p # r /\ req[p].sch = s /\ req'[p] = req[p]
      BY <1>4, ScheduleAssumption DEF Begins, Others, Idle
    <3>3. ASSUME NEW p \in Requests, p # r, req[p].sch = s
          PROVE  /\ ~req[p].touched /\ req[p].op = "update"
                 /\ req[p].step # "sync" /\ req[r].op = "update"
      BY <1>0, <1>1, <1>2, <3>1, <3>3, TouchesAlone
    <3>4. Fits(req[r], job[s], row[s])
      BY <1>2, <3>1 DEF Settled
    <3>5. /\ Follows(job[s], row'[s])
          /\ req[r].op = "update" => row'[s] # NoRow
      <4>1. CASE req[r].op = "create"
        BY <1>0, <1>2, <1>3, <3>4, <4>1, CommitFacts DEF Fits
      <4>2. CASE req[r].op = "delete"
        BY <1>0, <1>2, <3>4, <4>2, CommitFacts DEF Fits, Follows
      <4>3. CASE req[r].op = "update"
        <5>1. PICK v \in Row : v = row[s]
          BY <1>0, <3>4, <4>3 DEF Fits, TypeOK
        <5>2. PICK put \in Change : put = req[r].put
          BY <1>0 DEF TypeOK
        <5>3. PICK u \in Row : u = Updated(v, put)
          BY UpdatedRow
        <5>4. row'[s] = u
          BY <1>0, <1>2, <3>4, <4>3, <5>1, <5>2, <5>3, CommitFacts DEF Fits
        <5>5. Follows(job[s], u)
          BY <1>3, <3>4, <4>3, <5>1, <5>2, <5>3 DEF Fits
        <5> QED BY <5>4, <5>5, ScheduleAssumption
      <4> QED BY <1>0, <4>1, <4>2, <4>3, CommitFacts
    <3>6. (\A p, y \in Requests :
             req[p].sch = s /\ req[y].sch = s /\ p # y => ~Lockless(req[p]))'
      BY <3>1, <3>2 DEF Settled, Lockless
    <3>7. ((\A p \in Requests : req[p].sch = s => ~req[p].touched)
             => Follows(job[s], row[s]))'
      BY <1>5, <3>5 DEF Follows
    <3>8. ASSUME NEW p \in Requests, req'[p].sch = s
          PROVE  Fits(req[p], job[s], row[s])'
      <4>1. p # r /\ req[p].sch = s /\ req'[p] = req[p]
        BY <3>2, <3>8
      <4>2. /\ req[p].op = "update" /\ ~req[p].touched
            /\ req[p].step # "sync" /\ req[r].op = "update"
        BY <3>3, <4>1
      <4> QED BY <3>5, <4>1, <4>2 DEF Fits
    <3> QED BY <2>3, <3>6, <3>7, <3>8 DEF Settled
  <2> QED BY <2>2, <2>3
<1> QED BY <1>6, <1>7, <1>8 DEF IInv

-----------------------------------------------------------------------------
(* Steps of the jobs, and a restart.                                       *)

\* The job s may be used up, and its row may be stamped.
LEMMA JobStep ==
  ASSUME IInv, TypeOK', UNCHANGED <<born, rowLock, req, exposed>>,
         \A s \in Schedules :
           /\ \/ job'[s] = job[s]
              \/ job[s] # NoJob /\ job[s].once /\ job'[s] = NoJob
           /\ row[s] = NoRow => row'[s] = NoRow
           /\ row[s] # NoRow => row'[s] # NoRow /\ Alike(row'[s], row[s])
  PROVE  IInv'
<1>0. TypeOK /\ Orderly
  BY DEF IInv
<1>1. Orderly'
  <2>1. \A s \in Schedules : row'[s] # NoRow => s \in born'
    BY <1>0 DEF Orderly
  <2>2. CreatesAlone'
    BY <1>0 DEF Orderly, CreatesAlone
  <2>3. ASSUME NEW r \in Requests PROVE InOrder(r, req[r])'
    <3>1. InOrder(r, req[r]) /\ req[r].op = "create" => row'[req[r].sch] = NoRow
      BY <1>0, NotYetThere
    <3> QED BY <1>0, <3>1 DEF Orderly, InOrder, Idle
  <2> QED BY <2>1, <2>2, <2>3 DEF Orderly
<1>2. ASSUME NEW s \in Schedules, ~exposed'[s]
      PROVE  Settled(s)'
  <2>1. Settled(s)
    BY <1>2 DEF IInv
  <2>2. ASSUME NEW w, Follows(job[s], w) PROVE Follows(job'[s], w)
    BY <2>2 DEF Follows
  <2>3. Follows(job[s], row[s]) => Follows(job'[s], row'[s])
    BY <2>2 DEF Follows, Alike
  <2>4. (\A p, y \in Requests :
           req[p].sch = s /\ req[y].sch = s /\ p # y => ~Lockless(req[p]))'
    BY <2>1 DEF Settled, Lockless
  <2>5. ((\A p \in Requests : req[p].sch = s => ~req[p].touched)
           => Follows(job[s], row[s]))'
    BY <2>1, <2>3 DEF Settled
  <2>6. ASSUME NEW r \in Requests, req'[r].sch = s
        PROVE  Fits(req[r], job[s], row[s])'
    <3>1. Fits(req[r], job[s], row[s]) /\ req' = req
      BY <2>1, <2>6 DEF Settled
    <3>2. CASE req[r].op = "update"
      <4>1. PICK v \in Row : v = row[s]
        BY <1>0, <3>1, <3>2 DEF Fits, TypeOK
      <4>2. PICK put \in Change : put = req[r].put
        BY <1>0 DEF TypeOK
      <4>3. PICK vv \in Row : vv = row'[s]
        BY <3>1, <3>2, <4>1 DEF Fits, TypeOK
      <4>4. PICK u \in Row : u = Updated(v, put)
        BY UpdatedRow
      <4>5. PICK uu \in Row : uu = Updated(vv, put)
        BY UpdatedRow
      <4>6. Alike(vv, v)
        BY <3>1, <3>2, <4>1, <4>3 DEF Fits
      <4>7. Alike(uu, u)
        BY <4>4, <4>5, <4>6, UpdatedRow DEF Alike
      <4>8. req[r].touched => Follows(job'[s], uu)
        <5>1. req[r].touched => Follows(job[s], u)
          BY <3>1, <3>2, <4>1, <4>2, <4>4 DEF Fits
        <5>2. req[r].touched => Follows(job'[s], u)
          BY <2>2, <5>1
        <5> QED BY <4>7, <5>2, ScheduleAssumption DEF Follows, Alike
      <4>9. req[r].step = "sync" => Alike(req[r].seen, uu)
        <5>1. req[r].step = "sync" => Alike(req[r].seen, u)
          BY <3>1, <3>2, <4>1, <4>2, <4>4 DEF Fits
        <5> QED BY <4>7, <5>1 DEF Alike
      <4>10. vv # NoRow
        BY ScheduleAssumption
      <4> QED
        BY <3>1, <3>2, <4>2, <4>3, <4>5, <4>8, <4>9, <4>10 DEF Fits
    <3>3. CASE req[r].op # "update"
      <4>1. req[r].op = "create" /\ req[r].touched => Follows(job'[s], req[r].seen)
        BY <2>2, <3>1 DEF Fits
      <4>2. req[r].op = "delete" => job'[s] = NoJob
        BY <3>1 DEF Fits
      <4> QED BY <3>1, <3>3, <4>1, <4>2 DEF Fits
    <3> QED BY <3>2, <3>3
  <2> QED BY <2>4, <2>5, <2>6 DEF Settled
<1> QED BY <1>1, <1>2 DEF IInv

\* A stamp changes nothing that a job depends on.
LEMMA StampFacts ==
  ASSUME TypeOK, NEW s \in Schedules, Stamp(s)
  PROVE  /\ row' \in [Schedules -> Row \cup {NoRow}]
         /\ \A z \in Schedules :
              /\ row[z] = NoRow => row'[z] = NoRow
              /\ row[z] # NoRow => /\ row'[z] # NoRow
                                   /\ Alike(row'[z], row[z])
                                   /\ row[z].fired => row'[z].fired
<1>1. row \in [Schedules -> Row \cup {NoRow}]
  BY DEF TypeOK
<1>2. CASE row[s] = NoRow
  BY <1>1, <1>2 DEF Stamp, Alike
<1>3. CASE row[s] # NoRow
  <2>1. PICK v \in Row : v = row[s]
    BY <1>1, <1>3
  <2> DEFINE u == [v EXCEPT !.fired = TRUE]
  <2>2. row' = [row EXCEPT ![s] = u]
    BY <1>1, <1>3, <2>1 DEF Stamp
  <2>3. u \in Row /\ Alike(u, v) /\ u.fired
    BY DEF Row, Alike
  <2>4. u # NoRow
    BY <2>3, ScheduleAssumption
  <2> HIDE DEF u
  <2>5. row' \in [Schedules -> Row \cup {NoRow}] /\ row'[s] = u
    BY <1>1, <2>2, <2>3
  <2>6. ASSUME NEW z \in Schedules, z # s PROVE row'[z] = row[z]
    BY <1>1, <2>2, <2>6
  <2>7. \A z \in Schedules : row[z] # NoRow =>
          row'[z] # NoRow /\ Alike(row'[z], row[z]) /\ (row[z].fired => row'[z].fired)
    BY <2>1, <2>3, <2>4, <2>5, <2>6 DEF Alike
  <2>8. \A z \in Schedules : row[z] = NoRow => row'[z] = NoRow
    BY <1>3, <2>6
  <2> QED BY <2>5, <2>7, <2>8
<1> QED BY <1>2, <1>3

LEMMA FiringStep ==
  ASSUME IInv, NEW s \in Schedules,
         \/ Fire(s) \/ Miss(s) \/ Act(s) \/ ActRaises(s)
         \/ Stamp(s) \/ StampFails(s)
  PROVE  IInv'
<1>0. TypeOK
  BY DEF IInv
<1>1. UNCHANGED <<born, rowLock, req, exposed>>
  BY DEF Fire, Miss, Act, ActRaises, Stamp, StampFails
<1>2. run' \in [Schedules -> Running]
  <2>1. run \in [Schedules -> Running]
    BY <1>0, Typed
  <2>2. CASE Fire(s)
    <3>1. PICK c \in Configs : c = job[s].cfg
      BY <1>0, <2>2 DEF Fire, TypeOK, Job
    <3>2. [step |-> "acting", cfg |-> c] \in Running
      BY DEF Running
    <3> QED BY <2>1, <2>2, <3>1, <3>2 DEF Fire
  <2>3. CASE Act(s)
    <3>1. PICK x \in Running : x = run[s]
      BY <2>1
    <3> DEFINE y == [x EXCEPT !.step = "stamping"]
    <3>2. run' = [run EXCEPT ![s] = y]
      BY <2>1, <2>3, <3>1 DEF Act
    <3>3. y \in Running
      BY DEF Running
    <3> HIDE DEF y
    <3> QED BY <2>1, <3>2, <3>3
  <2>4. CASE Miss(s)
    BY <2>1, <2>4 DEF Miss
  <2>5. CASE ActRaises(s) \/ Stamp(s) \/ StampFails(s)
    BY <2>1, <2>5, IdleType DEF ActRaises, Stamp, StampFails
  <2> QED BY <2>2, <2>3, <2>4, <2>5
<1>3. CASE Fire(s) \/ Miss(s)
  <2>1. job' = UsedUp(s) /\ job[s] # NoJob /\ row' = row
    BY <1>3 DEF Fire, Miss
  <2>2. /\ job' \in [Schedules -> Job \cup {NoJob}]
        /\ \A z \in Schedules :
             \/ job'[z] = job[z]
             \/ job[z] # NoJob /\ job[z].once /\ job'[z] = NoJob
    BY <1>0, <2>1, UsedUpType
  <2>3. TypeOK'
    BY <1>0, <1>1, <1>2, <2>1, <2>2 DEF TypeOK, Running
  <2> QED BY <1>1, <2>1, <2>2, <2>3, JobStep DEF Alike
<1>4. CASE Act(s) \/ ActRaises(s) \/ StampFails(s)
  <2>1. row' = row /\ job' = job
    BY <1>4 DEF Act, ActRaises, StampFails
  <2>2. TypeOK'
    BY <1>0, <1>1, <1>2, <2>1 DEF TypeOK, Running
  <2> QED BY <1>1, <2>1, <2>2, JobStep DEF Alike
<1>5. CASE Stamp(s)
  <2>1. job' = job
    BY <1>5 DEF Stamp
  <2>2. TypeOK'
    BY <1>0, <1>1, <1>2, <1>5, <2>1, StampFacts DEF TypeOK, Running
  <2> QED BY <1>0, <1>1, <1>5, <2>1, <2>2, StampFacts, JobStep
<1> QED BY <1>3, <1>4, <1>5

LEMMA RestartStep ==
  ASSUME IInv, Restart
  PROVE  IInv'
<1>0. TypeOK /\ Orderly
  BY DEF IInv
<1>1. exposed' \in [Schedules -> BOOLEAN]
  <2>1. ASSUME NEW s \in Schedules
        PROVE  (row[s] # NoRow /\ row[s].on) \in BOOLEAN
    OBVIOUS
  <2> QED BY <2>1 DEF Restart
<1>2. TypeOK'
  BY <1>0, <1>1, IdleType DEF Restart, TypeOK, Requested, Running
<1>3. Orderly'
  BY <1>0, ScheduleAssumption DEF Restart, Orderly, InOrder, CreatesAlone, Idle
<1>4. ASSUME NEW s \in Schedules, ~exposed'[s]
      PROVE  Settled(s)'
  <2>1. Follows(job'[s], row'[s]) /\ \A r \in Requests : req'[r].sch # s
    BY <1>4, ScheduleAssumption DEF Restart, Idle, Follows
  <2> QED BY <2>1 DEF Settled, Follows
<1> QED BY <1>2, <1>3, <1>4 DEF IInv

LEMMA Unchanging ==
  ASSUME IInv, UNCHANGED vars
  PROVE  IInv'
<1>1. TypeOK'
  BY DEF IInv, TypeOK, vars
<1> QED BY <1>1, JobStep DEF vars, IInv, Alike

-----------------------------------------------------------------------------
(* The theorems.                                                           *)

LEMMA Invariance == Spec => []IInv
<1>1. Init => IInv
  BY StartsRight
<1>2. IInv /\ [Next]_vars => IInv'
  <2> SUFFICES ASSUME IInv, [Next]_vars PROVE IInv'
    OBVIOUS
  <2>1. ASSUME NEW r \in Requests, NEW s \in Schedules,
               NEW w \in NewRow, Create(r, s, w)
        PROVE  IInv'
    BY <2>1, CreateStep
  <2>2. ASSUME NEW r \in Requests, NEW s \in Schedules,
               NEW put \in Change, Update(r, s, put)
        PROVE  IInv'
    BY <2>2, UpdateStep
  <2>3. ASSUME NEW r \in Requests, NEW s \in Schedules, Delete(r, s)
        PROVE  IInv'
    BY <2>3, DeleteStep
  <2>4. ASSUME NEW r \in Requests, NEW s \in Schedules, NotFound(r, s)
        PROVE  IInv'
    BY <2>4, Unchanging DEF NotFound
  <2>5. ASSUME NEW r \in Requests, Flush(r) PROVE IInv'
    BY <2>5, FlushStep
  <2>6. ASSUME NEW r \in Requests, Proceed(r) \/ Fail(r) PROVE IInv'
    BY <2>6, RefreshStep, SyncStep, CommitStep, EndsEarlyStep DEF Proceed
  <2>7. ASSUME NEW s \in Schedules,
               \/ Fire(s) \/ Miss(s) \/ Act(s) \/ ActRaises(s)
               \/ Stamp(s) \/ StampFails(s)
        PROVE  IInv'
    BY <2>7, FiringStep
  <2>8. CASE Restart
    BY <2>8, RestartStep
  <2>9. CASE UNCHANGED vars
    BY <2>9, Unchanging
  <2> QED BY <2>1, <2>2, <2>3, <2>4, <2>5, <2>6, <2>7, <2>8, <2>9 DEF Next
<1> QED BY <1>1, <1>2, PTL DEF Spec

\* Every variable always has its type.
THEOREM TypeCorrect == Spec => []TypeOK
<1>1. IInv => TypeOK
  BY DEF IInv
<1> QED BY <1>1, Invariance, PTL

\* However many requests, jobs and restarts interleave, a schedule whose job
\* and row disagree while no request is under way has been exposed by one
\* of the three causes.
THEOREM JobsPartOnlyWhenExposed == Spec => []PartedOnlyIfExposed
<1>1. IInv => PartedOnlyIfExposed
  <2> SUFFICES ASSUME IInv, NEW s \in Schedules, Quiet(s), ~exposed[s]
               PROVE  Mirrored(s)
    BY DEF PartedOnlyIfExposed
  <2>1. Follows(job[s], row[s])
    BY DEF IInv, Settled, Quiet
  <2> QED BY <2>1 DEF Follows, Mirrored
<1> QED BY <1>1, Invariance, PTL

\* A request that has touched the job of a schedule that is not exposed has
\* made it what its commit will make of the row.
LEMMA OneToFollow ==
  ASSUME IInv, NEW s \in Schedules, ~exposed[s], job[s] # NoJob,
         NEW r \in Requests, req[r].sch = s, req[r].touched
  PROVE  Follows(job[s], Coming(r))
<1>1. Fits(req[r], job[s], row[s]) /\ InOrder(r, req[r])
  BY DEF IInv, Settled, Orderly
<1>2. req[r] \in Requested
  BY Typed DEF IInv
<1>3. req[r].op \in {"create", "update"}
  BY <1>1, <1>2, ScheduleAssumption DEF Fits, InOrder, Idle, Requested
<1> QED BY <1>1, <1>3 DEF Fits, Coming

\* However many requests, jobs and restarts interleave, a run that starts
\* executes what is saved or about to be, unless its schedule is exposed.
THEOREM RunsAreAsSaved == Spec => FiresWhatIsSaved
<1>1. IInv /\ [Next]_vars =>
        [\A s \in Schedules : run[s] = NoRun /\ run'[s] # NoRun /\ ~exposed[s] =>
           LET touching == {r \in Requests : req[r].sch = s /\ req[r].touched}
               rows == IF touching = {} THEN {row[s]}
                                        ELSE {Coming(r) : r \in touching}
           IN  \A w \in rows : w # NoRow /\ w.on /\ w.cfg = run'[s].cfg]_vars
  <2> SUFFICES ASSUME IInv, Next, NEW s \in Schedules,
                      run[s] = NoRun, run'[s] # NoRun, ~exposed[s]
               PROVE
         LET touching == {r \in Requests : req[r].sch = s /\ req[r].touched}
             rows == IF touching = {} THEN {row[s]}
                                      ELSE {Coming(r) : r \in touching}
         IN  \A w \in rows : w # NoRow /\ w.on /\ w.cfg = run'[s].cfg
    OBVIOUS
  <2>1. run \in [Schedules -> Running]
    BY Typed DEF IInv
  <2>2. Fire(s)
    <3>1. ASSUME NEW z \in Schedules,
                 Fire(z) \/ Act(z) \/ ActRaises(z) \/ Stamp(z) \/ StampFails(z)
          PROVE  z = s /\ Fire(z)
      BY <2>1, <3>1 DEF Fire, Act, ActRaises, Stamp, StampFails, NoRun, Running
    <3>2. ~UNCHANGED run
      OBVIOUS
    <3>3. ~Restart
      BY DEF Restart
    <3> QED
      BY <3>1, <3>2, <3>3
         DEF Next, Create, Update, Delete, NotFound, Arrives, Flush, FlushUpdate,
             FlushNothing, FlushDelete, Proceed, RowVanished, Refresh, Sync,
             SyncRaises, Commit, Fail, Aborts, Miss, vars
  <2>3. job[s] # NoJob /\ run'[s].cfg = job[s].cfg
    BY <2>1, <2>2 DEF Fire
  <2> DEFINE touching == {r \in Requests : req[r].sch = s /\ req[r].touched}
  <2>4. CASE touching = {}
    <3>1. Follows(job[s], row[s])
      BY <2>4 DEF IInv, Settled
    <3> QED BY <2>3, <2>4, <3>1 DEF Follows
  <2>5. CASE touching # {}
    <3>1. ASSUME NEW r \in touching
          PROVE  Coming(r) # NoRow /\ Coming(r).on /\ Coming(r).cfg = run'[s].cfg
      BY <2>3, OneToFollow DEF Follows
    <3> QED BY <2>5, <3>1
  <2> QED BY <2>4, <2>5
<1> QED BY <1>1, Invariance, PTL DEF Spec, FiresWhatIsSaved

\* No request takes back what a job has stamped, whatever copy of the row
\* the request holds.
THEOREM StampsAreNotLost == Spec => LastTriggeredIsKept
<1>1. IInv /\ [Next]_vars =>
        [\A s \in Schedules : row[s] # NoRow /\ row[s].fired =>
           row'[s] = NoRow \/ row'[s].fired]_vars
  <2> SUFFICES ASSUME IInv, Next, NEW s \in Schedules,
                      row[s] # NoRow, row[s].fired
               PROVE  row'[s] = NoRow \/ row'[s].fired
    OBVIOUS
  <2>0. TypeOK /\ Orderly
    BY DEF IInv
  <2>1. ASSUME NEW r \in Requests, Commit(r)
        PROVE  row'[s] = NoRow \/ row'[s].fired
    <3>1. CASE s # req[r].sch
      BY <2>0, <2>1, <3>1, CommitFacts
    <3>2. CASE s = req[r].sch
      <4>1. req[r].op = "update" => row'[s] = Updated(row[s], req[r].put)
        BY <2>0, <2>1, <3>2, CommitFacts
      <4>2. row[s] \in Row /\ req[r].put \in Change
        BY <2>0 DEF TypeOK
      <4>3. Updated(row[s], req[r].put).fired = row[s].fired
        BY <4>2, UpdatedRow
      <4> QED BY <2>0, <2>1, <3>2, <4>1, <4>3, CommitFacts
    <3> QED BY <3>1, <3>2
  <2>2. ASSUME NEW z \in Schedules, Stamp(z)
        PROVE  row'[s] = NoRow \/ row'[s].fired
    BY <2>0, <2>2, StampFacts
  <2>3. CASE UNCHANGED row
    BY <2>3
  <2> QED
    BY <2>1, <2>2, <2>3
       DEF Next, Create, Update, Delete, NotFound, Arrives, Flush, FlushUpdate,
           FlushNothing, FlushDelete, Proceed, RowVanished, Refresh, Sync,
           SyncRaises, Fail, Aborts, Fire, Miss, Act, ActRaises, StampFails,
           Restart, vars
<1> QED BY <1>1, Invariance, PTL DEF Spec, LastTriggeredIsKept

-----------------------------------------------------------------------------
(* The rows' locks.                                                        *)

\* The holder of a row's lock is past the statement that waited for it and
\* works on that row; a delete that is to commit holds its row.
HeldByWorker ==
  /\ \A s \in Schedules : rowLock[s] # Nobody =>
       /\ req[rowLock[s]].sch = s
       /\ req[rowLock[s]].step \in {"refresh", "sync", "commit"}
  /\ \A r \in Requests :
       At(r, "commit", "delete") => rowLock[req[r].sch] = r

\* Nobody waits for a row's lock while holding another: a request holds one
\* lock at most, and one that still has to ask for a lock holds none.  So the
\* requests and the runs that wait for the locks never wait in a circle.
NoHoldAndWait ==
  \A r \in Requests :
    /\ req[r].step \in {"idle", "flush"} =>
         \A s \in Schedules : rowLock[s] # r
    /\ \A s, z \in Schedules : rowLock[s] = r /\ rowLock[z] = r => s = z

\* While a request holds a row's lock, nothing changes the row but the
\* commit of that request: not the commit of another one that was loaded
\* earlier, and not the stamp of a job run (service.py:159).
LockedRowsAreSafe ==
  [][\A s \in Schedules : rowLock[s] # Nobody /\ row'[s] # row[s] =>
       req[rowLock[s]].step = "commit" /\ req'[rowLock[s]] = Idle]_vars

LEMMA HeldStep == IInv /\ HeldByWorker /\ [Next]_vars => HeldByWorker'
<1> SUFFICES ASSUME TypeOK, Orderly, HeldByWorker, [Next]_vars
             PROVE  HeldByWorker'
  BY DEF IInv
<1> USE ScheduleAssumption
\* A request that goes on: with the locks it has, or with one more.
<1>1. ASSUME NEW r \in Requests,
             NEW step \in {"refresh", "sync", "commit"},
             NEW seen, NEW touched, Moves(r, step, seen, touched),
             \/ rowLock' = rowLock /\ req[r].op # "delete"
             \/ Locks(r, req[r].sch) /\ req[r].step = "flush"
      PROVE  HeldByWorker'
  <2>1. req'[r].sch = req[r].sch /\ req'[r].step = step /\ req'[r].op = req[r].op
    BY <1>1 DEF Moves
  <2>2. \A p \in Requests \ {r} : req'[p] = req[p]
    BY <1>1 DEF Moves, Others
  <2>3. CASE rowLock' = rowLock /\ req[r].op # "delete"
    BY <2>1, <2>2, <2>3 DEF HeldByWorker, At, TypeOK
  <2>4. CASE Locks(r, req[r].sch) /\ req[r].step = "flush"
    <3>1. PICK s \in Schedules : s = req[r].sch
      BY <2>4, Placed
    <3>2. /\ rowLock'[s] = r
          /\ \A z \in Schedules \ {s} : rowLock'[z] = rowLock[z]
          /\ rowLock[s] = Nobody
      BY <2>4, <3>1 DEF Locks, TypeOK
    <3>3. \A p \in Requests : At(p, "commit", "delete") => req[p].sch \in Schedules
      BY Placed DEF At
    <3> QED BY <2>1, <2>2, <3>1, <3>2, <3>3 DEF HeldByWorker, At, TypeOK
  <2> QED BY <1>1, <2>3, <2>4
<1>2. ASSUME NEW r \in Requests, NEW q \in Requested, Begins(r, q),
             req[r] = Idle, rowLock' = rowLock, ~(q.step = "commit")
      PROVE  HeldByWorker'
  BY <1>2 DEF Begins, Others, HeldByWorker, At, TypeOK, Idle
\* A request that ends gives back what it has locked.
<1>3. ASSUME NEW r \in Requests, req' = [req EXCEPT ![r] = Idle],
             rowLock' = Unlocked(r)
      PROVE  HeldByWorker'
  <2>1. req'[r] = Idle /\ \A p \in Requests \ {r} : req'[p] = req[p]
    BY <1>3 DEF TypeOK
  <2>2. \A s \in Schedules : rowLock'[s] = IF rowLock[s] = r THEN Nobody ELSE rowLock[s]
    BY <1>3, UnlockedType
  <2>3. \A p \in Requests : At(p, "commit", "delete") => req[p].sch \in Schedules
    BY Placed DEF At
  <2> QED BY <2>1, <2>2, <2>3 DEF HeldByWorker, At, TypeOK, Idle
<1>4. CASE UNCHANGED <<req, rowLock>>
  BY <1>4 DEF HeldByWorker, At
<1>5. ASSUME NEW r \in Requests, NEW s \in Schedules, NEW w \in NewRow,
             Create(r, s, w)
      PROVE  HeldByWorker'
  <2> DEFINE q == Asked("sync", "create", s, NoChange, w)
  <2>1. q \in Requested /\ q.step = "sync"
    BY DEF NewRow, Row, Requested, NoChange, Change, Asked
  <2>2. req' = [req EXCEPT ![r] = q] /\ req[r] = Idle /\ rowLock' = rowLock
    BY <1>5 DEF Create
  <2> HIDE DEF q
  <2> QED BY <1>2, <2>1, <2>2, ArrivesBegins
<1>6. ASSUME NEW r \in Requests, NEW s \in Schedules,
             Delete(r, s) \/ \E put \in Change : Update(r, s, put)
      PROVE  HeldByWorker'
  <2>1. PICK q : /\ Arrives(r, q) /\ q \in Requested /\ q.step = "flush"
    <3>1. CASE Delete(r, s)
      <4>1. /\ Asked("flush", "delete", s, NoChange, NoRow) \in Requested
            /\ Asked("flush", "delete", s, NoChange, NoRow).step = "flush"
        BY DEF Requested, NoChange, Change, Asked
      <4> QED BY <3>1, <4>1 DEF Delete
    <3>2. ASSUME NEW put \in Change, Update(r, s, put)
          PROVE  \E q : Arrives(r, q) /\ q \in Requested /\ q.step = "flush"
      <4>1. row[s] \in Row
        BY <3>2 DEF Update, TypeOK
      <4>2. NetChange(row[s], put) \in Change
        BY <4>1, NetChangeType
      <4>3. /\ Asked("flush", "update", s, NetChange(row[s], put), NoRow) \in Requested
            /\ Asked("flush", "update", s, NetChange(row[s], put), NoRow).step = "flush"
        BY <4>2 DEF Requested, Asked
      <4> QED BY <3>2, <4>3 DEF Update
    <3> QED BY <1>6, <3>1, <3>2
  <2>2. req' = [req EXCEPT ![r] = q] /\ req[r] = Idle /\ rowLock' = rowLock
    BY <2>1 DEF Arrives
  <2> QED BY <1>2, <2>1, <2>2, ArrivesBegins
<1>7. ASSUME NEW r \in Requests, Flush(r) PROVE HeldByWorker'
  <2>1. CASE FlushUpdate(r)
    <3>1. Moves(r, "refresh", req[r].seen, req[r].touched)
      BY <2>1, GoesMoves DEF FlushUpdate
    <3> QED BY <1>1, <2>1, <3>1 DEF FlushUpdate, At
  <2>2. CASE FlushNothing(r)
    <3>1. Moves(r, "refresh", req[r].seen, req[r].touched)
      BY <2>2, GoesMoves DEF FlushNothing
    <3> QED BY <1>1, <2>2, <3>1 DEF FlushNothing, At
  <2>3. CASE FlushDelete(r)
    <3>1. Moves(r, "commit", req[r].seen, req[r].touched)
      BY <2>3, GoesMoves DEF FlushDelete
    <3> QED BY <1>1, <2>3, <3>1 DEF FlushDelete, At
  <2> QED BY <1>7, <2>1, <2>2, <2>3 DEF Flush
<1>8. ASSUME NEW r \in Requests, Proceed(r) \/ Fail(r) PROVE HeldByWorker'
  <2>1. CASE Refresh(r)
    <3>1. req[r].sch \in Schedules
      BY <2>1, Placed DEF Refresh, At
    <3>2. Moves(r, "sync", Updated(row[req[r].sch], req[r].put), req[r].touched)
      BY <2>1, <3>1, RefreshMoves
    <3> QED BY <1>1, <2>1, <3>2 DEF Refresh, At
  <2>2. CASE Sync(r)
    <3>1. /\ req' = [req EXCEPT ![r].step = "commit", ![r].touched = TRUE]
          /\ rowLock' = rowLock /\ req[r].step = "sync"
      BY <2>2 DEF Sync
    <3>2. req[r].op # "delete"
      BY <3>1 DEF Orderly, InOrder
    <3>3. Moves(r, "commit", req[r].seen, TRUE)
      BY <3>1, SyncMoves
    <3> QED BY <1>1, <3>1, <3>2, <3>3
  <2>3. CASE RowVanished(r) \/ SyncRaises(r) \/ Commit(r) \/ Fail(r)
    BY <1>3, <2>3 DEF RowVanished, SyncRaises, Commit, Fail, Aborts
  <2> QED BY <1>8, <2>1, <2>2, <2>3 DEF Proceed
<1>9. CASE Restart
  BY <1>9 DEF Restart, HeldByWorker, At, Idle
<1> QED
  BY <1>4, <1>5, <1>6, <1>7, <1>8, <1>9
     DEF Next, NotFound, Fire, Miss, Act, ActRaises, Stamp, StampFails, vars

\* In every reachable state a row's lock belongs to a request at work on it.
THEOREM LocksAreHeldByWorkers == Spec => []HeldByWorker
<1>1. Init => HeldByWorker
  BY DEF Init, HeldByWorker, At, Idle
<1> QED BY <1>1, HeldStep, Invariance, PTL DEF Spec

\* However requests and job runs interleave, they do not deadlock over the
\* rows of the schedules.
THEOREM RowLocksNeverDeadlock == Spec => []NoHoldAndWait
<1>1. HeldByWorker => NoHoldAndWait
  BY ScheduleAssumption DEF HeldByWorker, NoHoldAndWait
<1> QED BY <1>1, LocksAreHeldByWorkers, PTL

\* In every behaviour a locked row waits for its holder's commit.
THEOREM LocksProtectRows == Spec => LockedRowsAreSafe
<1>1. IInv /\ HeldByWorker /\ [Next]_vars =>
        [\A s \in Schedules : rowLock[s] # Nobody /\ row'[s] # row[s] =>
           req[rowLock[s]].step = "commit" /\ req'[rowLock[s]] = Idle]_vars
  <2> SUFFICES ASSUME TypeOK, Orderly, HeldByWorker, Next, NEW s \in Schedules,
                      rowLock[s] # Nobody, row'[s] # row[s]
               PROVE  req[rowLock[s]].step = "commit" /\ req'[rowLock[s]] = Idle
    BY DEF IInv
  <2> USE ScheduleAssumption
  <2>1. PICK p \in Requests : p = rowLock[s]
    BY DEF TypeOK
  <2>2. req[p].sch = s
    BY <2>1 DEF HeldByWorker
  <2>3. ASSUME NEW r \in Requests, Commit(r)
        PROVE  r = p
    <3>1. req[r].sch = s /\ req[r].op \in {"create", "update", "delete"}
      BY <2>3, CommitFacts
    <3>2. req[r].step = "commit" /\ InOrder(r, req[r])
      BY <2>3 DEF Commit, Orderly
    <3>3. CASE req[r].op = "create"
      BY <2>2, <3>1, <3>3 DEF Orderly, CreatesAlone
    <3>4. CASE req[r].op = "delete"
      BY <2>1, <3>1, <3>2, <3>4 DEF HeldByWorker, At
    <3>5. CASE req[r].op = "update"
      <4>1. req[r].put # NoChange
        <5> SUFFICES ASSUME req[r].put = NoChange PROVE row'[s] = row[s]
          OBVIOUS
        <5>1. row[s] \in Row => Updated(row[s], NoChange) = row[s]
          BY DEF Updated, NoChange, Row
        <5>2. row[s] \in Row \cup {NoRow}
          BY DEF TypeOK
        <5> QED BY <2>3, <3>1, <3>5, <5>1, <5>2, CommitFacts
      <4> QED BY <2>1, <3>1, <3>2, <3>5, <4>1 DEF InOrder
    <3> QED BY <3>1, <3>3, <3>4, <3>5
  <2>4. ASSUME NEW z \in Schedules, Stamp(z) PROVE FALSE
    <3>1. z # s
      BY <2>4 DEF Stamp
    <3> QED BY <2>4, <3>1 DEF Stamp, TypeOK
  <2>5. ASSUME NEW r \in Requests, Commit(r)
        PROVE  req[p].step = "commit" /\ req'[p] = Idle
    BY <2>3, <2>5 DEF Commit, TypeOK
  <2> QED
    BY <2>1, <2>4, <2>5
       DEF Next, Create, Update, Delete, NotFound, Arrives, Flush, FlushUpdate,
           FlushNothing, FlushDelete, Proceed, RowVanished, Refresh, Sync,
           SyncRaises, Fail, Aborts, Fire, Miss, Act, ActRaises, StampFails,
           Restart, vars
<1> QED BY <1>1, LocksAreHeldByWorkers, Invariance, PTL DEF Spec, LockedRowsAreSafe

=============================================================================
