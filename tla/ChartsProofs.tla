---------------------------- MODULE ChartsProofs ----------------------------
(***************************************************************************)
(* Proofs about History and Charts, for any devices, period, length of a   *)
(* sweep, limit and points: the types, that the snapshots of a device are  *)
(* a period apart, that the limit on the rows of a chart never cuts        *)
(* anything off a day, and that the points of a day's chart stand for all  *)
(* of it.                                                                  *)
(***************************************************************************)
EXTENDS Charts, FiniteSetTheorems, TLAPS

-----------------------------------------------------------------------------
(* Types.                                                                  *)

LEMMA TypeStep == TypeOK /\ [Next]_vars => TypeOK'
<1> SUFFICES ASSUME TypeOK, [Next]_vars PROVE TypeOK'
  OBVIOUS
<1> USE HistoryAssumption
<1>1. CASE Starts
  <2>1. sweep' = [on |-> TRUE, age |-> 0, todo |-> Devices, got |-> {}]
    BY <1>1 DEF Starts, NoSweep
  <2>2. UNCHANGED <<power, up, rows>> /\ due' \in 0 .. Period
    BY <1>1 DEF Starts
  <2> QED BY <2>1, <2>2 DEF TypeOK
<1>2. CASE Skipped
  BY <1>2 DEF TypeOK, Skipped
<1>3. ASSUME NEW d \in Devices, Records(d) PROVE TypeOK'
  <2>1. [dev |-> d, watts |-> power[d]] \in [dev : Devices, watts : Powers]
    BY <1>3 DEF TypeOK, Records
  <2> QED BY <1>3, <2>1 DEF TypeOK, Records
<1>4. ASSUME NEW d \in Devices, Passes(d) PROVE TypeOK'
  BY <1>4 DEF TypeOK, Passes
<1>5. CASE SaveFails
  BY <1>5 DEF TypeOK, SaveFails, NoSweep
<1>6. CASE Commits
  <2>1. \A g \in sweep.got : [age |-> sweep.age, watts |-> g.watts] \in Row
    BY DEF TypeOK, Row
  <2>2. rows' \in [Devices -> SUBSET Row]
    BY <1>6, <2>1 DEF TypeOK, Commits
  <2> QED BY <1>6, <2>2 DEF TypeOK, Commits, NoSweep
<1>7. CASE CommitFails
  BY <1>7 DEF TypeOK, CommitFails, NoSweep
<1>8. CASE Tick
  <2>1. \A r \in Row : [r EXCEPT !.age = @ + 1] \in Row
    BY DEF Row
  <2>2. rows' \in [Devices -> SUBSET Row]
    BY <1>8, <2>1 DEF TypeOK, Tick
  <2>3. sweep' \in [on : BOOLEAN, age : Nat, todo : SUBSET Devices,
                    got : SUBSET [dev : Devices, watts : Powers]]
    BY <1>8 DEF TypeOK, Tick
  <2>4. due' \in 0 .. Period
    BY <1>8 DEF TypeOK, Tick
  <2> QED BY <1>8, <2>2, <2>3, <2>4 DEF TypeOK, Tick
<1>9. CASE Restart
  BY <1>9 DEF TypeOK, Restart, NoSweep
<1>10. CASE GoesDownOrUp
  BY <1>10 DEF TypeOK, GoesDownOrUp
<1>11. ASSUME NEW d \in Devices, NEW p \in Powers \cup {Unreachable}, Turns(d, p)
       PROVE TypeOK'
  BY <1>11 DEF TypeOK, Turns
<1>12. CASE UNCHANGED vars
  BY <1>12 DEF TypeOK, vars
<1> QED BY <1>1, <1>2, <1>3, <1>4, <1>5, <1>6, <1>7, <1>8, <1>9, <1>10, <1>11,
           <1>12 DEF Next, Triggers, Polls

\* Every variable has its type in every reachable state.
THEOREM TypeCorrect == Spec => []TypeOK
<1>1. Init => TypeOK
  BY HistoryAssumption DEF Init, TypeOK, NoSweep
<1> QED BY <1>1, TypeStep, PTL DEF Spec

-----------------------------------------------------------------------------
(* Snapshots a period apart.                                               *)

\* A sweep has one reading of a device, and none of one it has yet to ask.
OneReading ==
  /\ \A g, h \in sweep.got : g.dev = h.dev => g = h
  /\ \A g \in sweep.got : g.dev \notin sweep.todo

\* No sweep starts within a period of a start that rows are left of, nor of
\* the start of the sweep that is running.
StartsApart ==
  /\ sweep.on => sweep.age + due >= Period
  /\ \A d \in Devices : \A r \in rows[d] :
       /\ r.age + due >= Period
       /\ sweep.on => r.age >= sweep.age + Period

IInv == TypeOK /\ RowsApart /\ OneReading /\ StartsApart

LEMMA StartStep == IInv /\ Triggers => IInv'
<1> SUFFICES ASSUME IInv, Triggers PROVE (RowsApart /\ OneReading /\ StartsApart)'
  BY TypeStep DEF IInv, Next
<1> USE HistoryAssumption DEF IInv
<1>1. UNCHANGED rows /\ due = 0 /\ due' = Period
  BY DEF Triggers, Starts, Skipped
<1>2. RowsApart'
  BY <1>1 DEF RowsApart
<1>3. OneReading'
  BY DEF OneReading, Triggers, Starts, Skipped, NoSweep
<1>4. \A d \in Devices : \A r \in rows[d] : r.age \in Nat /\ r.age >= Period
  BY <1>1 DEF TypeOK, Row, StartsApart
<1>5. sweep'.on => /\ sweep'.age \in Nat
                   /\ \A d \in Devices : \A r \in rows[d] :
                        r.age >= sweep'.age + Period
  <2>1. CASE Starts
    BY <1>4, <2>1 DEF Starts, NoSweep
  <2>2. CASE Skipped
    BY <2>2 DEF Skipped, StartsApart, TypeOK
  <2> QED BY <2>1, <2>2 DEF Triggers
<1> QED BY <1>1, <1>2, <1>3, <1>4, <1>5 DEF StartsApart

LEMMA PollStep == IInv /\ Polls => IInv'
<1> SUFFICES ASSUME IInv, Polls PROVE (RowsApart /\ OneReading /\ StartsApart)'
  BY TypeStep DEF IInv, Next
<1> USE HistoryAssumption DEF IInv
<1>1. ASSUME NEW d \in Devices, Records(d) \/ Passes(d)
      PROVE (RowsApart /\ OneReading /\ StartsApart)'
  <2>1. /\ UNCHANGED <<rows, due>>
        /\ sweep'.on = sweep.on /\ sweep'.age = sweep.age
    BY <1>1 DEF Records, Passes, TypeOK
  <2>2. RowsApart' /\ StartsApart'
    BY <2>1 DEF RowsApart, StartsApart
  <2>3. CASE Records(d)
    <3>1. sweep'.todo = sweep.todo \ {d}
      BY <2>3 DEF Records, TypeOK
    <3>2. sweep'.got = sweep.got \cup {[dev |-> d, watts |-> power[d]]}
      BY <2>3 DEF Records, TypeOK
    <3>3. d \in sweep.todo
      BY <2>3 DEF Records
    <3> QED BY <2>2, <3>1, <3>2, <3>3 DEF OneReading
  <2>4. CASE Passes(d)
    <3>1. sweep'.todo = sweep.todo \ {d} /\ sweep'.got = sweep.got
      BY <2>4 DEF Passes, TypeOK
    <3> QED BY <2>2, <3>1 DEF OneReading
  <2> QED BY <1>1, <2>3, <2>4
<1>2. CASE SaveFails \/ CommitFails
  BY <1>2 DEF SaveFails, CommitFails, NoSweep, RowsApart, OneReading, StartsApart
<1>3. CASE Commits
  <2>1. sweep.on /\ UNCHANGED due /\ sweep' = NoSweep /\ sweep.age \in Nat
    BY <1>3 DEF Commits, TypeOK
  <2>2. ASSUME NEW d \in Devices, NEW r \in rows'[d]
        PROVE  \/ r \in rows[d]
               \/ \E g \in sweep.got : /\ g.dev = d
                                       /\ r = [age |-> sweep.age, watts |-> g.watts]
    BY <1>3, <2>2 DEF Commits
  <2>3. \A d \in Devices : \A r \in rows[d] :
          r.age \in Nat /\ r.age >= sweep.age + Period
    BY <2>1 DEF StartsApart, TypeOK, Row
  <2>4. ASSUME NEW d \in Devices, NEW r \in rows'[d], NEW s \in rows'[d], r # s
        PROVE  r.age >= s.age + Period \/ s.age >= r.age + Period
    <3>1. CASE r \in rows[d] /\ s \in rows[d]
      BY <2>4, <3>1 DEF RowsApart
    <3>2. CASE r \in rows[d] /\ s \notin rows[d]
      BY <2>2, <2>3, <3>2
    <3>3. CASE r \notin rows[d] /\ s \in rows[d]
      BY <2>2, <2>3, <3>3
    <3>4. CASE r \notin rows[d] /\ s \notin rows[d]
      BY <2>2, <2>4, <3>4 DEF OneReading
    <3> QED BY <3>1, <3>2, <3>3, <3>4
  <2>5. StartsApart'
    <3>1. ASSUME NEW d \in Devices, NEW r \in rows'[d]
          PROVE  r.age + due >= Period
      BY <2>1, <2>2, <3>1 DEF StartsApart
    <3> QED BY <2>1, <3>1 DEF StartsApart, NoSweep
  <2> QED BY <2>1, <2>4, <2>5 DEF RowsApart, OneReading, NoSweep
<1> QED BY <1>1, <1>2, <1>3 DEF Polls

LEMMA TickStep == IInv /\ Tick => IInv'
<1> SUFFICES ASSUME IInv, Tick PROVE (RowsApart /\ OneReading /\ StartsApart)'
  BY TypeStep DEF IInv, Next
<1> USE HistoryAssumption DEF IInv
<1>1. ASSUME NEW d \in Devices, NEW r \in rows'[d]
      PROVE  \E s \in rows[d] : /\ s \in Row /\ s.age \in Nat
                                /\ r = [s EXCEPT !.age = s.age + 1]
                                /\ r.age = s.age + 1
  <2>1. PICK s \in rows[d] : r = [s EXCEPT !.age = @ + 1]
    BY <1>1 DEF Tick
  <2>2. s \in Row
    BY <2>1 DEF TypeOK
  <2>3. s.age \in Nat /\ r = [s EXCEPT !.age = s.age + 1] /\ r.age = s.age + 1
    BY <2>1, <2>2 DEF Row
  <2> QED BY <2>1, <2>2, <2>3
<1>2. RowsApart'
  <2> SUFFICES ASSUME NEW d \in Devices, NEW r \in rows'[d], NEW s \in rows'[d],
                      r # s
               PROVE  r.age >= s.age + Period \/ s.age >= r.age + Period
    BY DEF RowsApart
  <2>1. PICK q \in rows[d] : /\ q.age \in Nat /\ r.age = q.age + 1
                             /\ r = [q EXCEPT !.age = q.age + 1]
    BY <1>1
  <2>2. PICK t \in rows[d] : /\ t.age \in Nat /\ s.age = t.age + 1
                             /\ s = [t EXCEPT !.age = t.age + 1]
    BY <1>1
  <2>3. q # t
    BY <2>1, <2>2
  <2>4. q.age >= t.age + Period \/ t.age >= q.age + Period
    BY <2>3 DEF RowsApart
  <2> QED BY <2>1, <2>2, <2>4
<1>3. /\ due' = due - 1 /\ due \in Nat /\ sweep.age \in Nat
      /\ sweep'.on = sweep.on /\ sweep'.got = sweep.got
      /\ sweep'.todo = sweep.todo
      /\ sweep.on => sweep'.age = sweep.age + 1
  BY DEF Tick, TypeOK
<1>4. OneReading'
  BY <1>3 DEF OneReading
<1>5. StartsApart'
  <2>1. ASSUME NEW d \in Devices, NEW r \in rows'[d]
        PROVE  /\ r.age + due' >= Period
               /\ sweep'.on => r.age >= sweep'.age + Period
    <3>1. PICK s \in rows[d] : s.age \in Nat /\ r.age = s.age + 1
      BY <1>1
    <3>2. s.age + due >= Period /\ (sweep.on => s.age >= sweep.age + Period)
      BY <3>1 DEF StartsApart
    <3> QED BY <1>3, <3>1, <3>2
  <2>2. sweep'.on => sweep'.age + due' >= Period
    BY <1>3 DEF StartsApart
  <2> QED BY <2>1, <2>2 DEF StartsApart
<1> QED BY <1>2, <1>4, <1>5

\* What neither starts, polls nor takes time leaves the rows alone.
LEMMA OtherStep ==
  ASSUME IInv,
         \/ Restart \/ GoesDownOrUp \/ UNCHANGED vars
         \/ \E d \in Devices, p \in Powers \cup {Unreachable} : Turns(d, p)
  PROVE  (RowsApart /\ OneReading /\ StartsApart)'
<1> USE HistoryAssumption DEF IInv
<1>1. UNCHANGED rows
  BY DEF Restart, GoesDownOrUp, vars, Turns
<1>2. CASE Restart
  <2>1. \A d \in Devices : \A r \in rows[d] : r.age \in Nat
    BY DEF TypeOK, Row
  <2> QED BY <1>1, <1>2, <2>1
        DEF Restart, NoSweep, RowsApart, OneReading, StartsApart
<1>3. CASE UNCHANGED <<due, sweep, rows>>
  BY <1>3 DEF RowsApart, OneReading, StartsApart
<1> QED BY <1>2, <1>3 DEF GoesDownOrUp, vars, Turns

\* The snapshots of a device are a period apart in every reachable state.
THEOREM SnapshotsApart == Spec => []RowsApart
<1>1. Init => IInv
  BY HistoryAssumption
     DEF Init, IInv, TypeOK, NoSweep, RowsApart, OneReading, StartsApart
<1>2. IInv /\ [Next]_vars => IInv'
  <2> SUFFICES ASSUME IInv, [Next]_vars PROVE IInv'
    OBVIOUS
  <2>1. TypeOK'
    BY TypeStep DEF IInv
  <2> QED BY <2>1, StartStep, PollStep, TickStep, OtherStep DEF Next, IInv
<1>3. IInv => RowsApart
  BY DEF IInv
<1> QED BY <1>1, <1>2, <1>3, PTL DEF Spec

-----------------------------------------------------------------------------
(* The rows of a day.                                                      *)


\* What the charts of a day are made of is all that was recorded.
DayIsLoaded == \A d \in Devices : Loaded(d, Day) = Seen(d, Day)

\* Two ages in the same period are less than a period apart.
LEMMA SamePeriod ==
  ASSUME NEW a \in Nat, NEW b \in Nat, a \div Period = b \div Period
  PROVE  ~(a >= b + Period)
<1> USE HistoryAssumption
<1>1. /\ a = Period * (a \div Period) + (a % Period)
      /\ b = Period * (b \div Period) + (b % Period)
      /\ a % Period \in 0 .. Period - 1 /\ b % Period \in 0 .. Period - 1
  OBVIOUS
<1> QED BY <1>1

\* The period of an age within a day is one of those of the day.
LEMMA PeriodOfDay ==
  ASSUME NEW a \in Nat, a <= Day
  PROVE  a \div Period \in 0 .. Day \div Period
<1> USE HistoryAssumption, ChartAssumption
<1>1. Day \in Nat
  OBVIOUS
<1>2. /\ a = Period * (a \div Period) + (a % Period)
      /\ Day = Period * (Day \div Period) + (Day % Period)
      /\ a % Period \in 0 .. Period - 1 /\ Day % Period \in 0 .. Period - 1
      /\ a \div Period \in Nat /\ Day \div Period \in Nat
  BY <1>1
<1>3. ASSUME a \div Period >= Day \div Period + 1 PROVE FALSE
  <2> DEFINE p == a \div Period
             q == Day \div Period
  <2>1. p \in Nat /\ q \in Nat /\ p >= q + 1
    BY <1>2, <1>3
  <2> HIDE DEF p, q
  <2>2. Period * p >= Period * (q + 1)
    BY <2>1
  <2>3. Period * (q + 1) = Period * q + Period
    BY <2>1
  <2>4. a >= Day + 1
    BY <1>1, <1>2, <2>1, <2>2, <2>3 DEF p, q
  <2> QED BY <1>1, <2>4
<1> QED BY <1>2, <1>3

\* A day has a row for each of its periods at most.
LEMMA RowsOfDay ==
  ASSUME TypeOK, RowsApart, NEW d \in Devices
  PROVE  /\ IsFiniteSet(Seen(d, Day))
         /\ Cardinality(Seen(d, Day)) <= Limit
<1> DEFINE S == Seen(d, Day)
           T == 0 .. Day \div Period
           f == [r \in S |-> r.age \div Period]
<1> USE HistoryAssumption, ChartAssumption
<1>1. \A r \in S : r.age \in Nat /\ r.age <= Day
  BY DEF Seen, TypeOK, Row
<1>2. f \in [S -> T]
  BY <1>1, PeriodOfDay
<1>3. \A r, s \in S : f[r] = f[s] => r = s
  <2> SUFFICES ASSUME NEW r \in S, NEW s \in S, f[r] = f[s] PROVE r = s
    OBVIOUS
  <2>1. r.age \div Period = s.age \div Period
    OBVIOUS
  <2>2. ~(r.age >= s.age + Period) /\ ~(s.age >= r.age + Period)
    BY <1>1, <2>1, SamePeriod
  <2> QED BY <2>2 DEF RowsApart, Seen
<1>4. f \in Injection(S, T)
  BY <1>2, <1>3 DEF Injection, IsInjective
<1>5. Day \div Period \in Nat
  OBVIOUS
<1>6. IsFiniteSet(T) /\ Cardinality(T) = Day \div Period + 1
  BY <1>5, FS_Interval
<1>7. IsFiniteSet(S) /\ Cardinality(S) <= Cardinality(T)
  BY <1>4, <1>6, FS_Injection
<1>8. Cardinality(S) \in Nat
  BY <1>7, FS_CardinalityType
<1> QED BY <1>5, <1>6, <1>7, <1>8

\* The limit cuts nothing off a day, in every reachable state.
THEOREM DayIsLoadedWhole == Spec => []DayIsLoaded
<1>1. TypeOK /\ RowsApart => DayIsLoaded
  <2> SUFFICES ASSUME TypeOK, RowsApart, NEW d \in Devices, NEW r \in Seen(d, Day)
               PROVE  Place(r, Seen(d, Day)) < Limit
    BY DEF DayIsLoaded, Loaded
  <2> DEFINE S == Seen(d, Day)
             Older == {s \in S : s.age > r.age}
  <2>1. IsFiniteSet(S) /\ Cardinality(S) <= Limit
    BY RowsOfDay
  <2>2. Older \in SUBSET S /\ Older # S
    BY DEF Seen, TypeOK, Row
  <2>3. IsFiniteSet(Older) /\ Cardinality(Older) < Cardinality(S)
    <3>1. /\ IsFiniteSet(Older) /\ Cardinality(Older) <= Cardinality(S)
          /\ Cardinality(S) = Cardinality(Older) => S = Older
      BY <2>1, <2>2, FS_Subset
    <3> QED BY <2>1, <2>2, <3>1, FS_CardinalityType
  <2>4. Cardinality(S) \in Nat /\ Cardinality(Older) \in Nat
    BY <2>1, <2>3, FS_CardinalityType
  <2> QED BY <2>1, <2>3, <2>4, ChartAssumption DEF Place
<1> QED BY <1>1, TypeCorrect, SnapshotsApart, PTL

-----------------------------------------------------------------------------
(* The places that _downsample takes.                                      *)

\* Division, and what follows from products.
LEMMA Division ==
  ASSUME NEW a \in Nat, NEW b \in Nat \ {0}
  PROVE  /\ a \div b \in Nat /\ a % b \in 0 .. b - 1
         /\ a = b * (a \div b) + (a % b)
OBVIOUS

LEMMA Cancel ==
  ASSUME NEW a \in Int, NEW b \in Int, NEW m \in Nat \ {0}, m * a < m * b
  PROVE  a < b
<1>1. ASSUME a >= b PROVE FALSE
  <2>1. m * a >= m * b
    BY <1>1
  <2> QED BY <2>1
<1> QED BY <1>1

\* The place that is taken for i.
PlaceOf(i, n, low) == (i * n) \div MaxPoints - (IF i \in low THEN 1 ELSE 0)

Indices == 0 .. MaxPoints - 1

\* How far n is apart: step is the next whole number above n / MaxPoints.
Step(n) == (n + MaxPoints - 1) \div MaxPoints

LEMMA StepBound ==
  ASSUME NEW n \in Nat
  PROVE  /\ Step(n) \in Nat /\ MaxPoints * Step(n) >= n
         /\ n % MaxPoints # 0 => MaxPoints * Step(n) >= n + 1
<1> USE ChartAssumption
<1>1. /\ n + MaxPoints - 1 \in Nat
  OBVIOUS
<1>2. /\ Step(n) \in Nat
      /\ MaxPoints * Step(n) >= n
  <2>1. /\ Step(n) \in Nat
        /\ (n + MaxPoints - 1) % MaxPoints \in 0 .. MaxPoints - 1
        /\ n + MaxPoints - 1 = MaxPoints * Step(n) + ((n + MaxPoints - 1) % MaxPoints)
    BY <1>1, Division DEF Step
  <2>2. MaxPoints * Step(n) \in Nat
    BY <2>1
  <2> QED BY <2>1, <2>2
<1>3. ASSUME MaxPoints * Step(n) = n PROVE n % MaxPoints = 0
  <2> DEFINE q == n \div MaxPoints
             e == n % MaxPoints
             s == Step(n)
  <2>1. q \in Nat /\ e \in 0 .. MaxPoints - 1 /\ n = MaxPoints * q + e /\ s \in Nat
    BY <1>2, Division
  <2> HIDE DEF q, e, s
  <2>2. MaxPoints * s < MaxPoints * (q + 1)
    <3>1. MaxPoints * (q + 1) = MaxPoints * q + MaxPoints
      BY <2>1
    <3> QED BY <1>3, <2>1, <3>1 DEF s
  <2>3. s < q + 1
    BY <2>1, <2>2, Cancel
  <2>4. MaxPoints * q < MaxPoints * (s + 1)
    <3>1. MaxPoints * (s + 1) = MaxPoints * s + MaxPoints
      BY <2>1
    <3>2. MaxPoints * q \in Nat
      BY <2>1
    <3> QED BY <1>3, <2>1, <3>1, <3>2 DEF s
  <2>5. q < s + 1
    BY <2>1, <2>4, Cancel
  <2>6. q = s
    BY <2>1, <2>3, <2>5
  <2>7. e = 0
    <3>1. MaxPoints * q \in Nat
      BY <2>1
    <3> QED BY <1>3, <2>1, <2>6, <3>1 DEF s
  <2> QED BY <2>7 DEF e
<1>4. MaxPoints * Step(n) \in Nat
  BY <1>2
<1> QED BY <1>2, <1>3, <1>4

\* Numerator and place of an index.
LEMMA PlaceFacts ==
  ASSUME NEW n \in Nat, n > MaxPoints, NEW low \in SUBSET Rounded(n),
         NEW i \in Indices
  PROVE  /\ i * n \in Nat /\ i \in Nat
         /\ (i * n) \div MaxPoints \in Nat
         /\ (i * n) % MaxPoints \in 0 .. MaxPoints - 1
         /\ i * n = MaxPoints * ((i * n) \div MaxPoints) + ((i * n) % MaxPoints)
         /\ i \in low => i > 0 /\ (i * n) % MaxPoints = 0 /\ n % MaxPoints # 0
         /\ PlaceOf(i, n, low) \in Int
<1> USE ChartAssumption
<1>1. i \in Nat /\ i * n \in Nat
  BY DEF Indices
<1>2. /\ (i * n) \div MaxPoints \in Nat
      /\ (i * n) % MaxPoints \in 0 .. MaxPoints - 1
      /\ i * n = MaxPoints * ((i * n) \div MaxPoints) + ((i * n) % MaxPoints)
  BY <1>1, Division
<1>3. i \in low => i > 0 /\ (i * n) % MaxPoints = 0 /\ n % MaxPoints # 0
  BY DEF Rounded
<1> QED BY <1>1, <1>2, <1>3 DEF PlaceOf

\* Indices that follow one another have places that do.
LEMMA PlacesRise ==
  ASSUME NEW n \in Nat, n > MaxPoints, NEW low \in SUBSET Rounded(n),
         NEW i \in Indices, NEW j \in Indices, i < j
  PROVE  PlaceOf(i, n, low) < PlaceOf(j, n, low)
<1> DEFINE M == MaxPoints
           p == (i * n) \div MaxPoints
           q == (j * n) \div MaxPoints
           e == (i * n) % MaxPoints
           g == (j * n) % MaxPoints
<1>1. M \in Nat \ {0}
  BY ChartAssumption
<1>2. /\ i \in Nat /\ p \in Nat /\ e \in 0 .. M - 1 /\ i * n = M * p + e
  BY PlaceFacts
<1>3. /\ j \in Nat /\ q \in Nat /\ g \in 0 .. M - 1 /\ j * n = M * q + g
      /\ j \in low => g = 0
  BY PlaceFacts
<1>4. j * n >= i * n + n
  <2>1. PICK k \in Nat : j = i + 1 + k
    <3>1. j - i - 1 \in Nat /\ j = i + 1 + (j - i - 1)
      BY <1>2, <1>3
    <3> QED BY <3>1
  <2>2. (i + 1 + k) * n = i * n + n + k * n
    BY <1>2, <2>1
  <2>3. k * n \in Nat /\ i * n \in Nat
    BY <1>2, <2>1
  <2> QED BY <2>1, <2>2, <2>3
<1> HIDE DEF M, p, q, e, g
<1>5. M * q + g >= M * p + e + M + 1
  BY <1>1, <1>2, <1>3, <1>4 DEF M
<1>6. M * p \in Nat /\ M * q \in Nat /\ M * (p + 1) = M * p + M
  BY <1>1, <1>2, <1>3
<1>7. p < q
  <2>1. M * p < M * q
    BY <1>1, <1>2, <1>3, <1>5, <1>6
  <2> QED BY <1>1, <1>2, <1>3, <2>1, Cancel
<1>8. ASSUME j \in low PROVE p + 1 < q
  <2>1. M * (p + 1) < M * q
    BY <1>1, <1>2, <1>3, <1>5, <1>6, <1>8
  <2> QED BY <1>1, <1>2, <1>3, <2>1, Cancel
<1> QED BY <1>2, <1>3, <1>7, <1>8 DEF PlaceOf, p, q

\* Places are places of rows.
LEMMA PlacesExist ==
  ASSUME NEW n \in Nat, n > MaxPoints, NEW low \in SUBSET Rounded(n),
         NEW i \in Indices
  PROVE  PlaceOf(i, n, low) \in 0 .. n - 1
<1> DEFINE M == MaxPoints
           p == (i * n) \div MaxPoints
           e == (i * n) % MaxPoints
<1>1. M \in Nat \ {0} /\ n > M
  BY ChartAssumption
<1>2. /\ i \in 0 .. M - 1 /\ p \in Nat /\ e \in 0 .. M - 1 /\ i * n = M * p + e
      /\ i \in low => i > 0 /\ e = 0
  BY PlaceFacts DEF Indices
<1> HIDE DEF M, p, e
<1>3. p < n
  <2>1. i * n < M * n
    <3>1. PICK k \in Nat : M = i + 1 + k
      <4>1. M - i - 1 \in Nat /\ M = i + 1 + (M - i - 1)
        BY <1>1, <1>2
      <4> QED BY <4>1
    <3>2. (i + 1 + k) * n = i * n + n + k * n
      BY <1>2, <3>1
    <3>3. k * n \in Nat /\ i * n \in Nat /\ n > 0
      BY <1>1, <1>2, <3>1
    <3> QED BY <3>1, <3>2, <3>3
  <2>2. M * p < M * n
    <3>1. M * p \in Nat /\ M * n \in Nat /\ i * n \in Nat
      BY <1>1, <1>2
    <3> QED BY <1>2, <2>1, <3>1
  <2> QED BY <1>1, <1>2, <2>2, Cancel
<1>4. ASSUME i \in low PROVE p > 0
  <2>1. i * n >= n
    <3>1. PICK k \in Nat : i = 1 + k
      <4>1. i - 1 \in Nat /\ i = 1 + (i - 1)
        BY <1>1, <1>2, <1>4
      <4> QED BY <4>1
    <3>2. (1 + k) * n = n + k * n /\ k * n \in Nat
      BY <3>1
    <3> QED BY <3>1, <3>2
  <2>2. p # 0
    <3>1. ASSUME p = 0 PROVE FALSE
      BY <1>1, <1>2, <1>4, <2>1, <3>1
    <3> QED BY <3>1
  <2> QED BY <1>2, <2>2
<1> QED BY <1>1, <1>2, <1>3, <1>4 DEF PlaceOf, p

\* No place is a step or more away from the one taken before it.
LEMMA PlacesCover ==
  ASSUME NEW n \in Nat, n > MaxPoints, NEW low \in SUBSET Rounded(n),
         NEW k \in 0 .. n - 1
  PROVE  \E i \in Indices : /\ PlaceOf(i, n, low) <= k
                            /\ k < PlaceOf(i, n, low) + Step(n)
<1> DEFINE M == MaxPoints
           t == M * k + M - 1
           i == t \div n
           p == (i * n) \div M
           e == (i * n) % M
           s == Step(n)
<1>1. M \in Nat \ {0} /\ n > M /\ k \in Nat /\ k < n
  BY ChartAssumption
<1>2. t \in Nat
  BY <1>1
<1>3. i \in Nat /\ t % n \in 0 .. n - 1 /\ t = n * i + (t % n)
  <2> HIDE DEF t
  <2>1. n \in Nat \ {0}
    BY <1>1
  <2> QED BY <1>2, <2>1, Division
<1>4. i * n = n * i /\ i * n \in Nat /\ i * n <= t /\ i * n + n > t
  <2> HIDE DEF t, i
  <2> QED BY <1>1, <1>2, <1>3
<1>5. i \in Indices
  <2> HIDE DEF i
  <2>1. M * k + M = M * (k + 1) /\ M * (k + 1) <= M * n
    BY <1>1
  <2>2. n * i < n * M
    <3>1. n * M = M * n
      BY <1>1
    <3> QED BY <1>1, <1>3, <1>4, <2>1, <3>1
  <2>3. i < M
    BY <1>1, <1>3, <2>2, Cancel
  <2> QED BY <1>1, <1>3, <2>3 DEF Indices
<1>6. /\ p \in Nat /\ e \in 0 .. M - 1 /\ i * n = M * p + e
      /\ i \in low => e = 0 /\ n % M # 0
  BY <1>5, PlaceFacts
<1>7. s \in Nat /\ M * s >= n /\ (n % M # 0 => M * s >= n + 1)
  BY StepBound
<1>8. PlaceOf(i, n, low) = p - (IF i \in low THEN 1 ELSE 0)
  BY DEF PlaceOf
<1>9. t = M * k + M - 1
  OBVIOUS
<1> HIDE DEF M, t, i, p, e, s
<1>10. M * k \in Nat /\ M * p \in Nat /\ M * s \in Nat /\ M * (k + 1) = M * k + M
  BY <1>1, <1>6, <1>7
<1>11. p < k + 1
  <2>1. M * p < M * (k + 1)
    BY <1>1, <1>4, <1>6, <1>9, <1>10
  <2> QED BY <1>1, <1>6, <2>1, Cancel
<1>12. k < p + s
  <2>1. M * (p + s) = M * p + M * s
    BY <1>1, <1>6, <1>7
  <2>2. M * k < M * (p + s)
    BY <1>1, <1>4, <1>6, <1>7, <1>9, <1>10, <2>1
  <2> QED BY <1>1, <1>6, <1>7, <2>2, Cancel
<1>13. ASSUME i \in low PROVE k < p - 1 + s
  <2>1. M * (p - 1 + s) = M * p - M + M * s
    BY <1>1, <1>6, <1>7
  <2>2. M * k < M * (p - 1 + s)
    <3>1. M * s >= n + 1 /\ e = 0
      BY <1>6, <1>7, <1>13 DEF M
    <3> QED BY <1>1, <1>4, <1>6, <1>9, <1>10, <2>1, <3>1
  <2>3. p - 1 + s \in Int
    BY <1>6, <1>7
  <2> QED BY <1>1, <2>2, <2>3, Cancel
<1>14. PlaceOf(i, n, low) <= k /\ k < PlaceOf(i, n, low) + s
  BY <1>1, <1>6, <1>7, <1>8, <1>11, <1>12, <1>13
<1> QED BY <1>5, <1>14 DEF s

-----------------------------------------------------------------------------
(* Charts of a day.                                                        *)

\* The rows of a day stand in a line.
LEMMA PlacesOfRows ==
  ASSUME TypeOK, RowsApart, NEW d \in Devices,
         NEW R, R = Seen(d, Day), NEW n, n = Cardinality(R)
  PROVE  /\ IsFiniteSet(R) /\ n \in Nat
         /\ \A r \in R : Place(r, R) \in 0 .. n - 1
         /\ \A r, s \in R : Place(r, R) = Place(s, R) => r = s
         /\ \A k \in 0 .. n - 1 : \E r \in R : Place(r, R) = k
<1> DEFINE Older(r) == {s \in R : s.age > r.age}
           f == [r \in R |-> Place(r, R)]
<1>1. IsFiniteSet(R) /\ n \in Nat
  BY RowsOfDay, FS_CardinalityType
<1>2. \A r \in R : r.age \in Nat
  BY DEF Seen, TypeOK, Row
<1>3. \A r, s \in R : r # s => r.age # s.age
  BY <1>2, HistoryAssumption DEF RowsApart, Seen
<1>4. \A r \in R : /\ IsFiniteSet(Older(r)) /\ Place(r, R) = Cardinality(Older(r))
                   /\ Place(r, R) \in Nat
  <2> SUFFICES ASSUME NEW r \in R
               PROVE  /\ IsFiniteSet(Older(r)) /\ Place(r, R) = Cardinality(Older(r))
                      /\ Place(r, R) \in Nat
    OBVIOUS
  <2>1. IsFiniteSet(Older(r))
    <3>1. Older(r) \in SUBSET R
      OBVIOUS
    <3> QED BY <1>1, <3>1, FS_Subset
  <2>2. Place(r, R) = Cardinality(Older(r))
    BY DEF Place
  <2> QED BY <2>1, <2>2, FS_CardinalityType
<1>5. \A r \in R : Place(r, R) < n
  <2> SUFFICES ASSUME NEW r \in R PROVE Place(r, R) < n
    OBVIOUS
  <2>1. Older(r) \in SUBSET R /\ Older(r) # R
    BY <1>2
  <2>2. /\ Cardinality(Older(r)) <= Cardinality(R)
        /\ Cardinality(R) = Cardinality(Older(r)) => R = Older(r)
    BY <1>1, <2>1, FS_Subset
  <2> QED BY <1>1, <1>4, <2>1, <2>2
<1>6. \A r, s \in R : s.age > r.age => Place(s, R) < Place(r, R)
  <2> SUFFICES ASSUME NEW r \in R, NEW s \in R, s.age > r.age
               PROVE  Place(s, R) < Place(r, R)
    OBVIOUS
  <2>1. Older(s) \in SUBSET Older(r) /\ s \in Older(r) /\ s \notin Older(s)
    BY <1>2
  <2>2. /\ Cardinality(Older(s)) <= Cardinality(Older(r))
        /\ Cardinality(Older(r)) = Cardinality(Older(s)) => Older(r) = Older(s)
    BY <1>4, <2>1, FS_Subset
  <2>3. Cardinality(Older(r)) # Cardinality(Older(s))
    BY <2>1, <2>2
  <2>4. /\ Place(r, R) = Cardinality(Older(r)) /\ Place(r, R) \in Nat
        /\ Place(s, R) = Cardinality(Older(s)) /\ Place(s, R) \in Nat
    BY <1>4
  <2> HIDE DEF Older
  <2> QED BY <2>2, <2>3, <2>4
<1>7. \A r, s \in R : Place(r, R) = Place(s, R) => r = s
  <2> SUFFICES ASSUME NEW r \in R, NEW s \in R, r # s
               PROVE  Place(r, R) # Place(s, R)
    OBVIOUS
  <2>1. r.age > s.age \/ s.age > r.age
    BY <1>2, <1>3
  <2>2. Place(r, R) \in Nat /\ Place(s, R) \in Nat
    BY <1>4
  <2>3. Place(r, R) < Place(s, R) \/ Place(s, R) < Place(r, R)
    BY <1>6, <2>1
  <2> QED BY <2>2, <2>3
<1>8. \A r \in R : Place(r, R) \in 0 .. n - 1
  <2> SUFFICES ASSUME NEW r \in R PROVE Place(r, R) \in 0 .. n - 1
    OBVIOUS
  <2>1. Place(r, R) \in Nat /\ Place(r, R) < n
    BY <1>4, <1>5
  <2> QED BY <1>1, <2>1
<1>9. f \in Injection(R, 0 .. n - 1)
  BY <1>7, <1>8 DEF Injection, IsInjective
<1>10. IsFiniteSet(0 .. n - 1) /\ Cardinality(0 .. n - 1) = n
  <2>1. n \in Nat
    BY <1>1
  <2>2. n - 1 \in Int /\ 0 \in Int
    BY <2>1
  <2>3. /\ IsFiniteSet(0 .. n - 1)
        /\ Cardinality(0 .. n - 1) = IF 0 > n - 1 THEN 0 ELSE n - 1 - 0 + 1
    BY <2>2, FS_Interval
  <2> QED BY <2>1, <2>3
<1>11. f \in Surjection(R, 0 .. n - 1)
  BY <1>9, <1>10, FS_Injection
<1>12. \A k \in 0 .. n - 1 : \E r \in R : Place(r, R) = k
  BY <1>11 DEF Surjection
<1> QED BY <1>1, <1>7, <1>8, <1>12

\* A chart that has room for all rows shows them.
LEMMA SmallChart ==
  ASSUME TypeOK, RowsApart, DayIsLoaded, NEW d \in Devices,
         Cardinality(Seen(d, Day)) <= MaxPoints
  PROVE  Faithful(d, Day)
<1> DEFINE R == Seen(d, Day)
           n == Cardinality(R)
           step == (n + MaxPoints - 1) \div MaxPoints
<1>1. /\ IsFiniteSet(R) /\ n \in Nat
      /\ \A r \in R : Place(r, R) \in 0 .. n - 1
  BY PlacesOfRows
<1>2. \A low : Chart(d, Day, low) = R
  BY <1>1 DEF Chart, Taken, DayIsLoaded
<1>3. \A r \in R : step > 0
  <2> SUFFICES ASSUME NEW r \in R PROVE step > 0
    OBVIOUS
  <2>1. n > 0
    BY <1>1
  <2>2. step \in Nat /\ MaxPoints * step >= n
    BY <1>1, StepBound DEF Step
  <2> HIDE DEF step, n
  <2>3. step # 0
    BY <1>1, <2>1, <2>2, ChartAssumption
  <2> QED BY <2>2, <2>3
<1>4. \A r \in R : Place(r, R) <= Place(r, R) /\ Place(r, R) < Place(r, R) + step
  <2>1. step \in Nat
    BY <1>1, StepBound DEF Step
  <2> HIDE DEF step, n
  <2> QED BY <1>1, <1>3, <2>1
<1> QED BY <1>2, <1>4 DEF Faithful

\* A chart that has not shows points that stand for all of them.
LEMMA LargeChart ==
  ASSUME TypeOK, RowsApart, DayIsLoaded, NEW d \in Devices,
         Cardinality(Seen(d, Day)) > MaxPoints
  PROVE  Faithful(d, Day)
<1> DEFINE R == Seen(d, Day)
           n == Cardinality(R)
<1>1. /\ IsFiniteSet(R) /\ n \in Nat /\ n > MaxPoints
      /\ \A r \in R : Place(r, R) \in 0 .. n - 1
      /\ \A r, s \in R : Place(r, R) = Place(s, R) => r = s
      /\ \A k \in 0 .. n - 1 : \E r \in R : Place(r, R) = k
  BY PlacesOfRows
<1> SUFFICES ASSUME NEW low \in SUBSET Rounded(n)
             PROVE  LET C == Chart(d, Day, low) IN
                    /\ Cardinality(C) = MaxPoints
                    /\ \A r \in R : \E c \in C :
                         /\ Place(c, R) <= Place(r, R)
                         /\ Place(r, R) < Place(c, R) + Step(n)
  BY <1>1, ChartAssumption DEF Faithful, Step
<1> DEFINE C == Chart(d, Day, low)
           h == [i \in Indices |-> CHOOSE r \in R : Place(r, R) = PlaceOf(i, n, low)]
<1>2. C = {r \in R : \E i \in Indices : Place(r, R) = PlaceOf(i, n, low)}
  <2>1. Taken(n, low) = {PlaceOf(i, n, low) : i \in Indices}
    BY <1>1, ChartAssumption DEF Taken, PlaceOf, Indices
  <2> QED BY <2>1 DEF Chart, DayIsLoaded
<1> HIDE DEF C, R, n
<1>3. \A i \in Indices : h[i] \in R /\ Place(h[i], R) = PlaceOf(i, n, low)
  <2> SUFFICES ASSUME NEW i \in Indices
               PROVE  h[i] \in R /\ Place(h[i], R) = PlaceOf(i, n, low)
    OBVIOUS
  <2>1. PlaceOf(i, n, low) \in 0 .. n - 1
    BY <1>1, PlacesExist
  <2> QED BY <1>1, <2>1
<1> HIDE DEF h
<1>4. \A i, j \in Indices : h[i] = h[j] => i = j
  <2> SUFFICES ASSUME NEW i \in Indices, NEW j \in Indices, i # j
               PROVE  PlaceOf(i, n, low) # PlaceOf(j, n, low)
    BY <1>3
  <2>1. i < j \/ j < i
    BY ChartAssumption DEF Indices
  <2>2. PlaceOf(i, n, low) \in Int /\ PlaceOf(j, n, low) \in Int
    BY <1>1, PlaceFacts
  <2> QED BY <1>1, <2>1, <2>2, PlacesRise
<1>5. h \in Bijection(Indices, C)
  <2>1. h \in [Indices -> C]
    BY <1>2, <1>3 DEF h
  <2>2. \A c \in C : \E i \in Indices : h[i] = c
    BY <1>1, <1>2, <1>3
  <2> QED BY <1>4, <2>1, <2>2 DEF Bijection, Injection, Surjection, IsInjective
<1>6. Cardinality(C) = MaxPoints
  <2>1. IsFiniteSet(Indices) /\ Cardinality(Indices) = MaxPoints
    BY ChartAssumption, FS_Interval DEF Indices
  <2>2. ExistsBijection(Indices, C)
    BY <1>5 DEF ExistsBijection
  <2> QED BY <2>1, <2>2, FS_Bijection
<1>7. ASSUME NEW r \in R
      PROVE  \E c \in C : /\ Place(c, R) <= Place(r, R)
                          /\ Place(r, R) < Place(c, R) + Step(n)
  <2>1. Place(r, R) \in 0 .. n - 1
    BY <1>1
  <2>2. PICK i \in Indices : /\ PlaceOf(i, n, low) <= Place(r, R)
                             /\ Place(r, R) < PlaceOf(i, n, low) + Step(n)
    BY <1>1, <2>1, PlacesCover
  <2>3. h[i] \in C /\ Place(h[i], R) = PlaceOf(i, n, low)
    BY <1>2, <1>3
  <2> QED BY <2>2, <2>3
<1> QED BY <1>6, <1>7 DEF C, R, n

\* The chart of a day is faithful in every reachable state.
THEOREM DayIsChartedFaithfully == Spec => []DayChartIsFaithful
<1>1. TypeOK /\ RowsApart /\ DayIsLoaded => DayChartIsFaithful
  <2> SUFFICES ASSUME TypeOK, RowsApart, DayIsLoaded, NEW d \in Devices
               PROVE  Faithful(d, Day)
    BY DEF DayChartIsFaithful
  <2>1. Cardinality(Seen(d, Day)) \in Nat
    BY RowsOfDay, FS_CardinalityType
  <2>2. Cardinality(Seen(d, Day)) <= MaxPoints \/ Cardinality(Seen(d, Day)) > MaxPoints
    BY <2>1, ChartAssumption
  <2> QED BY <2>2, SmallChart, LargeChart
<1> QED BY <1>1, TypeCorrect, SnapshotsApart, DayIsLoadedWhole, PTL

=============================================================================
