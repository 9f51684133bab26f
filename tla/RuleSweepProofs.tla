-------------------------- MODULE RuleSweepProofs ---------------------------
(***************************************************************************)
(* Proofs about RuleSweep, for any number of rules and any triggers: the   *)
(* three safety invariants and the action property of its runs.  They rest *)
(* on one inductive invariant, which adds to them where ids come from and  *)
(* what the rows a sweep still holds have to do with the table.            *)
(***************************************************************************)
EXTENDS RuleSweep, TLAPS

-----------------------------------------------------------------------------
(* Type correctness.                                                       *)

\* Editing a row with a PUT body gives a row.
LEMMA UpdatedType ==
  ASSUME NEW w \in Rule, NEW put \in Change
  PROVE  Updated(w, put) \in Rule
<1>1. /\ put.on # Same => put.on \in BOOLEAN
      /\ put.trigger # Same => put.trigger \in Triggers
      /\ put.action # Same => put.action \in Actions
  BY RuleAssumption DEF Change
<1>2. /\ w.on \in BOOLEAN /\ w.trigger \in Triggers
      /\ w.action \in Actions /\ w.fired \in BOOLEAN
  BY DEF Rule
<1> QED BY <1>1, <1>2 DEF Rule, Updated

\* Every step keeps the types: the rows, the sweep and what it holds.
LEMMA TypeStep == TypeOK /\ [Next]_vars => TypeOK'
<1> SUFFICES ASSUME TypeOK, [Next]_vars PROVE TypeOK'
  OBVIOUS
<1> USE DEF TypeOK
<1>1. ASSUME NEW k \in Rules, NEW w \in NewRule, Create(k, w) PROVE TypeOK'
  <2>1. w \in Rule
    BY DEF NewRule
  <2> QED BY <1>1, <2>1 DEF Create, Edits
<1>2. ASSUME NEW k \in Rules, NEW put \in Change, Update(k, put) PROVE TypeOK'
  <2>1. Updated(row[k], put) \in Rule
    BY <1>2, UpdatedType DEF Update
  <2> QED BY <1>2, <2>1 DEF Update, Edits
<1>3. ASSUME NEW k \in Rules, Delete(k) PROVE TypeOK'
  BY <1>3 DEF Delete, Edits
<1>4. CASE SweepStarts
  BY <1>4 DEF SweepStarts, NoSweep
<1>5. ASSUME NEW k \in Rules, Pick(k) PROVE TypeOK'
  BY <1>5 DEF Pick
<1>6. CASE Evaluated
  BY <1>6 DEF Evaluated
<1>7. CASE EvaluationRaises
  BY <1>7 DEF EvaluationRaises
<1>8. CASE Acted
  BY <1>8 DEF Acted, Commands, cur
<1>9. CASE ActRaises
  BY <1>9 DEF ActRaises, Commands, cur
<1>10. CASE SweepEnds
  <2>1. ASSUME NEW k \in Rules PROVE Stamped(k) \in Rule \cup {NoRule}
    BY DEF Stamped, Rule
  <2>2. sweep' = NoSweep /\ row' \in [Rules -> Rule \cup {NoRule}]
    BY <1>10, <2>1 DEF SweepEnds
  <2> QED BY <1>10, <2>2 DEF SweepEnds, NoSweep
<1>11. CASE CommitFails
  BY <1>11 DEF CommitFails, NoSweep
<1>12. CASE GoesDown \/ ComesUp
  BY <1>12 DEF GoesDown, ComesUp, NoSweep, Down, Commands, cur
<1>13. CASE WorldMoves
  BY <1>13 DEF WorldMoves
<1>14. CASE UNCHANGED vars
  BY <1>14 DEF vars
<1> QED
  BY <1>1, <1>2, <1>3, <1>4, <1>5, <1>6, <1>7, <1>8, <1>9, <1>10, <1>11,
     <1>12, <1>13, <1>14 DEF Next, SweepStep

\* Every variable has its type in every reachable state.
THEOREM TypeCorrect == Spec => []TypeOK
<1>1. Init => TypeOK
  BY DEF Init, TypeOK, NoSweep
<1> QED BY <1>1, TypeStep, PTL DEF Spec

-----------------------------------------------------------------------------
(* The inductive invariant.                                                *)

\* The rule the sweep is busy with, and those it has yet to pick.
Busy(k) == k = cur /\ sweep.step \in {"evaluating", "acting"}
Ahead(k) == k \in sweep.todo \/ Busy(k)

\* What the sweep holds of such a rule is what the table says, unless a
\* request has touched it since.
HeldIsCurrent ==
  \A k \in Rules : Ahead(k) /\ k \notin edited =>
    /\ row[k] # NoRule
    /\ row[k].on
    /\ row[k].trigger = sweep.held[k].trigger
    /\ row[k].action = sweep.held[k].action

\* A new row's id is one that no sweep has ever seen.
IdsAreBorn == /\ \A k \in Rules : row[k] # NoRule => k \in born
              /\ \A k \in Rules : Ahead(k) => k \in born
              /\ reached \subseteq born

\* The stamps belong to the sweep under way, whose rules have run.
StampsAreDue == /\ sweep.step \in {"idle", "down"} => sweep.stamps = {}
                /\ sweep.stamps \subseteq ran

IInv == /\ TypeOK /\ HeldIsCurrent /\ IdsAreBorn
        /\ StampsAreDue /\ ReachedIsStamped /\ StampMeansRan

\* No request changes the stamp of a rule it leaves in the table, and a new
\* rule has none.
LEMMA UpdatedStamp ==
  ASSUME NEW w \in Rule, NEW put \in Change
  PROVE  Updated(w, put).fired = w.fired
BY DEF Updated, Rule

\* What a request on k leaves alone: the sweep and every other rule.
LEMMA EditStep ==
  ASSUME IInv, NEW k \in Rules, NEW w, Edits(k, w), TypeOK',
         w # NoRule => w \in Rule /\ (w.fired => k \in ran),
         w # NoRule => k \in born',
         born \subseteq born',
         k \in reached \ (lost \cup sweep.stamps) => w = NoRule \/ w.fired
  PROVE  IInv'
<1> USE DEF IInv, Edits
<1>1. /\ row' = [row EXCEPT ![k] = w]
      /\ edited' = edited \cup {k}
      /\ sweep' = sweep /\ reached' = reached /\ ran' = ran /\ lost' = lost
  OBVIOUS
<1>2. StampsAreDue'
  BY <1>1 DEF StampsAreDue, cur
<1>3. \A j \in Rules : row'[j] = IF j = k THEN w ELSE row[j]
  BY <1>1 DEF TypeOK
<1>4. HeldIsCurrent'
  BY <1>1, <1>3 DEF HeldIsCurrent, Ahead, Busy, cur
<1>5. IdsAreBorn'
  BY <1>1, <1>3 DEF IdsAreBorn, Ahead, Busy, cur
<1>6. ReachedIsStamped'
  <2> SUFFICES ASSUME NEW j \in reached \ (lost \cup sweep.stamps)
               PROVE  row'[j] = NoRule \/ row'[j].fired
    BY <1>1 DEF ReachedIsStamped
  <2>1. j \in Rules
    BY DEF TypeOK
  <2> QED BY <2>1, <1>3 DEF ReachedIsStamped
<1>7. StampMeansRan'
  BY <1>1, <1>3 DEF StampMeansRan
<1> QED BY <1>2, <1>4, <1>5, <1>6, <1>7

\* A step inside the loop: the table and the requests stand still, and what
\* the sweep is busy with, or has yet to pick, was so before.
LEMMA LoopStep ==
  ASSUME IInv, TypeOK',
         UNCHANGED <<row, born, edited>>,
         sweep'.step \notin {"idle", "down"},
         sweep'.held = sweep.held,
         \A k \in Rules : Ahead(k)' => Ahead(k),
         sweep.stamps \subseteq sweep'.stamps, sweep'.stamps \subseteq ran',
         ran \subseteq ran', lost \subseteq lost',
         reached' \subseteq born,
         reached' \subseteq reached \cup lost' \cup sweep'.stamps
  PROVE  IInv'
<1> USE DEF IInv
<1>1. HeldIsCurrent'
  BY DEF HeldIsCurrent
<1>2. IdsAreBorn'
  BY DEF IdsAreBorn
<1>3. StampsAreDue'
  BY DEF StampsAreDue
<1>4. ReachedIsStamped'
  BY DEF ReachedIsStamped
<1>5. StampMeansRan'
  BY DEF StampMeansRan
<1> QED BY <1>1, <1>2, <1>3, <1>4, <1>5

\* A step that ends the sweep, or the process: the stamps it held are in the
\* table or lost.
LEMMA EndStep ==
  ASSUME IInv, TypeOK', sweep' \in {NoSweep, Down},
         UNCHANGED <<born, ran, edited>>,
         lost \subseteq lost',
         reached' \subseteq born,
         reached' \subseteq reached \cup lost',
         \A k \in Rules : \/ row'[k] = row[k] /\ (k \in lost' \/ k \notin sweep.stamps)
                          \/ k \in sweep.stamps /\ row'[k] = Stamped(k)
  PROVE  IInv'
<1> USE DEF IInv
<1>1. \A k \in Rules : ~Ahead(k)'
  BY DEF Ahead, Busy, NoSweep, Down
<1>2. \A k \in Rules : row[k] # NoRule => row[k] \in Rule
  BY DEF TypeOK
<1>3. \A k \in Rules : row[k] # NoRule => Stamped(k).fired
  BY <1>2 DEF Stamped, Rule
<1>4. HeldIsCurrent'
  BY <1>1 DEF HeldIsCurrent
<1>5. IdsAreBorn'
  BY <1>1 DEF IdsAreBorn, Stamped
<1>6. StampsAreDue'
  BY DEF StampsAreDue, NoSweep, Down
<1>7. ReachedIsStamped'
  <2> SUFFICES ASSUME NEW k \in reached', k \notin lost'
               PROVE  row'[k] = NoRule \/ row'[k].fired
    BY DEF ReachedIsStamped
  <2>1. k \in Rules /\ k \in reached
    BY DEF TypeOK
  <2>2. CASE k \in sweep.stamps
    BY <2>1, <2>2, <1>3 DEF Stamped
  <2>3. CASE k \notin sweep.stamps
    BY <2>1, <2>3 DEF ReachedIsStamped
  <2> QED BY <2>2, <2>3
<1>8. StampMeansRan'
  BY DEF StampMeansRan, Stamped, StampsAreDue
<1> QED BY <1>4, <1>5, <1>6, <1>7, <1>8

\* Every step keeps the invariant; one case for each action.
LEMMA InvStep == IInv /\ [Next]_vars => IInv'
<1> SUFFICES ASSUME IInv, [Next]_vars PROVE IInv'
  OBVIOUS
<1>0. TypeOK'
  BY TypeStep DEF IInv
<1>1. ASSUME NEW k \in Rules, NEW w \in NewRule, Create(k, w) PROVE IInv'
  <2>1. w \in Rule /\ ~w.fired /\ k \notin born /\ born' = born \cup {k}
    BY <1>1 DEF NewRule, Create
  <2>2. k \notin reached
    BY <2>1 DEF IInv, IdsAreBorn
  <2> QED BY <1>0, <1>1, <2>1, <2>2, EditStep DEF Create
<1>2. ASSUME NEW k \in Rules, NEW put \in Change, Update(k, put) PROVE IInv'
  <2> DEFINE w == Updated(row[k], put)
  <2>1. row[k] \in Rule /\ row[k] # NoRule
    BY <1>2 DEF Update, IInv, TypeOK
  <2>2. w \in Rule /\ w.fired = row[k].fired
    BY <2>1, UpdatedType, UpdatedStamp
  <2>3. k \in born /\ born' = born /\ (row[k].fired => k \in ran)
    BY <1>2, <2>1 DEF Update, IInv, IdsAreBorn, StampMeansRan
  <2>4. k \in reached \ (lost \cup sweep.stamps) => row[k].fired
    BY <2>1 DEF IInv, ReachedIsStamped
  <2> HIDE DEF w
  <2>5. Edits(k, w)
    BY <1>2 DEF Update, w
  <2> QED BY <1>0, <2>2, <2>3, <2>4, <2>5, EditStep
<1>3. ASSUME NEW k \in Rules, Delete(k) PROVE IInv'
  BY <1>0, <1>3, EditStep DEF Delete
<1>4. CASE SweepStarts
  <2>1. \A k \in Rules : Ahead(k)' => Loaded(k) /\ sweep'.held[k] = row[k]
    BY <1>4 DEF SweepStarts, NoSweep, Ahead, Busy
  <2>2. HeldIsCurrent'
    BY <1>4, <2>1 DEF HeldIsCurrent, SweepStarts, Loaded
  <2>3. IdsAreBorn'
    BY <1>4, <2>1 DEF IInv, IdsAreBorn, SweepStarts, Loaded
  <2>4. StampsAreDue' /\ sweep'.stamps = {} /\ sweep.stamps = {}
    BY <1>4 DEF IInv, StampsAreDue, SweepStarts, NoSweep
  <2>5. ReachedIsStamped' /\ StampMeansRan'
    BY <1>4, <2>4 DEF IInv, ReachedIsStamped, StampMeansRan, SweepStarts
  <2> QED BY <1>0, <2>2, <2>3, <2>4, <2>5 DEF IInv
<1>5. ASSUME NEW k \in Rules, Pick(k) PROVE IInv'
  <2>1. \A j \in Rules : Ahead(j)' => Ahead(j)
    BY <1>5 DEF IInv, TypeOK, Pick, Ahead, Busy, cur
  <2>2. sweep'.step \notin {"idle", "down"} /\ sweep'.held = sweep.held
        /\ sweep'.stamps = sweep.stamps
    BY <1>5 DEF IInv, TypeOK, Pick
  <2> QED BY <1>0, <1>5, <2>1, <2>2, LoopStep
          DEF Pick, IInv, StampsAreDue, IdsAreBorn
<1>6. CASE Evaluated \/ EvaluationRaises
  <2>1. \A j \in Rules : Ahead(j)' => Ahead(j)
    BY <1>6 DEF IInv, TypeOK, Evaluated, EvaluationRaises, Ahead, Busy, cur
  <2>2. sweep'.step \notin {"idle", "down"} /\ sweep'.held = sweep.held
        /\ sweep'.stamps = sweep.stamps
    BY <1>6 DEF IInv, TypeOK, Evaluated, EvaluationRaises
  <2> QED BY <1>0, <1>6, <2>1, <2>2, LoopStep
          DEF Evaluated, EvaluationRaises, IInv, StampsAreDue, IdsAreBorn
<1>7. CASE Acted \/ ActRaises
  <2>1. \A j \in Rules : Ahead(j)' => Ahead(j)
    BY <1>7 DEF IInv, TypeOK, Acted, ActRaises, Ahead, Busy, cur
  <2>2. cur \in born
    BY <1>7 DEF IInv, TypeOK, IdsAreBorn, Acted, ActRaises, Ahead, Busy, cur
  <2>3. CASE Acted
    <3>1. sweep'.step \notin {"idle", "down"} /\ sweep'.held = sweep.held
          /\ sweep'.stamps = sweep.stamps \cup {cur}
      BY <2>3 DEF IInv, TypeOK, Acted
    <3> QED BY <1>0, <2>1, <2>2, <2>3, <3>1, LoopStep
            DEF Acted, Commands, IInv, StampsAreDue, IdsAreBorn
  <2>4. CASE ActRaises
    <3>1. sweep'.step \notin {"idle", "down"} /\ sweep'.held = sweep.held
          /\ sweep'.stamps = sweep.stamps
      BY <2>4 DEF IInv, TypeOK, ActRaises
    <3> QED BY <1>0, <2>1, <2>2, <2>4, <3>1, LoopStep
            DEF ActRaises, Commands, IInv, StampsAreDue, IdsAreBorn
  <2> QED BY <1>7, <2>3, <2>4
<1>8. CASE SweepEnds
  <2>1. \A k \in Rules : row'[k] = IF k \in sweep.stamps THEN Stamped(k)
                                                         ELSE row[k]
    BY <1>8 DEF SweepEnds
  <2> QED BY <1>0, <1>8, <2>1, EndStep DEF SweepEnds, IInv, IdsAreBorn
<1>9. CASE CommitFails
  BY <1>0, <1>9, EndStep DEF CommitFails, IInv, IdsAreBorn
<1>10. CASE GoesDown
  <2>1. sweep.step = "acting" => cur \in born
    BY DEF IInv, TypeOK, IdsAreBorn, Ahead, Busy, cur
  <2> QED BY <1>0, <1>10, <2>1, EndStep DEF GoesDown, Commands, IInv, IdsAreBorn
<1>11. CASE ComesUp
  <2>1. sweep.stamps = {}
    BY <1>11 DEF ComesUp, IInv, StampsAreDue
  <2> QED BY <1>0, <1>11, <2>1, EndStep DEF ComesUp, IInv, IdsAreBorn
<1>12. CASE WorldMoves \/ UNCHANGED vars
  BY <1>0, <1>12
     DEF WorldMoves, vars, IInv, HeldIsCurrent, IdsAreBorn, StampsAreDue,
         ReachedIsStamped, StampMeansRan, Ahead, Busy, cur
<1> QED
  BY <1>1, <1>2, <1>3, <1>4, <1>5, <1>6, <1>7, <1>8, <1>9, <1>10, <1>11,
     <1>12
  DEF Next, SweepStep

\* The invariant holds in every reachable state.
THEOREM IInvHolds == Spec => []IInv
<1>1. Init => IInv
  <2> SUFFICES ASSUME Init PROVE IInv
    OBVIOUS
  <2>1. TypeOK
    BY DEF Init, TypeOK, NoSweep
  <2> QED BY <2>1 DEF Init, NoSweep, IInv, HeldIsCurrent, IdsAreBorn, Ahead,
                      Busy, cur, StampsAreDue, ReachedIsStamped, StampMeansRan
<1> QED BY <1>1, InvStep, PTL DEF Spec

-----------------------------------------------------------------------------

\* A sweep acts on rules as they are in the table, or as they were until a
\* request changed them during that sweep.
THEOREM ActingIsCurrent == Spec => []ActsOnCurrentRules
<1>1. IInv => ActsOnCurrentRules
  BY DEF IInv, TypeOK, HeldIsCurrent, ActsOnCurrentRules, Ahead, Busy, cur
<1> QED BY <1>1, IInvHolds, PTL

\* A rule whose command has reached the provider is stamped, whatever
\* happens to the others.
LEMMA StampsAreKept == Spec => []ReachedIsStamped
<1>1. IInv => ReachedIsStamped
  BY DEF IInv
<1> QED BY <1>1, IInvHolds, PTL

\* No rule is stamped that has not acted.
LEMMA StampsAreEarned == Spec => []StampMeansRan
<1>1. IInv => StampMeansRan
  BY DEF IInv
<1> QED BY <1>1, IInvHolds, PTL

\* Stamps and runs match, in both directions.
THEOREM StampsAreRight == Spec => []StampsMatchRuns
<1> QED BY StampsAreKept, StampsAreEarned, PTL DEF StampsMatchRuns

\* A step of the sweep changes nothing in the table but last_triggered.
THEOREM EditsAreKept == Spec => EditsSurviveSweep
<1> DEFINE Kept == \A k \in Rules :
                     \/ row'[k] = row[k]
                     \/ /\ row[k] # NoRule
                        /\ row'[k] = [row[k] EXCEPT !.fired = TRUE]
<1>1. TypeOK /\ [Next]_vars => (sweep' # sweep => Kept)
  <2> SUFFICES ASSUME TypeOK, [Next]_vars, sweep' # sweep PROVE Kept
    OBVIOUS
  <2>1. ASSUME NEW k \in Rules, NEW w, Edits(k, w) PROVE FALSE
    BY <2>1 DEF Edits
  <2>2. CASE SweepEnds
    BY <2>2 DEF SweepEnds, Stamped
  <2>3. CASE UNCHANGED row
    BY <2>3
  <2> QED
    BY <2>1, <2>2, <2>3
    DEF Next, SweepStep, Create, Update, Delete, SweepStarts, Pick, Evaluated,
        EvaluationRaises, Acted, ActRaises, CommitFails, GoesDown, ComesUp,
        WorldMoves, vars
<1> QED BY <1>1, TypeCorrect, PTL DEF Spec, EditsSurviveSweep

=============================================================================
