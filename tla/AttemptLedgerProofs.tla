------------------------- MODULE AttemptLedgerProofs -------------------------
(***************************************************************************)
(* What the attempt ledger guarantees for every set of attempts, actors,   *)
(* scopes and amounts, whatever calls its transactions and in which order. *)
(***************************************************************************)
EXTENDS AttemptLedger, DataTheorems, TLAPS

\* A sweep moves pending attempts to unknown and touches nothing else.
LEMMA SweptOnlyPending ==
    ASSUME LedgerTypeOK
    PROVE  /\ Swept \in [Ids -> States]
           /\ \A i \in Ids : Swept[i] # event[i] =>
                  event[i] = "pending" /\ Swept[i] = "outcome_unknown" /\ i \in Attempts
  BY DEF LedgerTypeOK, Swept, States

\* The opening transactions keep the types.
LEMMA InsertTypes ==
    ASSUME LedgerTypeOK, NEW i \in Ids, NEW state \in States, NEW r \in Roots,
           Insert(i, state, r)
    PROVE  LedgerTypeOK'
  BY SweptOnlyPending DEF LedgerTypeOK, Insert, Purged

LEMMA TypesInit == LedgerInit => LedgerTypeOK
  BY AmountsAssumption, MonthAssumption DEF LedgerInit, LedgerTypeOK, States

LEMMA TypesStep ==
    ASSUME LedgerTypeOK, [LedgerNext]_ledger
    PROVE  LedgerTypeOK'
<1> USE DEF Ids
<1>1. ASSUME NEW a \in Attempts, NEW who \in Actors, NEW cost \in Costs,
             NEW pred \in Attempts \cup {None}, NEW status \in {429, 529},
             BeginAttempt(a, who, cost, pred, status)
      PROVE  LedgerTypeOK'
  <2>1. [who |-> who, cost |-> cost, pred |-> pred] \in Roots
    BY DEF Roots
  <2> QED
    BY <1>1, <2>1, InsertTypes DEF BeginAttempt, States
<1>2. ASSUME NEW p \in Plain, NEW who \in Actors, NEW cost \in Costs,
             ReserveBudget(p, who, cost)
      PROVE  LedgerTypeOK'
  <2>1. [who |-> who, cost |-> cost, pred |-> None] \in Roots
    BY DEF Roots
  <2> QED
    BY <1>2, <2>1, InsertTypes DEF ReserveBudget, States
<1>3. ASSUME NEW a \in Attempts, NEW state \in Settled, NEW cost \in Charges,
             Finalize(a, state, cost)
      PROVE  LedgerTypeOK'
  BY <1>3, MonthAssumption DEF LedgerTypeOK, Finalize, States
<1>4. ASSUME NEW a \in Attempts, MarkUnknown(a) PROVE LedgerTypeOK'
  BY <1>4 DEF LedgerTypeOK, MarkUnknown, States
<1>5. CASE Sweep
  BY <1>5, SweptOnlyPending DEF LedgerTypeOK, Sweep
<1>6. ASSUME NEW i \in Ids, Release(i) \/ Refresh(i) \/ Expire(i) PROVE LedgerTypeOK'
  BY <1>6 DEF LedgerTypeOK, Release, Refresh, Expire
<1>7. CASE NewMonth
  BY <1>7, MonthAssumption DEF LedgerTypeOK, NewMonth
<1>8. CASE UNCHANGED ledger
  BY <1>8 DEF LedgerTypeOK, ledger
<1> QED
  BY <1>1, <1>2, <1>3, <1>4, <1>5, <1>6, <1>7, <1>8 DEF LedgerNext

(***************************************************************************)
(* One step of one attempt: what any transaction may do to it.             *)
(***************************************************************************)

\* Every transaction leaves an attempt alone, opens it with its hold, gives it
\* up with its hold, or settles it and drops the hold.
AttemptStep(a) ==
    \/ event'[a] = event[a] /\ (a \in hold' <=> a \in hold) /\ usage'[a] = usage[a]
    \/ event[a] = "none" /\ event'[a] = "pending" /\ a \in hold' /\ usage'[a] = usage[a]
    \/ /\ event[a] = "pending" /\ event'[a] = "outcome_unknown"
       /\ (a \in hold' <=> a \in hold) /\ usage'[a] = usage[a]
    \/ event[a] = "pending" /\ event'[a] \in Settled /\ a \notin hold'

LEMMA InsertStep ==
    ASSUME LedgerTypeOK, NEW i \in Ids, NEW state \in {"pending", "row"}, NEW r \in Roots,
           Insert(i, state, r), i \in Attempts <=> state = "pending", NEW a \in Attempts
    PROVE  AttemptStep(a)
<1>1. a \in Ids /\ a \notin Purged
  BY IdsAssumption DEF Ids, Purged
<1>2. CASE a = i
  BY <1>1, <1>2, SweptOnlyPending DEF Insert, AttemptStep, LedgerTypeOK
<1>3. CASE a # i
  <2>1. event'[a] = Swept[a] /\ (a \in hold' <=> a \in hold) /\ usage'[a] = usage[a]
    BY <1>1, <1>3, SweptOnlyPending DEF Insert
  <2> QED
    BY <1>1, <2>1, SweptOnlyPending DEF AttemptStep
<1> QED
  BY <1>2, <1>3

LEMMA EveryStep ==
    ASSUME LedgerTypeOK, [LedgerNext]_ledger, NEW a \in Attempts
    PROVE  AttemptStep(a)
<1>0. a \in Ids /\ Attempts \cap Plain = {}
  BY IdsAssumption DEF Ids
<1>1. ASSUME NEW b \in Attempts, NEW who \in Actors, NEW cost \in Costs,
             NEW pred \in Attempts \cup {None}, NEW status \in {429, 529},
             BeginAttempt(b, who, cost, pred, status)
      PROVE  AttemptStep(a)
  <2>1. [who |-> who, cost |-> cost, pred |-> pred] \in Roots /\ b \in Ids
    BY DEF Roots, Ids
  <2> QED
    BY <1>1, <2>1, InsertStep DEF BeginAttempt
<1>2. ASSUME NEW p \in Plain, NEW who \in Actors, NEW cost \in Costs,
             ReserveBudget(p, who, cost)
      PROVE  AttemptStep(a)
  <2>1. [who |-> who, cost |-> cost, pred |-> None] \in Roots /\ p \in Ids /\ p \notin Attempts
    BY <1>0 DEF Roots, Ids
  <2> QED
    BY <1>2, <2>1, InsertStep DEF ReserveBudget
<1>3. ASSUME NEW b \in Attempts, NEW state \in Settled, NEW cost \in Charges,
             Finalize(b, state, cost)
      PROVE  AttemptStep(a)
  BY <1>0, <1>3 DEF Finalize, AttemptStep, LedgerTypeOK, Ids
<1>4. ASSUME NEW b \in Attempts, MarkUnknown(b) PROVE AttemptStep(a)
  BY <1>0, <1>4 DEF MarkUnknown, AttemptStep, LedgerTypeOK, Ids
<1>5. CASE Sweep
  BY <1>0, <1>5, SweptOnlyPending DEF Sweep, AttemptStep
<1>6. ASSUME NEW i \in Ids, Release(i) \/ Refresh(i) \/ Expire(i) PROVE AttemptStep(a)
  BY <1>0, <1>6 DEF Release, Refresh, Expire, AttemptStep
<1>7. CASE NewMonth \/ UNCHANGED ledger
  BY <1>7 DEF NewMonth, ledger, AttemptStep
<1> QED
  BY <1>1, <1>2, <1>3, <1>4, <1>5, <1>6, <1>7 DEF LedgerNext

(***************************************************************************)
(* The theorems.                                                           *)
(***************************************************************************)

\* Every transaction of the store keeps the types of its tables.
THEOREM LedgerTyping == LedgerSpec => []LedgerTypeOK
  BY TypesInit, TypesStep, PTL DEF LedgerSpec

\* finalize deletes the hold with the terminal event it writes, and nothing else
\* deletes the hold of an attempt: not a sweep, a purge or a release.
THEOREM HoldIffOpenHolds == LedgerSpec => []HoldIffOpen
<1>1. LedgerInit => HoldIffOpen
  BY DEF LedgerInit, HoldIffOpen, Ids
<1>2. LedgerTypeOK /\ HoldIffOpen /\ [LedgerNext]_ledger => HoldIffOpen'
  BY EveryStep DEF HoldIffOpen, AttemptStep, Settled
<1> QED
  BY <1>1, <1>2, LedgerTyping, PTL DEF LedgerSpec

\* require_pending_request_attempt_state and should_mark_request_attempt_unknown
\* let no transaction touch an attempt that has an outcome.
THEOREM OutcomeIsFinalHolds == LedgerSpec => OutcomeIsFinal
<1>1. LedgerTypeOK /\ [LedgerNext]_ledger =>
        [\A a \in Attempts : event[a] \in Settled \cup {"outcome_unknown"} =>
             event'[a] = event[a] /\ usage'[a] = usage[a]]_ledger
  BY EveryStep DEF AttemptStep, Settled
<1> QED
  BY <1>1, LedgerTyping, PTL DEF LedgerSpec, OutcomeIsFinal

\* The predecessor check of _append_provider_failover_in_connection, with
\* outcomes being final, orders a failover after its settled original for good.
THEOREM FailoverAfterSettledHolds == LedgerSpec => []FailoverAfterSettled
<1>1. LedgerInit => FailoverAfterSettled
  BY DEF LedgerInit, FailoverAfterSettled, Ids
<1>2. ASSUME LedgerTypeOK, FailoverAfterSettled, [LedgerNext]_ledger
      PROVE  FailoverAfterSettled'
  <2>1. \A b \in Attempts : event[b] \in {"rate_limited", "failed"} => event'[b] = event[b]
    BY <1>2, EveryStep DEF AttemptStep
  <2>2. \A a \in Attempts : root'[a] # root[a] =>
            root'[a].pred = None \/ event[root'[a].pred] \in {"rate_limited", "failed"}
    <3>1. CASE root' = root
      BY <3>1
    <3>2. ASSUME NEW a \in Attempts, NEW who \in Actors, NEW cost \in Costs,
                 NEW pred \in Attempts \cup {None}, NEW status \in {429, 529},
                 BeginAttempt(a, who, cost, pred, status)
          PROVE  <2>2
      BY <1>2, <3>2 DEF BeginAttempt, Insert, PredecessorSettled, LedgerTypeOK, Ids
    <3>3. ASSUME NEW p \in Plain, NEW who \in Actors, NEW cost \in Costs,
                 ReserveBudget(p, who, cost)
          PROVE  <2>2
      BY <1>2, <3>3 DEF ReserveBudget, Insert, LedgerTypeOK, Ids
    <3> QED
      BY <1>2, <3>1, <3>2, <3>3
         DEF LedgerNext, Finalize, MarkUnknown, Sweep, Release, Refresh, Expire, NewMonth, ledger
  <2>3. LedgerTypeOK'
    BY <1>2, TypesStep
  <2>4. \A a \in Attempts : root'[a] # None /\ root'[a].pred # None => root'[a].pred \in Attempts
    BY <2>3 DEF LedgerTypeOK, Roots, Ids
  <2> QED
    BY <1>2, <2>1, <2>2, <2>4 DEF FailoverAfterSettled
<1> QED
  BY <1>1, <1>2, LedgerTyping, PTL DEF LedgerSpec

(***************************************************************************)
(* The ledger implements BudgetHolds.                                      *)
(***************************************************************************)

LEMMA InitIsAbstract == LedgerInit => Holds!Init
  BY DEF LedgerInit, Holds!Init, stageOf, paidOf, Ids

\* Steps in which the attempts other than a only give up holds.
LEMMA OthersGiveUp ==
    ASSUME LedgerTypeOK, NEW A \in SUBSET Attempts,
           \A b \in A : event'[b] # event[b] =>
                            event[b] = "pending" /\ event'[b] = "outcome_unknown"
    PROVE  \E W \in SUBSET Attempts : \A b \in A : stageOf'[b] = Holds!Withhold(W)[b]
<1> DEFINE W == {b \in A : event'[b] # event[b]}
<1>1. \A b \in A : stageOf'[b] = Holds!Withhold(W)[b]
  BY DEF stageOf, Holds!Withhold
<1>2. W \in SUBSET Attempts
  OBVIOUS
<1> QED
  BY <1>1, <1>2

LEMMA StepIsAbstract ==
    ASSUME LedgerTypeOK, [LedgerNext]_ledger
    PROVE  [Holds!Next]_(Holds!vars)
<1>f. /\ stageOf \in [Attempts -> Holds!Stages] /\ stageOf' \in [Attempts -> Holds!Stages]
      /\ paidOf' = [a \in Attempts |-> paidOf'[a]] /\ paidOf = [a \in Attempts |-> paidOf[a]]
  BY DEF stageOf, paidOf, Holds!Stages
<1>g. ASSUME UNCHANGED usage,
             \A b \in Attempts : event'[b] # event[b] =>
                 event[b] = "pending" /\ event'[b] = "outcome_unknown"
      PROVE  Holds!GiveUp
  <2>1. PICK W \in SUBSET Attempts : \A b \in Attempts : stageOf'[b] = Holds!Withhold(W)[b]
    BY <1>g, OthersGiveUp
  <2>2. stageOf' = Holds!Withhold(W)
    BY <1>f, <2>1 DEF Holds!Withhold
  <2>3. paidOf' = paidOf
    BY <1>g DEF paidOf
  <2> QED
    BY <2>2, <2>3 DEF Holds!GiveUp
<1>1. ASSUME NEW a \in Attempts, NEW who \in Actors, NEW cost \in Costs,
             NEW pred \in Attempts \cup {None}, NEW status \in {429, 529},
             BeginAttempt(a, who, cost, pred, status)
      PROVE  Holds!Open(a)
  <2>1. /\ a \in Ids /\ event[a] = "none" /\ event' = [Swept EXCEPT ![a] = "pending"]
        /\ UNCHANGED usage
    BY <1>1 DEF BeginAttempt, Insert, Ids
  <2>2. event'[a] = "pending" /\ \A b \in Attempts \ {a} : event'[b] = Swept[b]
    BY <2>1, SweptOnlyPending DEF Ids
  <2>3. PICK W \in SUBSET Attempts :
            \A b \in Attempts \ {a} : stageOf'[b] = Holds!Withhold(W)[b]
    <3> DEFINE Others == Attempts \ {a}
    <3>1. /\ Others \in SUBSET Attempts
          /\ \A b \in Others : event'[b] # event[b] =>
                 event[b] = "pending" /\ event'[b] = "outcome_unknown"
      BY <2>2, SweptOnlyPending DEF Ids
    <3> HIDE DEF Others
    <3>2. \E W \in SUBSET Attempts : \A b \in Others : stageOf'[b] = Holds!Withhold(W)[b]
      BY <3>1, OthersGiveUp
    <3> QED
      BY <3>2 DEF Others
  <2>4. stageOf' = [Holds!Withhold(W) EXCEPT ![a] = "held"]
    <3>1. stageOf'[a] = "held"
      BY <2>2 DEF stageOf
    <3> QED
      BY <1>f, <2>3, <3>1 DEF Holds!Withhold
  <2>5. stageOf[a] = "unopened" /\ paidOf' = paidOf
    BY <2>1 DEF stageOf, paidOf
  <2> QED
    BY <2>4, <2>5 DEF Holds!Open
<1>2. ASSUME NEW p \in Plain, NEW who \in Actors, NEW cost \in Costs,
             ReserveBudget(p, who, cost)
      PROVE  Holds!GiveUp
  <2>1. /\ \A b \in Attempts : event'[b] = Swept[b]
        /\ UNCHANGED usage
    BY <1>2, SweptOnlyPending, IdsAssumption DEF ReserveBudget, Insert, Ids
  <2> QED
    BY <1>g, <2>1, SweptOnlyPending DEF Ids
<1>3. ASSUME NEW a \in Attempts, NEW state \in Settled, NEW cost \in Charges,
             Finalize(a, state, cost)
      PROVE  Holds!Settle(a)
  <2>1. /\ stageOf[a] = "held"
        /\ stageOf' = [stageOf EXCEPT ![a] = "settled"]
    BY <1>3 DEF Finalize, stageOf, Settled, LedgerTypeOK, Ids
  <2>2. paidOf' = [paidOf EXCEPT ![a] = cost]
    BY <1>3 DEF Finalize, paidOf, LedgerTypeOK
  <2>3. \E c \in Charges : paidOf' = [paidOf EXCEPT ![a] = c]
    BY <2>2
  <2> QED
    BY <2>1, <2>3 DEF Holds!Settle
<1>4. ASSUME NEW a \in Attempts, MarkUnknown(a) PROVE Holds!GiveUp
  BY <1>4, <1>g DEF MarkUnknown, LedgerTypeOK, Ids
<1>5. ASSUME Sweep PROVE Holds!GiveUp
  BY <1>5, <1>g, SweptOnlyPending DEF Sweep, Ids
<1>6. ASSUME UNCHANGED <<event, usage>> PROVE UNCHANGED Holds!vars
  BY <1>6 DEF Holds!vars, stageOf, paidOf
<1>7. CASE \/ \E i \in Ids : Release(i) \/ Refresh(i) \/ Expire(i)
           \/ NewMonth \/ UNCHANGED ledger
  BY <1>6, <1>7 DEF Release, Refresh, Expire, NewMonth, ledger
<1> QED
  BY <1>1, <1>2, <1>3, <1>4, <1>5, <1>7 DEF LedgerNext, Holds!Next

\* The store implements the abstract life of a hold: opened before egress,
\* ended at most once in a charge, or withheld for good.
THEOREM LedgerImplementsHolds == LedgerSpec => ImplementsHolds
  BY InitIsAbstract, StepIsAbstract, LedgerTyping, PTL DEF LedgerSpec, ImplementsHolds, Holds!Spec

\* begin_request_attempt, finalize, the sweep and the purge keep a hold for every
\* open attempt and for no other, admit a failover after a settled attempt only,
\* and leave what is settled as it is.
THEOREM LedgerIsSoundHolds == LedgerSpec => LedgerIsSound
  BY HoldIffOpenHolds, FailoverAfterSettledHolds, OutcomeIsFinalHolds, PTL DEF LedgerIsSound

(***************************************************************************)
(* Limits.                                                                 *)
(***************************************************************************)

\* What a scope's rows reserve, those that have lapsed included, and what it has been charged
\* this month as far as it was reserved.
Opened == {i \in Ids : root[i] # None}
Reservation == [i \in Ids |-> root[i].cost]
Charged == [a \in Attempts |-> Least(usage[a].cost, root[a].cost)]
ThisMonths(s) == {a \in Of(s, Attempts) : usage[a].month = month}
Spent(s) == SumFunctionOnSet(Charged, ThisMonths(s))
Held(s) == SumFunctionOnSet(Reservation, Of(s, hold))

\* Rows are recorded once, when an id is first used; a charge belongs to the month of its
\* settlement.
Bookkeeping ==
    /\ IsFiniteSet(Opened)
    /\ \A i \in Ids : event[i] = "none" <=> root[i] = None
    /\ hold \subseteq Opened
    /\ \A a \in Attempts : /\ usage[a].month <= month
                           /\ event[a] \notin Settled => usage[a].month = 0

\* WithinLimits is not inductive: a row that stands alone and has lapsed counts again when it
\* is refreshed.  It was never given up in between, since every insert deletes it.
HeldWithinLimits == \A s \in Scopes : Spent(s) + Held(s) <= Limit[s]

LimitInv == LedgerTypeOK /\ HoldIffOpen /\ Bookkeeping /\ HeldWithinLimits

\* What every sum ranges over is finite, and its amounts are naturals.
LEMMA Amounts ==
    ASSUME LedgerTypeOK, Bookkeeping, NEW s \in Scopes
    PROVE  /\ \A S \in SUBSET Opened : IsFiniteSet(S)
           /\ \A i \in Opened : Reservation[i] \in Nat
           /\ \A a \in Attempts \cap Opened :
                 Charged[a] \in Nat /\ Charged[a] <= usage[a].cost /\ usage[a].cost \in Nat
           /\ \A ids : Of(s, ids \cap Ids) \in SUBSET Opened
           /\ Of(s, hold) \in SUBSET Opened
           /\ ThisMonths(s) \in SUBSET (Attempts \cap Opened)
           /\ Spent(s) \in Nat /\ Held(s) \in Nat
<1>1. \A S \in SUBSET Opened : IsFiniteSet(S)
  BY FS_Subset DEF Bookkeeping
<1>2. \A i \in Opened : Reservation[i] \in Nat
  BY AmountsAssumption DEF LedgerTypeOK, Roots, Opened, Reservation
<1>3. \A a \in Attempts \cap Opened :
          Charged[a] \in Nat /\ Charged[a] <= usage[a].cost /\ usage[a].cost \in Nat
  <2> TAKE a \in Attempts \cap Opened
  <2>1. usage[a].cost \in Nat
    BY AmountsAssumption DEF LedgerTypeOK
  <2>2. root[a].cost \in Nat
    BY AmountsAssumption DEF LedgerTypeOK, Roots, Opened
  <2>3. Charged[a] = Least(usage[a].cost, root[a].cost)
    BY DEF Charged
  <2> QED
    BY <2>1, <2>2, <2>3 DEF Least
<1>4. /\ \A ids : Of(s, ids \cap Ids) \in SUBSET Opened
      /\ Of(s, hold) \in SUBSET Opened
      /\ ThisMonths(s) \in SUBSET (Attempts \cap Opened)
  BY DEF Of, Opened, ThisMonths, LedgerTypeOK, Ids
<1>5. Spent(s) \in Nat
  BY <1>1, <1>3, <1>4, SumIsNat DEF Spent
<1>6. Held(s) \in Nat
  BY <1>1, <1>2, <1>4, SumIsNat DEF Held
<1> QED
  BY <1>1, <1>2, <1>3, <1>4, <1>5, <1>6

LEMMA BookkeepingStep ==
    ASSUME LedgerTypeOK, HoldIffOpen, Bookkeeping, [LedgerNext]_ledger
    PROVE  Bookkeeping'
<1> USE DEF Ids
<1>0. LedgerTypeOK'
  BY TypesStep
<1>1. ASSUME NEW i \in Ids, NEW state \in {"pending", "row"}, NEW r \in Roots,
             Insert(i, state, r), r # None
      PROVE  Bookkeeping'
  <2>1. Opened' = Opened \cup {i} /\ i \notin Opened
    BY <1>1 DEF Insert, Bookkeeping, Opened, LedgerTypeOK
  <2>2. IsFiniteSet(Opened')
    BY <2>1, FS_AddElement DEF Bookkeeping
  <2>3. \A j \in Ids : event'[j] = "none" <=> root'[j] = None
    BY <1>1, SweptOnlyPending DEF Insert, Bookkeeping, LedgerTypeOK
  <2>4. hold' \subseteq Opened'
    BY <1>1, <2>1 DEF Insert, Bookkeeping
  <2>5. \A a \in Attempts : event'[a] \notin Settled => event[a] \notin Settled
    BY <1>1, SweptOnlyPending DEF Insert, LedgerTypeOK, Settled
  <2> QED
    BY <1>1, <2>2, <2>3, <2>4, <2>5 DEF Bookkeeping, Insert
<1>2. ASSUME NEW a \in Attempts, NEW who \in Actors, NEW cost \in Costs,
             NEW pred \in Attempts \cup {None}, NEW status \in {429, 529},
             BeginAttempt(a, who, cost, pred, status)
      PROVE  Bookkeeping'
  BY <1>1, <1>2, NoneAssumption DEF BeginAttempt, Roots
<1>3. ASSUME NEW p \in Plain, NEW who \in Actors, NEW cost \in Costs,
             ReserveBudget(p, who, cost)
      PROVE  Bookkeeping'
  BY <1>1, <1>3, NoneAssumption DEF ReserveBudget, Roots
<1>4. ASSUME NEW a \in Attempts, NEW state \in Settled, NEW cost \in Charges,
             Finalize(a, state, cost)
      PROVE  Bookkeeping'
  <2>1. Opened' = Opened /\ hold' \subseteq hold
    BY <1>4 DEF Finalize, Opened
  <2>2. \A j \in Ids : event'[j] = "none" <=> root'[j] = None
    BY <1>4 DEF Finalize, Bookkeeping, LedgerTypeOK, Settled
  <2>3. \A b \in Attempts : /\ usage'[b].month <= month'
                            /\ event'[b] \notin Settled => usage'[b].month = 0
    BY <1>4 DEF Finalize, Bookkeeping, LedgerTypeOK
  <2> QED
    BY <2>1, <2>2, <2>3 DEF Bookkeeping
<1>5. CASE (\E a \in Attempts : MarkUnknown(a)) \/ Sweep
  <2>1. Opened' = Opened /\ UNCHANGED <<root, hold, usage, month>>
    BY <1>5 DEF MarkUnknown, Sweep, Opened
  <2>2. \A j \in Ids : event'[j] # event[j] =>
            event[j] = "pending" /\ event'[j] = "outcome_unknown"
    BY <1>5, SweptOnlyPending DEF MarkUnknown, Sweep, LedgerTypeOK
  <2> QED
    BY <2>1, <2>2 DEF Bookkeeping, Settled
<1>6. CASE \E i \in Ids : Release(i) \/ Refresh(i) \/ Expire(i)
  BY <1>6 DEF Release, Refresh, Expire, Bookkeeping, Opened
<1>7. CASE NewMonth
  BY <1>7 DEF NewMonth, Bookkeeping, Opened, LedgerTypeOK
<1>8. CASE UNCHANGED ledger
  BY <1>8 DEF ledger, Bookkeeping, Opened
<1> QED
  BY <1>2, <1>3, <1>4, <1>5, <1>6, <1>7, <1>8 DEF LedgerNext

\* An insert adds its amount to what is active, and deletes what has lapsed for good.
LEMMA InsertWithin ==
    ASSUME LimitInv, NEW i \in Ids, NEW state \in {"pending", "row"}, NEW r \in Roots, r # None,
           Insert(i, state, r), LedgerTypeOK', Bookkeeping', NEW s \in Scopes
    PROVE  Spent(s)' + Held(s)' <= Limit[s]
<1> USE DEF Ids
<1> DEFINE Kept == Of(s, hold) \ Purged
           Live == {j \in Of(s, hold) : Active(j)}
<1>1. /\ i \notin Opened /\ root'[i] = r /\ \A j \in Ids \ {i} : root'[j] = root[j]
      /\ \A a \in Attempts : usage'[a] = usage[a]
      /\ month' = month
      /\ r.cost \in Nat
    BY AmountsAssumption DEF Insert, LimitInv, LedgerTypeOK, Bookkeeping, Opened, Roots
<1>2. Spent(s)' = Spent(s)
  <2>1. i \notin ThisMonths(s) /\ i \notin ThisMonths(s)'
    <3>1. i \in Attempts => usage[i].month = 0 /\ month # 0
      BY MonthAssumption DEF Insert, LimitInv, Bookkeeping, LedgerTypeOK, Settled
    <3> QED
      BY <1>1, <3>1 DEF ThisMonths, Of
  <2>2. ThisMonths(s)' = ThisMonths(s)
    BY <1>1, <2>1 DEF ThisMonths, Of
  <2>3. \A a \in ThisMonths(s) : Charged'[a] = Charged[a]
    BY <1>1, <2>1 DEF ThisMonths, Of, Charged
  <2>4. IsFiniteSet(ThisMonths(s))
    BY Amounts DEF LimitInv
  <2> QED
    BY <2>2, <2>3, <2>4, SumsAreEqual DEF Spent
<1>3. /\ Kept \in SUBSET Opened /\ IsFiniteSet(Kept) /\ i \notin Kept
      /\ \A j \in Kept : Reservation'[j] = Reservation[j] /\ Reservation[j] \in Nat
  BY <1>1, Amounts DEF LimitInv, Reservation, Opened
<1>4. SumFunctionOnSet(Reservation', Kept) = SumFunctionOnSet(Reservation, Kept)
  BY <1>3, SumsAreEqual
<1>5. CASE r.who \in Members[s]
  <2>1. Of(s, hold)' = Kept \cup {i}
    BY <1>1, <1>5 DEF Insert, Of, LimitInv, LedgerTypeOK, Bookkeeping, Opened
  <2>2. Held(s)' = r.cost + SumFunctionOnSet(Reservation, Kept)
    <3>1. Reservation'[i] = r.cost
      BY <1>1 DEF Reservation
    <3>2. \A j \in Kept \cup {i} : Reservation'[j] \in Nat
      BY <1>1, <1>3, <3>1
    <3> HIDE DEF Kept
    <3>3. SumFunctionOnSet(Reservation', Kept \cup {i})
             = Reservation'[i] + SumFunctionOnSet(Reservation', Kept)
      BY <1>3, <3>2, SumAdded
    <3> QED
      BY <1>4, <2>1, <3>1, <3>3 DEF Held
  <2>3. SumFunctionOnSet(Reservation, Kept) <= Reserved(s)
    <3>1. Kept \in SUBSET Live
      BY DEF Purged, Active, LimitInv, HoldIffOpen, LedgerTypeOK, Of
    <3>2. IsFiniteSet(Live) /\ \A j \in Live : Reservation[j] \in Nat
      BY Amounts DEF LimitInv
    <3>3. Reserved(s) = SumFunctionOnSet(Reservation, Live)
      BY DEF Reserved, Reservation
    <3> HIDE DEF Kept, Live
    <3>4. SumFunctionOnSet(Reservation, Kept) <= SumFunctionOnSet(Reservation, Live)
      BY <3>1, <3>2, SumIsMonotone
    <3> QED
      BY <3>3, <3>4
  <2>4. Spent(s) <= UsedThisMonth(s) /\ UsedThisMonth(s) \in Nat
    <3> DEFINE Cost == [a \in Attempts |-> usage[a].cost]
    <3>1. /\ IsFiniteSet(ThisMonths(s))
          /\ \A a \in ThisMonths(s) : /\ Charged[a] \in Nat /\ Cost[a] \in Nat
                                      /\ Charged[a] <= Cost[a]
      BY Amounts DEF LimitInv
    <3>2. UsedThisMonth(s) = SumFunctionOnSet(Cost, ThisMonths(s))
      BY DEF UsedThisMonth, ThisMonths
    <3> HIDE DEF Cost
    <3>3. SumFunctionOnSet(Charged, ThisMonths(s)) <= SumFunctionOnSet(Cost, ThisMonths(s))
      BY <3>1, SumIsMonotone
    <3>4. SumFunctionOnSet(Cost, ThisMonths(s)) \in Nat
      BY <3>1, SumIsNat
    <3> QED
      BY <3>2, <3>3, <3>4 DEF Spent
  <2>5. UsedThisMonth(s) + Reserved(s) + r.cost <= Limit[s]
    BY <1>5 DEF Insert, Fits
  <2>6. /\ SumFunctionOnSet(Reservation, Kept) \in Nat /\ Reserved(s) \in Nat
        /\ Spent(s) \in Nat /\ Limit[s] \in Nat
    <3>1. SumFunctionOnSet(Reservation, Kept) \in Nat
      BY <1>3, SumIsNat
    <3>2. IsFiniteSet(Live) /\ \A j \in Live : Reservation[j] \in Nat
      BY Amounts DEF LimitInv
    <3>3. SumFunctionOnSet(Reservation, Live) \in Nat
      BY <3>2, SumIsNat
    <3> QED
      BY <3>1, <3>3, Amounts, ScopesAssumption DEF LimitInv, Reserved, Reservation
  <2> HIDE DEF Kept, Live
  <2> QED
    BY <1>1, <1>2, <2>2, <2>3, <2>4, <2>5, <2>6
<1>6. CASE r.who \notin Members[s]
  <2>1. Of(s, hold)' = Kept
    BY <1>1, <1>6 DEF Insert, Of, LimitInv, LedgerTypeOK, Bookkeeping, Opened
  <2>2. Held(s)' = SumFunctionOnSet(Reservation, Kept)
    BY <1>4, <2>1 DEF Held
  <2>3. SumFunctionOnSet(Reservation, Kept) <= Held(s)
    <3>1. /\ IsFiniteSet(Of(s, hold)) /\ \A j \in Of(s, hold) : Reservation[j] \in Nat
          /\ Kept \in SUBSET Of(s, hold)
      BY Amounts DEF LimitInv
    <3> HIDE DEF Kept
    <3> QED
      BY <3>1, SumIsMonotone DEF Held
  <2>4. /\ Spent(s) \in Nat /\ Held(s) \in Nat /\ Limit[s] \in Nat
        /\ SumFunctionOnSet(Reservation, Kept) \in Nat
    BY <1>3, Amounts, SumIsNat, ScopesAssumption DEF LimitInv
  <2>5. Spent(s) + Held(s) <= Limit[s]
    BY DEF LimitInv, HeldWithinLimits
  <2> HIDE DEF Kept, Live
  <2> QED
    BY <1>2, <2>2, <2>3, <2>4, <2>5
<1> QED
  BY <1>5, <1>6

\* A settlement moves at most what was reserved from the holds to the month's charges.
LEMMA FinalizeWithin ==
    ASSUME LimitInv, NEW a \in Attempts, NEW state \in Settled, NEW cost \in Charges,
           Finalize(a, state, cost), NEW s \in Scopes
    PROVE  Spent(s)' + Held(s)' <= Limit[s]
<1> USE DEF Ids
<1>0. Spent(s) + Held(s) <= Limit[s] /\ Spent(s) \in Nat /\ Held(s) \in Nat /\ Limit[s] \in Nat
  BY Amounts, ScopesAssumption DEF LimitInv, HeldWithinLimits
<1>1. /\ a \in hold /\ a \in Opened /\ root' = root /\ Reservation' = Reservation
      /\ hold' = hold \ {a} /\ month' = month
      /\ usage'[a] = [cost |-> cost, month |-> month]
      /\ \A b \in Attempts \ {a} : usage'[b] = usage[b]
      /\ usage[a].month # month
  BY MonthAssumption
     DEF LimitInv, Finalize, Bookkeeping, LedgerTypeOK, Reservation, Settled
<1>2. a \notin ThisMonths(s)
  BY <1>1 DEF ThisMonths
<1>3. CASE a \in Of(s, hold)
  <2>1. Of(s, hold)' = Of(s, hold) \ {a} /\ ThisMonths(s)' = ThisMonths(s) \cup {a}
    BY <1>1, <1>2, <1>3 DEF Of, ThisMonths
  <2>2. Held(s) = Reservation[a] + Held(s)'
    <3>1. IsFiniteSet(Of(s, hold)) /\ \A i \in Of(s, hold) : Reservation[i] \in Nat
      BY Amounts DEF LimitInv
    <3>2. SumFunctionOnSet(Reservation, Of(s, hold))
             = Reservation[a] + SumFunctionOnSet(Reservation, Of(s, hold) \ {a})
      BY <1>3, <3>1, SumElement
    <3> QED
      BY <1>1, <2>1, <3>2 DEF Held
  <2>3. Charged'[a] \in Nat /\ Charged'[a] <= Reservation[a] /\ Reservation[a] \in Nat
    <3>1. Reservation[a] \in Nat
      BY <1>1, Amounts DEF LimitInv
    <3>2. cost \in Nat /\ Charged'[a] = Least(cost, root[a].cost)
      BY <1>1, AmountsAssumption DEF Charged
    <3>3. root[a].cost = Reservation[a]
      BY <1>1 DEF Reservation, Opened
    <3> QED
      BY <3>1, <3>2, <3>3 DEF Least
  <2>4. Spent(s)' = Charged'[a] + Spent(s)
    <3>1. /\ IsFiniteSet(ThisMonths(s))
          /\ \A b \in ThisMonths(s) : Charged'[b] = Charged[b] /\ Charged[b] \in Nat
      <4>1. \A b \in Attempts \ {a} : Charged'[b] = Charged[b]
        BY <1>1 DEF Charged
      <4> QED
        BY <1>2, <4>1, Amounts DEF LimitInv
    <3>2. SumFunctionOnSet(Charged', ThisMonths(s) \cup {a})
             = Charged'[a] + SumFunctionOnSet(Charged', ThisMonths(s))
      BY <1>2, <2>3, <3>1, SumAdded
    <3>3. SumFunctionOnSet(Charged', ThisMonths(s)) = SumFunctionOnSet(Charged, ThisMonths(s))
      BY <3>1, SumsAreEqual
    <3> QED
      BY <2>1, <3>2, <3>3 DEF Spent
  <2>5. Held(s)' \in Nat
    <3>1. /\ IsFiniteSet(Of(s, hold) \ {a})
          /\ \A i \in Of(s, hold) \ {a} : Reservation[i] \in Nat
      BY Amounts DEF LimitInv
    <3> QED
      BY <1>1, <2>1, <3>1, SumIsNat DEF Held
  <2> QED
    BY <1>0, <2>2, <2>3, <2>4, <2>5
<1>4. CASE a \notin Of(s, hold)
  <2>1. a \notin Of(s, Attempts) /\ Of(s, hold)' = Of(s, hold) /\ Of(s, Attempts)' = Of(s, Attempts)
    BY <1>1, <1>4 DEF Of
  <2>2. ThisMonths(s)' = ThisMonths(s) /\ \A b \in ThisMonths(s) : Charged'[b] = Charged[b]
    BY <1>1, <2>1 DEF ThisMonths, Charged, Of
  <2>3. Spent(s)' = Spent(s)
    <3>1. IsFiniteSet(ThisMonths(s))
      BY Amounts DEF LimitInv
    <3> QED
      BY <2>2, <3>1, SumsAreEqual DEF Spent
  <2>4. Held(s)' = Held(s)
    BY <1>1, <2>1 DEF Held
  <2> QED
    BY <1>0, <2>3, <2>4
<1> QED
  BY <1>3, <1>4

LEMMA HeldWithinStep ==
    ASSUME LimitInv, [LedgerNext]_ledger, LedgerTypeOK', Bookkeeping'
    PROVE  HeldWithinLimits'
<1> SUFFICES ASSUME NEW s \in Scopes PROVE Spent(s)' + Held(s)' <= Limit[s]
  BY DEF HeldWithinLimits
<1>0. Spent(s) + Held(s) <= Limit[s] /\ Spent(s) \in Nat /\ Held(s) \in Nat /\ Limit[s] \in Nat
  BY Amounts, ScopesAssumption DEF LimitInv, HeldWithinLimits
<1>1. ASSUME NEW a \in Attempts, NEW who \in Actors, NEW cost \in Costs,
             NEW pred \in Attempts \cup {None}, NEW status \in {429, 529},
             BeginAttempt(a, who, cost, pred, status)
      PROVE  Spent(s)' + Held(s)' <= Limit[s]
  BY <1>1, InsertWithin, NoneAssumption DEF BeginAttempt, Roots, Ids
<1>2. ASSUME NEW p \in Plain, NEW who \in Actors, NEW cost \in Costs,
             ReserveBudget(p, who, cost)
      PROVE  Spent(s)' + Held(s)' <= Limit[s]
  BY <1>2, InsertWithin, NoneAssumption DEF ReserveBudget, Roots, Ids
<1>3. ASSUME NEW a \in Attempts, NEW state \in Settled, NEW cost \in Charges,
             Finalize(a, state, cost)
      PROVE  Spent(s)' + Held(s)' <= Limit[s]
  BY <1>3, FinalizeWithin
<1>4. ASSUME UNCHANGED <<root, hold, usage, month>>
      PROVE  Spent(s)' + Held(s)' <= Limit[s]
  BY <1>0, <1>4 DEF Spent, Held, Charged, Reservation, ThisMonths, Of
<1>5. ASSUME NEW i \in Ids, Release(i) PROVE Spent(s)' + Held(s)' <= Limit[s]
  <2>1. UNCHANGED <<root, usage, month>> /\ Of(s, hold)' \in SUBSET Of(s, hold)
    BY <1>5 DEF Release, Of
  <2>2. Spent(s)' = Spent(s) /\ Reservation' = Reservation
    BY <2>1 DEF Spent, Charged, ThisMonths, Of, Reservation
  <2>3. IsFiniteSet(Of(s, hold)) /\ \A j \in Of(s, hold) : Reservation[j] \in Nat
    BY Amounts DEF LimitInv
  <2>4. Held(s)' <= Held(s) /\ Held(s)' \in Nat
    <3>1. IsFiniteSet(Of(s, hold)') /\ \A j \in Of(s, hold)' : Reservation[j] \in Nat
      BY <2>1, <2>3, FS_Subset
    <3> QED
      BY <2>1, <2>2, <2>3, <3>1, SumIsMonotone, SumIsNat DEF Held
  <2> QED
    BY <1>0, <2>2, <2>4
<1>6. CASE NewMonth
  <2>1. ThisMonths(s)' = {}
    BY <1>6 DEF NewMonth, ThisMonths, LimitInv, LedgerTypeOK, Bookkeeping, Of
  <2>2. Spent(s)' = 0
    BY <2>1, SumEmpty DEF Spent
  <2>3. Held(s)' = Held(s)
    BY <1>6 DEF NewMonth, Held, Reservation, Of
  <2> QED
    BY <1>0, <2>2, <2>3
<1> QED
  BY <1>1, <1>2, <1>3, <1>4, <1>5, <1>6
     DEF LedgerNext, MarkUnknown, Sweep, Refresh, Expire, ledger

\* The transaction of _begin_request_attempt adds up the month's usage and the active
\* reservations of every scope before it inserts, and what settlements, sweeps, purges,
\* releases, refreshes and the change of month do afterwards never exceeds what it admitted.
THEOREM WithinLimitsHolds == LedgerSpec => []WithinLimits
<1>1. LedgerInit => LimitInv
  <2> SUFFICES ASSUME LedgerInit PROVE LimitInv
    OBVIOUS
  <2>1. LedgerTypeOK
    BY TypesInit
  <2>2. HoldIffOpen
    BY DEF LedgerInit, HoldIffOpen, Ids
  <2>3. Opened = {} /\ Bookkeeping
    BY FS_EmptySet DEF LedgerInit, Opened, Bookkeeping, Ids
  <2>4. ASSUME NEW s \in Scopes PROVE Spent(s) + Held(s) <= Limit[s]
    <3>1. ThisMonths(s) = {} /\ Of(s, hold) = {}
      BY DEF LedgerInit, ThisMonths, Of, Ids
    <3>2. Spent(s) = 0 /\ Held(s) = 0
      BY <3>1, SumEmpty DEF Spent, Held
    <3> QED
      BY <3>2, ScopesAssumption
  <2> QED
    BY <2>1, <2>2, <2>3, <2>4 DEF LimitInv, HeldWithinLimits
<1>2. LimitInv /\ [LedgerNext]_ledger => LimitInv'
  <2> SUFFICES ASSUME LimitInv, [LedgerNext]_ledger PROVE LimitInv'
    OBVIOUS
  <2>1. LedgerTypeOK' /\ Bookkeeping'
    BY TypesStep, BookkeepingStep DEF LimitInv
  <2>2. HoldIffOpen'
    BY EveryStep DEF LimitInv, HoldIffOpen, AttemptStep, Settled
  <2>3. HeldWithinLimits'
    BY <2>1, HeldWithinStep
  <2> QED
    BY <2>1, <2>2, <2>3 DEF LimitInv
<1>3. LimitInv => WithinLimits
  <2> SUFFICES ASSUME LimitInv, NEW s \in Scopes PROVE Spent(s) + Reserved(s) <= Limit[s]
    BY DEF WithinLimits, Spent, Charged, ThisMonths
  <2> DEFINE Live == {i \in Of(s, hold) : Active(i)}
  <2>1. /\ IsFiniteSet(Of(s, hold)) /\ IsFiniteSet(Live) /\ Live \in SUBSET Of(s, hold)
        /\ \A i \in Of(s, hold) : Reservation[i] \in Nat
    BY Amounts DEF LimitInv
  <2>2. Reserved(s) = SumFunctionOnSet(Reservation, Live)
    BY DEF Reserved, Reservation
  <2> HIDE DEF Live
  <2>3. SumFunctionOnSet(Reservation, Live) <= Held(s)
    BY <2>1, SumIsMonotone DEF Held
  <2>4. SumFunctionOnSet(Reservation, Live) \in Nat
    BY <2>1, SumIsNat
  <2>5. /\ Spent(s) + Held(s) <= Limit[s] /\ Spent(s) \in Nat /\ Held(s) \in Nat
        /\ Limit[s] \in Nat
    BY Amounts, ScopesAssumption DEF LimitInv, HeldWithinLimits
  <2> QED
    BY <2>2, <2>3, <2>4, <2>5
<1> QED
  BY <1>1, <1>2, <1>3, PTL DEF LedgerSpec

==============================================================================
