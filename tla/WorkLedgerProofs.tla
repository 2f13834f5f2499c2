--------------------------- MODULE WorkLedgerProofs ---------------------------
(***************************************************************************)
(* The work ledger: for any number of jobs, repositories, requests and     *)
(* plans, a budget admits no more than it says, a charge is final, a       *)
(* conversation keeps its job, and a job keeps to the model of its last    *)
(* admitted answer; in the attempt transaction, the plans for scopes of    *)
(* work admit no more than they say; the receipts show what counts; and a  *)
(* route is explored within its allowance and chosen on its own evidence.  *)
(***************************************************************************)
EXTENDS WorkLedger, WorkBudgets, WorkReceipts, WorkRoutes, DataTheorems, SequenceTheorems, TLAPS

(***************************************************************************)
(* Types.                                                                  *)
(***************************************************************************)

Taken == {r \in Requests : attempt[r] # None}

\* Every row is of a request that is taken, and the other way round.
Listed ==
    /\ \A i \in DOMAIN rows : rows[i] \in Taken
    /\ \A r \in Taken : \E i \in DOMAIN rows : rows[i] = r

Statuses == {"succeeded", "failed", "unknown", "cache_hit"}

\* The last of some rows is one of them.
LEMMA LastRow ==
    ASSUME NEW n \in Nat, NEW T \in SUBSET (1 .. n), T # {}
    PROVE  Max(T) \in T /\ \A k \in T : k <= Max(T)
<1> DEFINE Back == {n - k : k \in T}
<1>1. Back \in SUBSET Nat /\ Back # {}
  <2>1. \A k \in T : k \in Nat /\ n - k \in Nat
    OBVIOUS
  <2> QED
    BY <2>1
<1>2. PICK m \in Back : \A k \in Back : m <= k
  BY <1>1, LeastOfNaturals
<1>3. PICK x \in T : m = n - x
  BY <1>2
<1>4. \A k \in T : x >= k
  BY <1>2, <1>3
<1>5. \E y \in T : \A k \in T : y >= k
  BY <1>4
<1> QED
  BY <1>5 DEF Max

\* A reservation writes one new row.
LEMMA InsertEffect ==
    ASSUME TypeOK, Listed, NEW r \in Requests, NEW row \in Row, Insert(r, row)
    PROVE  /\ attempt' \in [Requests -> Row \cup {None}]
           /\ r \notin Taken /\ Taken' = Taken \cup {r} /\ attempt'[r] = row
           /\ \A q \in Taken : attempt'[q] = attempt[q]
           /\ rows' \in Seq(Requests) /\ DOMAIN rows' = DOMAIN rows \cup {Len(rows) + 1}
           /\ Len(rows) + 1 \notin DOMAIN rows /\ rows'[Len(rows) + 1] = r
           /\ \A i \in DOMAIN rows : rows'[i] = rows[i]
           /\ Listed'
<1>1. /\ attempt' \in [Requests -> Row \cup {None}]
      /\ r \notin Taken /\ attempt'[r] = row
      /\ \A q \in Requests \ {r} : attempt'[q] = attempt[q]
  BY DEF TypeOK, Insert, Taken
<1>2. Taken' = Taken \cup {r}
  BY <1>1, RowAssumption DEF Taken
<1>3. /\ rows' \in Seq(Requests) /\ DOMAIN rows' = DOMAIN rows \cup {Len(rows) + 1}
      /\ Len(rows) + 1 \notin DOMAIN rows /\ rows'[Len(rows) + 1] = r
      /\ \A i \in DOMAIN rows : rows'[i] = rows[i]
  BY DEF TypeOK, Insert
<1>4. Listed'
  BY <1>2, <1>3 DEF Listed
<1> QED
  BY <1>1, <1>2, <1>3, <1>4 DEF Taken

\* A settlement writes the state, the cost and the answer of one row that is open.
LEMMA SettleEffect ==
    ASSUME TypeOK, NEW r \in Requests, NEW status \in Statuses,
           NEW cost \in Charges \cup {0, None}, Settle(r, status, cost)
    PROVE  /\ attempt' \in [Requests -> Row \cup {None}]
           /\ r \in Taken /\ Taken' = Taken
           /\ \A q \in Requests \ {r} : attempt'[q] = attempt[q]
           /\ attempt[r] \in Row /\ attempt'[r] \in Row /\ attempt[r].state \notin Terminal
           /\ attempt'[r].job = attempt[r].job /\ attempt'[r].model = attempt[r].model
           /\ attempt'[r].gen = attempt[r].gen /\ attempt'[r].ctx = attempt[r].ctx
           /\ attempt'[r].amount = attempt[r].amount /\ attempt'[r].month = attempt[r].month
           /\ attempt'[r].confirmed = attempt[r].confirmed
           /\ attempt'[r].cost = cost
           /\ attempt'[r].state = IF cost = None THEN "unknown" ELSE status
           /\ attempt'[r].ok <=> attempt[r].ok \/ status \in {"succeeded", "cache_hit"}
<1>1. attempt[r] \in Row /\ r \in Taken
  BY DEF TypeOK, Settle, Taken
<1> DEFINE s == IF cost = None THEN "unknown" ELSE status
           ok == attempt[r].ok \/ status \in {"succeeded", "cache_hit"}
           row == [attempt[r] EXCEPT !.state = s, !.cost = cost, !.ok = ok]
<1>2. attempt' = [attempt EXCEPT ![r] = row]
  BY DEF Settle
<1>3. s \in Open \cup Terminal /\ ok \in BOOLEAN
  BY <1>1 DEF Statuses, Open, Terminal, Row
<1>6. ok <=> attempt[r].ok \/ status \in {"succeeded", "cache_hit"}
  OBVIOUS
<1> HIDE DEF s, ok
<1>4. /\ row.job = attempt[r].job /\ row.model = attempt[r].model /\ row.amount = attempt[r].amount
      /\ row.gen = attempt[r].gen /\ row.ctx = attempt[r].ctx /\ row.month = attempt[r].month
      /\ row.confirmed = attempt[r].confirmed /\ row.cost = cost /\ row.state = s /\ row.ok = ok
  BY <1>1 DEF Row
<1>5. row \in Row
  BY <1>1, <1>3 DEF Row
<1> HIDE DEF row
<1>7. attempt' \in [Requests -> Row \cup {None}] /\ attempt'[r] = row
      /\ \A q \in Requests \ {r} : attempt'[q] = attempt[q]
  BY <1>2, <1>5 DEF TypeOK
<1>8. Taken' = Taken
  BY <1>1, <1>5, <1>7, RowAssumption DEF Taken
<1>9. attempt[r].state \notin Terminal
  BY DEF Settle
<1> QED
  BY <1>1, <1>4, <1>5, <1>6, <1>7, <1>8, <1>9 DEF s

(***************************************************************************)
(* What a row counts.                                                      *)
(***************************************************************************)

CountedOf(row) ==
    IF row.confirmed # None THEN row.confirmed
    ELSE IF row.state \in Terminal \ {"denied"} THEN row.cost
    ELSE IF row.state \in Open THEN row.amount ELSE 0

\* The costs a row is known not to exceed.
Known(row) ==
    {row.amount} \cup (IF row.state \in Terminal THEN {row.cost} ELSE {})
                 \cup ({row.confirmed} \ {None})

ExposedOf(row) == IF row.state = "denied" THEN 0 ELSE Min(Known(row))

CountedBy == [r \in Requests |-> CountedOf(attempt[r])]
ExposedBy == [r \in Requests |-> ExposedOf(attempt[r])]

\* A row that ended has a cost, unless it was denied; rows are of this month or before.
SoundRow(row) ==
    /\ row \in Row
    /\ row.state \in Terminal \ {"denied"} => row.cost # None
    /\ row.month <= month

SoundRows == IsFiniteSet(Taken) /\ \A r \in Taken : SoundRow(attempt[r])

LEMMA LeastOf ==
    ASSUME NEW T \in SUBSET Nat, T # {}
    PROVE  Min(T) \in T /\ \A k \in T : Min(T) <= k
<1>1. \E m \in T : \A k \in T : m <= k
  BY LeastOfNaturals
<1> QED
  BY <1>1 DEF Min

LEMMA KnownIsNat ==
    ASSUME NEW row, SoundRow(row), row.state # "denied"
    PROVE  Known(row) \in SUBSET Nat /\ Known(row) # {}
<1>1. row.amount \in Nat
  BY MoneyAssumption DEF SoundRow, Row
<1>2. row.confirmed # None => row.confirmed \in Nat
  BY MoneyAssumption DEF SoundRow, Row
<1>3. row.state \in Terminal => row.cost \in Nat
  BY MoneyAssumption DEF SoundRow, Row
<1> QED
  BY <1>1, <1>2, <1>3 DEF Known

\* What a row exposes is no more than what it counts.
LEMMA RowAmounts ==
    ASSUME NEW row, SoundRow(row)
    PROVE  /\ ExposedOf(row) \in Nat /\ CountedOf(row) \in Nat /\ row.amount \in Nat
           /\ ExposedOf(row) <= CountedOf(row) /\ ExposedOf(row) <= row.amount
<1>1. row.amount \in Nat /\ row.state \in Open \cup Terminal
  BY MoneyAssumption DEF SoundRow, Row
<1>2. row.confirmed # None => row.confirmed \in Nat
  BY MoneyAssumption DEF SoundRow, Row
<1>3. row.state \in Terminal \ {"denied"} => row.cost \in Nat
  BY MoneyAssumption DEF SoundRow, Row
<1>4. CountedOf(row) \in Nat
  BY <1>1, <1>2, <1>3 DEF CountedOf
<1>5. CASE row.state = "denied"
  BY <1>1, <1>4, <1>5 DEF ExposedOf
<1>6. CASE row.state # "denied"
  <2>1. CountedOf(row) \in Known(row)
    BY <1>1, <1>6 DEF CountedOf, Known
  <2>2. /\ ExposedOf(row) \in Nat /\ \A k \in Known(row) : ExposedOf(row) <= k
    BY <1>6, KnownIsNat, LeastOf DEF ExposedOf
  <2>3. row.amount \in Known(row)
    BY DEF Known
  <2> QED
    BY <1>1, <1>4, <2>1, <2>2, <2>3
<1> QED
  BY <1>5, <1>6

\* To know more of a row exposes no more.
LEMMA ExposedFalls ==
    ASSUME NEW row, NEW new, SoundRow(row), SoundRow(new),
           row.state # "denied", new.state # "denied", new.amount = row.amount,
           row.state \in Terminal => new.state \in Terminal /\ new.cost = row.cost,
           row.confirmed # None => new.confirmed = row.confirmed
    PROVE  ExposedOf(new) <= ExposedOf(row)
<1>1. Known(row) \subseteq Known(new)
  BY DEF Known
<1>2. Known(row) \in SUBSET Nat /\ Known(row) # {} /\ Known(new) \in SUBSET Nat
  BY KnownIsNat
<1>3. Min(Known(row)) \in Known(row) /\ \A k \in Known(new) : Min(Known(new)) <= k
  BY <1>1, <1>2, LeastOf
<1> QED
  BY <1>1, <1>3 DEF ExposedOf

(***************************************************************************)
(* What a scope counts.                                                    *)
(***************************************************************************)

LEMMA ScopeSums ==
    ASSUME TypeOK, SoundRows, NEW s
    PROVE  /\ InScope(s) \in SUBSET Taken /\ IsFiniteSet(InScope(s))
           /\ \A r \in Taken : ExposedBy[r] \in Nat /\ CountedBy[r] \in Nat
                               /\ ExposedBy[r] <= CountedBy[r]
           /\ Exposure(s) = SumFunctionOnSet(ExposedBy, InScope(s))
           /\ Exposure(s) \in Nat /\ Consumed(s) \in Nat
           /\ Exposure(s) <= Consumed(s)
<1>1. InScope(s) \in SUBSET Taken
  BY DEF InScope, Taken
<1>2. IsFiniteSet(InScope(s))
  BY <1>1, FS_Subset DEF SoundRows
<1>3. \A r \in Taken : ExposedBy[r] \in Nat /\ CountedBy[r] \in Nat /\ ExposedBy[r] <= CountedBy[r]
  BY RowAmounts DEF SoundRows, Taken, ExposedBy, CountedBy
<1>4. Exposure(s) = SumFunctionOnSet(ExposedBy, InScope(s))
  BY DEF Exposure, ExposedBy, ExposedOf, Known
<1>5. Consumed(s) = SumFunctionOnSet(CountedBy, InScope(s))
  BY DEF Consumed, CountedBy, CountedOf
<1>6. Exposure(s) \in Nat /\ Consumed(s) \in Nat
  BY <1>1, <1>2, <1>3, <1>4, <1>5, SumIsNat
<1>7. SumFunctionOnSet(ExposedBy, InScope(s)) <= SumFunctionOnSet(CountedBy, InScope(s))
  BY <1>1, <1>2, <1>3, SumIsMonotone
<1> QED
  BY <1>1, <1>2, <1>3, <1>4, <1>5, <1>6, <1>7

\* Rows that expose no more add up to no more.
LEMMA ExposureFalls ==
    ASSUME TypeOK, SoundRows, SoundRows', TypeOK', Taken' = Taken, month' = month,
           \A r \in Taken : /\ attempt'[r].job = attempt[r].job
                            /\ attempt'[r].month = attempt[r].month
                            /\ ExposedOf(attempt'[r]) <= ExposedOf(attempt[r]),
           NEW s
    PROVE  Exposure(s)' <= Exposure(s)
<1>1. InScope(s)' = InScope(s)
  BY DEF InScope, Taken
<1>2. /\ InScope(s) \in SUBSET Taken /\ IsFiniteSet(InScope(s))
      /\ \A r \in Taken : ExposedBy[r] \in Nat
      /\ Exposure(s) = SumFunctionOnSet(ExposedBy, InScope(s))
  BY ScopeSums
<1>3. /\ \A r \in Taken : ExposedBy'[r] \in Nat
      /\ Exposure(s)' = SumFunctionOnSet(ExposedBy', InScope(s)')
  <2>1. Exposure(s)' = SumFunctionOnSet(ExposedBy', InScope(s)')
    BY DEF Exposure, ExposedBy, ExposedOf, Known
  <2>2. \A r \in Taken : SoundRow(attempt'[r])
    BY DEF SoundRows, SoundRow
  <2> QED
    BY <2>1, <2>2, RowAmounts DEF ExposedBy, Taken
<1>4. \A r \in Taken : ExposedBy'[r] <= ExposedBy[r]
  BY DEF ExposedBy, Taken
<1>5. SumFunctionOnSet(ExposedBy', InScope(s)) <= SumFunctionOnSet(ExposedBy, InScope(s))
  BY <1>2, <1>3, <1>4, SumIsMonotone
<1> QED
  BY <1>1, <1>2, <1>3, <1>5

\* A new row adds what it exposes to the scopes that cover its job.
LEMMA InsertExposure ==
    ASSUME TypeOK, SoundRows, Listed, NEW r \in Requests, NEW row \in Row, SoundRow(row),
           row.month = month, month' = month, Insert(r, row), NEW s
    PROVE  /\ Covers(s, row.job) => Exposure(s)' = ExposedOf(row) + Exposure(s)
           /\ ~Covers(s, row.job) => Exposure(s)' = Exposure(s)
<1>1. /\ r \notin Taken /\ attempt'[r] = row /\ r \in Taken' /\ Taken' = Taken \cup {r}
      /\ \A q \in Taken : attempt'[q] = attempt[q]
  BY InsertEffect
<1>2. /\ InScope(s) \in SUBSET Taken /\ IsFiniteSet(InScope(s)) /\ r \notin InScope(s)
      /\ \A q \in InScope(s) : ExposedBy[q] \in Nat
      /\ Exposure(s) = SumFunctionOnSet(ExposedBy, InScope(s))
  BY <1>1, ScopeSums
<1>3. Exposure(s)' = SumFunctionOnSet(ExposedBy', InScope(s)')
  BY DEF Exposure, ExposedBy, ExposedOf, Known
<1>4. /\ ExposedBy'[r] = ExposedOf(row) /\ ExposedOf(row) \in Nat
      /\ \A q \in InScope(s) : ExposedBy'[q] = ExposedBy[q]
  BY <1>1, <1>2, RowAmounts DEF ExposedBy, Taken
<1>5. SumFunctionOnSet(ExposedBy', InScope(s)) = SumFunctionOnSet(ExposedBy, InScope(s))
  BY <1>2, <1>4, SumsAreEqual
<1>6. CASE Covers(s, row.job)
  <2>1. InScope(s)' = InScope(s) \cup {r}
    BY <1>1, <1>6, RowAssumption DEF InScope, Taken, Covers
  <2>2. SumFunctionOnSet(ExposedBy', InScope(s) \cup {r})
           = ExposedBy'[r] + SumFunctionOnSet(ExposedBy', InScope(s))
    <3>1. \A q \in InScope(s) \cup {r} : ExposedBy'[q] \in Nat
      BY <1>2, <1>4
    <3> QED
      BY <1>2, <3>1, SumAdded
  <2> QED
    BY <1>2, <1>3, <1>4, <1>5, <1>6, <2>1, <2>2
<1>7. CASE ~Covers(s, row.job)
  <2>1. InScope(s)' = InScope(s)
    BY <1>1, <1>7 DEF InScope, Taken, Covers
  <2> QED
    BY <1>2, <1>3, <1>5, <1>7, <2>1
<1> QED
  BY <1>6, <1>7

\* What reserve writes.
LEMMA NewRowType ==
    ASSUME TypeOK, NEW j \in Jobs, NEW m \in Models, NEW amount \in Amounts, NEW c \in Contexts,
           NEW st \in {"pending", "denied"}
    PROVE  /\ NewRow(j, m, amount, c, st) \in Row /\ SoundRow(NewRow(j, m, amount, c, st))
           /\ NewRow(j, m, amount, c, st).month = month
           /\ NewRow(j, m, amount, c, st).job = j
           /\ ExposedOf(NewRow(j, m, amount, c, st)) = IF st = "denied" THEN 0 ELSE amount
<1> DEFINE row == NewRow(j, m, amount, c, st)
<1>1. row \in Row /\ row.month = month /\ row.job = j
  BY DEF TypeOK, NewRow, Row, Open, Terminal
<1>2. /\ row.state = st /\ row.confirmed = None /\ row.amount = amount
      /\ (st # "denied" => st = "pending")
  BY DEF NewRow
<1>3. SoundRow(row)
  BY <1>1, <1>2 DEF SoundRow, Terminal, TypeOK
<1> HIDE DEF row
<1>4. st # "denied" => Known(row) = {amount}
  <2>1. st # "denied" => row.state \notin Terminal
    BY <1>2 DEF Terminal
  <2> QED
    BY <1>2, <2>1 DEF Known
<1>5. Min({amount}) = amount
  BY MoneyAssumption, LeastOf
<1>6. ExposedOf(row) = IF st = "denied" THEN 0 ELSE amount
  BY <1>2, <1>4, <1>5 DEF ExposedOf
<1> QED
  BY <1>1, <1>3, <1>6 DEF row

\* A settlement of an answer leaves the job on the model of a row that is one of its answers, or
\* where it was.
LEMMA AffinityIs ==
    ASSUME TypeOK, Listed, NEW r \in Requests, NEW status \in Statuses,
           NEW cost \in Charges \cup {0, None}, Settle(r, status, cost),
           NEW j \in Jobs, attempt[r].job = j, status \in {"succeeded", "cache_hit"},
           NEW answered,
           answered = {i \in DOMAIN rows :
                          /\ attempt'[rows[i]].job = j /\ attempt'[rows[i]].ok
                          /\ attempt'[rows[i]].gen = gen[j] /\ attempt'[rows[i]].ctx = ctx[j]}
    PROVE  /\ attempt[r].gen = gen[j] /\ attempt[r].ctx = ctx[j] =>
                  /\ Affinity(j, r) = attempt'[rows[Max(answered)]].model
                  /\ Max(answered) \in answered /\ \A k \in answered : k <= Max(answered)
           /\ ~(attempt[r].gen = gen[j] /\ attempt[r].ctx = ctx[j]) => Affinity(j, r) = pin[j]
<1>1. ASSUME attempt[r].gen = gen[j], attempt[r].ctx = ctx[j]
      PROVE  Max(answered) \in answered /\ \A k \in answered : k <= Max(answered)
  <2>1. r \in Taken /\ attempt'[r].job = j /\ attempt'[r].ok
        /\ attempt'[r].gen = gen[j] /\ attempt'[r].ctx = ctx[j]
    BY <1>1, SettleEffect
  <2>2. PICK i \in DOMAIN rows : rows[i] = r
    BY <2>1 DEF Listed
  <2>3. i \in answered
    BY <2>1, <2>2
  <2>4. answered \in SUBSET (1 .. Len(rows)) /\ Len(rows) \in Nat
    BY DEF TypeOK
  <2> QED
    BY <2>3, <2>4, LastRow
<1> QED
  BY <1>1 DEF Affinity

(***************************************************************************)
(* Type correctness.                                                       *)
(***************************************************************************)

\* Each request has at most one row, each row a request, and a row that ended its cost.
Sound == TypeOK /\ Listed /\ SoundRows

\* The steps on jobs leave the rows, the plans and the month alone.
JobStep ==
    \E j \in Jobs :
          \/ CreateWork(j) \/ Pause(j) \/ Resume(j) \/ Stop(j)
          \/ RecurrenceGuard(j) \/ CacheInvalidate(j)
          \/ \E t \in Threads : ConversationWork(t, j)
          \/ \E c \in Contexts : BindRequestContext(j, c)
          \/ \E status \in {"completed", "reopened", "corrected", "unknown", "canceled"} :
                Observe(j, status)

PlanStep ==
    \/ \E j \in Jobs, b \in Budgets : ApproveBudget(j, b)
    \/ \E s \in Scopes, b \in Budgets \cup {None} : SetPlan(s, b)

Asks(r, j, m, amount, c) == Reserve(r, j, m, amount, c) \/ ReserveDenied(r, j, m, amount, c)

LEMMA StepKinds ==
    ASSUME Next
    PROVE  \/ JobStep
           \/ PlanStep
           \/ \E r \in Requests, j \in Jobs, m \in Models, amount \in Amounts, c \in Contexts :
                 Asks(r, j, m, amount, c)
           \/ \E r \in Requests, status \in Statuses, cost \in Charges \cup {0, None} :
                 Settle(r, status, cost) /\ (status = "cache_hit" => cost = 0)
           \/ \E r \in Requests, cost \in Charges : ConfirmCost(r, cost)
           \/ Restart
           \/ NewMonth
<1>1. Planned \subseteq Scopes /\ Jobs \subseteq Scopes
  BY JobsAssumption DEF Scopes
<1>2. CASE \E r \in Requests, status \in {"succeeded", "failed", "unknown"},
               cost \in Charges \cup {None} : Settle(r, status, cost)
  BY <1>2 DEF Statuses
<1>3. CASE \E r \in Requests : Settle(r, "cache_hit", 0)
  BY <1>3 DEF Statuses
<1>4. CASE \E r \in Requests, j \in Jobs, m \in Models, amount \in Amounts, c \in Contexts :
               Reserve(r, j, m, amount, c) \/ ReserveDenied(r, j, m, amount, c)
  BY <1>4 DEF Asks
<1>5. CASE \E j \in Jobs : j \in Planned /\ \E b \in Budgets : ApproveBudget(j, b)
  BY <1>5 DEF PlanStep
<1>6. CASE \E s \in Planned, b \in Budgets \cup {None} : SetPlan(s, b)
  BY <1>1, <1>6 DEF PlanStep
<1>7. CASE JobStep
  BY <1>7
<1> QED
  BY <1>2, <1>3, <1>4, <1>5, <1>6, <1>7, Zenon DEF Next, JobStep

\* A step on a job leaves the ledger of charges alone, and bindings to the thread they are of.
LEMMA JobStepEffect ==
    ASSUME TypeOK, JobStep
    PROVE  /\ UNCHANGED <<attempt, rows, budget, month, ceiling>>
           /\ TypeOK'
           /\ \A t \in Threads : bound[t] # None => bound'[t] = bound[t]
<1> USE DEF TypeOK
<1>1. PICK j \in Jobs :
          \/ CreateWork(j) \/ Pause(j) \/ Resume(j) \/ Stop(j)
          \/ RecurrenceGuard(j) \/ CacheInvalidate(j)
          \/ \E t \in Threads : ConversationWork(t, j)
          \/ \E c \in Contexts : BindRequestContext(j, c)
          \/ \E status \in {"completed", "reopened", "corrected", "unknown", "canceled"} :
                Observe(j, status)
  BY DEF JobStep
<1>2. CASE CreateWork(j) \/ Pause(j) \/ Resume(j)
  BY <1>2 DEF CreateWork, Pause, Resume, JobStates
<1>3. ASSUME Bump(j)
      PROVE  gen' \in [Jobs -> 0 .. MaxGen] /\ moved' \in [Jobs -> BOOLEAN]
  BY <1>3, BoundsAssumption DEF Bump
<1>4. CASE Stop(j) \/ RecurrenceGuard(j) \/ CacheInvalidate(j)
  BY <1>3, <1>4 DEF Stop, RecurrenceGuard, CacheInvalidate, JobStates
<1>5. ASSUME NEW t \in Threads, ConversationWork(t, j)
      PROVE  /\ UNCHANGED <<attempt, rows, budget, month, ceiling>>
             /\ TypeOK'
             /\ \A u \in Threads : bound[u] # None => bound'[u] = bound[u]
  BY <1>5 DEF ConversationWork, JobStates
<1>6. ASSUME NEW c \in Contexts, BindRequestContext(j, c)
      PROVE  /\ UNCHANGED <<attempt, rows, budget, month, ceiling>>
             /\ TypeOK'
             /\ bound' = bound
  <2> DEFINE new == moved[j] \/ c # ctx[j]
  <2>1. new \in BOOLEAN
    OBVIOUS
  <2>2. moved' = [moved EXCEPT ![j] = new]
    BY <1>6 DEF BindRequestContext
  <2> HIDE DEF new
  <2>3. moved' \in [Jobs -> BOOLEAN]
    BY <2>1, <2>2
  <2> QED
    BY <1>6, <2>3 DEF BindRequestContext
<1>7. ASSUME NEW status \in {"completed", "reopened", "corrected", "unknown", "canceled"},
             Observe(j, status)
      PROVE  /\ UNCHANGED <<attempt, rows, budget, month, ceiling>>
             /\ TypeOK'
             /\ bound' = bound
  <2>1. state' \in [Jobs -> JobStates]
    BY <1>7 DEF Observe, JobStates
  <2>2. CASE status \in {"corrected", "reopened", "canceled"}
    <3>1. /\ gen' \in [Jobs -> 0 .. MaxGen] /\ moved' \in [Jobs -> BOOLEAN]
          /\ pin' \in [Jobs -> Models \cup {None}]
      BY <1>3, <1>7, <2>2, ZenonT(60) DEF Observe
    <3>2. retired' \in [Jobs -> 0 .. MaxGen]
      BY <1>7, <2>2, <3>1, ZenonT(60) DEF Observe
    <3> QED
      BY <1>7, <2>1, <3>1, <3>2 DEF Observe
  <2>3. CASE status \notin {"corrected", "reopened", "canceled"}
    BY <1>7, <2>1, <2>3 DEF Observe
  <2> QED
    BY <2>2, <2>3
<1> QED
  BY <1>1, <1>2, <1>4, <1>5, <1>6, <1>7

LEMMA SameRows ==
    ASSUME Sound, TypeOK', UNCHANGED <<attempt, rows, month>>
    PROVE  Sound' /\ Taken' = Taken /\ \A s : Exposure(s)' = Exposure(s)
<1>1. Taken' = Taken
  BY DEF Taken
<1>2. Listed' /\ SoundRows'
  BY <1>1 DEF Sound, Listed, SoundRows, SoundRow
<1>3. \A s : Exposure(s)' = Exposure(s)
  BY DEF Exposure, InScope
<1> QED
  BY <1>1, <1>2, <1>3 DEF Sound

(***************************************************************************)
(* Money.                                                                  *)
(***************************************************************************)

\* What a scope admitted is under its ceiling, and so is its budget: a plan that was set below
\* what is exposed already has the exposure as its ceiling, and has room for nothing.
MoneyKept ==
    \A s \in Scopes : budget[s] # None => budget[s] <= ceiling[s] /\ Exposure(s) <= ceiling[s]

LEMMA BudgetsAreNat ==
    ASSUME TypeOK, NEW s \in Scopes, budget[s] # None
    PROVE  budget[s] \in Nat /\ ceiling[s] \in Nat
BY MoneyAssumption DEF TypeOK

LEMMA PlanStepKeeps ==
    ASSUME Sound, MoneyKept, PlanStep
    PROVE  /\ Sound' /\ MoneyKept' /\ UNCHANGED <<attempt, rows, bound, month>>
<1>1. PICK s \in Scopes, b \in Budgets \cup {None} :
        SetBudget(s, b) /\ UNCHANGED <<pin, gen, ctx, attempt, rows, bound, month, retired, moved>>
  BY JobsAssumption DEF PlanStep, ApproveBudget, SetPlan, jobs, Scopes
<1>2. state' \in [Jobs -> JobStates]
  BY DEF Sound, TypeOK, PlanStep, ApproveBudget, SetPlan, jobs, JobStates
<1>3. Exposure(s) \in Nat
  BY ScopeSums DEF Sound
<1>4. b # None => b \in Nat
  BY MoneyAssumption
<1> DEFINE most == IF b = None THEN 0 ELSE Max({b, Exposure(s)})
<1>5. most \in Nat /\ (b # None => b <= most /\ Exposure(s) <= most)
  <2>1. CASE b = None
    BY <2>1
  <2>2. CASE b # None
    <3>1. Max({b, Exposure(s)}) \in {b, Exposure(s)}
          /\ \A k \in {b, Exposure(s)} : k <= Max({b, Exposure(s)})
      <4>1. \E x \in {b, Exposure(s)} : \A k \in {b, Exposure(s)} : x >= k
        BY <1>3, <1>4, <2>2
      <4> QED
        BY <1>3, <1>4, <2>2, <4>1 DEF Max
    <3> QED
      BY <1>3, <1>4, <2>2, <3>1
  <2> QED
    BY <2>1, <2>2
<1>6. ceiling' = [ceiling EXCEPT ![s] = most] /\ budget' = [budget EXCEPT ![s] = b]
  BY <1>1 DEF SetBudget
<1> HIDE DEF most
<1>7. TypeOK'
  BY <1>1, <1>2, <1>5, <1>6 DEF Sound, TypeOK
<1>8. Sound' /\ \A u : Exposure(u)' = Exposure(u)
  BY <1>1, <1>7, SameRows
<1>9. ASSUME NEW u \in Scopes, budget'[u] # None
      PROVE  budget'[u] <= ceiling'[u] /\ Exposure(u)' <= ceiling'[u]
  <2>1. CASE u = s
    BY <1>5, <1>6, <1>8, <1>9, <2>1 DEF Sound, TypeOK
  <2>2. CASE u # s
    BY <1>6, <1>8, <1>9, <2>2 DEF Sound, TypeOK, MoneyKept
  <2> QED
    BY <2>1, <2>2
<1>10. MoneyKept'
  BY <1>9 DEF MoneyKept
<1> QED
  BY <1>1, <1>8, <1>10

\* A reservation that every plan has room for fits under every ceiling, one that was denied adds
\* nothing.
LEMMA AskKeeps ==
    ASSUME Sound, MoneyKept, NEW r \in Requests, NEW j \in Jobs, NEW m \in Models,
           NEW amount \in Amounts, NEW c \in Contexts, Asks(r, j, m, amount, c)
    PROVE  /\ Sound' /\ MoneyKept' /\ bound' = bound
           /\ \A q \in Taken : attempt'[q] = attempt[q]
<1>1. PICK st \in {"pending", "denied"} :
          /\ Insert(r, NewRow(j, m, amount, c, st)) /\ (st = "pending" => Fits(j, amount))
          /\ UNCHANGED <<budget, month, ceiling, bound, gen, ctx, retired, moved>>
  BY DEF Asks, Reserve, ReserveDenied
<1> DEFINE row == NewRow(j, m, amount, c, st)
<1>2. /\ row \in Row /\ SoundRow(row) /\ row.month = month /\ row.job = j
      /\ ExposedOf(row) = IF st = "denied" THEN 0 ELSE amount
  BY NewRowType DEF Sound
<1> HIDE DEF row
<1>3. Insert(r, row)
  BY <1>1 DEF row
<1>4. /\ attempt' \in [Requests -> Row \cup {None}]
      /\ r \notin Taken /\ Taken' = Taken \cup {r} /\ attempt'[r] = row
      /\ \A q \in Taken : attempt'[q] = attempt[q]
      /\ rows' \in Seq(Requests) /\ Listed'
  BY <1>2, <1>3, InsertEffect DEF Sound
<1>5. TypeOK'
  BY <1>1, <1>4 DEF Sound, TypeOK, Asks, Reserve, ReserveDenied, JobStates
<1>6. SoundRows'
  <2>1. IsFiniteSet(Taken')
    BY <1>4, FS_AddElement DEF Sound, SoundRows
  <2> QED
    BY <1>1, <1>2, <1>4, <2>1 DEF Sound, SoundRows, SoundRow
<1>7. Sound'
  BY <1>4, <1>5, <1>6 DEF Sound
<1>8. ASSUME NEW s \in Scopes, budget'[s] # None
      PROVE  budget'[s] <= ceiling'[s] /\ Exposure(s)' <= ceiling'[s]
  <2>1. /\ Covers(s, row.job) => Exposure(s)' = ExposedOf(row) + Exposure(s)
        /\ ~Covers(s, row.job) => Exposure(s)' = Exposure(s)
    BY <1>1, <1>2, <1>3, InsertExposure DEF Sound
  <2>2. budget[s] <= ceiling[s] /\ Exposure(s) <= ceiling[s]
    BY <1>1, <1>8 DEF MoneyKept
  <2>3. /\ Exposure(s) \in Nat /\ Consumed(s) \in Nat /\ Exposure(s) <= Consumed(s)
    BY ScopeSums DEF Sound
  <2>4. budget[s] \in Nat /\ ceiling[s] \in Nat /\ amount \in Nat
    BY <1>1, <1>8, BudgetsAreNat, MoneyAssumption DEF Sound
  <2>5. CASE Covers(s, j) /\ st = "pending"
    <3>1. Consumed(s) + amount <= budget[s]
      BY <1>1, <1>8, <2>5 DEF Fits
    <3> QED
      BY <1>1, <1>2, <2>1, <2>2, <2>3, <2>4, <2>5, <3>1
  <2>6. CASE ~(Covers(s, j) /\ st = "pending")
    BY <1>1, <1>2, <2>1, <2>2, <2>3, <2>4, <2>6
  <2> QED
    BY <2>5, <2>6
<1>9. MoneyKept'
  BY <1>8 DEF MoneyKept
<1> QED
  BY <1>1, <1>4, <1>7, <1>9

\* To learn more of the rows leaves every scope under its ceiling.
LEMMA RowsLearn ==
    ASSUME Sound, MoneyKept, TypeOK', Taken' = Taken, UNCHANGED <<rows, month, budget, ceiling>>,
           \A q \in Taken : /\ SoundRow(attempt'[q])
                            /\ attempt'[q].job = attempt[q].job
                            /\ attempt'[q].month = attempt[q].month
                            /\ ExposedOf(attempt'[q]) <= ExposedOf(attempt[q])
    PROVE  Sound' /\ MoneyKept'
<1>1. Listed' /\ SoundRows'
  BY DEF Sound, Listed, SoundRows, SoundRow
<1>2. ASSUME NEW s \in Scopes, budget'[s] # None
      PROVE  budget'[s] <= ceiling'[s] /\ Exposure(s)' <= ceiling'[s]
  <2>1. budget[s] <= ceiling[s] /\ Exposure(s) <= ceiling[s]
    BY <1>2 DEF MoneyKept
  <2>2. Exposure(s)' <= Exposure(s)
    BY <1>1, ExposureFalls DEF Sound
  <2>3. Exposure(s) \in Nat /\ ceiling[s] \in Nat
    BY <1>2, ScopeSums, BudgetsAreNat DEF Sound
  <2>4. Exposure(s)' \in Nat
    <3>1. InScope(s)' \in SUBSET Taken' /\ IsFiniteSet(Taken')
      BY <1>1 DEF InScope, Taken, SoundRows
    <3>2. \A q \in Taken' : ExposedBy'[q] \in Nat
      BY RowAmounts DEF Taken, ExposedBy
    <3>3. Exposure(s)' = SumFunctionOnSet(ExposedBy', InScope(s)')
      BY DEF Exposure, ExposedBy, ExposedOf, Known
    <3>4. IsFiniteSet(InScope(s)')
      BY <3>1, FS_Subset
    <3> QED
      BY <3>1, <3>2, <3>3, <3>4, SumIsNat
  <2> QED
    BY <2>1, <2>2, <2>3, <2>4
<1>3. MoneyKept'
  BY <1>2 DEF MoneyKept
<1> QED
  BY <1>1, <1>3 DEF Sound

LEMMA PinType ==
    ASSUME Sound, NEW r \in Requests, NEW status \in Statuses,
           NEW cost \in Charges \cup {0, None}, Settle(r, status, cost)
    PROVE  pin' \in [Jobs -> Models \cup {None}]
<1>1. /\ attempt' \in [Requests -> Row \cup {None}] /\ r \in Taken /\ Taken' = Taken
      /\ attempt[r] \in Row
  BY SettleEffect DEF Sound
<1>2. PICK j \in Jobs : attempt[r].job = j
  BY <1>1 DEF Row
<1>3. CASE status \notin {"succeeded", "cache_hit"}
  BY <1>3 DEF Settle, Sound, TypeOK
<1>4. CASE status \in {"succeeded", "cache_hit"}
  <2> DEFINE answered == {i \in DOMAIN rows :
                            /\ attempt'[rows[i]].job = j /\ attempt'[rows[i]].ok
                            /\ attempt'[rows[i]].gen = gen[j] /\ attempt'[rows[i]].ctx = ctx[j]}
  <2> HIDE DEF answered
  <2>1. /\ attempt[r].gen = gen[j] /\ attempt[r].ctx = ctx[j] =>
              /\ Affinity(j, r) = attempt'[rows[Max(answered)]].model
              /\ Max(answered) \in answered
        /\ ~(attempt[r].gen = gen[j] /\ attempt[r].ctx = ctx[j]) => Affinity(j, r) = pin[j]
    BY <1>2, <1>4, AffinityIs DEF Sound, answered
  <2>2. \A i \in answered : attempt'[rows[i]].model \in Models
    <3>1. \A i \in DOMAIN rows : rows[i] \in Taken
      BY DEF Sound, Listed
    <3>2. \A q \in Taken : attempt'[q] \in Row
      BY <1>1 DEF Taken
    <3> QED
      BY <3>1, <3>2 DEF Row, answered
  <2>3. Affinity(j, r) \in Models \cup {None}
    BY <2>1, <2>2 DEF Sound, TypeOK
  <2>4. pin' = [pin EXCEPT ![j] = Affinity(j, r)]
    BY <1>2, <1>4 DEF Settle
  <2> QED
    BY <2>3, <2>4 DEF Sound, TypeOK
<1> QED
  BY <1>3, <1>4

LEMMA SettleKeeps ==
    ASSUME Sound, MoneyKept, NEW r \in Requests, NEW status \in Statuses,
           NEW cost \in Charges \cup {0, None}, Settle(r, status, cost)
    PROVE  Sound' /\ MoneyKept' /\ bound' = bound
<1>1. /\ attempt' \in [Requests -> Row \cup {None}]
      /\ r \in Taken /\ Taken' = Taken
      /\ \A q \in Requests \ {r} : attempt'[q] = attempt[q]
      /\ attempt[r] \in Row /\ attempt'[r] \in Row /\ attempt[r].state \notin Terminal
      /\ attempt'[r].job = attempt[r].job /\ attempt'[r].month = attempt[r].month
      /\ attempt'[r].amount = attempt[r].amount /\ attempt'[r].confirmed = attempt[r].confirmed
      /\ attempt'[r].cost = cost /\ attempt'[r].state = IF cost = None THEN "unknown" ELSE status
  BY SettleEffect DEF Sound
<1>2. UNCHANGED <<state, gen, ctx, rows, budget, bound, month, retired, moved, ceiling>>
  BY DEF Settle
<1>3. TypeOK'
  BY <1>1, <1>2, PinType DEF Sound, TypeOK
<1>4. \A q \in Taken : SoundRow(attempt[q])
  BY DEF Sound, SoundRows
<1>5. SoundRow(attempt'[r])
  BY <1>1, <1>4 DEF SoundRow, Statuses, Terminal
<1>6. ExposedOf(attempt'[r]) <= ExposedOf(attempt[r])
  <2>1. attempt[r].state # "denied" /\ attempt'[r].state # "denied"
    BY <1>1 DEF Statuses, Terminal
  <2>2. SoundRow(attempt[r])
    BY <1>1, <1>4
  <2> QED
    BY <1>1, <1>5, <2>1, <2>2, ExposedFalls
<1>7. \A q \in Taken : ExposedOf(attempt[q]) <= ExposedOf(attempt[q])
  BY <1>4, RowAmounts
<1>8. \A q \in Taken : /\ SoundRow(attempt'[q])
                       /\ attempt'[q].job = attempt[q].job
                       /\ attempt'[q].month = attempt[q].month
                       /\ ExposedOf(attempt'[q]) <= ExposedOf(attempt[q])
  BY <1>1, <1>4, <1>5, <1>6, <1>7 DEF Taken
<1> QED
  BY <1>1, <1>2, <1>3, <1>8, RowsLearn

LEMMA ConfirmKeeps ==
    ASSUME Sound, MoneyKept, NEW r \in Requests, NEW cost \in Charges, ConfirmCost(r, cost)
    PROVE  Sound' /\ MoneyKept' /\ bound' = bound /\ Taken' = Taken
<1>1. attempt[r] \in Row /\ r \in Taken
  BY DEF Sound, TypeOK, ConfirmCost, Taken
<1> DEFINE row == [attempt[r] EXCEPT !.confirmed = cost]
<1>2. /\ row \in Row /\ row.job = attempt[r].job /\ row.amount = attempt[r].amount
      /\ row.state = attempt[r].state /\ row.cost = attempt[r].cost
      /\ row.month = attempt[r].month
  BY <1>1 DEF Row
<1> HIDE DEF row
<1>3. /\ attempt' = [attempt EXCEPT ![r] = row]
      /\ attempt[r].confirmed = None /\ attempt[r].state # "denied"
  BY DEF ConfirmCost, row
<1>4. /\ attempt' \in [Requests -> Row \cup {None}] /\ attempt'[r] = row
      /\ \A q \in Requests \ {r} : attempt'[q] = attempt[q]
  BY <1>2, <1>3 DEF Sound, TypeOK
<1>5. Taken' = Taken
  BY <1>1, <1>2, <1>4, RowAssumption DEF Taken
<1>6. UNCHANGED <<state, pin, gen, ctx, retired, moved, rows, budget, bound, month, ceiling>>
  BY DEF ConfirmCost, jobs
<1>7. TypeOK'
  BY <1>4, <1>6 DEF Sound, TypeOK
<1>8. \A q \in Taken : SoundRow(attempt[q])
  BY DEF Sound, SoundRows
<1>9. SoundRow(row)
  BY <1>1, <1>2, <1>8 DEF SoundRow
<1>10. ExposedOf(row) <= ExposedOf(attempt[r])
  BY <1>1, <1>2, <1>3, <1>8, <1>9, ExposedFalls
<1>11. \A q \in Taken : ExposedOf(attempt[q]) <= ExposedOf(attempt[q])
  BY <1>8, RowAmounts
<1>12. \A q \in Taken : /\ SoundRow(attempt'[q])
                        /\ attempt'[q].job = attempt[q].job
                        /\ attempt'[q].month = attempt[q].month
                        /\ ExposedOf(attempt'[q]) <= ExposedOf(attempt[q])
  BY <1>2, <1>4, <1>8, <1>9, <1>10, <1>11 DEF Taken
<1> QED
  BY <1>5, <1>6, <1>7, <1>12, RowsLearn

LEMMA RestartEffect ==
    ASSUME Sound, Restart
    PROVE  /\ attempt' \in [Requests -> Row \cup {None}] /\ Taken' = Taken
           /\ \A q \in Taken : /\ attempt'[q] \in Row
                               /\ attempt'[q].job = attempt[q].job
                               /\ attempt'[q].model = attempt[q].model
                               /\ attempt'[q].gen = attempt[q].gen
                               /\ attempt'[q].ctx = attempt[q].ctx
                               /\ attempt'[q].ok = attempt[q].ok
                               /\ attempt'[q].month = attempt[q].month
                               /\ attempt'[q].amount = attempt[q].amount
                               /\ attempt'[q].cost = attempt[q].cost
                               /\ attempt'[q].confirmed = attempt[q].confirmed
                               /\ attempt'[q].state = IF attempt[q].state = "pending"
                                                       THEN "unknown" ELSE attempt[q].state
<1>1. \A q \in Requests : attempt[q] \in Row \cup {None}
  BY DEF Sound, TypeOK
<1>2. ASSUME NEW q \in Taken
      PROVE  /\ attempt'[q] \in Row
             /\ attempt'[q].job = attempt[q].job /\ attempt'[q].model = attempt[q].model
             /\ attempt'[q].gen = attempt[q].gen /\ attempt'[q].ctx = attempt[q].ctx
             /\ attempt'[q].ok = attempt[q].ok /\ attempt'[q].month = attempt[q].month
             /\ attempt'[q].amount = attempt[q].amount /\ attempt'[q].cost = attempt[q].cost
             /\ attempt'[q].confirmed = attempt[q].confirmed
             /\ attempt'[q].state = IF attempt[q].state = "pending" THEN "unknown"
                                     ELSE attempt[q].state
  <2>1. attempt[q] \in Row /\ q \in Requests
    BY <1>1 DEF Taken
  <2>2. attempt'[q] = IF attempt[q].state = "pending"
                      THEN [attempt[q] EXCEPT !.state = "unknown"] ELSE attempt[q]
    BY <2>1, RowAssumption DEF Restart
  <2> QED
    BY <2>1, <2>2 DEF Row, Open
<1>3. ASSUME NEW q \in Requests \ Taken
      PROVE  attempt'[q] = None
  BY <1>3 DEF Restart, Taken
<1>4. DOMAIN attempt' = Requests /\ attempt' = [q \in Requests |-> attempt'[q]]
  BY DEF Restart
<1> QED
  BY <1>2, <1>3, <1>4, RowAssumption DEF Taken

LEMMA RestartKeeps ==
    ASSUME Sound, MoneyKept, Restart
    PROVE  Sound' /\ MoneyKept'
<1>1. UNCHANGED <<state, pin, gen, ctx, retired, moved, rows, budget, month, ceiling>>
  BY DEF Restart, jobs
<1>2. TypeOK'
  BY <1>1, RestartEffect DEF Sound, TypeOK, Restart
<1>3. ASSUME NEW q \in Taken
      PROVE  /\ SoundRow(attempt'[q]) /\ ExposedOf(attempt'[q]) <= ExposedOf(attempt[q])
  <2>1. SoundRow(attempt[q])
    BY DEF Sound, SoundRows
  <2>2. SoundRow(attempt'[q])
    BY <2>1, RestartEffect DEF SoundRow, Terminal
  <2>3. CASE attempt[q].state = "denied"
    <3>1. attempt'[q].state = "denied"
      BY <2>3, RestartEffect
    <3> QED
      BY <2>2, <2>3, <3>1 DEF ExposedOf
  <2>4. CASE attempt[q].state # "denied"
    <3>1. /\ attempt'[q].state # "denied" /\ attempt'[q].amount = attempt[q].amount
          /\ attempt[q].state \in Terminal => /\ attempt'[q].state \in Terminal
                                             /\ attempt'[q].cost = attempt[q].cost
          /\ attempt[q].confirmed # None => attempt'[q].confirmed = attempt[q].confirmed
      BY <2>4, RestartEffect DEF Terminal
    <3> QED
      BY <2>1, <2>2, <2>4, <3>1, ExposedFalls
  <2> QED
    BY <2>2, <2>3, <2>4
<1> QED
  BY <1>1, <1>2, <1>3, RestartEffect, RowsLearn

\* A new month counts none of the old one's rows against its plans, and all of a job's.
LEMMA NewMonthKeeps ==
    ASSUME Sound, MoneyKept, NewMonth
    PROVE  Sound' /\ MoneyKept' /\ UNCHANGED <<attempt, bound>>
<1>1. /\ UNCHANGED <<state, pin, gen, ctx, retired, moved, attempt, rows, budget, bound, ceiling>>
      /\ month' = month + 1 /\ month' \in 1 .. MaxMonth
  BY BoundsAssumption DEF Sound, TypeOK, NewMonth, jobs
<1>2. TypeOK' /\ Taken' = Taken
  BY <1>1 DEF Sound, TypeOK, Taken
<1>3. SoundRows'
  <2>1. ASSUME NEW q \in Taken
        PROVE  attempt[q].month \in Nat /\ attempt[q].month <= month
    BY DEF Sound, SoundRows, SoundRow, Row
  <2> QED
    BY <1>1, <1>2, <2>1 DEF Sound, TypeOK, SoundRows, SoundRow
<1>4. Sound'
  BY <1>1, <1>2, <1>3 DEF Sound, Listed
<1>5. ASSUME NEW s \in Scopes, budget'[s] # None
      PROVE  budget'[s] <= ceiling'[s] /\ Exposure(s)' <= ceiling'[s]
  <2>1. /\ budget[s] <= ceiling[s] /\ Exposure(s) <= ceiling[s]
        /\ ceiling[s] \in Nat
    BY <1>1, <1>5, BudgetsAreNat DEF MoneyKept, Sound
  <2>2. CASE s \in Jobs
    <3>1. Exposure(s)' = Exposure(s)
      BY <1>1, <2>2 DEF Exposure, InScope
    <3> QED
      BY <1>1, <2>1, <3>1
  <2>3. CASE s \notin Jobs
    <3>1. InScope(s)' = {}
      <4>1. ASSUME NEW q \in Taken
            PROVE  attempt[q].month # month'
        BY <1>1 DEF Sound, TypeOK, SoundRows, SoundRow, Row
      <4> QED
        BY <1>1, <2>3, <4>1 DEF InScope, Taken
    <3>2. Exposure(s)' = SumFunctionOnSet(ExposedBy', InScope(s)')
      BY DEF Exposure, ExposedBy, ExposedOf, Known
    <3>3. Exposure(s)' = 0
      BY <3>1, <3>2, SumEmpty
    <3> QED
      BY <1>1, <2>1, <3>3
  <2> QED
    BY <2>2, <2>3
<1>6. MoneyKept'
  BY <1>5 DEF MoneyKept
<1> QED
  BY <1>1, <1>4, <1>6

(***************************************************************************)
(* The budget theorem.                                                     *)
(***************************************************************************)

LedgerInv == Sound /\ MoneyKept

LEMMA LedgerInit == Init => LedgerInv
<1> SUFFICES ASSUME Init
             PROVE  LedgerInv
  OBVIOUS
<1>1. Taken = {} /\ rows = <<>>
  BY DEF Init, Taken
<1>2. TypeOK
  <2>1. month \in 1 .. MaxMonth
    BY BoundsAssumption DEF Init
  <2> QED
    BY <2>1, BoundsAssumption DEF Init, TypeOK, JobStates
<1>3. Listed /\ SoundRows
  BY <1>1, FS_EmptySet DEF Listed, SoundRows
<1>4. MoneyKept
  BY DEF Init, MoneyKept
<1> QED
  BY <1>2, <1>3, <1>4 DEF LedgerInv, Sound

LEMMA LedgerStep == LedgerInv /\ [Next]_vars => LedgerInv'
<1> SUFFICES ASSUME LedgerInv, [Next]_vars
             PROVE  LedgerInv'
  OBVIOUS
<1> USE DEF LedgerInv
<1>1. CASE UNCHANGED vars
  BY <1>1 DEF vars, Sound, TypeOK, Listed, SoundRows, SoundRow, Taken, MoneyKept, Exposure, InScope
<1>2. CASE JobStep
  <2>1. Sound' /\ UNCHANGED <<budget, ceiling>> /\ \A s : Exposure(s)' = Exposure(s)
    BY <1>2, JobStepEffect, SameRows DEF Sound
  <2> QED
    BY <2>1 DEF MoneyKept
<1>3. CASE PlanStep
  BY <1>3, PlanStepKeeps
<1>4. ASSUME NEW r \in Requests, NEW j \in Jobs, NEW m \in Models, NEW amount \in Amounts,
             NEW c \in Contexts, Asks(r, j, m, amount, c)
      PROVE  LedgerInv'
  BY <1>4, AskKeeps
<1>5. ASSUME NEW r \in Requests, NEW status \in Statuses, NEW cost \in Charges \cup {0, None},
             Settle(r, status, cost)
      PROVE  LedgerInv'
  BY <1>5, SettleKeeps
<1>6. ASSUME NEW r \in Requests, NEW cost \in Charges, ConfirmCost(r, cost)
      PROVE  LedgerInv'
  BY <1>6, ConfirmKeeps
<1>7. CASE Restart
  BY <1>7, RestartKeeps
<1>8. CASE NewMonth
  BY <1>8, NewMonthKeeps
<1> QED
  BY <1>1, <1>2, <1>3, <1>4, <1>5, <1>6, <1>7, <1>8, StepKinds

\* Every variable of the ledger keeps its type.
THEOREM WorkLedgerTyping == Spec => []TypeOK
<1>1. LedgerInv => TypeOK
  BY DEF LedgerInv, Sound
<1> QED
  BY <1>1, LedgerInit, LedgerStep, PTL DEF Spec

FinalStep ==
    \A r \in Requests : attempt[r] # None =>
          /\ attempt'[r] # None
          /\ attempt[r].state \in Terminal =>
                attempt'[r].state = attempt[r].state /\ attempt'[r].cost = attempt[r].cost
          /\ attempt[r].confirmed # None => attempt'[r].confirmed = attempt[r].confirmed

ThreadStep ==
    \A t \in Threads : bound[t] # None =>
          bound'[t] = bound[t] \/ bound' = [u \in Threads |-> None]

\* What a row that is settled or confirmed keeps.
Final(new, row) ==
    /\ row.state \in Terminal => new.state = row.state /\ new.cost = row.cost
    /\ row.confirmed # None => new.confirmed = row.confirmed

LEMMA FinalByRow ==
    ASSUME Taken \subseteq Taken', \A q \in Taken : Final(attempt'[q], attempt[q])
    PROVE  FinalStep
BY DEF Final, FinalStep, Taken

LEMMA StepsAreFinal == LedgerInv /\ [Next]_vars => FinalStep /\ ThreadStep
<1> SUFFICES ASSUME LedgerInv, [Next]_vars
             PROVE  FinalStep /\ ThreadStep
  OBVIOUS
<1> USE DEF LedgerInv
<1>1. CASE UNCHANGED <<attempt, bound>>
  BY <1>1 DEF FinalStep, ThreadStep
<1>2. CASE JobStep
  BY <1>2, JobStepEffect DEF Sound, FinalStep, ThreadStep
<1>3. CASE PlanStep \/ NewMonth
  BY <1>1, <1>3, PlanStepKeeps, NewMonthKeeps
<1>4. ASSUME NEW r \in Requests, NEW j \in Jobs, NEW m \in Models, NEW amount \in Amounts,
             NEW c \in Contexts, Asks(r, j, m, amount, c)
      PROVE  FinalStep /\ ThreadStep
  <2>1. bound' = bound /\ \A q \in Taken : attempt'[q] = attempt[q]
    BY <1>4, AskKeeps
  <2> QED
    BY <2>1 DEF FinalStep, ThreadStep, Taken
<1>5. ASSUME NEW r \in Requests, NEW status \in Statuses, NEW cost \in Charges \cup {0, None},
             Settle(r, status, cost)
      PROVE  FinalStep /\ ThreadStep
  <2>1. /\ Taken' = Taken /\ \A q \in Requests \ {r} : attempt'[q] = attempt[q]
        /\ attempt[r].state \notin Terminal /\ attempt'[r].confirmed = attempt[r].confirmed
    BY <1>5, SettleEffect DEF Sound
  <2>2. FinalStep
    BY <2>1, FinalByRow DEF Taken, Final
  <2> QED
    BY <1>5, <2>2, SettleKeeps DEF ThreadStep
<1>6. ASSUME NEW r \in Requests, NEW cost \in Charges, ConfirmCost(r, cost)
      PROVE  FinalStep /\ ThreadStep
  <2>1. Taken' = Taken /\ bound' = bound
    BY <1>6, ConfirmKeeps
  <2>2. /\ \A q \in Requests \ {r} : attempt'[q] = attempt[q]
        /\ attempt'[r] = [attempt[r] EXCEPT !.confirmed = cost]
        /\ attempt[r].confirmed = None /\ attempt[r] \in Row
    BY <1>6 DEF ConfirmCost, Sound, TypeOK
  <2>3. attempt'[r].state = attempt[r].state /\ attempt'[r].cost = attempt[r].cost
    BY <2>2 DEF Row
  <2>4. FinalStep
    BY <2>1, <2>2, <2>3, FinalByRow DEF Taken, Final
  <2> QED
    BY <2>1, <2>4 DEF ThreadStep
<1>7. CASE Restart
  <2>1. FinalStep
    <3>1. ASSUME NEW q \in Taken
          PROVE  Final(attempt'[q], attempt[q])
      BY <1>7, RestartEffect DEF Terminal, Final
    <3>2. Taken' = Taken
      BY <1>7, RestartEffect
    <3> QED
      BY <3>1, <3>2, FinalByRow
  <2> QED
    BY <1>7, <2>1 DEF Restart, ThreadStep
<1>8. CASE UNCHANGED vars
  BY <1>1, <1>8 DEF vars
<1> QED
  BY <1>2, <1>3, <1>4, <1>5, <1>6, <1>7, <1>8, StepKinds

\* From the moment a scope has a plan it admits no more than the plan says, whatever the order in
\* which attempts settle, however many outcomes stay unknown and whenever the runtime restarts or
\* the month turns; no charge is rewritten, and no conversation changes its job.
THEOREM BudgetIsSoundHolds == Spec => BudgetIsSound
<1>1. LedgerInv => BudgetIsKept
  BY DEF LedgerInv, MoneyKept, BudgetIsKept
<1>2. LedgerInv /\ [Next]_vars => [FinalStep]_vars /\ [ThreadStep]_vars
  BY StepsAreFinal
<1>3. Spec => []BudgetIsKept
  BY <1>1, LedgerInit, LedgerStep, PTL DEF Spec
<1>4. Spec => [][FinalStep]_vars /\ [][ThreadStep]_vars
  BY <1>2, LedgerInit, LedgerStep, PTL DEF Spec
<1> QED
  BY <1>3, <1>4 DEF BudgetIsSound, ChargesAreFinal, ThreadKeepsJob, FinalStep, ThreadStep

(***************************************************************************)
(* Affinity.                                                               *)
(***************************************************************************)

\* No row is of a generation its job has not reached, and a correction retired one it has: so a
\* generation that begins has no answer yet.
Aged ==
    /\ \A q \in Taken : attempt[q].gen <= gen[attempt[q].job]
    /\ \A j \in Jobs : retired[j] <= gen[j]

AffinityInv == LedgerInv /\ Aged /\ RetiredPinStaysRetired /\ PinIsLastAdmittedAnswer

\* What a step on jobs may do to the generation and the pin of one.
LEMMA JobStepAges ==
    ASSUME TypeOK, JobStep, NEW k \in Jobs
    PROVE  \/ /\ gen'[k] = gen[k] /\ pin'[k] = pin[k] /\ retired'[k] = retired[k]
              /\ (ctx'[k] = ctx[k] /\ moved'[k] = moved[k]) \/ moved'[k]
           \/ /\ gen'[k] = gen[k] + 1
              /\ \/ retired'[k] = retired[k] /\ pin'[k] = pin[k]
                 \/ retired'[k] = gen'[k] /\ pin'[k] = None
<1> USE DEF TypeOK
<1>1. PICK j \in Jobs :
          \/ CreateWork(j) \/ Pause(j) \/ Resume(j) \/ Stop(j)
          \/ RecurrenceGuard(j) \/ CacheInvalidate(j)
          \/ \E t \in Threads : ConversationWork(t, j)
          \/ \E c \in Contexts : BindRequestContext(j, c)
          \/ \E status \in {"completed", "reopened", "corrected", "unknown", "canceled"} :
                Observe(j, status)
  BY DEF JobStep
<1>2. CASE UNCHANGED <<gen, pin, retired, ctx, moved>>
  BY <1>2
<1>3. CASE CreateWork(j) \/ Pause(j) \/ Resume(j) \/ \E t \in Threads : ConversationWork(t, j)
  BY <1>2, <1>3 DEF CreateWork, Pause, Resume, ConversationWork
<1>4. CASE Stop(j) \/ RecurrenceGuard(j) \/ CacheInvalidate(j)
  <2>1. Bump(j) /\ UNCHANGED <<pin, retired, ctx>>
    BY <1>4 DEF Stop, RecurrenceGuard, CacheInvalidate
  <2> QED
    BY <2>1 DEF Bump
<1>5. ASSUME NEW c \in Contexts, BindRequestContext(j, c)
      PROVE  /\ gen'[k] = gen[k] /\ pin'[k] = pin[k] /\ retired'[k] = retired[k]
             /\ (ctx'[k] = ctx[k] /\ moved'[k] = moved[k]) \/ moved'[k]
  <2>1. UNCHANGED <<gen, pin, retired>> /\ ctx' = [ctx EXCEPT ![j] = c]
    BY <1>5 DEF BindRequestContext
  <2>2. moved' = [moved EXCEPT ![j] = moved[j] \/ c # ctx[j]]
    BY <1>5 DEF BindRequestContext
  <2>3. CASE c = ctx[j]
    <3>1. ctx'[k] = ctx[k]
      BY <2>1, <2>3
    <3>2. (moved[j] \/ c # ctx[j]) = moved[j]
      BY <2>3
    <3>3. moved'[k] = moved[k]
      BY <2>2, <3>2
    <3> QED
      BY <2>1, <3>1, <3>3
  <2>4. CASE c # ctx[j]
    <3>1. moved' = [moved EXCEPT ![j] = TRUE]
      BY <2>2, <2>4
    <3>2. CASE k = j
      BY <2>1, <3>1, <3>2
    <3>3. CASE k # j
      BY <2>1, <3>1, <3>3
    <3> QED
      BY <3>2, <3>3
  <2> QED
    BY <2>3, <2>4
<1>6. ASSUME NEW status \in {"completed", "reopened", "corrected", "unknown", "canceled"},
             Observe(j, status)
      PROVE  \/ UNCHANGED <<gen, pin, retired, ctx, moved>>
             \/ /\ Bump(j) /\ ctx' = ctx
                /\ pin' = [pin EXCEPT ![j] = None]
                /\ retired' = [retired EXCEPT ![j] = gen'[j]]
  BY <1>6 DEF Observe
<1>7. CASE /\ Bump(j) /\ ctx' = ctx
           /\ pin' = [pin EXCEPT ![j] = None]
           /\ retired' = [retired EXCEPT ![j] = gen'[j]]
  BY <1>7 DEF Bump
<1> QED
  BY <1>1, <1>2, <1>3, <1>4, <1>5, <1>6, <1>7

Pinned(j) == pin[j] # None =>
    \E r \in Requests : /\ attempt[r] # None /\ attempt[r].job = j
                        /\ attempt[r].model = pin[j] /\ attempt[r].gen >= retired[j]

LastPinned(j) ==
    Answers(j) # {} /\ ~moved[j] /\ (\A i \in Answers(j) : attempt[rows[i]].ctx = ctx[j])
        => pin[j] = attempt[rows[Max(Answers(j))]].model

\* What settling, confirming and restarting leave of a row.
Kin(new, row) ==
    /\ new.job = row.job /\ new.model = row.model /\ new.gen = row.gen /\ new.ctx = row.ctx

\* A job whose rows and generation stay has the answers it had.
LEMMA SameAnswers ==
    ASSUME Sound, AffinityInv, NEW j \in Jobs, Taken \subseteq Taken',
           DOMAIN rows \subseteq DOMAIN rows', \A i \in DOMAIN rows : rows'[i] = rows[i],
           \A i \in DOMAIN rows' \ DOMAIN rows : ~attempt'[rows'[i]].ok,
           \A q \in Taken : Kin(attempt'[q], attempt[q]),
           \A q \in Taken : attempt[q].job = j => attempt'[q].ok = attempt[q].ok,
           gen'[j] = gen[j], (ctx'[j] = ctx[j] /\ moved'[j] = moved[j]) \/ moved'[j]
    PROVE  /\ Answers(j)' = Answers(j)
           /\ Answers(j)' # {} /\ ~moved'[j]
              /\ (\A i \in Answers(j)' : attempt'[rows'[i]].ctx = ctx'[j])
                 => pin[j] = attempt'[rows'[Max(Answers(j)')]].model /\ pin[j] \in Models
<1>1. LastPinned(j)
  BY DEF AffinityInv, PinIsLastAdmittedAnswer, LastPinned
<1>2. \A i \in DOMAIN rows : rows[i] \in Taken
  BY DEF Sound, Listed
<1>3. Answers(j)' = Answers(j)
  <2>1. ASSUME NEW i \in DOMAIN rows
        PROVE  i \in Answers(j)' <=> i \in Answers(j)
    <3>1. attempt'[rows'[i]].job = attempt[rows[i]].job /\ attempt'[rows'[i]].gen = attempt[rows[i]].gen
      BY <1>2 DEF Kin
    <3>2. attempt[rows[i]].job = j => attempt'[rows'[i]].ok = attempt[rows[i]].ok
      BY <1>2
    <3> QED
      BY <3>1, <3>2 DEF Answers
  <2>2. ASSUME NEW i \in DOMAIN rows' \ DOMAIN rows
        PROVE  i \notin Answers(j)' /\ i \notin Answers(j)
    BY DEF Answers
  <2>3. Answers(j) \subseteq DOMAIN rows /\ Answers(j)' \subseteq DOMAIN rows'
    BY DEF Answers
  <2> QED
    BY <2>1, <2>2, <2>3
<1>4. ASSUME Answers(j)' # {}, ~moved'[j],
             \A i \in Answers(j)' : attempt'[rows'[i]].ctx = ctx'[j]
      PROVE  pin[j] = attempt'[rows'[Max(Answers(j)')]].model /\ pin[j] \in Models
  <2>2. ctx'[j] = ctx[j] /\ ~moved[j]
    BY <1>4
  <2>3. \A i \in Answers(j) : /\ rows'[i] = rows[i] /\ rows[i] \in Taken
                               /\ Kin(attempt'[rows[i]], attempt[rows[i]])
    BY <1>2 DEF Answers
  <2>4. \A i \in Answers(j) : attempt[rows[i]].ctx = ctx[j]
    BY <1>3, <1>4, <2>2, <2>3 DEF Kin
  <2>5. pin[j] = attempt[rows[Max(Answers(j))]].model
    BY <1>1, <1>3, <1>4, <2>2, <2>4 DEF LastPinned
  <2>6. Max(Answers(j)) \in Answers(j)
    <3>1. Answers(j) \in SUBSET (1 .. Len(rows)) /\ Len(rows) \in Nat
      BY DEF Answers, Sound, TypeOK
    <3> QED
      BY <1>3, <1>4, <3>1, LastRow
  <2>7. \A q \in Taken : attempt[q].model \in Models
    BY DEF Sound, TypeOK, Taken, Row
  <2> QED
    BY <1>3, <2>3, <2>5, <2>6, <2>7 DEF Kin
<1> QED
  BY <1>3, <1>4

\* If it also keeps its pin, then what it is pinned to.
LEMMA SameJob ==
    ASSUME Sound, AffinityInv, NEW j \in Jobs, Taken \subseteq Taken',
           DOMAIN rows \subseteq DOMAIN rows', \A i \in DOMAIN rows : rows'[i] = rows[i],
           \A i \in DOMAIN rows' \ DOMAIN rows : ~attempt'[rows'[i]].ok,
           \A q \in Taken : Kin(attempt'[q], attempt[q]),
           \A q \in Taken : attempt[q].job = j => attempt'[q].ok = attempt[q].ok,
           gen'[j] = gen[j], pin'[j] = pin[j], retired'[j] = retired[j],
           (ctx'[j] = ctx[j] /\ moved'[j] = moved[j]) \/ moved'[j]
    PROVE  Pinned(j)' /\ LastPinned(j)'
<1>1. Pinned(j)
  BY DEF AffinityInv, RetiredPinStaysRetired, Pinned
<1>2. Pinned(j)'
  BY <1>1 DEF Pinned, Taken, Kin
<1>3. LastPinned(j)'
  BY SameAnswers DEF LastPinned
<1> QED
  BY <1>2, <1>3

\* A generation that begins has no answer, and a correction no pin.
LEMMA JobStepKeepsAffinity ==
    ASSUME AffinityInv, JobStep, NEW k \in Jobs
    PROVE  Pinned(k)' /\ LastPinned(k)' /\ retired'[k] <= gen'[k] /\ gen[k] <= gen'[k]
<1> USE DEF AffinityInv, LedgerInv, Sound
<1>1. UNCHANGED <<attempt, rows>> /\ Taken' = Taken
  BY JobStepEffect DEF Taken
<1>2. gen[k] \in Nat /\ retired[k] \in Nat /\ retired[k] <= gen[k]
  BY DEF TypeOK, Aged
<1>3. Pinned(k)
  BY DEF RetiredPinStaysRetired, Pinned
<1>4. CASE /\ gen'[k] = gen[k] /\ pin'[k] = pin[k] /\ retired'[k] = retired[k]
           /\ (ctx'[k] = ctx[k] /\ moved'[k] = moved[k]) \/ moved'[k]
  <2>1. Pinned(k)' /\ LastPinned(k)'
    BY <1>1, <1>4, SameJob DEF Kin
  <2> QED
    BY <1>2, <1>4, <2>1
<1>5. CASE /\ gen'[k] = gen[k] + 1
           /\ \/ retired'[k] = retired[k] /\ pin'[k] = pin[k]
              \/ retired'[k] = gen'[k] /\ pin'[k] = None
  <2>1. Answers(k)' = {}
    <3>1. ASSUME NEW i \in DOMAIN rows, attempt[rows[i]].job = k
          PROVE  attempt[rows[i]].gen # gen'[k]
      <4>1. rows[i] \in Taken
        BY DEF Listed
      <4>2. attempt[rows[i]].gen <= gen[k] /\ attempt[rows[i]].gen \in Nat
        BY <3>1, <4>1 DEF Aged, Taken, TypeOK, Row
      <4> QED
        BY <1>2, <1>5, <4>2
    <3> QED
      BY <1>1, <3>1 DEF Answers
  <2>2. LastPinned(k)'
    BY <2>1 DEF LastPinned
  <2>3. Pinned(k)'
    BY <1>1, <1>3, <1>5 DEF Pinned
  <2> QED
    BY <1>2, <1>5, <2>2, <2>3
<1> QED
  BY <1>4, <1>5, JobStepAges

\* A reservation pins a job that has no pin, and so none that has an answer.
LEMMA AskKeepsAffinity ==
    ASSUME AffinityInv, NEW r \in Requests, NEW j \in Jobs, NEW m \in Models,
           NEW amount \in Amounts, NEW c \in Contexts, Asks(r, j, m, amount, c), NEW k \in Jobs
    PROVE  Pinned(k)' /\ LastPinned(k)'
<1> USE DEF AffinityInv, LedgerInv, Sound
<1>1. PICK st \in {"pending", "denied"} :
          /\ Insert(r, NewRow(j, m, amount, c, st))
          /\ UNCHANGED <<gen, ctx, retired, moved>>
          /\ pin' = pin \/ pin' = [pin EXCEPT ![j] = IF @ = None THEN m ELSE @]
  BY DEF Asks, Reserve, ReserveDenied
<1> DEFINE row == NewRow(j, m, amount, c, st)
<1>2. /\ row \in Row /\ row.job = j /\ row.model = m /\ row.gen = gen[j] /\ ~row.ok
  BY NewRowType DEF NewRow
<1> HIDE DEF row
<1>3. /\ attempt'[r] = row /\ Taken' = Taken \cup {r}
      /\ \A q \in Taken : attempt'[q] = attempt[q]
      /\ DOMAIN rows' = DOMAIN rows \cup {Len(rows) + 1} /\ rows'[Len(rows) + 1] = r
      /\ \A i \in DOMAIN rows : rows'[i] = rows[i]
  <2>1. Insert(r, row)
    BY <1>1 DEF row
  <2> QED
    BY <1>2, <2>1, InsertEffect
<1>4. /\ \A i \in DOMAIN rows' \ DOMAIN rows : ~attempt'[rows'[i]].ok
      /\ \A q \in Taken : Kin(attempt'[q], attempt[q])
      /\ \A q \in Taken : attempt'[q].ok = attempt[q].ok
      /\ gen'[k] = gen[k] /\ retired'[k] = retired[k] /\ ctx'[k] = ctx[k] /\ moved'[k] = moved[k]
  BY <1>1, <1>2, <1>3 DEF Kin
<1>5. CASE pin'[k] = pin[k]
  BY <1>3, <1>4, <1>5, SameJob
<1>6. CASE pin'[k] # pin[k]
  <2>1. k = j /\ pin[k] = None /\ pin'[k] = m
    BY <1>1, <1>6 DEF TypeOK
  <2>2. Pinned(k)'
    <3>1. gen[j] >= retired[j]
      BY DEF Aged, TypeOK
    <3>2. attempt'[r] # None
      BY <1>2, <1>3, RowAssumption
    <3> QED
      BY <1>1, <1>2, <1>3, <2>1, <3>1, <3>2 DEF Pinned
  <2>3. LastPinned(k)'
    <3>1. ~(Answers(k)' # {} /\ ~moved'[k] /\ \A i \in Answers(k)' : attempt'[rows'[i]].ctx = ctx'[k])
      BY <1>3, <1>4, <2>1, SameAnswers, JobsAssumption
    <3> QED
      BY <3>1 DEF LastPinned
  <2> QED
    BY <2>2, <2>3
<1> QED
  BY <1>5, <1>6

\* An answer that counts leaves its job on the model of the last one that does; one of another
\* generation is not among them, and one of another context leaves the job without such a promise.
LEMMA SettleKeepsAffinity ==
    ASSUME AffinityInv, NEW r \in Requests, NEW status \in Statuses,
           NEW cost \in Charges \cup {0, None}, Settle(r, status, cost), NEW k \in Jobs
    PROVE  Pinned(k)' /\ LastPinned(k)'
<1> USE DEF AffinityInv, LedgerInv, Sound
<1>1. /\ r \in Taken /\ Taken' = Taken
      /\ \A q \in Requests \ {r} : attempt'[q] = attempt[q]
      /\ \A q \in Taken : Kin(attempt'[q], attempt[q])
      /\ attempt'[r].ok <=> attempt[r].ok \/ status \in {"succeeded", "cache_hit"}
      /\ attempt[r] \in Row /\ attempt'[r] \in Row
      /\ attempt' \in [Requests -> Row \cup {None}]
  BY SettleEffect DEF Kin, Taken
<1>2. UNCHANGED <<gen, ctx, rows, retired, moved>>
  BY DEF Settle
<1> DEFINE j == attempt[r].job
<1>3. j \in Jobs
  BY <1>1 DEF Row
<1> HIDE DEF j
<1>4. CASE k # j \/ status \notin {"succeeded", "cache_hit"}
  <2>1. pin'[k] = pin[k]
    BY <1>3, <1>4 DEF Settle, TypeOK, j
  <2>2. \A q \in Taken : attempt[q].job = k => attempt'[q].ok = attempt[q].ok
    <3>1. ASSUME NEW q \in Taken, attempt[q].job = k, q = r
          PROVE  attempt'[q].ok = attempt[q].ok
      <4>1. status \notin {"succeeded", "cache_hit"}
        BY <1>4, <3>1 DEF j
      <4>2. attempt'[r].ok \in BOOLEAN /\ attempt[r].ok \in BOOLEAN
        BY <1>1 DEF Row
      <4> QED
        BY <1>1, <3>1, <4>1, <4>2
    <3> QED
      BY <1>1, <3>1 DEF Taken
  <2> QED
    BY <1>1, <1>2, <2>1, <2>2, SameJob
<1>5. CASE k = j /\ status \in {"succeeded", "cache_hit"}
  <2> DEFINE answered == {i \in DOMAIN rows :
                            /\ attempt'[rows[i]].job = k /\ attempt'[rows[i]].ok
                            /\ attempt'[rows[i]].gen = gen[k] /\ attempt'[rows[i]].ctx = ctx[k]}
             counts == attempt[r].gen = gen[k] /\ attempt[r].ctx = ctx[k]
  <2> HIDE DEF answered
  <2>1. /\ counts => /\ Affinity(k, r) = attempt'[rows[Max(answered)]].model
                     /\ Max(answered) \in answered
        /\ ~counts => Affinity(k, r) = pin[k]
    BY <1>5, AffinityIs DEF answered, j
  <2>2. pin'[k] = Affinity(k, r)
    BY <1>5 DEF Settle, TypeOK, j
  <2>3. \A i \in DOMAIN rows : rows[i] \in Taken
    BY DEF Listed
  <2>4. CASE counts
    <3>1. pin'[k] = attempt'[rows[Max(answered)]].model /\ Max(answered) \in answered
      BY <2>1, <2>2, <2>4
    <3>2. Pinned(k)'
      <4> DEFINE q == rows[Max(answered)]
      <4>1. q \in Requests /\ attempt'[q] # None
        BY <1>1, <2>3, <3>1 DEF answered, Taken
      <4>2. attempt'[q].job = k /\ attempt'[q].model = pin'[k] /\ attempt'[q].gen = gen[k]
        BY <3>1 DEF answered
      <4>3. gen[k] >= retired'[k]
        BY <1>2 DEF Aged, TypeOK
      <4> QED
        BY <4>1, <4>2, <4>3 DEF Pinned
    <3>3. (\A i \in Answers(k)' : attempt'[rows'[i]].ctx = ctx'[k]) => Answers(k)' = answered
      BY <1>2 DEF Answers, answered
    <3> QED
      BY <1>2, <3>1, <3>2, <3>3 DEF LastPinned
  <2>5. CASE ~counts
    <3>1. pin'[k] = pin[k]
      BY <2>1, <2>2, <2>5
    <3>2. Pinned(k)'
      <4>1. Pinned(k)
        BY DEF RetiredPinStaysRetired, Pinned
      <4> QED
        BY <1>1, <1>2, <3>1, <4>1 DEF Pinned, Kin, Taken
    <3>3. CASE attempt[r].gen # gen[k]
      <4>1. Answers(k)' = Answers(k)
        <5>1. ASSUME NEW i \in DOMAIN rows
              PROVE  i \in Answers(k)' <=> i \in Answers(k)
          BY <1>1, <1>2, <2>3, <3>3 DEF Answers, Kin, Taken
        <5>2. Answers(k) \subseteq DOMAIN rows /\ Answers(k)' \subseteq DOMAIN rows
          BY <1>2 DEF Answers
        <5> QED
          BY <5>1, <5>2
      <4>2. LastPinned(k)
        BY DEF PinIsLastAdmittedAnswer, LastPinned
      <4>3. \A i \in DOMAIN rows : Kin(attempt'[rows[i]], attempt[rows[i]])
        BY <1>1, <2>3
      <4>4. Answers(k) # {} => Max(Answers(k)) \in Answers(k)
        <5>1. Answers(k) \in SUBSET (1 .. Len(rows)) /\ Len(rows) \in Nat
          BY DEF Answers, TypeOK
        <5> QED
          BY <5>1, LastRow
      <4>5. Answers(k) \subseteq DOMAIN rows
        BY DEF Answers
      <4> QED
        BY <1>2, <3>1, <3>2, <4>1, <4>2, <4>3, <4>4, <4>5 DEF LastPinned, Kin
    <3>4. CASE attempt[r].gen = gen[k] /\ attempt[r].ctx # ctx[k]
      <4>1. PICK i \in DOMAIN rows : rows[i] = r
        BY <1>1 DEF Listed
      <4>2. i \in Answers(k)' /\ attempt'[rows'[i]].ctx # ctx'[k]
        BY <1>1, <1>2, <1>5, <3>4, <4>1 DEF Answers, Kin, j
      <4> QED
        BY <3>2, <4>2 DEF LastPinned
    <3> QED
      BY <2>5, <3>3, <3>4
  <2> QED
    BY <2>4, <2>5
<1> QED
  BY <1>4, <1>5

LEMMA AffinityByJob ==
    ASSUME LedgerInv', \A k \in Jobs : Pinned(k)' /\ LastPinned(k)' /\ retired'[k] <= gen'[k],
           \A q \in Taken' : attempt'[q].gen <= gen'[attempt'[q].job]
    PROVE  AffinityInv'
<1>1. Aged'
  BY DEF Aged
<1>2. RetiredPinStaysRetired' /\ PinIsLastAdmittedAnswer'
  BY DEF RetiredPinStaysRetired, PinIsLastAdmittedAnswer, Pinned, LastPinned
<1> QED
  BY <1>1, <1>2 DEF AffinityInv

\* Rows that keep their kin, of jobs that keep their generation, keep to it.
LEMMA SameAge ==
    ASSUME AffinityInv, UNCHANGED <<gen, retired>>, Taken' = Taken,
           \A q \in Taken : Kin(attempt'[q], attempt[q])
    PROVE  /\ \A q \in Taken' : attempt'[q].gen <= gen'[attempt'[q].job]
           /\ \A k \in Jobs : retired'[k] <= gen'[k]
BY DEF AffinityInv, Aged, Kin

LEMMA AffinityStep == AffinityInv /\ [Next]_vars => AffinityInv'
<1> SUFFICES ASSUME AffinityInv, [Next]_vars
             PROVE  AffinityInv'
  OBVIOUS
<1> USE DEF AffinityInv
<1>1. LedgerInv'
  BY LedgerStep
<1>2. ASSUME UNCHANGED <<pin, gen, ctx, rows, retired, moved>>, Taken' = Taken,
             \A q \in Taken : Kin(attempt'[q], attempt[q]) /\ attempt'[q].ok = attempt[q].ok
      PROVE  AffinityInv'
  <2>1. \A k \in Jobs : Pinned(k)' /\ LastPinned(k)'
    BY <1>2, SameJob DEF LedgerInv
  <2> QED
    BY <1>1, <1>2, <2>1, SameAge, AffinityByJob
<1>3. CASE UNCHANGED <<pin, gen, ctx, attempt, rows, retired, moved>>
  BY <1>2, <1>3 DEF Kin, Taken
<1>4. CASE UNCHANGED vars
  BY <1>3, <1>4 DEF vars
<1>5. CASE JobStep
  <2>1. \A k \in Jobs : Pinned(k)' /\ LastPinned(k)' /\ retired'[k] <= gen'[k] /\ gen[k] <= gen'[k]
    BY <1>5, JobStepKeepsAffinity
  <2>2. attempt' = attempt /\ Taken' = Taken
    BY <1>5, JobStepEffect DEF LedgerInv, Sound, Taken
  <2>3. ASSUME NEW q \in Taken
        PROVE  attempt[q].gen <= gen'[attempt[q].job]
    <3>1. /\ attempt[q].job \in Jobs /\ attempt[q].gen \in Nat /\ gen[attempt[q].job] \in Nat
          /\ gen'[attempt[q].job] \in Nat /\ attempt[q].gen <= gen[attempt[q].job]
      BY <1>1 DEF LedgerInv, Sound, TypeOK, Taken, Row, Aged
    <3> QED
      BY <2>1, <3>1
  <2> QED
    BY <1>1, <2>1, <2>2, <2>3, AffinityByJob
<1>6. CASE PlanStep
  BY <1>3, <1>6 DEF PlanStep, ApproveBudget, SetPlan, jobs
<1>7. ASSUME NEW r \in Requests, NEW j \in Jobs, NEW m \in Models, NEW amount \in Amounts,
             NEW c \in Contexts, Asks(r, j, m, amount, c)
      PROVE  AffinityInv'
  <2>1. \A k \in Jobs : Pinned(k)' /\ LastPinned(k)'
    BY <1>7, AskKeepsAffinity
  <2>2. UNCHANGED <<gen, retired>> /\ \A k \in Jobs : retired'[k] <= gen'[k]
    BY <1>7 DEF Asks, Reserve, ReserveDenied, Aged
  <2>3. PICK st \in {"pending", "denied"} : Insert(r, NewRow(j, m, amount, c, st))
    BY <1>7 DEF Asks, Reserve, ReserveDenied
  <2>4. /\ NewRow(j, m, amount, c, st) \in Row /\ NewRow(j, m, amount, c, st).job = j
        /\ NewRow(j, m, amount, c, st).gen = gen[j]
    BY NewRowType DEF LedgerInv, Sound, NewRow
  <2>5. /\ Taken' = Taken \cup {r} /\ \A q \in Taken : attempt'[q] = attempt[q]
        /\ attempt'[r] = NewRow(j, m, amount, c, st)
    BY <2>3, <2>4, InsertEffect DEF LedgerInv, Sound
  <2>6. \A q \in Taken' : attempt'[q].gen <= gen'[attempt'[q].job]
    BY <2>2, <2>4, <2>5 DEF Aged, LedgerInv, Sound, TypeOK
  <2> QED
    BY <1>1, <2>1, <2>2, <2>6, AffinityByJob
<1>8. ASSUME NEW r \in Requests, NEW status \in Statuses, NEW cost \in Charges \cup {0, None},
             Settle(r, status, cost)
      PROVE  AffinityInv'
  <2>1. \A k \in Jobs : Pinned(k)' /\ LastPinned(k)'
    BY <1>8, SettleKeepsAffinity
  <2>2. Taken' = Taken /\ \A q \in Taken : Kin(attempt'[q], attempt[q])
    BY <1>8, SettleEffect DEF LedgerInv, Sound, Kin, Taken
  <2>3. UNCHANGED <<gen, retired>>
    BY <1>8 DEF Settle
  <2> QED
    BY <1>1, <2>1, <2>2, <2>3, SameAge, AffinityByJob
<1>9. ASSUME NEW r \in Requests, NEW cost \in Charges, ConfirmCost(r, cost)
      PROVE  AffinityInv'
  <2>1. Taken' = Taken /\ UNCHANGED <<pin, gen, ctx, rows, retired, moved>>
    BY <1>9, ConfirmKeeps DEF LedgerInv, ConfirmCost, jobs
  <2>2. attempt' = [attempt EXCEPT ![r] = [attempt[r] EXCEPT !.confirmed = cost]]
        /\ attempt[r] \in Row
    BY <1>9 DEF ConfirmCost, LedgerInv, Sound, TypeOK
  <2>3. \A q \in Taken : Kin(attempt'[q], attempt[q]) /\ attempt'[q].ok = attempt[q].ok
    BY <2>2 DEF Kin, LedgerInv, Sound, TypeOK, Taken, Row
  <2> QED
    BY <1>2, <2>1, <2>3
<1>10. CASE Restart
  <2>1. UNCHANGED <<pin, gen, ctx, rows, retired, moved>>
    BY <1>10 DEF Restart, jobs
  <2>2. Taken' = Taken
        /\ \A q \in Taken : Kin(attempt'[q], attempt[q]) /\ attempt'[q].ok = attempt[q].ok
    BY <1>10, RestartEffect DEF LedgerInv, Kin
  <2> QED
    BY <1>2, <2>1, <2>2
<1>11. CASE NewMonth
  BY <1>3, <1>11 DEF NewMonth, jobs
<1> QED
  BY <1>4, <1>5, <1>6, <1>7, <1>8, <1>9, <1>10, <1>11, StepKinds

\* However answers are reordered, whatever is corrected meanwhile and whenever the runtime
\* restarts: a job is on the model of the answer admitted last of its generation and context, and
\* never on one a correction retired.
THEOREM AffinityIsSoundHolds == Spec => []AffinityIsSound
<1>1. Init => AffinityInv
  <2>1. ASSUME Init
        PROVE  Aged /\ RetiredPinStaysRetired /\ PinIsLastAdmittedAnswer
    BY <2>1 DEF Init, Aged, Taken, RetiredPinStaysRetired, PinIsLastAdmittedAnswer, Answers
  <2> QED
    BY <2>1, LedgerInit DEF AffinityInv
<1>2. AffinityInv => AffinityIsSound
  BY DEF AffinityInv, AffinityIsSound
<1> QED
  BY <1>1, <1>2, AffinityStep, PTL DEF Spec


(***************************************************************************)
(* Work budgets inside the attempt transaction: for any scopes, plans and  *)
(* attempts, whatever is published, corrected and activated meanwhile.     *)
(*                                                                         *)
(* The versions of a scope or a plan, and its activations, are only added  *)
(* to (`Grew'), so that what an admission was explained by stays where it  *)
(* was.  What a window exposes grows by an admission only, which the plan  *)
(* in force then has room for.                                             *)
(***************************************************************************)

Grows(old, new) == \A i \in DOMAIN old : i \in DOMAIN new /\ new[i] = old[i]

LEMMA AppendGrows ==
    ASSUME NEW S, NEW s \in Seq(S), NEW x \in S
    PROVE  /\ Append(s, x) \in Seq(S) /\ Len(Append(s, x)) = Len(s) + 1 /\ Len(s) \in Nat
           /\ DOMAIN Append(s, x) = DOMAIN s \cup {Len(s) + 1} /\ DOMAIN s = 1 .. Len(s)
           /\ Append(s, x)[Len(s) + 1] = x /\ Grows(s, Append(s, x))
<1>1. /\ Append(s, x) \in Seq(S) /\ Len(Append(s, x)) = Len(s) + 1 /\ Len(s) \in Nat
      /\ \A i \in 1 .. Len(s) : Append(s, x)[i] = s[i]
      /\ Append(s, x)[Len(s) + 1] = x
  BY AppendProperties
<1>2. DOMAIN s = 1 .. Len(s) /\ DOMAIN Append(s, x) = 1 .. (Len(s) + 1)
  BY <1>1
<1> QED
  BY <1>1, <1>2 DEF Grows

LEMMA ImageIsFinite ==
    ASSUME NEW S, IsFiniteSet(S), NEW f
    PROVE  IsFiniteSet({f[i] : i \in S})
<1> DEFINE T == {f[i] : i \in S}
           g == [i \in S |-> f[i]]
<1>1. g \in Surjection(S, T)
  BY DEF Surjection
<1> QED
  BY <1>1, FS_Surjection

\* Of finitely many numbers one is the largest.
LEMMA LargestIs ==
    ASSUME NEW T \in SUBSET Nat, IsFiniteSet(T), T # {}
    PROVE  Max(T) \in T /\ \A k \in T : k <= Max(T)
<1> DEFINE HasLargest(U) == \E x \in U : \A y \in U : x >= y
           Good == {U \in SUBSET T : U = {} \/ HasLargest(U)}
<1>1. {} \in Good
  OBVIOUS
<1>2. ASSUME NEW U \in SUBSET T, U # {}, \A x \in U : U \ {x} \in Good
      PROVE  U \in Good
  <2>1. PICK x \in U : x \in Nat
    BY <1>2
  <2>2. CASE U \ {x} = {}
    BY <2>1, <2>2
  <2>3. CASE HasLargest(U \ {x})
    <3>1. PICK m \in U \ {x} : \A y \in U \ {x} : m >= y
      BY <2>3
    <3>2. m \in Nat /\ \A y \in U : y = x \/ y \in U \ {x}
      BY <3>1
    <3>3. CASE m >= x
      BY <3>1, <3>2, <3>3
    <3>4. CASE x >= m
      <4>1. \A y \in U : x >= y
        BY <2>1, <3>1, <3>2, <3>4
      <4> QED
        BY <2>1, <4>1
    <3> QED
      BY <2>1, <3>2, <3>3, <3>4
  <2>4. U \ {x} \in Good
    BY <1>2
  <2> QED
    BY <2>2, <2>3, <2>4
<1> HIDE DEF Good
<1>3. SUBSET T \subseteq Good
  BY <1>1, <1>2, FiniteSubsetInduction
<1>4. HasLargest(T)
  <2>1. T \in Good
    BY <1>3
  <2> QED
    BY <2>1 DEF Good
<1>5. Max(T) \in T /\ \A k \in T : Max(T) >= k
  BY <1>4 DEF Max
<1> QED
  BY <1>5

LEMMA LargestGrows ==
    ASSUME NEW T \in SUBSET Nat, IsFiniteSet(T), NEW U \in SUBSET T, U # {}
    PROVE  Max(U) <= Max(T)
<1>1. IsFiniteSet(U) /\ U \in SUBSET Nat /\ T # {}
  BY FS_Subset
<1>2. Max(U) \in U
  BY <1>1, LargestIs
<1> QED
  BY <1>1, <1>2, LargestIs

LEMMA SmallerOfTwo ==
    ASSUME NEW x \in Nat, NEW y \in Nat
    PROVE  Min({x, y}) \in Nat /\ Min({x, y}) <= x /\ Min({x, y}) <= y
<1>1. \E m \in {x, y} : \A k \in {x, y} : m <= k
  <2>1. CASE x <= y
    BY <2>1
  <2>2. CASE y <= x
    BY <2>2
  <2> QED
    BY <2>1, <2>2
<1>2. Min({x, y}) \in {x, y} /\ \A k \in {x, y} : Min({x, y}) <= k
  BY <1>1 DEF Min
<1> QED
  BY <1>2

-----------------------------------------------------------------------------
Begun(a) == wreq[a] \in OpenWork \cup SettledWork

ControlIsSound ==
    /\ \A s \in WorkScopes : \A v \in DOMAIN wscope[s] :
          wscope[s][v].parent # NoScope => ScopeExists(wscope[s][v].parent)
    /\ \A p \in BudgetPlans :
          /\ Len(plans[p]) <= MaxPlanWrites /\ Len(acts[p]) <= MaxPlanWrites
          /\ \A i \in DOMAIN acts[p] :
                /\ acts[p][i].ver \in DOMAIN plans[p] /\ acts[p][i].at <= wclock
                /\ \A j \in DOMAIN acts[p] : i <= j => acts[p][i].at <= acts[p][j].at
    /\ \A a \in WorkAttempts : asOf[a] <= wclock /\ (wref[a] # NoScope => ScopeExists(wref[a]))

BindingsAreSound ==
    /\ IsFiniteSet(bindings)
    /\ \A b \in bindings : /\ Begun(b.attempt) /\ b.gen \in DOMAIN acts[b.plan]
                           /\ plans[b.plan][acts[b.plan][b.gen].ver].from = b.from
                           /\ plans[b.plan][acts[b.plan][b.gen].ver].to = b.to
    /\ \A b, c \in bindings : b.attempt = c.attempt /\ b.plan = c.plan => b = c

BoundTo(a, p) == {b \in bindings : b.attempt = a /\ b.plan = p}
ActsBefore(a, p) == {i \in DOMAIN acts[p] : acts[p][i].at < asOf[a]}

\* What BindingsAreComplete says, but for the number of an attempt's bindings.
IsExplained(a, p) ==
    LET text == plans[p][acts[p][Max(ActsBefore(a, p))].ver]
    IN  /\ \A b \in BoundTo(a, p) : acts[p][b.gen].at <= asOf[a]
        /\ ActsBefore(a, p) # {} /\ (\A i \in DOMAIN acts[p] : acts[p][i].at # asOf[a])
           /\ text.from <= asOf[a] /\ asOf[a] < text.to
           => (BoundTo(a, p) # {} <=> <<text.scope, text.ver>> \in ScopeChain(wref[a]))

Explained == \A a \in WorkAttempts, p \in BudgetPlans : Begun(a) => IsExplained(a, p)

BudgetsInv == WorkBudgetsTypeOK /\ ControlIsSound /\ BindingsAreSound /\ WindowsAreKept /\ Explained

WindowRows(p, from, to) == {b \in bindings : b.plan = p /\ b.from = from /\ b.to = to}

\* Of the versions of a plan and its activations: those of a window, and their amounts.
ActsOf(texts, activations, from, to) ==
    {i \in DOMAIN activations : LET text == texts[activations[i].ver] IN text.from = from /\ text.to = to}
AmountsOf(texts, activations, from, to) ==
    {texts[activations[i].ver].amount : i \in ActsOf(texts, activations, from, to)}

\* The plans of a row that is in force, and what they say.
LEMMA ActivatedIs ==
    ASSUME WorkBudgetsTypeOK, ControlIsSound, NEW p \in BudgetPlans
    PROVE  /\ acts[p] \in Seq([ver : 1 .. MaxPlanWrites, at : 1 .. MaxClock]) /\ plans[p] \in Seq(PlanTexts)
           /\ Len(acts[p]) \in Nat /\ DOMAIN acts[p] = 1 .. Len(acts[p])
           /\ \A i \in DOMAIN acts[p] :
                 /\ acts[p][i].at \in Nat /\ acts[p][i].ver \in Nat
                 /\ plans[p][acts[p][i].ver] \in PlanTexts
                 /\ plans[p][acts[p][i].ver].amount \in Nat /\ plans[p][acts[p][i].ver].from \in Nat
                 /\ plans[p][acts[p][i].ver].to \in Nat
<1>1. acts[p] \in Seq([ver : 1 .. MaxPlanWrites, at : 1 .. MaxClock]) /\ plans[p] \in Seq(PlanTexts)
  BY DEF WorkBudgetsTypeOK
<1>2. Len(acts[p]) \in Nat /\ DOMAIN acts[p] = 1 .. Len(acts[p])
  BY <1>1
<1>3. ASSUME NEW i \in DOMAIN acts[p]
      PROVE  /\ acts[p][i].at \in Nat /\ acts[p][i].ver \in Nat
             /\ plans[p][acts[p][i].ver] \in PlanTexts
  <2>1. acts[p][i] \in [ver : 1 .. MaxPlanWrites, at : 1 .. MaxClock]
    BY <1>1, <1>2, ElementOfSeq
  <2>2. acts[p][i].ver \in DOMAIN plans[p]
    BY DEF ControlIsSound
  <2>3. plans[p][acts[p][i].ver] \in PlanTexts
    BY <1>1, <2>2
  <2> QED
    BY <2>1, <2>3
<1>4. \A text \in PlanTexts : text.amount \in Nat /\ text.from \in Nat /\ text.to \in Nat
  BY WorkBudgetsAssumption
<1> QED
  BY <1>1, <1>2, <1>3, <1>4

LEMMA AmountsAreFinite ==
    ASSUME NEW texts \in Seq(PlanTexts), NEW T, NEW activations \in Seq(T),
           \A i \in DOMAIN activations : activations[i].ver \in DOMAIN texts,
           NEW from, NEW to
    PROVE  AmountsOf(texts, activations, from, to) \in SUBSET Nat /\ IsFiniteSet(AmountsOf(texts, activations, from, to))
<1> DEFINE I == ActsOf(texts, activations, from, to)
           f == [i \in I |-> texts[activations[i].ver].amount]
<1>1. I \in SUBSET (1 .. Len(activations)) /\ Len(activations) \in Nat /\ I \in SUBSET DOMAIN activations
  BY DEF ActsOf
<1>2. IsFiniteSet(I)
  <2> HIDE DEF I
  <2>1. IsFiniteSet(1 .. Len(activations))
    BY <1>1, FS_Interval
  <2> QED
    BY <1>1, <2>1, FS_Subset
<1>3. AmountsOf(texts, activations, from, to) = {f[i] : i \in I}
  BY DEF AmountsOf
<1>4. AmountsOf(texts, activations, from, to) \in SUBSET Nat
  <2>1. \A i \in I : texts[activations[i].ver] \in PlanTexts
    BY <1>1, ElementOfSeq
  <2> QED
    BY <2>1, WorkBudgetsAssumption DEF AmountsOf
<1> HIDE DEF I, f
<1> QED
  BY <1>2, <1>3, <1>4, ImageIsFinite

\* What one reservation exposes its windows to.
ExposureOf(outcome, cost) ==
    IF outcome \in OpenWork THEN cost.reserved ELSE Min({cost.reserved, cost.settled})

LEMMA ExposureIsNat ==
    ASSUME NEW outcome, NEW cost \in [reserved : WorkEstimates \cup {0}, settled : WorkCharges \cup {0}]
    PROVE  /\ ExposureOf(outcome, cost) \in Nat /\ ExposureOf(outcome, cost) <= cost.reserved
           /\ cost.reserved \in Nat /\ cost.settled \in Nat
           /\ outcome \notin OpenWork => ExposureOf(outcome, cost) <= cost.settled
<1>1. cost.reserved \in Nat /\ cost.settled \in Nat
  BY WorkBudgetsAssumption
<1> QED
  BY <1>1, SmallerOfTwo DEF ExposureOf

LEMMA RowsExpose ==
    ASSUME WorkBudgetsTypeOK
    PROVE  \A b \in bindings : BoundExposure[b] = ExposureOf(wreq[b.attempt], wcost[b.attempt])
                               /\ BoundExposure[b] \in Nat
<1> TAKE b \in bindings
<1>1. wcost[b.attempt] \in [reserved : WorkEstimates \cup {0}, settled : WorkCharges \cup {0}]
  BY DEF WorkBudgetsTypeOK
<1>2. BoundExposure[b] = ExposureOf(wreq[b.attempt], wcost[b.attempt])
  BY DEF BoundExposure, ExposureOf
<1> QED
  BY <1>1, <1>2, ExposureIsNat

LEMMA SpentIsNat ==
    ASSUME WorkBudgetsTypeOK, IsFiniteSet(bindings), NEW p, NEW from, NEW to
    PROVE  SumFunctionOnSet(BoundExposure, WindowRows(p, from, to)) \in Nat /\ IsFiniteSet(WindowRows(p, from, to))
<1>1. WindowRows(p, from, to) \subseteq bindings
  BY DEF WindowRows
<1>2. IsFiniteSet(WindowRows(p, from, to))
  BY <1>1, FS_Subset
<1> QED
  BY <1>1, <1>2, RowsExpose, SumIsNat

\* What the amounts of a window are, and that there are some where something is bound.
LEMMA AmountsAre ==
    ASSUME WorkBudgetsTypeOK, ControlIsSound, BindingsAreSound, NEW b \in bindings
    PROVE  /\ b.plan \in BudgetPlans
           /\ AmountsOf(plans[b.plan], acts[b.plan], b.from, b.to) \in SUBSET Nat
           /\ AmountsOf(plans[b.plan], acts[b.plan], b.from, b.to) # {}
           /\ IsFiniteSet(AmountsOf(plans[b.plan], acts[b.plan], b.from, b.to))
<1>1. b.plan \in BudgetPlans
  BY DEF WorkBudgetsTypeOK
<1>2. /\ plans[b.plan] \in Seq(PlanTexts)
      /\ acts[b.plan] \in Seq([ver : 1 .. MaxPlanWrites, at : 1 .. MaxClock])
      /\ \A i \in DOMAIN acts[b.plan] : acts[b.plan][i].ver \in DOMAIN plans[b.plan]
  BY <1>1 DEF WorkBudgetsTypeOK, ControlIsSound
<1>3. b.gen \in ActsOf(plans[b.plan], acts[b.plan], b.from, b.to)
  BY DEF BindingsAreSound, ActsOf
<1> QED
  BY <1>1, <1>2, <1>3, AmountsAreFinite DEF AmountsOf

\* A row's window is within what was in force for it.
Within(p, from, to) ==
    SumFunctionOnSet(BoundExposure, WindowRows(p, from, to)) <= Max(AmountsOf(plans[p], acts[p], from, to))

-----------------------------------------------------------------------------
(* The control plane adds versions and activations.                        *)

Grew ==
    /\ \A s \in WorkScopes : Grows(wscope[s], wscope'[s])
    /\ \A p \in BudgetPlans : /\ Grows(plans[p], plans'[p]) /\ Grows(acts[p], acts'[p])
                              /\ \A i \in DOMAIN acts'[p] : i \in DOMAIN acts[p] \/ acts'[p][i].at = wclock
    /\ UNCHANGED requestVars

LEMMA ScopeIs ==
    ASSUME WorkBudgetsTypeOK, ControlIsSound, NEW s \in WorkScopes, NEW v \in DOMAIN wscope[s]
    PROVE  LET up == wscope[s][v].parent
           IN  up = NoScope \/ (up \in WorkScopes \X Nat /\ up[1] \in WorkScopes /\ ScopeExists(up))
<1>1. wscope[s] \in Seq(ScopeTexts)
  BY DEF WorkBudgetsTypeOK
<1>2. wscope[s][v] \in ScopeTexts
  BY <1>1, ElementOfSeq
<1> QED
  BY <1>2, WorkBudgetsAssumption DEF ControlIsSound

LEMMA ChainStays ==
    ASSUME WorkBudgetsTypeOK, ControlIsSound, Grew, NEW ref \in WorkRefs \cup {NoScope},
           ref # NoScope => ScopeExists(ref)
    PROVE  ScopeChain(ref)' = ScopeChain(ref)
<1>1. ASSUME NEW r, r[1] \in WorkScopes, ScopeExists(r)
      PROVE  ScopeParent(r)' = ScopeParent(r)
  BY <1>1 DEF Grew, Grows, ScopeExists, ScopeParent
<1>2. CASE ref = NoScope
  BY <1>2 DEF ScopeChain
<1>3. CASE ref # NoScope
  <2>1. PICK up : up = ScopeParent(ref)
    OBVIOUS
  <2>2. ref[1] \in WorkScopes /\ ScopeExists(ref)
    BY <1>3 DEF WorkRefs
  <2>3. up = NoScope \/ (up[1] \in WorkScopes /\ ScopeExists(up))
    BY <2>1, <2>2, ScopeIs DEF ScopeParent, ScopeExists
  <2>4. ScopeParent(ref)' = up
    BY <1>1, <2>1, <2>2
  <2>5. up # NoScope => ScopeParent(up)' = ScopeParent(up)
    BY <1>1, <2>3
  <2> DEFINE top == IF up = NoScope THEN NoScope ELSE ScopeParent(up)
  <2>6. ScopeChain(ref) = {ref, up, top} \ {NoScope}
    BY <1>3, <2>1 DEF ScopeChain
  <2>7. ScopeChain(ref)' = {ref, up, top} \ {NoScope}
    BY <1>3, <2>4, <2>5 DEF ScopeChain, ScopeParent
  <2> QED
    BY <2>6, <2>7
<1> QED
  BY <1>2, <1>3

\* What is bound, and what explains it, stays.
LEMMA GrewKeepsBindings ==
    ASSUME BudgetsInv, Grew
    PROVE  BindingsAreSound'
<1>1. bindings' = bindings /\ wreq' = wreq
  BY DEF Grew, requestVars
<1>2. ASSUME NEW b \in bindings
      PROVE  /\ b.gen \in DOMAIN acts'[b.plan]
             /\ plans'[b.plan][acts'[b.plan][b.gen].ver].from = b.from
             /\ plans'[b.plan][acts'[b.plan][b.gen].ver].to = b.to
  <2>1. b.plan \in BudgetPlans
    BY DEF BudgetsInv, WorkBudgetsTypeOK
  <2>2. /\ b.gen \in DOMAIN acts[b.plan] /\ acts[b.plan][b.gen].ver \in DOMAIN plans[b.plan]
        /\ plans[b.plan][acts[b.plan][b.gen].ver].from = b.from
        /\ plans[b.plan][acts[b.plan][b.gen].ver].to = b.to
    BY <2>1 DEF BudgetsInv, BindingsAreSound, ControlIsSound
  <2>3. Grows(plans[b.plan], plans'[b.plan]) /\ Grows(acts[b.plan], acts'[b.plan])
    BY <2>1 DEF Grew
  <2>4. /\ b.gen \in DOMAIN acts'[b.plan] /\ acts'[b.plan][b.gen] = acts[b.plan][b.gen]
    BY <2>2, <2>3 DEF Grows
  <2>5. plans'[b.plan][acts[b.plan][b.gen].ver] = plans[b.plan][acts[b.plan][b.gen].ver]
    BY <2>2, <2>3 DEF Grows
  <2> QED
    BY <2>2, <2>4, <2>5
<1> QED
  BY <1>1, <1>2 DEF BudgetsInv, BindingsAreSound, Begun

LEMMA WindowsAreKeptLater ==
    ASSUME \A b \in bindings' : b.plan \in BudgetPlans => Within(b.plan, b.from, b.to)'
    PROVE  WindowsAreKept'
<1> SUFFICES ASSUME NEW p \in BudgetPlans, NEW b \in bindings', b.plan = p
             PROVE  (WindowExposure(p, b.from, b.to) <=
                        Max({plans[p][acts[p][i].ver].amount : i \in
                                {i \in DOMAIN acts[p] : LET text == plans[p][acts[p][i].ver]
                                                        IN  text.from = b.from /\ text.to = b.to}}))'
  BY DEF WindowsAreKept
<1>1. Within(p, b.from, b.to)'
  OBVIOUS
<1> QED
  BY <1>1 DEF Within, WindowExposure, WindowRows, AmountsOf, ActsOf

LEMMA GrewKeepsWindows ==
    ASSUME BudgetsInv, Grew, WorkBudgetsTypeOK', ControlIsSound'
    PROVE  WindowsAreKept'
<1>1. bindings' = bindings /\ wreq' = wreq /\ wcost' = wcost
  BY DEF Grew, requestVars
<1>2. BoundExposure' = BoundExposure
  BY <1>1 DEF BoundExposure
<1>3. ASSUME NEW b \in bindings, b.plan \in BudgetPlans
      PROVE  Within(b.plan, b.from, b.to)'
  <2> DEFINE some == AmountsOf(plans[b.plan], acts[b.plan], b.from, b.to)
             all == AmountsOf(plans'[b.plan], acts'[b.plan], b.from, b.to)
             spent == SumFunctionOnSet(BoundExposure, WindowRows(b.plan, b.from, b.to))
  <2>1. SumFunctionOnSet(BoundExposure, WindowRows(b.plan, b.from, b.to))' = spent
    BY <1>1, <1>2 DEF WindowRows
  <2>2. spent <= Max(some)
    BY <1>3 DEF BudgetsInv, WindowsAreKept, WindowExposure, WindowRows, AmountsOf, ActsOf
  <2>3. some # {} /\ some \in SUBSET Nat /\ IsFiniteSet(some)
    BY AmountsAre DEF BudgetsInv
  <2>4. all \in SUBSET Nat /\ IsFiniteSet(all)
    <3>1. /\ plans'[b.plan] \in Seq(PlanTexts)
          /\ acts'[b.plan] \in Seq([ver : 1 .. MaxPlanWrites, at : 1 .. MaxClock])
          /\ \A i \in DOMAIN acts'[b.plan] : acts'[b.plan][i].ver \in DOMAIN plans'[b.plan]
      BY <1>3 DEF WorkBudgetsTypeOK, ControlIsSound
    <3> QED
      BY <3>1, AmountsAreFinite
  <2>5. some \subseteq all
    <3>1. ASSUME NEW i \in ActsOf(plans[b.plan], acts[b.plan], b.from, b.to)
          PROVE  /\ i \in ActsOf(plans'[b.plan], acts'[b.plan], b.from, b.to)
                 /\ plans'[b.plan][acts'[b.plan][i].ver] = plans[b.plan][acts[b.plan][i].ver]
      <4>1. /\ i \in DOMAIN acts[b.plan] /\ acts[b.plan][i].ver \in DOMAIN plans[b.plan]
            /\ plans[b.plan][acts[b.plan][i].ver].from = b.from
            /\ plans[b.plan][acts[b.plan][i].ver].to = b.to
        BY <1>3 DEF ActsOf, BudgetsInv, ControlIsSound
      <4>2. Grows(plans[b.plan], plans'[b.plan]) /\ Grows(acts[b.plan], acts'[b.plan])
        BY <1>3 DEF Grew
      <4>3. i \in DOMAIN acts'[b.plan] /\ acts'[b.plan][i] = acts[b.plan][i]
        BY <4>1, <4>2 DEF Grows
      <4>4. plans'[b.plan][acts[b.plan][i].ver] = plans[b.plan][acts[b.plan][i].ver]
        BY <4>1, <4>2 DEF Grows
      <4> QED
        BY <4>1, <4>3, <4>4 DEF ActsOf
    <3> QED
      BY <3>1 DEF AmountsOf
  <2>6. spent \in Nat
    BY SpentIsNat DEF BudgetsInv, BindingsAreSound
  <2> HIDE DEF some, all, spent
  <2>7. Max(some) <= Max(all) /\ Max(some) \in Nat /\ Max(all) \in Nat
    BY <2>3, <2>4, <2>5, LargestGrows, LargestIs
  <2>8. spent <= Max(all)
    BY <2>2, <2>6, <2>7
  <2> QED
    BY <2>1, <2>8 DEF Within, all
<1> QED
  BY <1>1, <1>3, WindowsAreKeptLater

LEMMA GrewKeepsExplained ==
    ASSUME BudgetsInv, Grew
    PROVE  Explained'
<1>1. /\ bindings' = bindings /\ wreq' = wreq /\ wref' = wref /\ asOf' = asOf
  BY DEF Grew, requestVars
<1> SUFFICES ASSUME NEW a \in WorkAttempts, NEW p \in BudgetPlans, Begun(a)
             PROVE  IsExplained(a, p)'
  BY <1>1 DEF Explained, Begun
<1>2. PICK t : t = asOf[a]
  OBVIOUS
<1>3. t \in Nat /\ t <= wclock /\ wclock \in Nat /\ IsExplained(a, p)
  BY <1>2 DEF BudgetsInv, WorkBudgetsTypeOK, ControlIsSound, Explained
<1>4. /\ Grows(plans[p], plans'[p]) /\ Grows(acts[p], acts'[p])
      /\ \A i \in DOMAIN acts'[p] : i \in DOMAIN acts[p] \/ acts'[p][i].at = wclock
  BY DEF Grew
<1>5. \A i \in DOMAIN acts[p] : /\ i \in DOMAIN acts'[p] /\ acts'[p][i] = acts[p][i]
                                /\ acts[p][i].ver \in DOMAIN plans[p]
                                /\ plans'[p][acts[p][i].ver] = plans[p][acts[p][i].ver]
  BY <1>4 DEF Grows, BudgetsInv, ControlIsSound
<1>6. PICK before : before = ActsBefore(a, p)
  OBVIOUS
<1>7. ActsBefore(a, p)' = before
  BY <1>1, <1>2, <1>3, <1>4, <1>5, <1>6 DEF ActsBefore
<1>8. BoundTo(a, p)' = BoundTo(a, p)
  BY <1>1 DEF BoundTo
<1>9. \A b \in BoundTo(a, p) : acts'[p][b.gen].at <= t
  <2> TAKE b \in BoundTo(a, p)
  <2>1. b.gen \in DOMAIN acts[p]
    BY DEF BudgetsInv, BindingsAreSound, BoundTo
  <2>2. acts[p][b.gen].at <= t
    BY <1>2, <1>3 DEF IsExplained
  <2> QED
    BY <1>5, <2>1, <2>2
<1>10. ScopeChain(wref[a])' = ScopeChain(wref[a])
  <2>1. PICK ref : ref = wref[a]
    OBVIOUS
  <2>2. ref \in WorkRefs \cup {NoScope} /\ (ref # NoScope => ScopeExists(ref)) /\ WorkBudgetsTypeOK /\ ControlIsSound
    BY <2>1 DEF BudgetsInv, WorkBudgetsTypeOK, ControlIsSound
  <2>3. ScopeChain(ref)' = ScopeChain(ref)
    BY <2>2, ChainStays
  <2>4. wref'[a] = ref
    BY <1>1, <2>1
  <2> QED
    BY <2>1, <2>3, <2>4 DEF ScopeChain, ScopeParent
<1>11. CASE before = {}
  BY <1>1, <1>2, <1>7, <1>8, <1>9, <1>11 DEF IsExplained
<1>12. CASE before # {}
  <2>1. PICK m : m = Max(before)
    OBVIOUS
  <2>2. m \in DOMAIN acts[p]
    <3>1. before \in SUBSET (1 .. Len(acts[p])) /\ Len(acts[p]) \in Nat /\ before \subseteq DOMAIN acts[p]
      BY <1>6, ActivatedIs DEF ActsBefore, BudgetsInv
    <3>2. before \in SUBSET Nat /\ IsFiniteSet(1 .. Len(acts[p]))
      <4>1. 1 \in Int /\ Len(acts[p]) \in Int
        BY <3>1
      <4>2. IsFiniteSet(1 .. Len(acts[p]))
        BY <4>1, FS_Interval
      <4> QED
        BY <3>1, <4>2
    <3>3. IsFiniteSet(before)
      BY <3>1, <3>2, FS_Subset
    <3> QED
      BY <1>12, <2>1, <3>1, <3>2, <3>3, LargestIs
  <2>3. PICK text : text = plans[p][acts[p][m].ver]
    OBVIOUS
  <2>4. plans'[p][acts'[p][m].ver] = text
    BY <1>5, <2>2, <2>3
  <2>5. (\A i \in DOMAIN acts'[p] : acts'[p][i].at # t) => \A i \in DOMAIN acts[p] : acts[p][i].at # t
    BY <1>5
  <2>6. (\A i \in DOMAIN acts[p] : acts[p][i].at # t) /\ text.from <= t /\ t < text.to
        => (BoundTo(a, p) # {} <=> <<text.scope, text.ver>> \in ScopeChain(wref[a]))
    BY <1>2, <1>3, <1>6, <1>12, <2>1, <2>3 DEF IsExplained
  <2>7. (\A i \in DOMAIN acts'[p] : acts'[p][i].at # t) /\ text.from <= t /\ t < text.to
        => ((BoundTo(a, p) # {})' <=> <<text.scope, text.ver>> \in ScopeChain(wref[a])')
    BY <1>8, <1>10, <2>5, <2>6
  <2>8. asOf'[a] = t /\ Max(ActsBefore(a, p))' = m
    BY <1>1, <1>2, <1>7, <2>1
  <2> QED
    BY <1>8, <1>9, <2>4, <2>7, <2>8 DEF IsExplained
<1> QED
  BY <1>11, <1>12

LEMMA GrewKeeps ==
    ASSUME BudgetsInv, Grew, WorkBudgetsTypeOK', ControlIsSound'
    PROVE  BudgetsInv'
BY GrewKeepsBindings, GrewKeepsWindows, GrewKeepsExplained DEF BudgetsInv

LEMMA ClockKeeps == ASSUME BudgetsInv, AdvanceClock PROVE BudgetsInv'
<1>1. /\ wclock \in 1 .. MaxClock /\ MaxClock \in Nat /\ wclock < MaxClock /\ wclock' = wclock + 1
      /\ UNCHANGED <<wscope, plans, acts, wreq, wref, asOf, wcost, bindings, denial>>
  BY WorkBudgetsAssumption DEF AdvanceClock, requestVars, BudgetsInv, WorkBudgetsTypeOK
<1>2. WorkBudgetsTypeOK'
  <2>1. wclock' \in 1 .. MaxClock
    BY <1>1
  <2> QED
    BY <1>1, <2>1, Zenon DEF BudgetsInv, WorkBudgetsTypeOK, WorkRefs, PlanRefs
<1>3. ControlIsSound'
  <2>1. \A p \in BudgetPlans : \A i \in DOMAIN acts[p] : acts[p][i].at \in Nat
    BY ActivatedIs DEF BudgetsInv
  <2>2. \A a \in WorkAttempts : asOf[a] \in Nat
    BY DEF BudgetsInv, WorkBudgetsTypeOK
  <2>3. \A p \in BudgetPlans : \A i \in DOMAIN acts[p] : acts[p][i].at <= wclock'
    BY <1>1, <2>1 DEF BudgetsInv, ControlIsSound
  <2>4. \A a \in WorkAttempts : asOf[a] <= wclock'
    BY <1>1, <2>2 DEF BudgetsInv, ControlIsSound
  <2>5. \A r : ScopeExists(r)' <=> ScopeExists(r)
    BY <1>1 DEF ScopeExists
  <2> QED
    BY <1>1, <2>3, <2>4, <2>5 DEF BudgetsInv, ControlIsSound, ScopeExists
<1>4. Grew
  BY <1>1 DEF Grew, Grows, requestVars
<1> QED
  BY <1>2, <1>3, <1>4, GrewKeeps

LEMMA PublishKeeps == ASSUME BudgetsInv, NEW text \in ScopeTexts, PublishScope(text) PROVE BudgetsInv'
<1>1. PICK s : s = text.scope
  OBVIOUS
<1>2. /\ s \in WorkScopes /\ wscope \in [WorkScopes -> Seq(ScopeTexts)] /\ wscope[s] \in Seq(ScopeTexts)
      /\ wscope' = [wscope EXCEPT ![s] = Append(@, text)]
      /\ text.parent # NoScope => ScopeExists(text.parent) /\ text.parent[1] \in WorkScopes
      /\ UNCHANGED <<wclock, plans, acts, wreq, wref, asOf, wcost, bindings, denial>>
  BY <1>1, WorkBudgetsAssumption DEF PublishScope, BudgetsInv, WorkBudgetsTypeOK, requestVars
<1>3. PICK longer : longer = Append(wscope[s], text)
  OBVIOUS
<1>4. /\ longer \in Seq(ScopeTexts) /\ Grows(wscope[s], longer)
      /\ DOMAIN longer = DOMAIN wscope[s] \cup {Len(wscope[s]) + 1} /\ longer[Len(wscope[s]) + 1] = text
  BY <1>2, <1>3, AppendGrows
<1>5. /\ wscope' \in [WorkScopes -> Seq(ScopeTexts)] /\ wscope'[s] = longer
      /\ \A r \in WorkScopes : r # s => wscope'[r] = wscope[r]
  BY <1>2, <1>3, <1>4
<1>6. WorkBudgetsTypeOK'
  BY <1>2, <1>5 DEF BudgetsInv, WorkBudgetsTypeOK
<1>7. \A r \in WorkScopes : Grows(wscope[r], wscope'[r])
  BY <1>4, <1>5 DEF Grows
<1>8. \A ref : ref[1] \in WorkScopes /\ ScopeExists(ref) => ref[2] \in DOMAIN wscope'[ref[1]]
  BY <1>7 DEF ScopeExists, Grows
<1>9. ControlIsSound'
  <2>1. ASSUME NEW r \in WorkScopes, NEW v \in DOMAIN wscope'[r], wscope'[r][v].parent # NoScope
        PROVE  wscope'[r][v].parent[2] \in DOMAIN wscope'[wscope'[r][v].parent[1]]
    <3>1. PICK up : up = wscope'[r][v].parent
      OBVIOUS
    <3>2. up[1] \in WorkScopes /\ ScopeExists(up)
      <4>1. CASE v \in DOMAIN wscope[r]
        <5>1. wscope'[r][v] = wscope[r][v]
          BY <1>7, <4>1 DEF Grows
        <5> QED
          BY <2>1, <3>1, <4>1, <5>1, ScopeIs DEF BudgetsInv
      <4>2. CASE v \notin DOMAIN wscope[r]
        <5>1. r = s /\ wscope'[r][v] = text
          BY <1>4, <1>5, <4>2
        <5> QED
          BY <1>2, <2>1, <3>1, <5>1
      <4> QED
        BY <4>1, <4>2
    <3> QED
      BY <1>8, <3>1, <3>2
  <2>2. \A a \in WorkAttempts : wref[a] # NoScope => wref[a][2] \in DOMAIN wscope'[wref[a][1]]
    <3> TAKE a \in WorkAttempts
    <3>1. wref[a] # NoScope => wref[a][1] \in WorkScopes /\ ScopeExists(wref[a])
      BY DEF BudgetsInv, WorkBudgetsTypeOK, ControlIsSound, WorkRefs
    <3> QED
      BY <1>8, <3>1
  <2> QED
    BY <1>2, <2>1, <2>2 DEF BudgetsInv, ControlIsSound, ScopeExists
<1>10. Grew
  BY <1>2, <1>7 DEF Grew, Grows, requestVars
<1> QED
  BY <1>6, <1>9, <1>10, GrewKeeps

LEMMA CorrectKeeps ==
    ASSUME BudgetsInv, NEW q \in BudgetPlans, NEW text \in PlanTexts, CorrectPlan(q, text)
    PROVE  BudgetsInv'
<1>1. /\ plans \in [BudgetPlans -> Seq(PlanTexts)] /\ plans[q] \in Seq(PlanTexts)
      /\ plans' = [plans EXCEPT ![q] = Append(@, text)] /\ Len(plans[q]) < MaxPlanWrites /\ MaxPlanWrites \in Nat
      /\ UNCHANGED <<wclock, wscope, acts, wreq, wref, asOf, wcost, bindings, denial>>
  BY WorkBudgetsAssumption DEF CorrectPlan, BudgetsInv, WorkBudgetsTypeOK, requestVars
<1>2. PICK longer : longer = Append(plans[q], text)
  OBVIOUS
<1>3. /\ longer \in Seq(PlanTexts) /\ Grows(plans[q], longer) /\ Len(longer) = Len(plans[q]) + 1
      /\ Len(plans[q]) \in Nat
  BY <1>1, <1>2, AppendGrows
<1>4. /\ plans' \in [BudgetPlans -> Seq(PlanTexts)] /\ plans'[q] = longer
      /\ \A p \in BudgetPlans : p # q => plans'[p] = plans[p]
  BY <1>1, <1>2, <1>3
<1>5. WorkBudgetsTypeOK'
  BY <1>1, <1>4 DEF BudgetsInv, WorkBudgetsTypeOK
<1>6. \A p \in BudgetPlans : Grows(plans[p], plans'[p]) /\ Len(plans'[p]) <= MaxPlanWrites
  BY <1>1, <1>3, <1>4 DEF Grows, BudgetsInv, ControlIsSound
<1>7. ControlIsSound'
  <2>1. \A p \in BudgetPlans : \A i \in DOMAIN acts[p] : acts[p][i].ver \in DOMAIN plans'[p]
    BY <1>6 DEF Grows, BudgetsInv, ControlIsSound
  <2> QED
    BY <1>1, <1>6, <2>1 DEF BudgetsInv, ControlIsSound, ScopeExists
<1>8. Grew
  BY <1>1, <1>6 DEF Grew, Grows, requestVars
<1> QED
  BY <1>5, <1>7, <1>8, GrewKeeps

LEMMA ActivateKeeps ==
    ASSUME BudgetsInv, NEW q \in BudgetPlans, NEW v \in DOMAIN plans[q], ActivatePlan(q, v)
    PROVE  BudgetsInv'
<1> DEFINE T == [ver : 1 .. MaxPlanWrites, at : 1 .. MaxClock]
<1>1. PICK new : new = [ver |-> v, at |-> wclock]
  OBVIOUS
<1>2. /\ acts \in [BudgetPlans -> Seq(T)] /\ acts[q] \in Seq(T)
      /\ acts' = [acts EXCEPT ![q] = Append(@, new)] /\ Len(acts[q]) < MaxPlanWrites /\ MaxPlanWrites \in Nat
      /\ UNCHANGED <<wclock, wscope, plans, wreq, wref, asOf, wcost, bindings, denial>>
  BY <1>1, WorkBudgetsAssumption DEF ActivatePlan, BudgetsInv, WorkBudgetsTypeOK, requestVars
<1>3. new \in T /\ new.ver = v /\ new.at = wclock /\ wclock \in Nat
  <2>1. plans[q] \in Seq(PlanTexts) /\ Len(plans[q]) <= MaxPlanWrites /\ wclock \in 1 .. MaxClock
    BY DEF BudgetsInv, WorkBudgetsTypeOK, ControlIsSound
  <2>2. v \in 1 .. MaxPlanWrites
    BY <1>2, <2>1
  <2> QED
    BY <1>1, <2>1, <2>2
<1> HIDE DEF T
<1>4. PICK longer : longer = Append(acts[q], new)
  OBVIOUS
<1>5. /\ longer \in Seq(T) /\ Len(longer) = Len(acts[q]) + 1 /\ Len(acts[q]) \in Nat
      /\ DOMAIN longer = DOMAIN acts[q] \cup {Len(acts[q]) + 1} /\ DOMAIN acts[q] = 1 .. Len(acts[q])
      /\ longer[Len(acts[q]) + 1] = new /\ Grows(acts[q], longer)
  BY <1>2, <1>3, <1>4, AppendGrows
<1>6. /\ acts' \in [BudgetPlans -> Seq(T)] /\ acts'[q] = longer
      /\ \A p \in BudgetPlans : p # q => acts'[p] = acts[p]
  BY <1>2, <1>4, <1>5
<1>7. WorkBudgetsTypeOK'
  BY <1>2, <1>6 DEF BudgetsInv, WorkBudgetsTypeOK, T
<1>8. \A p \in BudgetPlans : /\ Grows(acts[p], acts'[p])
                             /\ \A i \in DOMAIN acts'[p] : i \in DOMAIN acts[p] \/ acts'[p][i].at = wclock
  BY <1>3, <1>5, <1>6 DEF Grows
<1>9. ControlIsSound'
  <2>1. \A i \in DOMAIN acts[q] : acts[q][i].at \in Nat /\ acts[q][i].at <= wclock
    BY ActivatedIs DEF BudgetsInv, ControlIsSound
  <2>2. \A i \in DOMAIN longer : longer[i].ver \in DOMAIN plans[q] /\ longer[i].at <= wclock
    <3> TAKE i \in DOMAIN longer
    <3>1. CASE i \in DOMAIN acts[q]
      BY <1>5, <3>1 DEF Grows, BudgetsInv, ControlIsSound
    <3>2. CASE i = Len(acts[q]) + 1
      BY <1>3, <1>5, <3>2
    <3> QED
      BY <1>5, <3>1, <3>2
  <2>3. ASSUME NEW i \in DOMAIN longer, NEW j \in DOMAIN longer, i <= j
        PROVE  longer[i].at <= longer[j].at
    <3>1. CASE j \in DOMAIN acts[q]
      <4>1. i \in DOMAIN acts[q]
        BY <1>5, <2>3, <3>1
      <4> QED
        BY <1>5, <2>3, <3>1, <4>1 DEF Grows, BudgetsInv, ControlIsSound
    <3>2. CASE j = Len(acts[q]) + 1
      <4>1. longer[j].at = wclock
        BY <1>3, <1>5, <3>2
      <4> QED
        BY <2>2, <4>1
    <3> QED
      BY <1>5, <3>1, <3>2
  <2>4. Len(longer) <= MaxPlanWrites
    BY <1>2, <1>5
  <2>5. \A p \in BudgetPlans :
          /\ Len(plans[p]) <= MaxPlanWrites /\ Len(acts'[p]) <= MaxPlanWrites
          /\ \A i \in DOMAIN acts'[p] :
                /\ acts'[p][i].ver \in DOMAIN plans[p] /\ acts'[p][i].at <= wclock
                /\ \A j \in DOMAIN acts'[p] : i <= j => acts'[p][i].at <= acts'[p][j].at
    <3> TAKE p \in BudgetPlans
    <3>1. CASE p = q
      BY <1>6, <2>2, <2>3, <2>4, <3>1 DEF BudgetsInv, ControlIsSound
    <3>2. CASE p # q
      BY <1>6, <3>2 DEF BudgetsInv, ControlIsSound
    <3> QED
      BY <3>1, <3>2
  <2> QED
    BY <1>2, <2>5 DEF BudgetsInv, ControlIsSound, ScopeExists
<1>10. Grew
  BY <1>2, <1>8 DEF Grew, Grows, requestVars
<1> QED
  BY <1>7, <1>9, <1>10, GrewKeeps

-----------------------------------------------------------------------------
(* Requests: the control plane stands still.                               *)

\* What is explained stays so while an attempt's bindings, reference and time do.
LEMMA ExplainedStays ==
    ASSUME NEW a \in WorkAttempts, NEW p \in BudgetPlans, IsExplained(a, p),
           UNCHANGED <<wscope, plans, acts>>, wref'[a] = wref[a], asOf'[a] = asOf[a],
           BoundTo(a, p)' = BoundTo(a, p)
    PROVE  IsExplained(a, p)'
<1>1. ActsBefore(a, p)' = ActsBefore(a, p)
  BY DEF ActsBefore
<1>2. ScopeChain(wref[a])' = ScopeChain(wref[a])
  BY DEF ScopeChain, ScopeParent
<1> QED
  BY <1>1, <1>2 DEF IsExplained

\* A step that begins no attempt, and changes none that has begun.
Waits ==
    /\ UNCHANGED <<wclock, wscope, plans, acts, wcost, bindings>>
    /\ \A a \in WorkAttempts :
          IF Begun(a) THEN wreq'[a] = wreq[a] /\ wref'[a] = wref[a] /\ asOf'[a] = asOf[a]
          ELSE wreq'[a] \in {"new", "waits", "denied", "refused"}

LEMMA WaitsKeeps ==
    ASSUME BudgetsInv, Waits, WorkBudgetsTypeOK', ControlIsSound'
    PROVE  BudgetsInv'
<1>1. UNCHANGED <<wscope, plans, acts, wcost, bindings>>
  BY DEF Waits
<1>2. \A a \in WorkAttempts : /\ Begun(a)' <=> Begun(a)
                              /\ Begun(a) => wreq'[a] = wreq[a] /\ wref'[a] = wref[a] /\ asOf'[a] = asOf[a]
  BY DEF Waits, Begun, OpenWork, SettledWork
<1>3. \A b \in bindings : /\ b.attempt \in WorkAttempts /\ Begun(b.attempt)
  BY DEF BudgetsInv, WorkBudgetsTypeOK, BindingsAreSound
<1>4. BoundExposure' = BoundExposure
  <2>1. \A b \in bindings : wreq'[b.attempt] = wreq[b.attempt]
    BY <1>2, <1>3
  <2> QED
    BY <1>1, <2>1 DEF BoundExposure
<1>5. BindingsAreSound'
  BY <1>1, <1>2, <1>3 DEF BudgetsInv, BindingsAreSound
<1>6. WindowsAreKept'
  BY <1>1, <1>4 DEF BudgetsInv, WindowsAreKept, WindowExposure
<1>7. Explained'
  <2> SUFFICES ASSUME NEW a \in WorkAttempts, NEW p \in BudgetPlans, Begun(a)' PROVE IsExplained(a, p)'
    BY DEF Explained
  <2>1. Begun(a) /\ wref'[a] = wref[a] /\ asOf'[a] = asOf[a] /\ IsExplained(a, p)
    BY <1>2 DEF BudgetsInv, Explained
  <2>2. BoundTo(a, p)' = BoundTo(a, p)
    BY <1>1 DEF BoundTo
  <2> QED
    BY <1>1, <2>1, <2>2, ExplainedStays
<1> QED
  BY <1>5, <1>6, <1>7 DEF BudgetsInv

LEMMA AttributeKeeps ==
    ASSUME BudgetsInv, NEW a \in WorkAttempts, NEW ref \in WorkRefs \cup {NoScope}, Attribute(a, ref)
    PROVE  BudgetsInv'
<1>1. /\ wreq[a] = "new" /\ wreq' = [wreq EXCEPT ![a] = "waits"] /\ wref' = [wref EXCEPT ![a] = ref]
      /\ asOf' = [asOf EXCEPT ![a] = wclock] /\ (ref # NoScope => ScopeExists(ref))
      /\ UNCHANGED <<wclock, wscope, plans, acts, wcost, bindings, denial>>
  BY DEF Attribute
<1>2. WorkBudgetsTypeOK'
  <2>1. asOf' \in [WorkAttempts -> 0 .. MaxClock]
    BY <1>1 DEF BudgetsInv, WorkBudgetsTypeOK
  <2>2. wref' \in [WorkAttempts -> WorkRefs \cup {NoScope}]
    BY <1>1 DEF BudgetsInv, WorkBudgetsTypeOK
  <2>3. wreq' \in [WorkAttempts -> {"new", "waits", "denied", "refused"} \cup OpenWork \cup SettledWork]
    BY <1>1 DEF BudgetsInv, WorkBudgetsTypeOK
  <2> QED
    BY <1>1, <2>1, <2>2, <2>3, Zenon DEF BudgetsInv, WorkBudgetsTypeOK
<1>3. \A b \in WorkAttempts : IF b = a THEN wreq'[b] = "waits" /\ wref'[b] = ref /\ asOf'[b] = wclock
                              ELSE wreq'[b] = wreq[b] /\ wref'[b] = wref[b] /\ asOf'[b] = asOf[b]
  BY <1>1 DEF BudgetsInv, WorkBudgetsTypeOK
<1>4. wclock \in Nat
  BY DEF BudgetsInv, WorkBudgetsTypeOK
<1>5. ControlIsSound'
  <2>1. \A b \in WorkAttempts : asOf'[b] <= wclock /\ (wref'[b] # NoScope => ScopeExists(wref'[b]))
    BY <1>1, <1>3, <1>4 DEF BudgetsInv, ControlIsSound
  <2> QED
    BY <1>1, <2>1 DEF BudgetsInv, ControlIsSound, ScopeExists
<1>6. Waits
  BY <1>1, <1>3 DEF Waits, Begun, OpenWork, SettledWork, BudgetsInv, WorkBudgetsTypeOK
<1> QED
  BY <1>2, <1>5, <1>6, WaitsKeeps

\* A denial that leaves its transaction, an error, and a denial that is recorded.
LEMMA RefusalKeeps ==
    ASSUME BudgetsInv, NEW a \in WorkAttempts, wreq[a] \in {"waits", "denied"},
           NEW outcome \in {"denied", "refused"}, wreq' = [wreq EXCEPT ![a] = outcome],
           denial' \in [WorkAttempts -> SUBSET PlanRefs],
           UNCHANGED <<wclock, wscope, plans, acts, wref, asOf, wcost, bindings>>
    PROVE  BudgetsInv'
<1>1. WorkBudgetsTypeOK'
  <2>1. wreq' \in [WorkAttempts -> {"new", "waits", "denied", "refused"} \cup OpenWork \cup SettledWork]
    BY DEF BudgetsInv, WorkBudgetsTypeOK
  <2> QED
    BY <2>1, Zenon DEF BudgetsInv, WorkBudgetsTypeOK
<1>2. ControlIsSound'
  BY DEF BudgetsInv, ControlIsSound, ScopeExists
<1>3. Waits
  BY DEF Waits, Begun, OpenWork, SettledWork, BudgetsInv, WorkBudgetsTypeOK
<1> QED
  BY <1>1, <1>2, <1>3, WaitsKeeps

\* A denial names versions of plans that were activated.
LEMMA RefsAre ==
    ASSUME BudgetsInv, NEW ps \in SUBSET ActivatedPlans
    PROVE  RefsOf(ps) \in SUBSET PlanRefs
<1> SUFFICES ASSUME NEW p \in ps PROVE <<p, PlanPointer(p).ver>> \in PlanRefs
  BY DEF RefsOf
<1>1. p \in BudgetPlans /\ acts[p] # <<>> /\ acts[p] \in Seq([ver : 1 .. MaxPlanWrites, at : 1 .. MaxClock])
  BY DEF ActivatedPlans, BudgetsInv, WorkBudgetsTypeOK
<1>2. Len(acts[p]) \in 1 .. Len(acts[p])
  BY <1>1
<1>3. acts[p][Len(acts[p])] \in [ver : 1 .. MaxPlanWrites, at : 1 .. MaxClock]
  BY <1>1, <1>2, ElementOfSeq
<1> QED
  BY <1>1, <1>3 DEF PlanPointer, PlanRefs

LEMMA DenyKeeps ==
    ASSUME BudgetsInv, NEW a \in WorkAttempts, NEW cost \in WorkEstimates, DenyWorkAttempt(a, cost)
    PROVE  BudgetsInv'
<1>1. /\ wreq[a] = "waits" /\ wreq' = [wreq EXCEPT ![a] = "denied"]
      /\ UNCHANGED <<wclock, wscope, plans, acts, wref, asOf, wcost, bindings>>
  BY DEF DenyWorkAttempt
<1>2. \E ps \in SUBSET ActivatedPlans : denial' = [denial EXCEPT ![a] = RefsOf(ps)]
  BY DEF DenyWorkAttempt, UnreadablePlans, EffectivePlans, PlansFor
<1>3. denial' \in [WorkAttempts -> SUBSET PlanRefs]
  BY <1>2, RefsAre DEF BudgetsInv, WorkBudgetsTypeOK
<1> QED
  BY <1>1, <1>3, RefusalKeeps

LEMMA RejectKeeps ==
    ASSUME BudgetsInv, NEW a \in WorkAttempts, RejectWorkAttempt(a) \/ RecordDenial(a)
    PROVE  BudgetsInv'
<1>1. /\ wreq[a] \in {"waits", "denied"} /\ wreq' = [wreq EXCEPT ![a] = "refused"]
      /\ UNCHANGED <<wclock, wscope, plans, acts, wref, asOf, wcost, bindings>>
  BY DEF RejectWorkAttempt, RecordDenial
<1>2. denial' \in [WorkAttempts -> SUBSET PlanRefs]
  BY DEF RejectWorkAttempt, RecordDenial, BudgetsInv, WorkBudgetsTypeOK
<1> QED
  BY <1>1, <1>2, RefusalKeeps

-----------------------------------------------------------------------------
(* An attempt settles.                                                     *)

LEMMA SettleWorkKeeps ==
    ASSUME BudgetsInv, NEW a \in WorkAttempts, NEW outcome \in SettledWork \cup {"unknown"}, NEW cost \in WorkCharges,
           SettleWorkAttempt(a, outcome, cost)
    PROVE  BudgetsInv'
<1>1. PICK paid : paid = IF outcome = "unknown" THEN 0 ELSE cost
  OBVIOUS
<1>2. /\ wreq[a] = "pending" /\ wreq' = [wreq EXCEPT ![a] = outcome] /\ wcost' = [wcost EXCEPT ![a].settled = paid]
      /\ UNCHANGED <<wclock, wscope, plans, acts, wref, asOf, bindings, denial>>
  BY <1>1 DEF SettleWorkAttempt
<1>3. /\ wcost' \in [WorkAttempts -> [reserved : WorkEstimates \cup {0}, settled : WorkCharges \cup {0}]]
      /\ wcost'[a].reserved = wcost[a].reserved
      /\ \A b \in WorkAttempts : b # a => wcost'[b] = wcost[b]
  BY <1>1, <1>2 DEF BudgetsInv, WorkBudgetsTypeOK
<1>4. /\ wreq' \in [WorkAttempts -> {"new", "waits", "denied", "refused"} \cup OpenWork \cup SettledWork]
      /\ wreq'[a] = outcome /\ \A b \in WorkAttempts : b # a => wreq'[b] = wreq[b]
  BY <1>2 DEF BudgetsInv, WorkBudgetsTypeOK, OpenWork
<1>5. WorkBudgetsTypeOK'
  BY <1>2, <1>3, <1>4, Zenon DEF BudgetsInv, WorkBudgetsTypeOK
<1>6. ControlIsSound'
  BY <1>2 DEF BudgetsInv, ControlIsSound, ScopeExists
<1>7. \A b \in WorkAttempts : Begun(b)' <=> Begun(b)
  BY <1>2, <1>4 DEF Begun, OpenWork, SettledWork
<1>8. BindingsAreSound'
  <2>1. \A b \in bindings : b.attempt \in WorkAttempts
    BY DEF BudgetsInv, WorkBudgetsTypeOK
  <2> QED
    BY <1>2, <1>7, <2>1 DEF BudgetsInv, BindingsAreSound
<1>9. Explained'
  <2> SUFFICES ASSUME NEW b \in WorkAttempts, NEW p \in BudgetPlans, Begun(b)' PROVE IsExplained(b, p)'
    BY DEF Explained
  <2>1. IsExplained(b, p) /\ BoundTo(b, p)' = BoundTo(b, p)
    BY <1>2, <1>7 DEF BudgetsInv, Explained, BoundTo
  <2> QED
    BY <1>2, <2>1, ExplainedStays
<1>10. \A b \in bindings : BoundExposure'[b] \in Nat /\ BoundExposure[b] \in Nat /\ BoundExposure'[b] <= BoundExposure[b]
  <2> TAKE b \in bindings
  <2>1. PICK r : r = b.attempt
    OBVIOUS
  <2>2. r \in WorkAttempts
    BY <2>1 DEF BudgetsInv, WorkBudgetsTypeOK
  <2>3. /\ BoundExposure[b] = ExposureOf(wreq[r], wcost[r])
        /\ wcost[r] \in [reserved : WorkEstimates \cup {0}, settled : WorkCharges \cup {0}]
    BY <2>1, <2>2, RowsExpose DEF BudgetsInv, WorkBudgetsTypeOK
  <2>4. BoundExposure'[b] = ExposureOf(wreq'[r], wcost'[r])
    BY <1>2, <2>1 DEF BoundExposure, ExposureOf
  <2>5. wcost'[r] \in [reserved : WorkEstimates \cup {0}, settled : WorkCharges \cup {0}]
    BY <1>3, <2>2
  <2>6. /\ ExposureOf(wreq[r], wcost[r]) \in Nat /\ ExposureOf(wreq'[r], wcost'[r]) \in Nat
        /\ ExposureOf(wreq'[r], wcost'[r]) <= wcost'[r].reserved
    BY <2>3, <2>5, ExposureIsNat
  <2>7. CASE r = a
    <3>1. ExposureOf(wreq[r], wcost[r]) = wcost[r].reserved
      BY <1>2, <2>7 DEF ExposureOf, OpenWork
    <3> QED
      BY <1>3, <2>3, <2>4, <2>6, <2>7, <3>1
  <2>8. CASE r # a
    BY <1>3, <1>4, <2>2, <2>3, <2>4, <2>6, <2>8
  <2> QED
    BY <2>7, <2>8
<1>11. ASSUME NEW b \in bindings, b.plan \in BudgetPlans
       PROVE  Within(b.plan, b.from, b.to)'
  <2> DEFINE win == WindowRows(b.plan, b.from, b.to)
             amounts == AmountsOf(plans[b.plan], acts[b.plan], b.from, b.to)
             was == SumFunctionOnSet(BoundExposure, win)
             is == SumFunctionOnSet(BoundExposure', win)
  <2>1. was <= Max(amounts)
    BY <1>11 DEF BudgetsInv, WindowsAreKept, WindowExposure, WindowRows, AmountsOf, ActsOf
  <2>2. was \in Nat /\ IsFiniteSet(win) /\ win \subseteq bindings
    <3>1. win \subseteq bindings
      BY DEF WindowRows
    <3>2. was \in Nat /\ IsFiniteSet(win)
      BY SpentIsNat DEF BudgetsInv, BindingsAreSound
    <3> QED
      BY <3>1, <3>2
  <2>3. Max(amounts) \in Nat
    <3>1. amounts \in SUBSET Nat /\ amounts # {} /\ IsFiniteSet(amounts)
      BY AmountsAre DEF BudgetsInv
    <3> HIDE DEF amounts
    <3> QED
      BY <3>1, LargestIs
  <2>4. \A x \in win : BoundExposure'[x] \in Nat /\ BoundExposure[x] \in Nat /\ BoundExposure'[x] <= BoundExposure[x]
    BY <1>10, <2>2
  <2>5. is \in Nat /\ is <= was
    <3> HIDE DEF win
    <3> QED
      BY <2>2, <2>4, SumIsMonotone, SumIsNat
  <2>6. is <= Max(amounts)
    <3> HIDE DEF amounts, was, is
    <3> QED
      BY <2>1, <2>2, <2>3, <2>5
  <2>7. win' = win /\ amounts' = amounts
    BY <1>2 DEF WindowRows
  <2> QED
    BY <1>2, <2>6, <2>7 DEF Within
<1>12. WindowsAreKept'
  BY <1>2, <1>11, WindowsAreKeptLater
<1> QED
  BY <1>5, <1>6, <1>8, <1>9, <1>12 DEF BudgetsInv

-----------------------------------------------------------------------------
(* An attempt begins.                                                      *)

\* The plan in force for what an attempt binds to.
LEMMA InForceIs ==
    ASSUME BudgetsInv, NEW p \in ActivatedPlans
    PROVE  /\ p \in BudgetPlans /\ Len(acts[p]) \in DOMAIN acts[p] /\ Len(acts[p]) \in 1 .. MaxPlanWrites
           /\ PlanPointer(p).at \in Nat /\ PlanInForce(p) = plans[p][acts[p][Len(acts[p])].ver]
           /\ PlanInForce(p).from \in Nat /\ PlanInForce(p).to \in Nat /\ PlanInForce(p).amount \in Nat
           /\ \A i \in DOMAIN acts[p] : acts[p][i].at <= PlanPointer(p).at
<1>1. p \in BudgetPlans /\ acts[p] # <<>>
  BY DEF ActivatedPlans
<1>2. /\ acts[p] \in Seq([ver : 1 .. MaxPlanWrites, at : 1 .. MaxClock])
      /\ Len(acts[p]) \in Nat /\ DOMAIN acts[p] = 1 .. Len(acts[p]) /\ Len(acts[p]) <= MaxPlanWrites
  BY <1>1, ActivatedIs DEF BudgetsInv, ControlIsSound
<1>3. Len(acts[p]) \in DOMAIN acts[p]
  BY <1>1, <1>2
<1>4. \A i \in DOMAIN acts[p] : acts[p][i].at <= acts[p][Len(acts[p])].at
  BY <1>1, <1>2, <1>3 DEF BudgetsInv, ControlIsSound
<1>5. Len(acts[p]) \in 1 .. MaxPlanWrites
  BY <1>2, <1>3, WorkBudgetsAssumption
<1> QED
  BY <1>1, <1>3, <1>4, <1>5, ActivatedIs DEF BudgetsInv, PlanPointer, PlanInForce

BindingOf(a, p) ==
    [attempt |-> a, plan |-> p, gen |-> Len(acts[p]), from |-> PlanInForce(p).from, to |-> PlanInForce(p).to]

LEMMA BeginBinds ==
    ASSUME BudgetsInv, NEW a \in WorkAttempts, NEW cost \in WorkEstimates, BeginWorkAttempt(a, cost)
    PROVE  /\ wreq[a] = "waits" /\ wreq'[a] = "pending" /\ wcost'[a].reserved = cost
           /\ \A b \in WorkAttempts : b # a => wreq'[b] = wreq[b] /\ wcost'[b] = wcost[b]
           /\ bindings' = bindings \cup {BindingOf(a, p) : p \in PlansFor(asOf[a], wref[a])}
           /\ UNCHANGED <<wclock, wscope, plans, acts, wref, asOf, denial>>
           /\ WorkBudgetsTypeOK' /\ ControlIsSound' /\ BindingsAreSound'
           /\ \A b \in bindings : b.attempt \in WorkAttempts \ {a} /\ b \in bindings'
           /\ PlansFor(asOf[a], wref[a]) \subseteq ActivatedPlans
<1>1. /\ wreq[a] = "waits" /\ wreq' = [wreq EXCEPT ![a] = "pending"] /\ wcost' = [wcost EXCEPT ![a].reserved = cost]
      /\ bindings' = bindings \cup {BindingOf(a, p) : p \in PlansFor(asOf[a], wref[a])}
      /\ UNCHANGED <<wclock, wscope, plans, acts, wref, asOf, denial>>
  BY DEF BeginWorkAttempt, BindingOf
<1>2. PlansFor(asOf[a], wref[a]) \subseteq ActivatedPlans
  BY DEF PlansFor, EffectivePlans
<1>3. /\ wreq' \in [WorkAttempts -> {"new", "waits", "denied", "refused"} \cup OpenWork \cup SettledWork]
      /\ wreq'[a] = "pending" /\ \A b \in WorkAttempts : b # a => wreq'[b] = wreq[b]
  BY <1>1 DEF BudgetsInv, WorkBudgetsTypeOK, OpenWork
<1>4. /\ wcost' \in [WorkAttempts -> [reserved : WorkEstimates \cup {0}, settled : WorkCharges \cup {0}]]
      /\ wcost'[a].reserved = cost /\ \A b \in WorkAttempts : b # a => wcost'[b] = wcost[b]
  BY <1>1 DEF BudgetsInv, WorkBudgetsTypeOK
<1>5. \A b \in bindings : b.attempt \in WorkAttempts \ {a}
  BY <1>1 DEF BudgetsInv, WorkBudgetsTypeOK, BindingsAreSound, Begun, OpenWork, SettledWork
<1>6. ASSUME NEW p \in PlansFor(asOf[a], wref[a])
      PROVE  /\ BindingOf(a, p) \in [attempt : WorkAttempts, plan : BudgetPlans, gen : 1 .. MaxPlanWrites,
                                     from : Nat, to : Nat]
             /\ BindingOf(a, p).attempt = a /\ BindingOf(a, p).plan = p
             /\ BindingOf(a, p).gen \in DOMAIN acts[p]
             /\ plans[p][acts[p][BindingOf(a, p).gen].ver].from = BindingOf(a, p).from
             /\ plans[p][acts[p][BindingOf(a, p).gen].ver].to = BindingOf(a, p).to
  <2>1. p \in ActivatedPlans
    BY <1>2
  <2> QED
    BY <2>1, InForceIs DEF BindingOf
<1>7. WorkBudgetsTypeOK'
  <2>1. bindings' \subseteq [attempt : WorkAttempts, plan : BudgetPlans, gen : 1 .. MaxPlanWrites,
                             from : Nat, to : Nat]
    BY <1>1, <1>6 DEF BudgetsInv, WorkBudgetsTypeOK
  <2> QED
    BY <1>1, <1>3, <1>4, <2>1, Zenon DEF BudgetsInv, WorkBudgetsTypeOK
<1>8. ControlIsSound'
  BY <1>1 DEF BudgetsInv, ControlIsSound, ScopeExists
<1>9. IsFiniteSet(bindings')
  <2> DEFINE ps == PlansFor(asOf[a], wref[a])
             f == [p \in ps |-> BindingOf(a, p)]
             new == {BindingOf(a, p) : p \in ps}
  <2>1. ps \subseteq BudgetPlans
    BY <1>2 DEF ActivatedPlans
  <2>2. IsFiniteSet(ps)
    BY <2>1, WorkBudgetsAssumption, FS_Subset
  <2>3. new = {f[p] : p \in ps}
    OBVIOUS
  <2> HIDE DEF ps, f
  <2>4. IsFiniteSet(new)
    BY <2>2, <2>3, ImageIsFinite
  <2> HIDE DEF new
  <2>5. IsFiniteSet(bindings \cup new)
    BY <2>4, FS_Union DEF BudgetsInv, BindingsAreSound
  <2> QED
    BY <1>1, <2>5 DEF new, ps
<1>10. BindingsAreSound'
  <2>1. \A b \in bindings : wreq'[b.attempt] = wreq[b.attempt]
    BY <1>3, <1>5
  <2>2. \A b \in bindings' : b \in bindings \/ \E p \in PlansFor(asOf[a], wref[a]) : b = BindingOf(a, p)
    BY <1>1
  <2>3. ASSUME NEW b \in bindings'
        PROVE  /\ wreq'[b.attempt] \in OpenWork \cup SettledWork /\ b.gen \in DOMAIN acts[b.plan]
               /\ plans[b.plan][acts[b.plan][b.gen].ver].from = b.from
               /\ plans[b.plan][acts[b.plan][b.gen].ver].to = b.to
    <3>1. CASE b \in bindings
      BY <2>1, <3>1 DEF BudgetsInv, BindingsAreSound, Begun
    <3>2. CASE b \notin bindings
      <4>1. PICK p \in PlansFor(asOf[a], wref[a]) : b = BindingOf(a, p)
        BY <2>2, <3>2
      <4> QED
        BY <1>3, <1>6, <4>1 DEF OpenWork
    <3> QED
      BY <3>1, <3>2
  <2>4. \A b, c \in bindings' : b.attempt = c.attempt /\ b.plan = c.plan => b = c
    BY <1>5, <1>6, <2>2 DEF BudgetsInv, BindingsAreSound
  <2> QED
    BY <1>1, <1>9, <2>3, <2>4 DEF BindingsAreSound, Begun
<1> QED
  BY <1>1, <1>2, <1>3, <1>4, <1>5, <1>7, <1>8, <1>10

\* The plan in force has room for what is admitted.
LEMMA BeginKeepsWindows ==
    ASSUME BudgetsInv, NEW a \in WorkAttempts, NEW cost \in WorkEstimates, BeginWorkAttempt(a, cost)
    PROVE  WindowsAreKept'
<1> DEFINE ps == PlansFor(asOf[a], wref[a])
           new == {BindingOf(a, p) : p \in ps}
<1>1. /\ wreq'[a] = "pending" /\ wcost'[a].reserved = cost
      /\ \A b \in WorkAttempts : b # a => wreq'[b] = wreq[b] /\ wcost'[b] = wcost[b]
      /\ bindings' = bindings \cup new
      /\ UNCHANGED <<wclock, wscope, plans, acts, wref, asOf, denial>>
      /\ \A b \in bindings : b.attempt \in WorkAttempts \ {a} /\ b \in bindings'
      /\ ps \subseteq ActivatedPlans
  BY BeginBinds
<1>2. cost \in Nat
  BY WorkBudgetsAssumption
<1>3. \A b \in bindings : BoundExposure'[b] = BoundExposure[b]
  BY <1>1 DEF BoundExposure
<1>4. ASSUME NEW p \in ps
      PROVE  BoundExposure'[BindingOf(a, p)] = cost /\ BindingOf(a, p) \notin bindings
  <2>1. BindingOf(a, p) \in bindings' /\ BindingOf(a, p).attempt = a
    BY <1>1 DEF BindingOf
  <2>2. BoundExposure'[BindingOf(a, p)] = IF wreq'[a] \in OpenWork THEN wcost'[a].reserved
                                         ELSE Min({wcost'[a].reserved, wcost'[a].settled})
    BY <2>1 DEF BoundExposure
  <2> QED
    BY <1>1, <2>1, <2>2 DEF OpenWork
\* A window that nothing was bound to is exposed to what it was.
<1>5. ASSUME NEW p \in BudgetPlans, NEW from, NEW to
      PROVE  /\ IsFiniteSet(WindowRows(p, from, to)) /\ WindowRows(p, from, to) \subseteq bindings
             /\ \A b \in WindowRows(p, from, to) : BoundExposure'[b] = BoundExposure[b] /\ BoundExposure[b] \in Nat
             /\ SumFunctionOnSet(BoundExposure, WindowRows(p, from, to)) \in Nat
             /\ SumFunctionOnSet(BoundExposure', WindowRows(p, from, to))
                    = SumFunctionOnSet(BoundExposure, WindowRows(p, from, to))
  <2> DEFINE win == WindowRows(p, from, to)
  <2>1. win \subseteq bindings
    BY DEF WindowRows
  <2>2. IsFiniteSet(win) /\ SumFunctionOnSet(BoundExposure, win) \in Nat
    BY SpentIsNat DEF BudgetsInv, BindingsAreSound
  <2>3. \A b \in win : BoundExposure'[b] = BoundExposure[b] /\ BoundExposure[b] \in Nat
    BY <1>3, <2>1, RowsExpose DEF BudgetsInv
  <2>4. SumFunctionOnSet(BoundExposure', win) = SumFunctionOnSet(BoundExposure, win)
    <3> HIDE DEF win
    <3> QED
      BY <2>2, <2>3, SumsAreEqual
  <2> QED
    BY <2>1, <2>2, <2>3, <2>4
<1>6. ASSUME NEW p \in ps
      PROVE  Within(p, PlanInForce(p).from, PlanInForce(p).to)'
  <2>1. PICK from, to, row : from = PlanInForce(p).from /\ to = PlanInForce(p).to /\ row = BindingOf(a, p)
    OBVIOUS
  <2>2. p \in ActivatedPlans /\ p \in BudgetPlans
    BY <1>1 DEF ActivatedPlans
  <2> DEFINE win == WindowRows(p, from, to)
             amounts == AmountsOf(plans[p], acts[p], from, to)
  <2>3. win' = win \cup {row}
    <3>1. \A b \in new : b.plan = p => b = row
      BY <2>1 DEF BindingOf
    <3>2. row \in new /\ row.plan = p /\ row.from = from /\ row.to = to
      BY <2>1 DEF BindingOf
    <3> HIDE DEF new
    <3> QED
      BY <1>1, <3>1, <3>2 DEF WindowRows
  <2>4. /\ IsFiniteSet(win) /\ win \subseteq bindings
        /\ \A b \in win : BoundExposure'[b] = BoundExposure[b] /\ BoundExposure[b] \in Nat
        /\ SumFunctionOnSet(BoundExposure', win) = SumFunctionOnSet(BoundExposure, win)
        /\ SumFunctionOnSet(BoundExposure, win) \in Nat
    BY <1>5, <2>2
  <2>5. row \notin win /\ BoundExposure'[row] = cost
    BY <1>4, <2>1, <2>4
  <2>6. SumFunctionOnSet(BoundExposure', win') = cost + SumFunctionOnSet(BoundExposure, win)
    <3> HIDE DEF win
    <3>1. \A b \in win \cup {row} : BoundExposure'[b] \in Nat
      BY <1>2, <2>4, <2>5
    <3> QED
      BY <2>3, <2>4, <2>5, <3>1, SumAdded
  <2>7. BudgetConsumed(p) = SumFunctionOnSet(BoundCost, win)
    BY <2>1 DEF BudgetConsumed, WindowRows
  <2>8. ASSUME NEW b \in bindings
        PROVE  BoundCost[b] \in Nat /\ BoundExposure[b] <= BoundCost[b]
    <3>1. PICK r : r = b.attempt
      OBVIOUS
    <3>2. r \in WorkAttempts
      BY <3>1 DEF BudgetsInv, WorkBudgetsTypeOK
    <3>3. /\ BoundExposure[b] = ExposureOf(wreq[r], wcost[r])
          /\ wcost[r] \in [reserved : WorkEstimates \cup {0}, settled : WorkCharges \cup {0}]
      BY <3>1, <3>2, RowsExpose DEF BudgetsInv, WorkBudgetsTypeOK
    <3>4. BoundCost[b] = IF wreq[r] \in OpenWork THEN wcost[r].reserved ELSE wcost[r].settled
      BY <3>1 DEF BoundCost
    <3>5. /\ ExposureOf(wreq[r], wcost[r]) <= wcost[r].reserved
          /\ wcost[r].reserved \in Nat /\ wcost[r].settled \in Nat
          /\ wreq[r] \notin OpenWork => ExposureOf(wreq[r], wcost[r]) <= wcost[r].settled
      BY <3>3, ExposureIsNat
    <3>6. CASE wreq[r] \in OpenWork
      BY <3>3, <3>4, <3>5, <3>6
    <3>7. CASE wreq[r] \notin OpenWork
      BY <3>3, <3>4, <3>5, <3>7
    <3> QED
      BY <3>6, <3>7
  <2>9. SumFunctionOnSet(BoundExposure, win) <= BudgetConsumed(p) /\ BudgetConsumed(p) \in Nat
    <3> HIDE DEF win
    <3>1. \A b \in win : BoundCost[b] \in Nat /\ BoundExposure[b] \in Nat /\ BoundExposure[b] <= BoundCost[b]
      BY <2>4, <2>8
    <3> QED
      BY <2>4, <2>7, <3>1, SumIsMonotone, SumIsNat
  <2>10. PlanInForce(p).amount \in amounts /\ PlanInForce(p).amount \in Nat
    <3>1. Len(acts[p]) \in ActsOf(plans[p], acts[p], from, to)
      BY <2>1, <2>2, InForceIs DEF ActsOf
    <3> QED
      BY <2>2, <3>1, InForceIs DEF AmountsOf
  <2>11. amounts \in SUBSET Nat /\ IsFiniteSet(amounts)
    <3>1. /\ plans[p] \in Seq(PlanTexts) /\ acts[p] \in Seq([ver : 1 .. MaxPlanWrites, at : 1 .. MaxClock])
          /\ \A i \in DOMAIN acts[p] : acts[p][i].ver \in DOMAIN plans[p]
      BY <2>2 DEF BudgetsInv, WorkBudgetsTypeOK, ControlIsSound
    <3> QED
      BY <3>1, AmountsAreFinite
  <2>12. PlanInForce(p).amount <= Max(amounts) /\ Max(amounts) \in Nat
    <3> HIDE DEF amounts
    <3> QED
      BY <2>10, <2>11, LargestIs
  <2>13. BudgetConsumed(p) + cost <= PlanInForce(p).amount
    <3>1. ~PlanRefuses(p, cost)
      BY DEF BeginWorkAttempt
    <3> QED
      BY <1>2, <2>9, <2>10, <3>1 DEF PlanRefuses
  <2>14. SumFunctionOnSet(BoundExposure', win') <= Max(amounts)
    <3> HIDE DEF amounts, win
    <3> QED
      BY <1>2, <2>4, <2>6, <2>9, <2>10, <2>12, <2>13
  <2>15. PlanInForce(p)' = PlanInForce(p) /\ amounts' = amounts
    BY <1>1, <2>1 DEF PlanInForce, PlanPointer
  <2> QED
    BY <1>1, <2>1, <2>14, <2>15 DEF Within
<1>7. ASSUME NEW b \in bindings', b.plan \in BudgetPlans
      PROVE  Within(b.plan, b.from, b.to)'
  <2>1. CASE \E p \in ps : b.plan = p /\ b.from = PlanInForce(p).from /\ b.to = PlanInForce(p).to
    <3>1. PICK p \in ps : b.plan = p /\ b.from = PlanInForce(p).from /\ b.to = PlanInForce(p).to
      BY <2>1
    <3>2. PlanInForce(p)' = PlanInForce(p)
      BY <1>1 DEF PlanInForce, PlanPointer
    <3> QED
      BY <1>1, <1>6, <3>1, <3>2 DEF Within, WindowRows
  <2>2. CASE \A p \in ps : ~(b.plan = p /\ b.from = PlanInForce(p).from /\ b.to = PlanInForce(p).to)
    <3> DEFINE win == WindowRows(b.plan, b.from, b.to)
               amounts == AmountsOf(plans[b.plan], acts[b.plan], b.from, b.to)
    <3>1. \A row \in new : ~(row.plan = b.plan /\ row.from = b.from /\ row.to = b.to)
      BY <2>2 DEF BindingOf
    <3>2. b \in bindings /\ {row \in bindings' : row.plan = b.plan /\ row.from = b.from /\ row.to = b.to} = win
      <4> HIDE DEF new
      <4> QED
        BY <1>1, <3>1 DEF WindowRows
    <3>3. SumFunctionOnSet(BoundExposure, win) <= Max(amounts)
      BY <1>7, <3>2 DEF BudgetsInv, WindowsAreKept, WindowExposure, WindowRows, AmountsOf, ActsOf
    <3>4. SumFunctionOnSet(BoundExposure', win) = SumFunctionOnSet(BoundExposure, win)
      BY <1>5, <1>7
    <3>5. SumFunctionOnSet(BoundExposure', win) <= Max(amounts)
      BY <3>3, <3>4
    <3> QED
      BY <1>1, <3>2, <3>5 DEF Within, WindowRows
  <2> QED
    BY <2>1, <2>2
<1> QED
  BY <1>7, WindowsAreKeptLater

\* An attempt is bound to what was in force when it read the time.
LEMMA BeginExplains ==
    ASSUME BudgetsInv, NEW a \in WorkAttempts, NEW cost \in WorkEstimates, BeginWorkAttempt(a, cost),
           NEW p \in BudgetPlans
    PROVE  IsExplained(a, p)'
<1> DEFINE ps == PlansFor(asOf[a], wref[a])
<1>1. /\ wreq[a] = "waits" /\ bindings' = bindings \cup {BindingOf(a, q) : q \in ps}
      /\ UNCHANGED <<wclock, wscope, plans, acts, wref, asOf, denial>>
      /\ \A b \in bindings : b.attempt \in WorkAttempts \ {a}
      /\ ps \subseteq ActivatedPlans
  BY BeginBinds
<1>2. PICK t : t = asOf[a]
  OBVIOUS
<1>3. t \in Nat /\ UnreadablePlans(t) = {}
  BY <1>2 DEF BudgetsInv, WorkBudgetsTypeOK, BeginWorkAttempt, PreparedWork
<1>4. BoundTo(a, p)' = IF p \in ps THEN {BindingOf(a, p)} ELSE {}
  BY <1>1 DEF BoundTo, BindingOf
<1>5. \A b \in BoundTo(a, p)' : acts'[p][b.gen].at <= asOf'[a]
  <2>1. ASSUME p \in ps PROVE acts[p][Len(acts[p])].at <= t
    BY <1>1, <1>2, <2>1 DEF PlansFor, EffectivePlans, PlanPointer
  <2> QED
    BY <1>1, <1>2, <1>4, <2>1 DEF BindingOf
<1>6. ASSUME ActsBefore(a, p) # {}, \A i \in DOMAIN acts[p] : acts[p][i].at # t
      PROVE  /\ p \in ActivatedPlans /\ PlanPointer(p).at <= t /\ Max(ActsBefore(a, p)) = Len(acts[p])
  <2>1. acts[p] # <<>>
    BY <1>6 DEF ActsBefore
  <2>2. p \in ActivatedPlans
    BY <2>1 DEF ActivatedPlans
  <2>3. PlanPointer(p).at <= t
    BY <1>3, <2>2, InForceIs DEF UnreadablePlans
  <2>4. /\ Len(acts[p]) \in DOMAIN acts[p] /\ PlanPointer(p).at \in Nat
        /\ \A i \in DOMAIN acts[p] : acts[p][i].at <= PlanPointer(p).at
    BY <2>2, InForceIs
  <2>5. \A i \in DOMAIN acts[p] : acts[p][i].at \in Nat
    BY ActivatedIs DEF BudgetsInv
  <2>6. ActsBefore(a, p) = DOMAIN acts[p]
    <3>1. \A i \in DOMAIN acts[p] : acts[p][i].at < t
      BY <1>3, <1>6, <2>3, <2>4, <2>5
    <3> QED
      BY <1>2, <3>1 DEF ActsBefore
  <2>7. DOMAIN acts[p] = 1 .. Len(acts[p]) /\ Len(acts[p]) \in Nat
    BY ActivatedIs DEF BudgetsInv
  <2>8. Max(ActsBefore(a, p)) = Len(acts[p])
    <3>1. PICK n \in Nat : n = Len(acts[p])
      BY <2>7
    <3>2. ActsBefore(a, p) = 1 .. n /\ n # 0
      BY <2>4, <2>6, <2>7, <3>1
    <3>3. IsFiniteSet(1 .. n)
      BY <3>1, FS_Interval
    <3>4. 1 .. n \in SUBSET Nat /\ 1 .. n # {} /\ n \in 1 .. n
      BY <3>2
    <3>5. Max(1 .. n) \in 1 .. n /\ n <= Max(1 .. n)
      BY <3>3, <3>4, LargestIs
    <3> QED
      BY <3>1, <3>2, <3>5
  <2> QED
    BY <2>2, <2>3, <2>8
<1>7. ASSUME ActsBefore(a, p) # {}, \A i \in DOMAIN acts[p] : acts[p][i].at # t,
             NEW text, text = plans[p][acts[p][Max(ActsBefore(a, p))].ver], text.from <= t, t < text.to
      PROVE  p \in ps <=> <<text.scope, text.ver>> \in ScopeChain(wref[a])
  <2>1. p \in ActivatedPlans /\ PlanPointer(p).at <= t /\ text = PlanInForce(p)
    BY <1>6, <1>7 DEF PlanInForce, PlanPointer
  <2>2. p \in EffectivePlans(t)
    BY <1>7, <2>1 DEF EffectivePlans
  <2> QED
    BY <1>2, <2>1, <2>2 DEF PlansFor
<1>8. ActsBefore(a, p)' = ActsBefore(a, p)
  BY <1>1 DEF ActsBefore
<1>9. ScopeChain(wref[a])' = ScopeChain(wref[a])
  BY <1>1 DEF ScopeChain, ScopeParent
<1>10. (BoundTo(a, p) # {})' <=> p \in ps
  BY <1>4
<1> HIDE DEF ps
<1> QED
  BY <1>1, <1>2, <1>5, <1>7, <1>8, <1>9, <1>10 DEF IsExplained

LEMMA BeginKeeps ==
    ASSUME BudgetsInv, NEW a \in WorkAttempts, NEW cost \in WorkEstimates, BeginWorkAttempt(a, cost)
    PROVE  BudgetsInv'
<1>1. Explained'
  <2> SUFFICES ASSUME NEW b \in WorkAttempts, NEW p \in BudgetPlans, Begun(b)' PROVE IsExplained(b, p)'
    BY DEF Explained
  <2>1. CASE b = a
    BY <2>1, BeginExplains
  <2>2. CASE b # a
    <3>1. /\ wreq'[b] = wreq[b] /\ UNCHANGED <<wscope, plans, acts, wref, asOf>>
          /\ bindings' = bindings \cup {BindingOf(a, q) : q \in PlansFor(asOf[a], wref[a])}
      BY <2>2, BeginBinds
    <3>2. BoundTo(b, p)' = BoundTo(b, p)
      BY <2>2, <3>1 DEF BoundTo, BindingOf
    <3>3. IsExplained(b, p)
      BY <3>1 DEF BudgetsInv, Explained, Begun
    <3> QED
      BY <3>1, <3>2, <3>3, ExplainedStays
  <2> QED
    BY <2>1, <2>2
<1> QED
  BY <1>1, BeginBinds, BeginKeepsWindows DEF BudgetsInv

-----------------------------------------------------------------------------
LEMMA BudgetsHold == WorkBudgetsInit => BudgetsInv
<1> SUFFICES ASSUME WorkBudgetsInit PROVE BudgetsInv
  OBVIOUS
<1>1. WorkBudgetsTypeOK
  <2>1. wscope \in [WorkScopes -> Seq(ScopeTexts)] /\ plans \in [BudgetPlans -> Seq(PlanTexts)]
    BY DEF WorkBudgetsInit
  <2>2. acts \in [BudgetPlans -> Seq([ver : 1 .. MaxPlanWrites, at : 1 .. MaxClock])]
    BY DEF WorkBudgetsInit
  <2>3. /\ wreq \in [WorkAttempts -> {"new", "waits", "denied", "refused"} \cup OpenWork \cup SettledWork]
        /\ wref \in [WorkAttempts -> WorkRefs \cup {NoScope}]
    BY DEF WorkBudgetsInit
  <2>4. wclock \in 1 .. MaxClock /\ asOf \in [WorkAttempts -> 0 .. MaxClock]
    BY WorkBudgetsAssumption DEF WorkBudgetsInit
  <2>5. wcost \in [WorkAttempts -> [reserved : WorkEstimates \cup {0}, settled : WorkCharges \cup {0}]]
    BY DEF WorkBudgetsInit
  <2>6. denial \in [WorkAttempts -> SUBSET PlanRefs] /\ bindings = {}
    BY DEF WorkBudgetsInit
  <2> QED
    BY <2>1, <2>2, <2>3, <2>4, <2>5, <2>6 DEF WorkBudgetsTypeOK
<1>2. ControlIsSound
  BY WorkBudgetsAssumption DEF WorkBudgetsInit, ControlIsSound
<1>3. BindingsAreSound
  BY FS_EmptySet DEF WorkBudgetsInit, BindingsAreSound
<1>4. WindowsAreKept /\ Explained
  BY DEF WorkBudgetsInit, WindowsAreKept, Explained, Begun, OpenWork, SettledWork
<1> QED
  BY <1>1, <1>2, <1>3, <1>4 DEF BudgetsInv

LEMMA BudgetsGoOn == BudgetsInv /\ [WorkBudgetsNext]_budgetVars => BudgetsInv'
<1> SUFFICES ASSUME BudgetsInv, [WorkBudgetsNext]_budgetVars PROVE BudgetsInv'
  OBVIOUS
<1>1. CASE UNCHANGED budgetVars
  <2>1. UNCHANGED <<wclock, wscope, plans, acts, wreq, wref, asOf, wcost, bindings, denial>>
    BY <1>1 DEF budgetVars
  <2>2. WorkBudgetsTypeOK'
    BY <2>1, Zenon DEF BudgetsInv, WorkBudgetsTypeOK
  <2>3. ControlIsSound'
    BY <2>1 DEF BudgetsInv, ControlIsSound, ScopeExists
  <2>4. Grew
    BY <2>1 DEF Grew, Grows, requestVars
  <2> QED
    BY <2>2, <2>3, <2>4, GrewKeeps
<1>2. CASE AdvanceClock
  BY <1>2, ClockKeeps
<1>3. ASSUME NEW text \in ScopeTexts, PublishScope(text) PROVE BudgetsInv'
  BY <1>3, PublishKeeps
<1>4. ASSUME NEW p \in BudgetPlans, NEW text \in PlanTexts, CorrectPlan(p, text) PROVE BudgetsInv'
  BY <1>4, CorrectKeeps
<1>5. ASSUME NEW p \in BudgetPlans, NEW v \in DOMAIN plans[p], ActivatePlan(p, v) PROVE BudgetsInv'
  BY <1>5, ActivateKeeps
<1>6. ASSUME NEW a \in WorkAttempts, NEW ref \in WorkRefs \cup {NoScope}, Attribute(a, ref) PROVE BudgetsInv'
  BY <1>6, AttributeKeeps
<1>7. ASSUME NEW a \in WorkAttempts, NEW cost \in WorkEstimates, BeginWorkAttempt(a, cost) PROVE BudgetsInv'
  BY <1>7, BeginKeeps
<1>8. ASSUME NEW a \in WorkAttempts, NEW cost \in WorkEstimates, DenyWorkAttempt(a, cost) PROVE BudgetsInv'
  BY <1>8, DenyKeeps
<1>9. ASSUME NEW a \in WorkAttempts, NEW cost \in WorkCharges, NEW outcome \in SettledWork \cup {"unknown"},
             SettleWorkAttempt(a, outcome, cost)
      PROVE  BudgetsInv'
  BY <1>9, SettleWorkKeeps
<1>10. ASSUME NEW a \in WorkAttempts, RejectWorkAttempt(a) \/ RecordDenial(a) PROVE BudgetsInv'
  BY <1>10, RejectKeeps
<1> QED
  BY <1>1, <1>2, <1>3, <1>4, <1>5, <1>6, <1>7, <1>8, <1>9, <1>10 DEF WorkBudgetsNext

\* No window of a plan admits more than the largest amount that was in force for it, and the stored
\* rows explain every admission, whatever is published, corrected, activated and settled between an
\* attempt's reading of the time and its transaction, for any scopes, plans, attempts and amounts
\* (prepare_work_budget and enforce_and_bind_work_budget in budget_runtime.py).
THEOREM WorkBudgetsAreSoundHolds == WorkBudgetsSpec => []WorkBudgetsAreSound
<1>1. ASSUME BudgetsInv PROVE BindingsAreComplete
  <2> SUFFICES ASSUME NEW a \in WorkAttempts, NEW p \in BudgetPlans, Begun(a)
               PROVE  IsExplained(a, p) /\ Cardinality(BoundTo(a, p)) <= 1
    BY DEF BindingsAreComplete, IsExplained, BoundTo, ActsBefore, Begun
  <2>1. IsExplained(a, p)
    BY <1>1 DEF BudgetsInv, Explained
  <2>2. \A b, c \in BoundTo(a, p) : b = c
    BY <1>1 DEF BudgetsInv, BindingsAreSound, BoundTo
  <2>3. CASE BoundTo(a, p) = {}
    BY <2>1, <2>3, FS_EmptySet
  <2>4. CASE BoundTo(a, p) # {}
    <3>1. PICK b : BoundTo(a, p) = {b}
      BY <2>2, <2>4
    <3>2. Cardinality({b}) = 1
      BY FS_Singleton
    <3> QED
      BY <2>1, <3>1, <3>2
  <2> QED
    BY <2>3, <2>4
<1>2. BudgetsInv => WorkBudgetsAreSound
  BY <1>1 DEF BudgetsInv, WorkBudgetsAreSound
<1> QED
  BY <1>2, BudgetsHold, BudgetsGoOn, PTL DEF WorkBudgetsSpec

(***************************************************************************)
(* Receipts: a plan shows what admission counts, a final cost stays, and   *)
(* pages are stable.  What was due to a reader is the listing of its job's *)
(* attempts up to some place of the ledger, and what it has read is the    *)
(* first part of that listing.                                             *)
(***************************************************************************)

ReceiptRows ==
    [job : ReceiptJobs, month : Nat, state : {"pending", "denied", "succeeded", "failed", "unknown", "cache_hit"},
     reserved : Nat, cost : Nat, confirmed : Nat \cup {Unconfirmed},
     source : {"none", "provider_invoice", "provider_receipt"}]

LEMMA SettledIs ==
    ASSUME NEW row \in ReceiptRows, NEW outcome \in ReceiptOutcomes
    PROVE  /\ Settled(row, outcome) \in ReceiptRows
           /\ Settled(row, outcome).job = row.job /\ Settled(row, outcome).month = row.month
           /\ Settled(row, outcome).state = outcome
           /\ Settled(row, outcome).confirmed = row.confirmed /\ Settled(row, outcome).source = row.source
BY ReceiptAssumption DEF Settled, ReceiptRows

LEMMA ConfirmedIs ==
    ASSUME NEW row \in ReceiptRows, NEW cost \in Invoices, NEW source \in {"provider_invoice", "provider_receipt"}
    PROVE  /\ Confirmed(row, cost, source) \in ReceiptRows
           /\ Confirmed(row, cost, source).job = row.job /\ Confirmed(row, cost, source).month = row.month
           /\ Confirmed(row, cost, source).state = row.state
           /\ Confirmed(row, cost, source).confirmed = cost /\ Confirmed(row, cost, source).source = source
BY ReceiptAssumption DEF Confirmed, ReceiptRows

\* A finite set of numbers, the largest first.
Listing(S) == [n \in 1 .. Cardinality(S) |-> PlaceOf(S, Cardinality(S) + 1 - n)]

LEMMA ListingIs ==
    ASSUME NEW S \in SUBSET Nat, IsFiniteSet(S)
    PROVE  /\ Listing(S) \in Seq(Nat) /\ Len(Listing(S)) = Cardinality(S) /\ Cardinality(S) \in Nat
           /\ \A n \in 1 .. Cardinality(S) : Listing(S)[n] \in S
           /\ \A i \in S : \E n \in 1 .. Cardinality(S) : Listing(S)[n] = i
           /\ \A n, m \in 1 .. Cardinality(S) : n < m => Listing(S)[n] > Listing(S)[m]
<1>1. Cardinality(S) \in Nat
  BY FS_CardinalityType
<1>2. \A n \in 1 .. Cardinality(S) :
        Cardinality(S) + 1 - n \in 1 .. Cardinality(S) /\ Listing(S)[n] = PlaceOf(S, Cardinality(S) + 1 - n)
  BY <1>1 DEF Listing
<1>3. \A n \in 1 .. Cardinality(S) : Listing(S)[n] \in S
  BY <1>2, PlaceIs
<1>4. Listing(S) \in Seq(Nat) /\ Len(Listing(S)) = Cardinality(S)
  <2>1. DOMAIN Listing(S) = 1 .. Cardinality(S)
    BY DEF Listing
  <2>2. Listing(S) \in [1 .. Cardinality(S) -> Nat]
    BY <1>3 DEF Listing
  <2> QED BY <1>1, <2>1, <2>2, LenProperties, SeqDef
<1>5. ASSUME NEW i \in S PROVE \E n \in 1 .. Cardinality(S) : Listing(S)[n] = i
  <2> DEFINE n == Cardinality(S) + 1 - Rank(S, i)
  <2>1. Rank(S, i) \in 1 .. Cardinality(S) /\ PlaceOf(S, Rank(S, i)) = i
    BY RankIs, PlaceIs
  <2>2. n \in 1 .. Cardinality(S) /\ Cardinality(S) + 1 - n = Rank(S, i)
    BY <1>1, <2>1
  <2> HIDE DEF n
  <2> QED BY <1>2, <2>1, <2>2
<1>6. ASSUME NEW n \in 1 .. Cardinality(S), NEW m \in 1 .. Cardinality(S), n < m PROVE Listing(S)[n] > Listing(S)[m]
  <2> DEFINE a == Cardinality(S) + 1 - n
             b == Cardinality(S) + 1 - m
  <2>1. a \in 1 .. Cardinality(S) /\ b \in 1 .. Cardinality(S) /\ b < a
    BY <1>1, <1>6
  <2>2. Listing(S)[n] = PlaceOf(S, a) /\ Listing(S)[m] = PlaceOf(S, b)
    BY <1>2
  <2> HIDE DEF a, b
  <2>3. PlaceOf(S, b) < PlaceOf(S, a) /\ PlaceOf(S, a) \in Nat /\ PlaceOf(S, b) \in Nat
    BY <2>1, PlaceIs
  <2> QED BY <2>2, <2>3
<1> QED BY <1>1, <1>3, <1>4, <1>5, <1>6

\* What is before a place of the listing is the rest of the listing.
LEMMA RestIsListed ==
    ASSUME NEW S \in SUBSET Nat, IsFiniteSet(S), NEW k \in 1 .. Cardinality(S),
           NEW T, T = {i \in S : i < Listing(S)[k]}
    PROVE  /\ Cardinality(T) = Cardinality(S) - k
           /\ \A n \in 1 .. Cardinality(T) : Listing(T)[n] = Listing(S)[k + n]
<1> DEFINE m == Cardinality(S) + 1 - k
           c == PlaceOf(S, m)
<1>1. Cardinality(S) \in Nat /\ m \in 1 .. Cardinality(S)
  BY FS_CardinalityType
<1>2. Listing(S)[k] = c
  BY DEF Listing
<1>3. c \in S /\ Rank(S, c) = m /\ c \in Nat
  BY <1>1, PlaceIs
<1> HIDE DEF c
<1>4. T = {i \in S : i < c} /\ IsFiniteSet(T) /\ T \in SUBSET Nat
  BY <1>2, FS_Subset
<1>5. Cardinality(T) = m - 1
  <2>1. {i \in S : i <= c} = T \cup {c} /\ c \notin T
    <3>1. \A i \in S : i \in Nat /\ (i <= c <=> i < c \/ i = c)
      BY <1>3
    <3>2. c \notin T /\ \A i \in S : i \in T <=> i < c
      BY <1>3, <1>4
    <3>3. \A i : i \in {j \in S : j <= c} <=> i \in T \cup {c}
      BY <1>3, <1>4, <3>1, <3>2
    <3> QED BY <3>2, <3>3
  <2>2. Cardinality(T \cup {c}) = Cardinality(T) + 1 /\ Cardinality(T) \in Nat
    BY <1>4, <2>1, FS_AddElement, FS_CardinalityType
  <2>3. Cardinality(T \cup {c}) = m
    BY <1>3, <2>1 DEF Rank
  <2> QED BY <2>2, <2>3
<1>6. ASSUME NEW n \in 1 .. Cardinality(T) PROVE PlaceOf(T, n) = PlaceOf(S, n)
  <2> DEFINE i == PlaceOf(S, n)
  <2>1. n \in 1 .. Cardinality(S) /\ n < m
    BY <1>1, <1>5
  <2>2. i \in S /\ Rank(S, i) = n
    BY <2>1, PlaceIs
  <2> HIDE DEF i
  <2>3. ~(c < i) /\ i # c
    BY <1>3, <2>1, <2>2, RankIs
  <2>4. i \in T
    BY <1>3, <1>4, <2>2, <2>3
  <2>5. {j \in T : j <= i} = {j \in S : j <= i}
    <3>1. i \in Nat /\ i < c
      BY <1>4, <2>4
    <3>2. ASSUME NEW j \in S, j <= i PROVE j \in T
      <4>1. j \in Nat /\ j < c
        BY <1>3, <3>1, <3>2
      <4> QED BY <1>4, <4>1
    <3>3. T \subseteq S
      BY <1>4
    <3> HIDE DEF c
    <3> QED BY <3>2, <3>3
  <2>6. Rank(T, i) = n
    BY <2>2, <2>5 DEF Rank
  <2>7. PlaceOf(T, Rank(T, i)) = i
    BY <1>4, <2>4, PlaceIs
  <2> QED BY <2>6, <2>7 DEF i
<1>7. ASSUME NEW n \in 1 .. Cardinality(T) PROVE Listing(T)[n] = Listing(S)[k + n]
  <2> DEFINE j == Cardinality(T) + 1 - n
  <2>1. j \in 1 .. Cardinality(T) /\ Cardinality(S) + 1 - (k + n) = j /\ k + n \in 1 .. Cardinality(S)
    BY <1>1, <1>5
  <2>2. Listing(T)[n] = PlaceOf(T, j)
    BY DEF Listing
  <2>3. Listing(S)[k + n] = PlaceOf(S, j)
    BY <2>1 DEF Listing
  <2> HIDE DEF j
  <2> QED BY <1>6, <2>1, <2>2, <2>3
<1> QED BY <1>1, <1>5, <1>7

\* The listing of places of the ledger is the one that the query orders.
LEMMA NewestIs ==
    ASSUME ledger \in Seq(ReceiptRows), NEW S \in SUBSET DOMAIN ledger
    PROVE  NewestFirst(S) = Listing(S) /\ S \in SUBSET Nat /\ IsFiniteSet(S)
<1> DEFINE s == [i \in 1 .. Len(ledger) |-> i]
           sub == SubsequenceAt(s, S)
<1>1. Len(ledger) \in Nat /\ DOMAIN ledger = 1 .. Len(ledger)
  BY LenProperties
<1>2. s \in Seq(Nat) /\ DOMAIN s = DOMAIN ledger /\ S \in SUBSET Nat /\ IsFiniteSet(S)
  <2>1. S \in SUBSET Nat
    BY <1>1
  <2>2. IsFiniteSet(1 .. Len(ledger))
    BY <1>1, FS_Interval
  <2>3. IsFiniteSet(S)
    BY <1>1, <2>2, FS_Subset
  <2>4. s \in [1 .. Len(ledger) -> Nat]
    BY <1>1
  <2>5. s \in Seq(Nat)
    BY <1>1, <2>4, SeqDef
  <2>6. DOMAIN s = DOMAIN ledger
    BY <1>1
  <2> QED BY <2>1, <2>3, <2>5, <2>6
<1>3. \A i \in S : s[i] = i
  BY <1>1
<1> HIDE DEF s
<1>4. /\ sub \in Seq(Nat) /\ Len(sub) = Cardinality(S) /\ Cardinality(S) \in Nat
      /\ \A n \in DOMAIN sub : PlaceOf(S, n) \in S /\ sub[n] = s[PlaceOf(S, n)]
  BY <1>2, SubsequenceIs, FS_CardinalityType
<1> HIDE DEF sub
<1>5. \A n \in 1 .. Cardinality(S) : sub[n] = PlaceOf(S, n)
  BY <1>3, <1>4, LenProperties
<1>6. Reverse(sub) = [n \in 1 .. Cardinality(S) |-> sub[Cardinality(S) - n + 1]]
  BY <1>4 DEF Reverse
<1>7. \A n \in 1 .. Cardinality(S) : sub[Cardinality(S) - n + 1] = PlaceOf(S, Cardinality(S) + 1 - n)
  BY <1>4, <1>5
<1>8. Reverse(sub) = Listing(S)
  BY <1>6, <1>7 DEF Listing
<1> QED BY <1>2, <1>8 DEF NewestFirst, sub, s

ReaderStates == [job : ReceiptJobs \cup {"none", "done"}, cursor : Nat, pages : Seq(Nat), due : Seq(Nat)]

\* What was due is the listing of a job's attempts up to some place, and the pages read are the first part of it.
UpTo(places, last) == {i \in places : i <= last}
HasRead(reader, listed) ==
    /\ reader.due = Listing(listed) /\ Len(reader.pages) \in 1 .. Cardinality(listed)
    /\ \A n \in 1 .. Len(reader.pages) : reader.pages[n] = Listing(listed)[n]
    /\ reader.cursor = Listing(listed)[Len(reader.pages)]
ReaderIs(reader, places, size) ==
    /\ reader.job = "none" => reader = Away
    /\ reader.job = "done" => reader.pages = reader.due
    /\ reader.job \in ReceiptJobs =>
          \/ reader.pages = <<>> /\ reader.cursor = 0
          \/ \E last \in 0 .. size : HasRead(reader, UpTo(places, last))

JobPlaces(list, job) == {i \in DOMAIN list : list[i].job = job}
RowIsSourced(row) == IsConfirmed(row) <=> row.source # "none"
ReceiptInv ==
    /\ ledger \in Seq(ReceiptRows) /\ openedJobs \subseteq ReceiptJobs /\ receiptMonth \in Nat
    /\ \A i \in DOMAIN ledger : ledger[i].job \in openedJobs /\ RowIsSourced(ledger[i])
    /\ readers \in [ReceiptReaders -> ReaderStates]
    /\ \A r \in ReceiptReaders : ReaderIs(readers[r], JobPlaces(ledger, readers[r].job), Len(ledger))

LEMMA ReceiptStarts == ReceiptInit => ReceiptInv
<1> SUFFICES ASSUME ReceiptInit PROVE ReceiptInv
  OBVIOUS
<1>1. Away \in ReaderStates /\ Away.job = "none"
  BY EmptySeq DEF Away, ReaderStates
<1>2. ledger = <<>> /\ ledger \in Seq(ReceiptRows) /\ DOMAIN ledger = {}
  BY EmptySeq DEF ReceiptInit
<1>3. readers \in [ReceiptReaders -> ReaderStates] /\ \A r \in ReceiptReaders : readers[r] = Away
  BY <1>1 DEF ReceiptInit
<1>4. ASSUME NEW places, NEW size PROVE ReaderIs(Away, places, size)
  BY <1>1, ReceiptAssumption DEF ReaderIs
<1> QED BY <1>2, <1>3, <1>4 DEF ReceiptInit, ReceiptInv

-----------------------------------------------------------------------------
(* What admission counts is what a plan shows.                             *)

LEMMA PlacesAre ==
    ASSUME ledger \in Seq(ReceiptRows)
    PROVE  /\ DOMAIN ledger = 1 .. Len(ledger) /\ Len(ledger) \in Nat /\ IsFiniteSet(DOMAIN ledger)
           /\ \A i \in DOMAIN ledger : ledger[i] \in ReceiptRows
<1>1. DOMAIN ledger = 1 .. Len(ledger) /\ Len(ledger) \in Nat
  BY LenProperties
<1>2. IsFiniteSet(DOMAIN ledger)
  BY <1>1, FS_Interval
<1> QED BY <1>1, <1>2, ElementOfSeq

LEMMA ChargeIs ==
    ASSUME NEW row \in ReceiptRows
    PROVE  /\ Committed(row) \in Nat /\ PendingHold(row) \in Nat /\ UncertainHold(row) \in Nat
           /\ Charge(row) = Committed(row) + (PendingHold(row) + UncertainHold(row))
<1>1. row.cost \in Nat /\ row.reserved \in Nat /\ (IsConfirmed(row) => row.confirmed \in Nat)
  BY DEF ReceiptRows, IsConfirmed
<1> QED BY <1>1 DEF Committed, PendingHold, UncertainHold, Charge

LEMMA ChargedInIs ==
    ASSUME ledger \in Seq(ReceiptRows), NEW places \in SUBSET DOMAIN ledger
    PROVE  Costs(places).consumed = ChargedIn(places)
<1> DEFINE c == [i \in places |-> Committed(ledger[i])]
           p == [i \in places |-> PendingHold(ledger[i])]
           u == [i \in places |-> UncertainHold(ledger[i])]
           h == [i \in places |-> p[i] + u[i]]
           a == [i \in places |-> Charge(ledger[i])]
<1>1. IsFiniteSet(places)
  BY PlacesAre, FS_Subset
<1>2. \A i \in places : ledger[i] \in ReceiptRows
  BY PlacesAre
<1>3. \A i \in places : p[i] \in Nat /\ u[i] \in Nat /\ h[i] = p[i] + u[i]
  BY <1>2, ChargeIs
<1>4. \A i \in places : c[i] \in Nat /\ h[i] \in Nat /\ a[i] = c[i] + h[i]
  BY <1>2, ChargeIs
<1>5. Costs(places).consumed = SumFunctionOnSet(c, places) + SumFunctionOnSet(p, places) + SumFunctionOnSet(u, places)
  BY DEF Costs, CommittedIn, PendingIn, UncertainIn
<1>6. ChargedIn(places) = SumFunctionOnSet(a, places)
  BY DEF ChargedIn
<1> HIDE DEF c, p, u, h, a
<1>7. SumFunctionOnSet(h, places) = SumFunctionOnSet(p, places) + SumFunctionOnSet(u, places)
  BY <1>1, <1>3, SumsAdd
<1>8. SumFunctionOnSet(a, places) = SumFunctionOnSet(c, places) + SumFunctionOnSet(h, places)
  BY <1>1, <1>4, SumsAdd
<1>9. /\ SumFunctionOnSet(c, places) \in Nat /\ SumFunctionOnSet(p, places) \in Nat
      /\ SumFunctionOnSet(u, places) \in Nat
  BY <1>1, <1>3, <1>4, SumIsNat
<1> QED BY <1>5, <1>6, <1>7, <1>8, <1>9

LEMMA ReceiptsShowWhatCounts == ReceiptInv => ShownIsEnforced
<1> SUFFICES ASSUME ReceiptInv, NEW job \in openedJobs, NEW scope \in {"workspace", "repository", "job"}
             PROVE  Shown(scope, job).consumed = Enforced(scope, job)
  BY DEF ShownIsEnforced
<1>1. ledger \in Seq(ReceiptRows)
  BY DEF ReceiptInv
<1>2. PlacesOf(scope, job) \in SUBSET DOMAIN ledger
  BY DEF PlacesOf
<1>3. Shown(scope, job).consumed = ChargedIn(PlacesOf(scope, job))
  BY <1>1, <1>2, ChargedInIs DEF Shown
<1>4. CASE scope = "repository" /\ OnlyRepository(RepositoryOf[job])
  <2>1. PlacesOf("workspace", job) = PlacesOf(scope, job)
    <3>1. \A i \in DOMAIN ledger : PlanCovers("workspace", job, ledger[i]) <=> PlanCovers(scope, job, ledger[i])
      BY <1>4 DEF ReceiptInv, OnlyRepository, PlanCovers
    <3> QED BY <3>1 DEF PlacesOf
  <2>2. Enforced(scope, job) = ChargedIn(PlacesOf("workspace", job))
    BY <1>4 DEF Enforced
  <2> QED BY <1>3, <2>1, <2>2
<1>5. CASE ~(scope = "repository" /\ OnlyRepository(RepositoryOf[job]))
  BY <1>3, <1>5 DEF Enforced
<1> QED BY <1>4, <1>5

-----------------------------------------------------------------------------
(* A change of the ledger keeps the places there are.                      *)

LEMMA ReaderStays ==
    ASSUME NEW reader \in ReaderStates, NEW places, NEW more, NEW size \in Nat, NEW bigger \in Nat,
           ReaderIs(reader, places, size), size <= bigger,
           \A last \in 0 .. size : UpTo(more, last) = UpTo(places, last)
    PROVE  ReaderIs(reader, more, bigger)
BY DEF ReaderIs

LEMMA RowChanges ==
    ASSUME ReceiptInv, NEW i \in DOMAIN ledger, NEW new \in ReceiptRows, new.job = ledger[i].job, RowIsSourced(new),
           ledger' = [ledger EXCEPT ![i] = new], UNCHANGED <<openedJobs, receiptMonth, readers>>
    PROVE  /\ ReceiptInv' /\ DOMAIN ledger' = DOMAIN ledger
           /\ \A j \in DOMAIN ledger : ledger'[j] = IF j = i THEN new ELSE ledger[j]
<1>1. /\ ledger \in Seq(ReceiptRows) /\ DOMAIN ledger = 1 .. Len(ledger) /\ Len(ledger) \in Nat
      /\ \A j \in DOMAIN ledger : ledger[j] \in ReceiptRows /\ ledger[j].job \in openedJobs /\ RowIsSourced(ledger[j])
  BY PlacesAre DEF ReceiptInv
<1>2. /\ ledger' \in Seq(ReceiptRows) /\ Len(ledger') = Len(ledger) /\ DOMAIN ledger' = DOMAIN ledger
      /\ \A j \in DOMAIN ledger : ledger'[j] = IF j = i THEN new ELSE ledger[j]
  <2>1. ledger' \in [1 .. Len(ledger) -> ReceiptRows]
    BY <1>1
  <2>2. ledger' \in Seq(ReceiptRows)
    BY <1>1, <2>1, SeqDef
  <2> QED BY <1>1, <2>1, <2>2, LenProperties
<1>3. \A j \in DOMAIN ledger' : ledger'[j].job \in openedJobs' /\ RowIsSourced(ledger'[j])
  BY <1>1, <1>2
<1>4. ASSUME NEW job PROVE JobPlaces(ledger', job) = JobPlaces(ledger, job)
  BY <1>1, <1>2 DEF JobPlaces
<1>5. \A r \in ReceiptReaders : ReaderIs(readers'[r], JobPlaces(ledger', readers'[r].job), Len(ledger'))
  BY <1>2, <1>4 DEF ReceiptInv
<1> QED BY <1>2, <1>3, <1>5 DEF ReceiptInv

LEMMA AdmitAttemptKeeps ==
    ASSUME ReceiptInv, NEW job \in ReceiptJobs, NEW outcome \in {"pending", "denied"}, AdmitAttempt(job, outcome)
    PROVE  ReceiptInv' /\ Len(ledger') # Len(ledger)
<1> DEFINE new == [job |-> job, month |-> receiptMonth, state |-> outcome, reserved |-> Reservation,
                   cost |-> 0, confirmed |-> Unconfirmed, source |-> "none"]
<1>1. /\ ledger \in Seq(ReceiptRows) /\ DOMAIN ledger = 1 .. Len(ledger) /\ Len(ledger) \in Nat
      /\ \A j \in DOMAIN ledger : ledger[j].job \in openedJobs /\ RowIsSourced(ledger[j])
  BY PlacesAre DEF ReceiptInv
<1>2. new \in ReceiptRows /\ RowIsSourced(new) /\ new.job \in openedJobs
  BY ReceiptAssumption DEF ReceiptRows, ReceiptInv, RowIsSourced, IsConfirmed, AdmitAttempt
<1>3. ledger' = Append(ledger, new) /\ UNCHANGED <<openedJobs, receiptMonth, readers>>
  BY DEF AdmitAttempt
<1> HIDE DEF new
<1>4. /\ ledger' \in Seq(ReceiptRows) /\ Len(ledger') = Len(ledger) + 1 /\ DOMAIN ledger' = 1 .. Len(ledger')
      /\ \A j \in DOMAIN ledger : ledger'[j] = ledger[j]
      /\ ledger'[Len(ledger) + 1] = new
  BY <1>1, <1>2, <1>3, AppendProperties, LenProperties
<1>5. \A j \in DOMAIN ledger' : ledger'[j].job \in openedJobs' /\ RowIsSourced(ledger'[j])
  <2> SUFFICES ASSUME NEW j \in DOMAIN ledger' PROVE ledger'[j].job \in openedJobs' /\ RowIsSourced(ledger'[j])
    OBVIOUS
  <2>1. j \in DOMAIN ledger \/ j = Len(ledger) + 1
    BY <1>1, <1>4
  <2> QED BY <1>1, <1>2, <1>3, <1>4, <2>1
<1>6. ASSUME NEW any, NEW last \in 0 .. Len(ledger) PROVE UpTo(JobPlaces(ledger', any), last) = UpTo(JobPlaces(ledger, any), last)
  <2>1. \A j \in DOMAIN ledger' : j <= last => j \in DOMAIN ledger /\ ledger'[j] = ledger[j]
    BY <1>1, <1>4
  <2>2. DOMAIN ledger \subseteq DOMAIN ledger'
    BY <1>1, <1>4
  <2> QED BY <1>4, <2>1, <2>2 DEF UpTo, JobPlaces
<1>7. ASSUME NEW r \in ReceiptReaders PROVE ReaderIs(readers'[r], JobPlaces(ledger', readers'[r].job), Len(ledger'))
  <2> DEFINE reader == readers[r]
             places == JobPlaces(ledger, reader.job)
             more == JobPlaces(ledger', reader.job)
             size == Len(ledger)
             bigger == Len(ledger')
  <2>1. reader \in ReaderStates /\ ReaderIs(reader, places, size) /\ readers' = readers
    BY <1>3 DEF ReceiptInv
  <2>2. size \in Nat /\ bigger \in Nat /\ size <= bigger
    BY <1>1, <1>4
  <2>3. \A last \in 0 .. size : UpTo(more, last) = UpTo(places, last)
    BY <1>6
  <2>4. readers'[r] = reader /\ JobPlaces(ledger', readers'[r].job) = more
    BY <2>1
  <2> HIDE DEF reader, places, more, size, bigger
  <2>5. ReaderIs(reader, more, bigger)
    BY <2>1, <2>2, <2>3, ReaderStays
  <2> QED BY <2>4, <2>5 DEF bigger
<1>8. /\ ledger' \in Seq(ReceiptRows) /\ openedJobs' \subseteq ReceiptJobs /\ receiptMonth' \in Nat
      /\ readers' \in [ReceiptReaders -> ReaderStates]
  BY <1>3, <1>4 DEF ReceiptInv
<1>9. Len(ledger') # Len(ledger)
  <2>1. Len(ledger) \in Nat
    BY <1>1
  <2>2. Len(ledger') = Len(ledger) + 1
    BY <1>4
  <2> QED BY <2>1, <2>2
<1> QED BY <1>5, <1>7, <1>8, <1>9 DEF ReceiptInv

\* A cost that is final is confirmed, and a confirmed row is charged what was confirmed.
LEMMA FinalRowStays ==
    ASSUME ReceiptInv, NEW i \in DOMAIN ledger, NEW new \in ReceiptRows, new.job = ledger[i].job,
           ~NotFinal(ledger[i]) => Committed(new) = Committed(ledger[i]),
           DOMAIN ledger' = DOMAIN ledger, receiptMonth' = receiptMonth,
           \A j \in DOMAIN ledger : ledger'[j] = IF j = i THEN new ELSE ledger[j],
           NEW job \in openedJobs, Shown("job", job).finality
    PROVE  Shown("job", job)'.committed = Shown("job", job).committed
<1> DEFINE places == PlacesOf("job", job)
           f == [j \in places |-> Committed(ledger[j])]
           g == [j \in places |-> Committed(ledger'[j])]
<1>1. PlacesOf("job", job)' = places
  BY DEF PlacesOf, PlanCovers
<1>2. Shown("job", job).committed = SumFunctionOnSet(f, places)
  BY DEF Shown, Costs, CommittedIn
<1>3. Shown("job", job)'.committed = SumFunctionOnSet(g, places)
  BY <1>1 DEF Shown, Costs, CommittedIn
<1>4. IsFiniteSet(places) /\ places \subseteq DOMAIN ledger
  BY PlacesAre, FS_Subset DEF ReceiptInv, PlacesOf
<1>5. \A j \in places : ~NotFinal(ledger[j])
  BY DEF Shown, Costs
<1>6. \A j \in places : f[j] = g[j]
  <2> SUFFICES ASSUME NEW j \in places PROVE Committed(ledger[j]) = Committed(ledger'[j])
    OBVIOUS
  <2>1. CASE j = i
    BY <1>4, <1>5, <2>1
  <2>2. CASE j # i
    BY <1>4, <2>2
  <2> QED BY <2>1, <2>2
<1> HIDE DEF f, g, places
<1> QED BY <1>2, <1>3, <1>4, <1>6, SumsAreEqual

FinalCostStays ==
    \A job \in openedJobs :
       Shown("job", job).finality /\ ledger' # ledger /\ Len(ledger') = Len(ledger)
         => Shown("job", job)'.committed = Shown("job", job).committed

LEMMA SettleAttemptKeeps ==
    ASSUME ReceiptInv, NEW i \in DOMAIN ledger, NEW outcome \in ReceiptOutcomes, SettleAttempt(i, outcome)
    PROVE  ReceiptInv' /\ FinalCostStays
<1> DEFINE row == ledger[i]
           new == Settled(row, outcome)
<1>1. row \in ReceiptRows /\ RowIsSourced(row)
  BY PlacesAre DEF ReceiptInv
<1>2. /\ new \in ReceiptRows /\ new.job = row.job /\ new.confirmed = row.confirmed /\ new.source = row.source
  BY <1>1, SettledIs
<1>3. /\ row.state \in {"pending", "unknown"} /\ ledger' = [ledger EXCEPT ![i] = new]
      /\ UNCHANGED <<openedJobs, receiptMonth, readers>>
  BY DEF SettleAttempt
<1> HIDE DEF new
<1>4. RowIsSourced(new)
  BY <1>1, <1>2 DEF RowIsSourced, IsConfirmed
<1>5. /\ ReceiptInv' /\ DOMAIN ledger' = DOMAIN ledger
      /\ \A j \in DOMAIN ledger : ledger'[j] = IF j = i THEN new ELSE ledger[j]
  BY <1>2, <1>3, <1>4, RowChanges
<1>6. ~NotFinal(row) => Committed(new) = Committed(row)
  <2>1. ~NotFinal(row) => row.source = "provider_invoice"
    BY <1>3 DEF NotFinal
  <2>2. ~NotFinal(row) => IsConfirmed(row)
    BY <1>1, <2>1 DEF RowIsSourced
  <2> QED BY <1>2, <2>2 DEF Committed, IsConfirmed
<1> QED BY <1>2, <1>3, <1>5, <1>6, FinalRowStays DEF FinalCostStays

LEMMA ConfirmAttemptKeeps ==
    ASSUME ReceiptInv, NEW i \in DOMAIN ledger, NEW cost \in Invoices, NEW source \in {"provider_invoice", "provider_receipt"},
           ConfirmAttempt(i, cost, source)
    PROVE  ReceiptInv' /\ FinalCostStays
<1> DEFINE row == ledger[i]
           new == Confirmed(row, cost, source)
<1>1. row \in ReceiptRows /\ RowIsSourced(row)
  BY PlacesAre DEF ReceiptInv
<1>2. new \in ReceiptRows /\ new.job = row.job /\ new.confirmed = cost /\ new.source = source
  BY <1>1, ConfirmedIs
<1>3. /\ row.state \notin {"pending", "denied", "cache_hit"} /\ ~IsConfirmed(row)
      /\ ledger' = [ledger EXCEPT ![i] = new] /\ UNCHANGED <<openedJobs, receiptMonth, readers>>
  BY DEF ConfirmAttempt
<1> HIDE DEF new
<1>4. RowIsSourced(new)
  BY <1>2, ReceiptAssumption DEF RowIsSourced, IsConfirmed
<1>5. /\ ReceiptInv' /\ DOMAIN ledger' = DOMAIN ledger
      /\ \A j \in DOMAIN ledger : ledger'[j] = IF j = i THEN new ELSE ledger[j]
  BY <1>2, <1>3, <1>4, RowChanges
<1>6. NotFinal(row)
  BY <1>1, <1>3 DEF NotFinal, RowIsSourced, ReceiptRows
<1> QED BY <1>2, <1>3, <1>5, <1>6, FinalRowStays DEF FinalCostStays

-----------------------------------------------------------------------------
(* A page is the next part of what is due.                                 *)

LEMMA ReaderSteps ==
    ASSUME ReceiptInv, NEW r \in ReceiptReaders, NEW reader \in ReaderStates,
           readers' = [readers EXCEPT ![r] = reader], UNCHANGED <<openedJobs, ledger, receiptMonth>>,
           ReaderIs(reader, JobPlaces(ledger, reader.job), Len(ledger))
    PROVE  ReceiptInv'
<1>1. readers' \in [ReceiptReaders -> ReaderStates] /\ \A q \in ReceiptReaders : readers'[q] = IF q = r THEN reader ELSE readers[q]
  BY DEF ReceiptInv
<1>2. \A q \in ReceiptReaders : ReaderIs(readers'[q], JobPlaces(ledger, readers'[q].job), Len(ledger))
  BY <1>1 DEF ReceiptInv
<1>3. /\ ledger' \in Seq(ReceiptRows) /\ openedJobs' \subseteq ReceiptJobs /\ receiptMonth' \in Nat
      /\ \A i \in DOMAIN ledger' : ledger'[i].job \in openedJobs' /\ RowIsSourced(ledger'[i])
      /\ Len(ledger') = Len(ledger) /\ ledger' = ledger
  BY DEF ReceiptInv
<1> QED BY <1>1, <1>2, <1>3 DEF ReceiptInv

LEMMA BeginReadingKeeps ==
    ASSUME ReceiptInv, NEW r \in ReceiptReaders, NEW job \in ReceiptJobs, BeginReading(r, job)
    PROVE  ReceiptInv'
<1> DEFINE reader == [job |-> job, cursor |-> 0, pages |-> <<>>, due |-> <<>>]
<1>1. reader \in ReaderStates /\ reader.job = job /\ reader.pages = <<>> /\ reader.cursor = 0
  BY EmptySeq DEF ReaderStates
<1>2. readers' = [readers EXCEPT ![r] = reader] /\ UNCHANGED <<openedJobs, ledger, receiptMonth>>
  BY DEF BeginReading
<1> HIDE DEF reader
<1>3. job # "none" /\ job # "done"
  BY ReceiptAssumption
<1>4. ReaderIs(reader, JobPlaces(ledger, reader.job), Len(ledger))
  BY <1>1, <1>3 DEF ReaderIs
<1> QED BY <1>1, <1>2, <1>4, ReaderSteps

\* The first places of a sequence of numbers, as many as a page has.
LEMMA FirstOfIs ==
    ASSUME NEW s \in Seq(Nat)
    PROVE  /\ FirstOf(s) \in Seq(Nat) /\ Len(FirstOf(s)) = IF Len(s) < PageLimit THEN Len(s) ELSE PageLimit
           /\ \A n \in 1 .. Len(FirstOf(s)) : FirstOf(s)[n] = s[n]
<1> DEFINE m == IF Len(s) < PageLimit THEN Len(s) ELSE PageLimit
<1>1. Len(s) \in Nat /\ PageLimit \in Nat
  BY LenProperties, ReceiptAssumption
<1>2. m \in Nat /\ m <= Len(s) /\ 1 <= m + 1
  BY <1>1
<1>3. FirstOf(s) = SubSeq(s, 1, m)
  BY DEF FirstOf
<1> HIDE DEF m
<1>4. \A i \in 1 .. m : s[i] \in Nat
  BY <1>1, <1>2, LenProperties, ElementOfSeq
<1>5. SubSeq(s, 1, m) \in Seq(Nat) /\ Len(SubSeq(s, 1, m)) = m /\ \A n \in 1 .. m : SubSeq(s, 1, m)[n] = s[n]
  BY <1>1, <1>2, <1>4, SubSeqProperties
<1> QED BY <1>3, <1>5 DEF m

LEMMA ConcatIs ==
    ASSUME NEW a \in Seq(Nat), NEW b \in Seq(Nat)
    PROVE  /\ a \o b \in Seq(Nat) /\ Len(a \o b) = Len(a) + Len(b)
           /\ \A n \in 1 .. (Len(a) + Len(b)) : (a \o b)[n] = IF n <= Len(a) THEN a[n] ELSE b[n - Len(a)]
<1>1. \A n \in 1 .. (Len(a) + Len(b)) : (a \o b)[n] = IF n <= Len(a) THEN a[n] ELSE b[n - Len(a)]
  BY ConcatProperties
<1>2. a \o b \in Seq(Nat) /\ Len(a \o b) = Len(a) + Len(b)
  BY ConcatProperties
<1> QED BY <1>1, <1>2

\* After k of the places of a set, a page of m more was read.
ContinuesIn(S, k, page, m, all) ==
    /\ all \in Seq(Nat) /\ Len(all) = k + m /\ m \in Nat /\ k + m <= Cardinality(S)
    /\ \A n \in 1 .. (k + m) : all[n] = Listing(S)[n]
    /\ k + m < Cardinality(S) => m > 0
    /\ m > 0 => Last(page) = Listing(S)[k + m]
    /\ m = 0 => k = Cardinality(S)

\* The listing of a job's attempts up to some place, of which k were read, and one page more.
LEMMA PageContinues ==
    ASSUME NEW S \in SUBSET Nat, IsFiniteSet(S), NEW k \in 0 .. Cardinality(S), NEW pages \in Seq(Nat), Len(pages) = k,
           \A n \in 1 .. k : pages[n] = Listing(S)[n],
           NEW T, T = IF k = 0 THEN S ELSE {i \in S : i < Listing(S)[k]},
           NEW page, page = FirstOf(Listing(T)), NEW m, m = Len(page), NEW all, all = pages \o page
    PROVE  ContinuesIn(S, k, page, m, all)
<1>1. Cardinality(S) \in Nat /\ PageLimit \in Nat /\ PageLimit > 0
  BY FS_CardinalityType, ReceiptAssumption
<1>2. T \in SUBSET Nat /\ IsFiniteSet(T)
  BY FS_Subset
<1>3. Cardinality(T) = Cardinality(S) - k /\ \A n \in 1 .. Cardinality(T) : Listing(T)[n] = Listing(S)[k + n]
  <2>1. CASE k = 0
    <3>1. T = S
      BY <2>1
    <3>2. \A n \in 1 .. Cardinality(S) : k + n = n
      BY <1>1, <2>1
    <3> QED BY <1>1, <2>1, <3>1, <3>2
  <2>2. CASE k # 0
    <3>1. k \in 1 .. Cardinality(S) /\ T = {i \in S : i < Listing(S)[k]}
      BY <1>1, <2>2
    <3> QED BY <3>1, RestIsListed
  <2> QED BY <2>1, <2>2
<1>4. Listing(T) \in Seq(Nat) /\ Len(Listing(T)) = Cardinality(T) /\ Cardinality(T) \in Nat
  BY <1>2, ListingIs
<1>5. /\ page \in Seq(Nat) /\ m = IF Cardinality(T) < PageLimit THEN Cardinality(T) ELSE PageLimit
      /\ \A n \in 1 .. m : page[n] = Listing(T)[n]
  BY <1>4, FirstOfIs
<1>6. m \in Nat /\ m <= Cardinality(T)
  BY <1>1, <1>4, <1>5
<1>7. all \in Seq(Nat) /\ Len(all) = k + m /\ \A n \in 1 .. (k + m) : all[n] = IF n <= k THEN pages[n] ELSE page[n - k]
  <2>1. page \in Seq(Nat) /\ pages \in Seq(Nat)
    BY <1>5
  <2>2. /\ pages \o page \in Seq(Nat) /\ Len(pages \o page) = Len(pages) + Len(page)
        /\ \A n \in 1 .. (Len(pages) + Len(page)) :
              (pages \o page)[n] = IF n <= Len(pages) THEN pages[n] ELSE page[n - Len(pages)]
    BY <2>1, ConcatIs
  <2> QED BY <2>2
<1>8. ASSUME NEW n \in 1 .. (k + m) PROVE all[n] = Listing(S)[n]
  <2>1. CASE n <= k
    <3>1. n \in 1 .. k
      BY <1>6, <2>1
    <3>2. all[n] = pages[n]
      BY <1>7, <2>1
    <3> QED BY <3>1, <3>2
  <2>2. CASE ~(n <= k)
    <3> DEFINE j == n - k
    <3>1. j \in 1 .. m /\ j \in 1 .. Cardinality(T) /\ k + j = n
      BY <1>4, <1>6, <2>2
    <3>2. all[n] = page[j]
      BY <1>7, <2>2
    <3> HIDE DEF j
    <3> QED BY <1>3, <1>5, <3>1, <3>2
  <2> QED BY <2>1, <2>2
<1>9. m > 0 => Last(page) = Listing(S)[k + m]
  <2>1. ASSUME m > 0 PROVE page[m] = Listing(S)[k + m]
    <3>1. m \in 1 .. m /\ m \in 1 .. Cardinality(T)
      BY <1>4, <1>6, <2>1
    <3> QED BY <1>3, <1>5, <3>1
  <2> QED BY <2>1 DEF Last
<1>10. (k + m < Cardinality(S) => m > 0) /\ (m = 0 => k = Cardinality(S)) /\ k + m <= Cardinality(S)
  BY <1>1, <1>3, <1>4, <1>5
<1> QED BY <1>6, <1>7, <1>8, <1>9, <1>10 DEF ContinuesIn

\* A list of all places of a set, the largest first.
ListOf(S, list) == list = Listing(S)

LEMMA SameSequence ==
    ASSUME NEW s \in Seq(Nat), NEW t \in Seq(Nat), Len(s) = Len(t), \A n \in 1 .. Len(s) : s[n] = t[n]
    PROVE  s = t
BY SeqEqual

LEMMA ReadPageKeeps ==
    ASSUME ReceiptInv, NEW r \in ReceiptReaders, ReadPage(r)
    PROVE  ReceiptInv'
<1> DEFINE old == readers[r]
           job == old.job
           places == Places(job)
           page == Page(r, places)
           more == page # <<>> /\ \E i \in places : i < Last(page)
           reader == [job |-> IF more THEN job ELSE "done", cursor |-> IF more THEN Last(page) ELSE 0,
                      pages |-> old.pages \o page,
                      due |-> IF old.pages = <<>> THEN NewestFirst(places) ELSE old.due]
           size == Len(ledger)
<1>1. /\ job \notin {"none", "done"} /\ readers' = [readers EXCEPT ![r] = reader]
      /\ UNCHANGED <<openedJobs, ledger, receiptMonth>>
  BY Zenon DEF ReadPage
<1>2. /\ ledger \in Seq(ReceiptRows) /\ DOMAIN ledger = 1 .. size /\ size \in Nat
      /\ old \in ReaderStates /\ ReaderIs(old, places, size)
  BY PlacesAre DEF ReceiptInv, Places, JobPlaces
<1>3. job \in ReceiptJobs /\ old.pages \in Seq(Nat) /\ old.due \in Seq(Nat) /\ old.cursor \in Nat
  BY <1>1, <1>2 DEF ReaderStates
<1>4. places \subseteq DOMAIN ledger /\ places \in SUBSET Nat /\ IsFiniteSet(places) /\ NewestFirst(places) = Listing(places)
  <2>1. places \in SUBSET DOMAIN ledger
    BY DEF Places
  <2> QED BY <1>2, <2>1, NewestIs
<1> DEFINE before == {i \in places : old.cursor = 0 \/ i < old.cursor}
<1>5. page = FirstOf(Listing(before))
  <2>1. before \in SUBSET DOMAIN ledger
    BY <1>4
  <2>2. NewestFirst(before) = Listing(before)
    BY <1>2, <2>1, NewestIs
  <2> QED BY <2>2 DEF Page
<1>6. PICK last \in 0 .. size :
         /\ old.pages = <<>> => last = size /\ old.cursor = 0
         /\ old.pages # <<>> => HasRead(old, UpTo(places, last))
  <2>1. (old.pages = <<>> /\ old.cursor = 0) \/ \E l \in 0 .. size : HasRead(old, UpTo(places, l))
    BY <1>2, <1>3 DEF ReaderIs
  <2>2. CASE old.pages = <<>> /\ old.cursor = 0
    <3>1. size \in 0 .. size
      BY <1>2
    <3> HIDE DEF size
    <3> QED BY <2>2, <3>1
  <2>3. CASE \E l \in 0 .. size : HasRead(old, UpTo(places, l))
    <3>1. PICK l \in 0 .. size : HasRead(old, UpTo(places, l))
      BY <2>3
    <3>2. Len(old.pages) # 0
      BY <3>1 DEF HasRead
    <3>3. old.pages # <<>>
      BY <3>2, EmptySeq
    <3> QED BY <3>1, <3>3
  <2> QED BY <2>1, <2>2, <2>3
<1> DEFINE S == UpTo(places, last)
           k == Len(old.pages)
           m == Len(page)
<1>7. S \in SUBSET Nat /\ IsFiniteSet(S) /\ S \subseteq places /\ Cardinality(S) \in Nat
  BY <1>4, FS_Subset, FS_CardinalityType DEF UpTo
<1>8. ListOf(S, reader.due) /\ k \in 0 .. Cardinality(S) /\ \A n \in 1 .. k : old.pages[n] = Listing(S)[n]
  <2>1. CASE old.pages = <<>>
    <3>1. S = places
      BY <1>2, <1>4, <1>6, <2>1 DEF UpTo
    <3>2. k = 0
      BY <2>1, EmptySeq
    <3> QED BY <1>4, <1>7, <2>1, <3>1, <3>2 DEF ListOf
  <2>2. CASE old.pages # <<>>
    <3>1. HasRead(old, S)
      BY <1>6, <2>2
    <3> HIDE DEF S
    <3>2. k \in 0 .. Cardinality(S)
      BY <1>7, <3>1 DEF HasRead
    <3>3. reader.due = old.due
      BY <2>2
    <3> QED BY <3>1, <3>2, <3>3 DEF HasRead, ListOf
  <2> QED BY <2>1, <2>2
<1>9. before = IF k = 0 THEN S ELSE {i \in S : i < Listing(S)[k]}
  <2>1. CASE old.pages = <<>>
    <3>1. S = places /\ before = places
      BY <1>2, <1>4, <1>6, <2>1 DEF UpTo
    <3>2. k = 0
      BY <2>1, EmptySeq
    <3> QED BY <3>1, <3>2
  <2>2. CASE old.pages # <<>>
    <3>1. HasRead(old, S)
      BY <1>6, <2>2
    <3>2. k \in 1 .. Cardinality(S) /\ old.cursor = Listing(S)[k]
      BY <3>1 DEF HasRead
    <3>3. Listing(S)[k] \in S
      BY <1>7, <3>2, ListingIs
    <3>4. old.cursor \in Nat /\ old.cursor <= last /\ old.cursor # 0
      BY <1>2, <1>4, <3>2, <3>3 DEF UpTo
    <3>5. \A i \in places : i \in Nat /\ (i < old.cursor => i <= last)
      BY <1>2, <1>4, <3>4
    <3>6. before = {i \in S : i < old.cursor}
      BY <3>4, <3>5 DEF UpTo
    <3> QED BY <1>7, <3>2, <3>6
  <2> QED BY <2>1, <2>2
<1> DEFINE pages == old.pages
           all == pages \o page
<1>10. /\ all \in Seq(Nat) /\ Len(all) = k + m /\ m \in Nat /\ k + m <= Cardinality(S)
       /\ \A n \in 1 .. (k + m) : all[n] = Listing(S)[n]
       /\ k + m < Cardinality(S) => m > 0
       /\ m > 0 => Last(page) = Listing(S)[k + m]
       /\ m = 0 => k = Cardinality(S)
  <2>1. pages \in Seq(Nat) /\ Len(pages) = k /\ \A n \in 1 .. k : pages[n] = Listing(S)[n]
    BY <1>3, <1>8
  <2>2. k \in 0 .. Cardinality(S)
    BY <1>8
  <2>3. m = Len(page) /\ all = pages \o page /\ page = FirstOf(Listing(before))
    BY <1>5
  <2>4. S \in SUBSET Nat /\ IsFiniteSet(S)
    BY <1>7
  <2>5. before = IF k = 0 THEN S ELSE {i \in S : i < Listing(S)[k]}
    BY <1>9
  <2> HIDE DEF page, pages, before, S, k, m, all
  <2>6. ContinuesIn(S, k, page, m, all)
    BY <2>1, <2>2, <2>3, <2>4, <2>5, PageContinues
  <2> QED BY <2>6 DEF ContinuesIn
<1>11. m > 0 <=> page # <<>>
  <2>1. page \in Seq(Nat)
    <3>1. before \in SUBSET Nat /\ IsFiniteSet(before)
      BY <1>4, FS_Subset
    <3>2. Listing(before) \in Seq(Nat)
      BY <3>1, ListingIs
    <3> QED BY <1>5, <3>2, FirstOfIs
  <2> HIDE DEF page
  <2> QED BY <2>1, EmptySeq, LenProperties
<1>12. more <=> k + m < Cardinality(S)
  <2> HIDE DEF page
  <2>1. CASE m = 0
    BY <1>8, <1>10, <1>11, <2>1
  <2>2. CASE m > 0
    <3>1. Last(page) = Listing(S)[k + m] /\ k + m \in 1 .. Cardinality(S)
      BY <1>7, <1>8, <1>10, <2>2
    <3>2. Listing(S)[k + m] \in S
      BY <1>7, <3>1, ListingIs
    <3>3. ASSUME k + m < Cardinality(S) PROVE \E i \in places : i < Last(page)
      <4> DEFINE j == k + m + 1
      <4>1. j \in 1 .. Cardinality(S) /\ k + m < j
        BY <1>7, <3>1, <3>3
      <4> HIDE DEF j
      <4>2. Listing(S)[j] \in S /\ Listing(S)[k + m] > Listing(S)[j]
        BY <1>7, <3>1, <4>1, ListingIs
      <4> QED BY <1>7, <3>1, <3>2, <4>2
    <3>4. ASSUME NEW i \in places, i < Last(page) PROVE k + m < Cardinality(S)
      <4>1. i \in S
        <5>1. Last(page) <= last /\ Last(page) \in Nat
          BY <1>7, <3>1, <3>2 DEF UpTo
        <5> QED BY <1>4, <3>4, <5>1 DEF UpTo
      <4>2. PICK n \in 1 .. Cardinality(S) : Listing(S)[n] = i
        BY <1>7, <4>1, ListingIs
      <4>3. ~(n < k + m) /\ n # k + m
        <5>1. i \in Nat /\ Listing(S)[k + m] \in Nat /\ i < Listing(S)[k + m]
          BY <1>7, <3>1, <3>2, <3>4, <4>1
        <5>2. n < k + m => Listing(S)[n] > Listing(S)[k + m]
          BY <1>7, <3>1, ListingIs
        <5> QED BY <4>2, <5>1, <5>2
      <4> QED BY <1>7, <3>1, <4>2, <4>3
    <3> QED BY <1>11, <2>2, <3>3, <3>4
  <2> QED BY <1>10, <2>1, <2>2
<1>13. Listing(S) \in Seq(Nat) /\ Len(Listing(S)) = Cardinality(S)
  BY <1>7, ListingIs
<1>14. reader.due = Listing(S)
  BY <1>8 DEF ListOf
<1>15. CASE more
  <2>1. reader = [job |-> job, cursor |-> Last(page), pages |-> all, due |-> reader.due]
    BY <1>15
  <2>2. Last(page) = Listing(S)[k + m] /\ k + m \in 1 .. Cardinality(S)
    <3> HIDE DEF all, page, S, k, m
    <3>1. k + m < Cardinality(S)
      BY <1>12, <1>15
    <3> QED BY <1>7, <1>8, <1>10, <3>1
  <2>3. Listing(S)[k + m] \in Nat
    BY <1>7, <2>2, ListingIs
  <2> DEFINE next == reader
  <2>4. next.job = job /\ next.cursor = Listing(S)[k + m] /\ next.pages = all /\ next.due = Listing(S)
    BY <1>14, <2>1, <2>2
  <2>5. next \in ReaderStates
    <3> HIDE DEF all, page, S, k, m
    <3> QED BY <1>3, <1>10, <1>13, <1>14, <2>1, <2>2, <2>3 DEF ReaderStates
  <2>6. HasRead(next, S)
    <3> HIDE DEF all, page, S, k, m, next
    <3> QED BY <1>10, <2>2, <2>4 DEF HasRead
  <2> HIDE DEF next, all, page, k, m
  <2>7. ReaderIs(next, JobPlaces(ledger, next.job), size)
    <3>1. JobPlaces(ledger, next.job) = places
      BY <2>4 DEF JobPlaces, Places
    <3> QED BY <1>1, <1>3, <2>4, <2>6, <3>1 DEF ReaderIs
  <2> QED BY <1>1, <2>5, <2>7, ReaderSteps DEF next
<1>16. CASE ~more
  <2>1. reader = [job |-> "done", cursor |-> 0, pages |-> all, due |-> reader.due]
    BY <1>16
  <2>2. k + m = Cardinality(S)
    <3> HIDE DEF all, page, S, k, m
    <3>1. ~(k + m < Cardinality(S))
      BY <1>12, <1>16
    <3>2. k \in Nat /\ m \in Nat /\ Cardinality(S) \in Nat /\ k + m <= Cardinality(S)
      <4>1. k \in 0 .. Cardinality(S)
        BY <1>8
      <4> QED BY <1>7, <1>10, <4>1
    <3> HIDE DEF more
    <3> QED BY <3>1, <3>2
  <2>3. all = Listing(S)
    <3> HIDE DEF all, page, S, k, m
    <3> QED BY <1>10, <1>13, <2>2, SameSequence
  <2> DEFINE next == reader
  <2>4. next.job = "done" /\ next.cursor = 0 /\ next.pages = next.due
    BY <1>14, <2>1, <2>3
  <2>5. next \in ReaderStates
    <3>1. reader.due \in Seq(Nat)
      BY <1>13, <1>14
    <3> HIDE DEF all, page, S, k, m
    <3>2. all \in Seq(Nat)
      BY <1>10
    <3> HIDE DEF reader
    <3>3. next = [job |-> "done", cursor |-> 0, pages |-> all, due |-> reader.due]
      BY <2>1
    <3> HIDE DEF next
    <3> QED BY <3>1, <3>2, <3>3 DEF ReaderStates
  <2> HIDE DEF next, all, page, k, m
  <2>6. ReaderIs(next, JobPlaces(ledger, next.job), size)
    BY <2>4, ReceiptAssumption DEF ReaderIs
  <2> QED BY <1>1, <2>5, <2>6, ReaderSteps DEF next
<1> QED BY <1>15, <1>16

-----------------------------------------------------------------------------
(* Every step keeps it.                                                    *)

LEMMA OtherStepsKeep ==
    ASSUME ReceiptInv, UNCHANGED <<ledger, readers>>, openedJobs \subseteq openedJobs', openedJobs' \subseteq ReceiptJobs,
           receiptMonth' \in Nat
    PROVE  ReceiptInv'
<1>1. /\ ledger' \in Seq(ReceiptRows) /\ readers' \in [ReceiptReaders -> ReaderStates]
      /\ \A i \in DOMAIN ledger' : ledger'[i].job \in openedJobs' /\ RowIsSourced(ledger'[i])
  BY DEF ReceiptInv
<1>2. \A r \in ReceiptReaders : ReaderIs(readers'[r], JobPlaces(ledger', readers'[r].job), Len(ledger'))
  BY DEF ReceiptInv
<1> QED BY <1>1, <1>2 DEF ReceiptInv

LEMMA ReceiptStepsKeep == ReceiptInv /\ [ReceiptNext]_receiptVars => ReceiptInv' /\ FinalCostStays
<1> SUFFICES ASSUME ReceiptInv, [ReceiptNext]_receiptVars PROVE ReceiptInv' /\ FinalCostStays
  OBVIOUS
<1>1. ASSUME NEW job \in ReceiptJobs, OpenJob(job) PROVE ReceiptInv' /\ ledger' = ledger
  <2>1. openedJobs' = openedJobs \cup {job} /\ UNCHANGED <<ledger, receiptMonth, readers>>
    BY <1>1 DEF OpenJob
  <2>2. openedJobs \subseteq ReceiptJobs /\ receiptMonth \in Nat
    BY DEF ReceiptInv
  <2>3. UNCHANGED <<ledger, readers>> /\ openedJobs \subseteq openedJobs' /\ openedJobs' \subseteq ReceiptJobs /\ receiptMonth' \in Nat
    BY <2>1, <2>2
  <2> QED BY <2>3, OtherStepsKeep
<1>2. ASSUME NEW job \in ReceiptJobs, NEW outcome \in {"pending", "denied"}, AdmitAttempt(job, outcome)
      PROVE  ReceiptInv' /\ Len(ledger') # Len(ledger)
  BY <1>2, AdmitAttemptKeeps
<1>3. ASSUME NEW job \in ReceiptJobs, NEW r \in ReceiptReaders, BeginReading(r, job) PROVE ReceiptInv' /\ ledger' = ledger
  <2>1. ReceiptInv'
    BY <1>3, BeginReadingKeeps
  <2> QED BY <1>3, <2>1 DEF BeginReading
<1>4. ASSUME NEW i \in DOMAIN ledger, NEW outcome \in ReceiptOutcomes, SettleAttempt(i, outcome) PROVE ReceiptInv' /\ FinalCostStays
  BY <1>4, SettleAttemptKeeps
<1>5. ASSUME NEW i \in DOMAIN ledger, NEW cost \in Invoices, NEW source \in {"provider_invoice", "provider_receipt"},
             ConfirmAttempt(i, cost, source)
      PROVE  ReceiptInv' /\ FinalCostStays
  BY <1>5, ConfirmAttemptKeeps
<1>6. ASSUME NextReceiptMonth PROVE ReceiptInv' /\ ledger' = ledger
  <2>1. receiptMonth' = receiptMonth + 1 /\ UNCHANGED <<openedJobs, ledger, readers>>
    BY <1>6 DEF NextReceiptMonth
  <2>2. openedJobs \subseteq ReceiptJobs /\ receiptMonth \in Nat
    BY DEF ReceiptInv
  <2>3. UNCHANGED <<ledger, readers>> /\ openedJobs \subseteq openedJobs' /\ openedJobs' \subseteq ReceiptJobs /\ receiptMonth' \in Nat
    BY <2>1, <2>2
  <2> QED BY <2>3, OtherStepsKeep
<1>7. ASSUME NEW r \in ReceiptReaders, ReadPage(r) PROVE ReceiptInv' /\ ledger' = ledger
  <2>1. ReceiptInv'
    BY <1>7, ReadPageKeeps
  <2> QED BY <1>7, <2>1 DEF ReadPage
<1>8. ASSUME UNCHANGED receiptVars PROVE ReceiptInv' /\ ledger' = ledger
  <2>1. UNCHANGED <<openedJobs, ledger, receiptMonth, readers>>
    BY <1>8 DEF receiptVars
  <2>2. openedJobs \subseteq ReceiptJobs /\ receiptMonth \in Nat
    BY DEF ReceiptInv
  <2>3. UNCHANGED <<ledger, readers>> /\ openedJobs \subseteq openedJobs' /\ openedJobs' \subseteq ReceiptJobs /\ receiptMonth' \in Nat
    BY <2>1, <2>2
  <2> QED BY <2>3, OtherStepsKeep
<1>9. ledger' = ledger \/ Len(ledger') # Len(ledger) => FinalCostStays
  BY DEF FinalCostStays
<1> QED BY <1>1, <1>2, <1>3, <1>4, <1>5, <1>6, <1>7, <1>8, <1>9 DEF ReceiptNext

LEMMA PagesAreWhatWasDue == ReceiptInv => PagesAreStable
BY DEF ReceiptInv, ReaderIs, PagesAreStable

\* What receipts, pages and final costs show is what the ledger holds and enforces
\* (work_runtime.py _costs, _plan_view, _budget_plans_for_work, attempt_history, confirm_cost), for
\* any jobs, repositories, readers, prices, invoices and sizes of a page.
THEOREM ReceiptsAreSoundHolds == ReceiptSpec => ReceiptsAreSound
<1>1. ReceiptInit => ReceiptInv
  BY ReceiptStarts
<1>2. ReceiptInv /\ [ReceiptNext]_receiptVars => ReceiptInv'
  BY ReceiptStepsKeep
<1>3. ReceiptInv => ShownIsEnforced /\ PagesAreStable
  BY ReceiptsShowWhatCounts, PagesAreWhatWasDue
<1>4. ReceiptInv /\ [ReceiptNext]_receiptVars
      => [\A job \in openedJobs :
            Shown("job", job).finality /\ ledger' # ledger /\ Len(ledger') = Len(ledger)
            => Shown("job", job)'.committed = Shown("job", job).committed]_receiptVars
  BY ReceiptStepsKeep DEF FinalCostStays
<1> QED BY <1>1, <1>2, <1>3, <1>4, PTL DEF ReceiptSpec, ReceiptsAreSound, FinalCostsStay

(***************************************************************************)
(* Routes: an allocation is made only where the share of a month's jobs    *)
(* and its money have room for it, and admitted jobs stay admitted; what   *)
(* a profile counts had run on the route alone when it was read, and what  *)
(* was read has not been undone since, however old it is.                  *)
(***************************************************************************)

TryStates == {"pending", "denied", "succeeded", "failed", "unknown"}
TryRows ==
    [alias : RouteAliases, generation : Nat, shape : RouteRequests, cost : Nat, state : TryStates, timed : BOOLEAN,
     month : Nat]
Allocations == [job : RouteJobs, alias : RouteAliases, quote : Nat, month : Nat]
Chosen == [alias : RouteAliases, reason : {"none", "baseline", "evidence", "exploration"}]
JobRecords == [state : {"active", "completed", "paused"}, statuses : SUBSET JobStatuses]

RoutesTyped ==
    /\ tries \in [RouteJobs -> Seq(TryRows)] /\ generations \in [RouteAliases -> Nat]
    /\ selections \in [RouteJobs -> Chosen] /\ routeJobs \in [RouteJobs -> JobRecords]
    /\ explorations \subseteq Allocations /\ IsFiniteSet(explorations) /\ routeMonth \in Nat

\* The rows that profiles are made of: what had ended by then is as it was, and what was observed has been.
StandsIn(batch, records, list) ==
    \A job \in RouteJobs :
       /\ \A i \in DOMAIN batch.tries[job] :
             /\ i \in DOMAIN list[job]
             /\ batch.tries[job][i].state \in {"succeeded", "failed"} => list[job][i] = batch.tries[job][i]
       /\ batch.jobs[job].statuses \subseteq records[job].statuses
CompletedIsObserved(records) ==
    \A job \in RouteJobs : records[job].state = "completed" => "completed" \in records[job].statuses
RowsAreRead == \A batch \in reads \cup snapshots : StandsIn(batch, routeJobs, tries) /\ CompletedIsObserved(batch.jobs)

\* The allowance of a month, of what was explored and of the jobs admitted in it.
AllowanceIn(explored, admitted) ==
    /\ 100 * (Cardinality(explored) - 1) < Cardinality(admitted) * ExplorationRate
    /\ QuotesOf(explored) <= ExplorationCap

RoutesInv ==
    /\ RoutesTyped
    /\ \A row \in explorations : row.month <= routeMonth
    /\ \A row, other \in explorations : row.job = other.job => row = other
    /\ \A when \in 0 .. routeMonth : AllowanceIn(ExploredIn(when), AdmittedIn(when))
    /\ CompletedIsObserved(routeJobs)
    /\ RowsAreRead

LEMMA RouteInvariants == RoutesInv => AllowanceIsKept /\ EvidenceStands
BY DEF RoutesInv, AllowanceIsKept, AllowanceIn, EvidenceStands, RowsAreRead, StandsIn

LEMMA RateTimes ==
    /\ \A a \in Nat : a * ExplorationRate \in Nat /\ a * ExplorationRate <= 20 * a
    /\ \A a, b \in Nat : a <= b => a * ExplorationRate <= b * ExplorationRate
<1>1. ExplorationRate \in 1 .. 20
  BY WorkRoutesAssumption
<1>2. ASSUME NEW a \in Nat, NEW b \in Nat, a <= b PROVE a * ExplorationRate <= b * ExplorationRate
  BY <1>1, <1>2
<1>3. ASSUME NEW a \in Nat PROVE a * ExplorationRate \in Nat /\ a * ExplorationRate <= 20 * a
  BY <1>1
<1> QED BY <1>2, <1>3

\* One allocation more than so many is within the share of the jobs admitted, or of those before it.
LEMMA ShareAllows ==
    ASSUME NEW count \in Nat, NEW admitted \in Nat, count + 1 <= Share(Max({admitted, count}))
    PROVE  100 * count < admitted * ExplorationRate
<1> DEFINE most == Max({admitted, count})
           p == most * ExplorationRate
<1>1. \E x \in {admitted, count} : \A y \in {admitted, count} : x >= y
  <2>1. admitted >= count \/ count >= admitted
    OBVIOUS
  <2> QED BY <2>1
<1>2. most \in {admitted, count} /\ most >= admitted /\ most >= count
  BY <1>1 DEF Max
<1> HIDE DEF most
<1>3. most \in Nat
  BY <1>2
<1>4. p \in Nat /\ p <= 20 * most
  BY <1>3, RateTimes
<1>5. count + 1 <= (p + 99) \div 100
  BY DEF Share, most
<1> HIDE DEF p
<1>6. 100 * (count + 1) <= p + 99
  BY <1>4, <1>5
<1>7. CASE most = admitted
  <2>1. 100 * count < p
    BY <1>4, <1>6
  <2> QED BY <1>7, <2>1 DEF p
<1>8. CASE most = count
  BY <1>4, <1>6, <1>8
<1> QED BY <1>2, <1>7, <1>8

LEMMA AdmittedIsFinite == ASSUME NEW when PROVE IsFiniteSet(AdmittedIn(when)) /\ Cardinality(AdmittedIn(when)) \in Nat
<1>1. IsFiniteSet(RouteJobs) /\ AdmittedIn(when) \subseteq RouteJobs
  BY WorkRoutesAssumption DEF AdmittedIn
<1> QED BY <1>1, FS_Subset, FS_CardinalityType

\* More jobs admitted are no less allowance.
LEMMA AllowanceGrows ==
    ASSUME NEW explored, IsFiniteSet(explored), NEW admitted, NEW more, IsFiniteSet(more), admitted \subseteq more,
           AllowanceIn(explored, admitted)
    PROVE  AllowanceIn(explored, more)
<1>1. Cardinality(explored) \in Nat /\ Cardinality(admitted) \in Nat /\ Cardinality(more) \in Nat
      /\ Cardinality(admitted) <= Cardinality(more)
  BY FS_Subset, FS_CardinalityType
<1>2. /\ Cardinality(admitted) * ExplorationRate <= Cardinality(more) * ExplorationRate
      /\ Cardinality(admitted) * ExplorationRate \in Nat /\ Cardinality(more) * ExplorationRate \in Nat
  BY <1>1, RateTimes
<1>3. 100 * (Cardinality(explored) - 1) < Cardinality(admitted) * ExplorationRate /\ QuotesOf(explored) <= ExplorationCap
  BY DEF AllowanceIn
<1> DEFINE x == Cardinality(explored)
           a == Cardinality(admitted) * ExplorationRate
           b == Cardinality(more) * ExplorationRate
<1>4. x \in Nat /\ a \in Nat /\ b \in Nat /\ a <= b /\ 100 * (x - 1) < a
  BY <1>1, <1>2, <1>3
<1>5. 100 * (x - 1) < b
  <2> HIDE DEF x, a, b
  <2> QED BY <1>4
<1> QED BY <1>3, <1>5 DEF AllowanceIn

\* A month in which nothing was explored.
LEMMA NothingExplored == ASSUME NEW admitted, IsFiniteSet(admitted) PROVE AllowanceIn({}, admitted)
<1>1. Cardinality({}) = 0 /\ Cardinality(admitted) * ExplorationRate \in Nat
  BY FS_EmptySet, FS_CardinalityType, RateTimes
<1>2. QuotesOf({}) = 0
  BY SumEmpty DEF QuotesOf
<1> QED BY <1>1, <1>2, WorkRoutesAssumption DEF AllowanceIn

-----------------------------------------------------------------------------
(* Steps that explore nothing.                                             *)

AdmittedOf(list, when) ==
    {job \in RouteJobs : \E i \in DOMAIN list[job] : list[job][i].month = when /\ list[job][i].state # "denied"}

\* Rows that were read stand, as long as nothing that had ended or was observed is undone.
LEMMA RowsStand ==
    ASSUME RowsAreRead, reads' \subseteq reads, snapshots' \subseteq reads \cup snapshots,
           \A job \in RouteJobs :
              /\ routeJobs[job].statuses \subseteq routeJobs'[job].statuses
              /\ \A i \in DOMAIN tries[job] :
                    /\ i \in DOMAIN tries'[job]
                    /\ tries[job][i].state \in {"succeeded", "failed"} => tries'[job][i] = tries[job][i]
    PROVE  RowsAreRead'
<1> SUFFICES ASSUME NEW batch \in reads \cup snapshots
             PROVE  StandsIn(batch, routeJobs', tries') /\ CompletedIsObserved(batch.jobs)
  BY DEF RowsAreRead, StandsIn, CompletedIsObserved
<1>1. StandsIn(batch, routeJobs, tries) /\ CompletedIsObserved(batch.jobs)
  BY DEF RowsAreRead
<1>2. ASSUME NEW job \in RouteJobs
      PROVE  /\ \A i \in DOMAIN batch.tries[job] :
                   /\ i \in DOMAIN tries'[job]
                   /\ batch.tries[job][i].state \in {"succeeded", "failed"} => tries'[job][i] = batch.tries[job][i]
             /\ batch.jobs[job].statuses \subseteq routeJobs'[job].statuses
  <2>1. batch.jobs[job].statuses \subseteq routeJobs'[job].statuses
    BY <1>1 DEF StandsIn
  <2>2. ASSUME NEW i \in DOMAIN batch.tries[job]
        PROVE  /\ i \in DOMAIN tries'[job]
               /\ batch.tries[job][i].state \in {"succeeded", "failed"} => tries'[job][i] = batch.tries[job][i]
    <3>1. /\ i \in DOMAIN tries[job]
          /\ batch.tries[job][i].state \in {"succeeded", "failed"} => tries[job][i] = batch.tries[job][i]
      BY <1>1 DEF StandsIn
    <3> QED BY <3>1
  <2> QED BY <2>1, <2>2
<1> QED BY <1>1, <1>2 DEF StandsIn

LEMMA NothingMoreExplored ==
    ASSUME RoutesInv, RoutesTyped', explorations' = explorations, routeMonth <= routeMonth', CompletedIsObserved(routeJobs'),
           RowsAreRead',
           \A when \in Nat : AdmittedOf(tries, when) \subseteq AdmittedOf(tries', when)
    PROVE  RoutesInv'
<1>1. routeMonth \in Nat /\ routeMonth' \in Nat /\ IsFiniteSet(explorations) /\ explorations \subseteq Allocations
  BY DEF RoutesInv, RoutesTyped
<1>2. ASSUME NEW when \in 0 .. routeMonth' PROVE AllowanceIn(ExploredIn(when), AdmittedOf(tries', when))
  <2>1. IsFiniteSet(ExploredIn(when)) /\ ExploredIn(when) \subseteq explorations
    BY <1>1, FS_Subset DEF ExploredIn
  <2>2. IsFiniteSet(AdmittedOf(tries', when))
    <3>1. IsFiniteSet(RouteJobs) /\ AdmittedOf(tries', when) \subseteq RouteJobs
      BY WorkRoutesAssumption DEF AdmittedOf
    <3> QED BY <3>1, FS_Subset
  <2>3. when \in Nat
    BY <1>1
  <2>4. CASE when <= routeMonth
    <3>1. AllowanceIn(ExploredIn(when), AdmittedOf(tries, when))
      <4>1. when \in 0 .. routeMonth
        BY <1>1, <2>3, <2>4
      <4> QED BY <4>1 DEF RoutesInv, AdmittedIn, AdmittedOf
    <3> QED BY <2>1, <2>2, <2>3, <3>1, AllowanceGrows
  <2>5. CASE ~(when <= routeMonth)
    <3>1. ExploredIn(when) = {}
      BY <1>1, <2>3, <2>5 DEF RoutesInv, ExploredIn
    <3> QED BY <2>2, <3>1, NothingExplored
  <2> QED BY <2>4, <2>5
<1>3. \A when \in 0 .. routeMonth' : AllowanceIn(ExploredIn(when), AdmittedIn(when))'
  BY <1>2 DEF AllowanceIn, QuotesOf, ExploredIn, AdmittedIn, AdmittedOf
<1>4. \A row \in explorations' : row.month <= routeMonth'
  <2> SUFFICES ASSUME NEW row \in explorations PROVE row.month <= routeMonth'
    OBVIOUS
  <2>1. row.month \in Nat /\ row.month <= routeMonth
    BY <1>1 DEF RoutesInv, Allocations
  <2> QED BY <1>1, <2>1
<1>5. \A row, other \in explorations' : row.job = other.job => row = other
  BY DEF RoutesInv
<1>6. CompletedIsObserved(routeJobs)'
  BY DEF CompletedIsObserved
<1> QED BY <1>3, <1>4, <1>5, <1>6 DEF RoutesInv

LEMMA ReserveChosenKeeps ==
    ASSUME RoutesInv, NEW job \in RouteJobs, NEW request \in RouteRequests, ReserveChosen(job, request)
    PROVE  RoutesInv' /\ \A q \in RouteJobs : selections'[q].reason = "evidence" => selections'[q] = selections[q]
<1> DEFINE alias == selections[job].alias
           denied == ~Affordable(QuoteOf[alias])
           new == [alias |-> alias, generation |-> generations[alias], shape |-> request, cost |-> 0,
                   state |-> IF denied THEN "denied" ELSE "pending", timed |-> FALSE, month |-> routeMonth]
           paused == [routeJobs[job] EXCEPT !.state = "paused"]
<1>1. RoutesTyped
  BY DEF RoutesInv
<1>2. new \in TryRows /\ selections[job] \in Chosen
  <2>1. alias \in RouteAliases
    BY <1>1 DEF RoutesTyped, Chosen
  <2>2. generations[alias] \in Nat /\ routeMonth \in Nat
    BY <1>1, <2>1 DEF RoutesTyped
  <2> HIDE DEF alias, denied
  <2>3. (IF denied THEN "denied" ELSE "pending") \in TryStates
    BY DEF TryStates
  <2>4. new \in TryRows
    BY <2>1, <2>2, <2>3 DEF TryRows
  <2> QED BY <1>1, <2>4 DEF RoutesTyped
<1>3. /\ tries' = [tries EXCEPT ![job] = Append(tries[job], new)] /\ selections' = [selections EXCEPT ![job] = NotChosen]
      /\ routeJobs' = routeJobs \/ routeJobs' = [routeJobs EXCEPT ![job] = paused]
      /\ UNCHANGED <<explorations, generations, routePlan, routeMonth, reads, snapshots>>
  BY DEF ReserveChosen, profileVars
<1> HIDE DEF new
<1>4. NotChosen \in Chosen /\ NotChosen.reason = "none"
  BY WorkRoutesAssumption DEF Chosen, NotChosen
<1>5. routeJobs[job] \in JobRecords /\ paused \in JobRecords /\ paused.state = "paused"
      /\ paused.statuses = routeJobs[job].statuses
  BY <1>1 DEF RoutesTyped, JobRecords
<1> HIDE DEF paused
<1>6. /\ selections' \in [RouteJobs -> Chosen]
      /\ \A q \in RouteJobs : selections'[q] = IF q = job THEN NotChosen ELSE selections[q]
  BY <1>1, <1>3, <1>4 DEF RoutesTyped
<1>7. /\ routeJobs' \in [RouteJobs -> JobRecords] /\ CompletedIsObserved(routeJobs')
      /\ \A q \in RouteJobs : routeJobs'[q].statuses = routeJobs[q].statuses
  <2>1. CASE routeJobs' = routeJobs
    BY <1>1, <2>1 DEF RoutesTyped, RoutesInv, CompletedIsObserved
  <2>2. CASE routeJobs' = [routeJobs EXCEPT ![job] = paused]
    <3>1. routeJobs' \in [RouteJobs -> JobRecords] /\ \A q \in RouteJobs : routeJobs'[q] = IF q = job THEN paused ELSE routeJobs[q]
      BY <1>1, <1>5, <2>2 DEF RoutesTyped
    <3>2. \A q \in RouteJobs : routeJobs'[q].statuses = routeJobs[q].statuses
      BY <1>5, <3>1
    <3> QED BY <1>5, <3>1, <3>2 DEF RoutesInv, CompletedIsObserved
  <2> QED BY <1>3, <2>1, <2>2
<1>8. tries[job] \in Seq(TryRows)
  BY <1>1 DEF RoutesTyped
<1>9. /\ Append(tries[job], new) \in Seq(TryRows) /\ Len(tries[job]) \in Nat
      /\ DOMAIN tries[job] = 1 .. Len(tries[job]) /\ DOMAIN Append(tries[job], new) = 1 .. Len(tries[job]) + 1
      /\ \A i \in 1 .. Len(tries[job]) : Append(tries[job], new)[i] = tries[job][i]
  BY <1>2, <1>8, AppendProperties, LenProperties
<1>10. /\ tries' \in [RouteJobs -> Seq(TryRows)]
       /\ \A q \in RouteJobs : tries'[q] = IF q = job THEN Append(tries[job], new) ELSE tries[q]
  BY <1>1, <1>3, <1>9 DEF RoutesTyped
<1>11. \A i \in DOMAIN tries[job] : i \in DOMAIN tries'[job] /\ tries'[job][i] = tries[job][i]
  BY <1>9, <1>10
<1>12. \A when \in Nat : AdmittedOf(tries, when) \subseteq AdmittedOf(tries', when)
  BY <1>10, <1>11 DEF AdmittedOf
<1>13. RoutesTyped'
  BY <1>1, <1>3, <1>6, <1>7, <1>10 DEF RoutesTyped
<1>14. RoutesInv'
  <2>1. routeMonth \in Nat /\ routeMonth <= routeMonth' /\ explorations' = explorations
    BY <1>1, <1>3 DEF RoutesTyped
  <2>2. RowsAreRead'
    <3>1. \A q \in RouteJobs : \A i \in DOMAIN tries[q] : i \in DOMAIN tries'[q] /\ tries'[q][i] = tries[q][i]
      BY <1>10, <1>11
    <3> QED BY <1>3, <1>7, <3>1, RowsStand DEF RoutesInv
  <2> QED BY <1>7, <1>12, <1>13, <2>1, <2>2, NothingMoreExplored
<1> QED BY <1>4, <1>6, <1>14

LEMMA EndedIs ==
    ASSUME NEW try \in TryRows, NEW outcome \in TryOutcomes
    PROVE  /\ Ended(try, outcome) \in TryRows /\ Ended(try, outcome).month = try.month
           /\ Ended(try, outcome).state # "denied"
<1>1. /\ outcome.state \in {"succeeded", "failed", "unknown"} /\ outcome.timed \in BOOLEAN
      /\ try.alias \in RouteAliases /\ QuoteOf[try.alias] \in Nat
  BY WorkRoutesAssumption DEF TryRows
<1>2. Ended(try, outcome) \in TryRows
  BY <1>1 DEF Ended, TryRows, TryStates
<1>3. Ended(try, outcome).month = try.month /\ Ended(try, outcome).state = outcome.state
  BY DEF Ended, TryRows
<1> QED BY <1>1, <1>2, <1>3

LEMMA SettleTryKeeps ==
    ASSUME RoutesInv, NEW job \in RouteJobs, NEW i \in DOMAIN tries[job], NEW outcome \in TryOutcomes,
           SettleTry(job, i, outcome)
    PROVE  RoutesInv' /\ selections' = selections
<1> DEFINE new == Ended(tries[job][i], outcome)
           list == [tries[job] EXCEPT ![i] = new]
<1>1. RoutesTyped
  BY DEF RoutesInv
<1>2. /\ tries[job] \in Seq(TryRows) /\ DOMAIN tries[job] = 1 .. Len(tries[job]) /\ Len(tries[job]) \in Nat
      /\ \A j \in DOMAIN tries[job] : tries[job][j] \in TryRows
  BY <1>1, LenProperties, ElementOfSeq DEF RoutesTyped
<1>3. new \in TryRows /\ new.month = tries[job][i].month /\ new.state # "denied"
  BY <1>2, EndedIs
<1>4. /\ tries' = [tries EXCEPT ![job] = list] /\ UNCHANGED <<routeJobs, explorations, generations, selections, routePlan, routeMonth, reads, snapshots>>
      /\ tries[job][i].state = "pending"
  BY DEF SettleTry, profileVars
<1> HIDE DEF new
<1>5. /\ list \in Seq(TryRows) /\ DOMAIN list = DOMAIN tries[job]
      /\ \A j \in DOMAIN list : list[j] = IF j = i THEN new ELSE tries[job][j]
  <2>1. list \in [1 .. Len(tries[job]) -> TryRows]
    BY <1>2, <1>3
  <2> QED BY <1>2, <2>1, SeqDef
<1> HIDE DEF list
<1>6. tries' \in [RouteJobs -> Seq(TryRows)] /\ \A q \in RouteJobs : tries'[q] = IF q = job THEN list ELSE tries[q]
  BY <1>1, <1>4, <1>5 DEF RoutesTyped
<1>7. \A j \in DOMAIN tries[job] : /\ j \in DOMAIN tries'[job] /\ tries'[job][j].month = tries[job][j].month
                                   /\ tries[job][j].state # "denied" => tries'[job][j].state # "denied"
  BY <1>3, <1>5, <1>6
<1>8. \A when \in Nat : AdmittedOf(tries, when) \subseteq AdmittedOf(tries', when)
  <2> SUFFICES ASSUME NEW when \in Nat, NEW q \in AdmittedOf(tries, when) PROVE q \in AdmittedOf(tries', when)
    OBVIOUS
  <2>1. q \in RouteJobs /\ \E j \in DOMAIN tries[q] : tries[q][j].month = when /\ tries[q][j].state # "denied"
    BY DEF AdmittedOf
  <2>2. \E j \in DOMAIN tries'[q] : tries'[q][j].month = when /\ tries'[q][j].state # "denied"
    <3>1. CASE q = job
      BY <1>7, <2>1, <3>1
    <3>2. CASE q # job
      BY <1>6, <2>1, <3>2
    <3> QED BY <3>1, <3>2
  <2> QED BY <2>1, <2>2 DEF AdmittedOf
<1>9. RoutesTyped'
  BY <1>1, <1>4, <1>6 DEF RoutesTyped
<1>10. routeMonth \in Nat /\ routeMonth <= routeMonth' /\ CompletedIsObserved(routeJobs') /\ explorations' = explorations
  BY <1>1, <1>4 DEF RoutesTyped, RoutesInv, CompletedIsObserved
<1>11. RowsAreRead'
  <2>1. \A q \in RouteJobs : \A j \in DOMAIN tries[q] :
           /\ j \in DOMAIN tries'[q]
           /\ tries[q][j].state \in {"succeeded", "failed"} => tries'[q][j] = tries[q][j]
    BY <1>4, <1>5, <1>6
  <2> QED BY <1>4, <2>1, RowsStand DEF RoutesInv
<1> QED BY <1>4, <1>8, <1>9, <1>10, <1>11, NothingMoreExplored

LEMMA ObserveJobKeeps ==
    ASSUME RoutesInv, NEW job \in RouteJobs, NEW status \in JobStatuses, ObserveJob(job, status)
    PROVE  RoutesInv' /\ selections' = selections
<1> DEFINE new == [state |-> IF status = "completed" THEN "completed"
                             ELSE IF routeJobs[job].state = "paused" THEN "paused" ELSE "active",
                   statuses |-> routeJobs[job].statuses \cup {status}]
<1>1. RoutesTyped
  BY DEF RoutesInv
<1>2. /\ new \in JobRecords /\ (new.state = "completed" => "completed" \in new.statuses)
      /\ routeJobs[job].statuses \subseteq new.statuses
  BY <1>1 DEF RoutesTyped, JobRecords
<1>3. routeJobs' = [routeJobs EXCEPT ![job] = new] /\ UNCHANGED <<tries, explorations, generations, selections, routePlan, routeMonth, reads, snapshots>>
  BY DEF ObserveJob, profileVars
<1> HIDE DEF new
<1>4. routeJobs' \in [RouteJobs -> JobRecords] /\ \A q \in RouteJobs : routeJobs'[q] = IF q = job THEN new ELSE routeJobs[q]
  BY <1>1, <1>2, <1>3 DEF RoutesTyped
<1>5. CompletedIsObserved(routeJobs')
  BY <1>2, <1>4 DEF RoutesInv, CompletedIsObserved
<1>6. RoutesTyped'
  BY <1>1, <1>3, <1>4 DEF RoutesTyped
<1>7. routeMonth \in Nat /\ routeMonth <= routeMonth' /\ explorations' = explorations /\ tries' = tries
  BY <1>1, <1>3 DEF RoutesTyped
<1>8. RowsAreRead'
  <2>1. \A q \in RouteJobs : routeJobs[q].statuses \subseteq routeJobs'[q].statuses
    BY <1>2, <1>4
  <2> QED BY <1>3, <2>1, RowsStand DEF RoutesInv
<1> QED BY <1>3, <1>5, <1>6, <1>7, <1>8, NothingMoreExplored

\* The configuration changes, the month turns, or profiles are read, kept or retired.
LEMMA OtherRouteStepsKeep ==
    ASSUME RoutesInv,
           \/ (\E alias \in Reconfigured : Reconfigure(alias)) \/ NextMonth \/ UNCHANGED routeVars
           \/ (\E batch \in reads : SaveProfiles(batch)) \/ \E batch \in snapshots : RetireProfiles(batch)
    PROVE  RoutesInv' /\ \A q \in RouteJobs : selections'[q].reason = "evidence" => selections'[q] = selections[q]
<1>1. RoutesTyped
  BY DEF RoutesInv
<1>2. UNCHANGED <<routeJobs, tries, explorations>>
  BY DEF Reconfigure, NextMonth, SaveProfiles, RetireProfiles, routeVars
<1>3. routeMonth' \in Nat /\ routeMonth <= routeMonth'
  BY <1>1 DEF RoutesTyped, Reconfigure, NextMonth, SaveProfiles, RetireProfiles, routeVars
<1>4. generations' \in [RouteAliases -> Nat]
  <2>1. generations \in [RouteAliases -> Nat]
    BY <1>1 DEF RoutesTyped
  <2>2. ASSUME NEW alias \in Reconfigured, Reconfigure(alias) PROVE generations' \in [RouteAliases -> Nat]
    <3>1. generations' = [generations EXCEPT ![alias] = @ + 1]
      BY <2>2 DEF Reconfigure
    <3>2. CASE alias \in RouteAliases
      <4>1. generations[alias] + 1 \in Nat
        BY <2>1, <3>2
      <4> QED BY <2>1, <3>1, <4>1
    <3>3. CASE alias \notin RouteAliases
      BY <2>1, <3>1, <3>3
    <3> QED BY <3>2, <3>3
  <2> QED BY <2>1, <2>2 DEF NextMonth, SaveProfiles, RetireProfiles, routeVars
<1>5. /\ selections' \in [RouteJobs -> Chosen]
      /\ \A q \in RouteJobs : selections'[q].reason = "evidence" => selections'[q] = selections[q]
  <2>1. CASE selections' = selections
    BY <1>1, <2>1 DEF RoutesTyped
  <2>2. CASE selections' = [job \in RouteJobs |-> NotChosen]
    <3>1. NotChosen \in Chosen /\ NotChosen.reason = "none"
      BY WorkRoutesAssumption DEF Chosen, NotChosen
    <3> QED BY <2>2, <3>1
  <2> QED BY <2>1, <2>2 DEF Reconfigure, NextMonth, SaveProfiles, RetireProfiles, routeVars
<1>6. RoutesTyped'
  BY <1>1, <1>2, <1>3, <1>4, <1>5 DEF RoutesTyped
<1>7. CompletedIsObserved(routeJobs')
  BY <1>2 DEF RoutesInv, CompletedIsObserved
<1>8. RowsAreRead'
  <2>1. reads' \subseteq reads /\ snapshots' \subseteq reads \cup snapshots
    BY DEF Reconfigure, NextMonth, SaveProfiles, RetireProfiles, routeVars, profileVars, AtHand
  <2> QED BY <1>2, <2>1, RowsStand DEF RoutesInv
<1> QED BY <1>2, <1>3, <1>5, <1>6, <1>7, <1>8, NothingMoreExplored

\* What is read is what is so.
LEMMA ReadProfilesKeeps ==
    ASSUME RoutesInv, NEW shape, ReadProfiles(shape)
    PROVE  RoutesInv' /\ selections' = selections
<1> DEFINE fresh == [shape |-> shape, jobs |-> routeJobs, tries |-> tries]
<1>1. /\ reads' = reads \cup {fresh}
      /\ UNCHANGED <<routeJobs, tries, explorations, generations, selections, routePlan, routeMonth, snapshots>>
  BY DEF ReadProfiles
<1>2. fresh.jobs = routeJobs /\ fresh.tries = tries
  OBVIOUS
<1> HIDE DEF fresh
<1>3. RoutesTyped' /\ routeMonth <= routeMonth'
  BY <1>1 DEF RoutesInv, RoutesTyped
<1>4. CompletedIsObserved(routeJobs')
  BY <1>1 DEF RoutesInv, CompletedIsObserved
<1>5. StandsIn(fresh, routeJobs, tries) /\ CompletedIsObserved(fresh.jobs)
  BY <1>2 DEF RoutesInv, StandsIn, CompletedIsObserved
<1>6. RowsAreRead'
  <2> SUFFICES ASSUME NEW batch \in reads \cup snapshots \cup {fresh}
               PROVE  StandsIn(batch, routeJobs, tries) /\ CompletedIsObserved(batch.jobs)
    BY <1>1 DEF RowsAreRead, StandsIn, CompletedIsObserved
  <2> QED BY <1>5 DEF RoutesInv, RowsAreRead
<1> QED BY <1>1, <1>3, <1>4, <1>6, NothingMoreExplored

-----------------------------------------------------------------------------
(* A choice allocates what the allowance has room for, or nothing.         *)

\* What a choice for a job may be: on evidence, or to explore under a new allocation, or neither.
Allocates(job, chosen, allocated) ==
    /\ chosen.reason = "exploration" /\ Prior(job) = {}
    /\ \E alias \in RouteAliases :
          /\ allocated = {[job |-> job, alias |-> alias, quote |-> QuoteOf[alias], month |-> routeMonth]}
          /\ WithinAllowance(QuoteOf[alias])
ChoiceIs(job, quoted, chosen, allocated) ==
    /\ chosen \in Chosen /\ Select(job, chosen, allocated)
    /\ allocated = {} \/ Allocates(job, chosen, allocated)
    /\ chosen.reason = "evidence" => \E batch \in snapshots : chosen \in OnEvidence(quoted, batch)

LEMMA OnEvidenceIs ==
    ASSUME NEW quoted, NEW batch, NEW chosen \in OnEvidence(quoted, batch)
    PROVE  /\ chosen \in Chosen
           /\ chosen.reason = "evidence" => Measured(BaselineAlias, batch) /\ chosen.alias \in Qualified(quoted, batch)
<1>1. Qualified(quoted, batch) \subseteq RouteAliases /\ BaselineAlias \in RouteAliases
  BY WorkRoutesAssumption DEF Qualified, Eligible
<1>2. CASE ~Measured(BaselineAlias, batch) \/ Qualified(quoted, batch) = {}
  <2>1. chosen = [alias |-> BaselineAlias, reason |-> "baseline"]
    BY <1>2 DEF OnEvidence, Baseline
  <2> QED BY <1>1, <2>1 DEF Chosen
<1>3. CASE ~(~Measured(BaselineAlias, batch) \/ Qualified(quoted, batch) = {})
  <2>1. PICK alias \in Qualified(quoted, batch) : chosen = [alias |-> alias, reason |-> "evidence"]
    BY <1>3 DEF OnEvidence
  <2> QED BY <1>1, <1>3, <2>1 DEF Chosen
<1> QED BY <1>2, <1>3

LEMMA ExplorableIs ==
    ASSUME NEW quoted, NEW eligible, NEW batch, NEW alias \in Explorable(quoted, eligible, batch)
    PROVE  alias \in ExplorationAliases /\ WithinAllowance(QuoteOf[alias])
<1>1. alias \in Alternatives(quoted, eligible, batch)
  BY DEF Explorable
<1> QED BY <1>1 DEF Alternatives

LEMMA RouteIsChosen ==
    ASSUME RoutesInv, NEW job \in RouteJobs, NEW quoted, NEW request, ChooseRoute(job, quoted, request)
    PROVE  \E chosen, allocated : ChoiceIs(job, quoted, chosen, allocated)
<1> DEFINE eligible == Eligible(request)
           again == {row \in Prior(job) : row.alias \in eligible \cap ExplorationAliases \cap quoted}
           fresh == UNION {Explorable(quoted, eligible, batch) : batch \in AtHand(request)}
           evident == UNION {OnEvidence(quoted, batch) : batch \in AtHand(request)}
           refused == request = "tools" /\ BaselineAlias \notin ToolAliases
           repeats == MayExplore(job, request) /\ quoted # {} /\ Prior(job) # {} /\ again # {}
           explores == MayExplore(job, request) /\ quoted # {} /\ Prior(job) = {} /\ fresh # {}
<1>1. BaselineAlias \in RouteAliases /\ ExplorationAliases \subseteq RouteAliases
  BY WorkRoutesAssumption
<1>2. CASE refused
  <2>1. \E chosen \in Baseline : Select(job, chosen, {})
    BY <1>2 DEF ChooseRoute
  <2>2. PICK chosen \in Baseline : Select(job, chosen, {})
    BY <2>1
  <2>3. chosen = [alias |-> BaselineAlias, reason |-> "baseline"]
    BY DEF Baseline
  <2>4. chosen \in Chosen /\ chosen.reason # "evidence"
    BY <1>1, <2>3 DEF Chosen
  <2> QED BY <2>2, <2>4 DEF ChoiceIs
<1>3. CASE ~refused /\ repeats
  <2>1. \E row \in again : \E chosen \in Exploring(row.alias) : Select(job, chosen, {})
    BY <1>3, Zenon DEF ChooseRoute
  <2>2. PICK row \in again : \E chosen \in Exploring(row.alias) : Select(job, chosen, {})
    BY <2>1
  <2>3. PICK chosen \in Exploring(row.alias) : Select(job, chosen, {})
    BY <2>2
  <2>4. row.alias \in RouteAliases
    BY <1>1
  <2>5. chosen = [alias |-> row.alias, reason |-> "exploration"]
    BY DEF Exploring
  <2>6. chosen \in Chosen /\ chosen.reason # "evidence"
    BY <2>4, <2>5 DEF Chosen
  <2> QED BY <2>3, <2>6 DEF ChoiceIs
<1>4. CASE ~refused /\ ~repeats /\ explores
  <2>1. \E alias \in fresh : \E chosen \in Exploring(alias) : Select(job, chosen,
               {[job |-> job, alias |-> alias, quote |-> QuoteOf[alias], month |-> routeMonth]})
    BY <1>4, Zenon DEF ChooseRoute
  <2>2. PICK alias \in fresh : \E chosen \in Exploring(alias) : Select(job, chosen,
               {[job |-> job, alias |-> alias, quote |-> QuoteOf[alias], month |-> routeMonth]})
    BY <2>1
  <2>3. PICK chosen \in Exploring(alias) : Select(job, chosen,
               {[job |-> job, alias |-> alias, quote |-> QuoteOf[alias], month |-> routeMonth]})
    BY <2>2
  <2>4. alias \in ExplorationAliases /\ WithinAllowance(QuoteOf[alias])
    <3>1. PICK batch \in AtHand(request) : alias \in Explorable(quoted, eligible, batch)
      BY <2>3
    <3> QED BY <3>1, ExplorableIs
  <2>5. chosen = [alias |-> alias, reason |-> "exploration"]
    BY DEF Exploring
  <2>6. chosen \in Chosen /\ chosen.reason = "exploration" /\ alias \in RouteAliases
    BY <1>1, <2>4, <2>5 DEF Chosen
  <2>7. Prior(job) = {}
    BY <1>4
  <2> DEFINE allocated == {[job |-> job, alias |-> alias, quote |-> QuoteOf[alias], month |-> routeMonth]}
  <2>8. Allocates(job, chosen, allocated)
    BY <2>4, <2>6, <2>7 DEF Allocates
  <2>9. Select(job, chosen, allocated)
    BY <2>3
  <2> HIDE DEF allocated
  <2>10. ChoiceIs(job, quoted, chosen, allocated)
    BY <2>6, <2>8, <2>9 DEF ChoiceIs
  <2> QED BY <2>10
<1>5. CASE ~refused /\ ~repeats /\ ~explores
  <2>1. \E chosen \in IF AtHand(request) = {} THEN Baseline ELSE evident : Select(job, chosen, {})
    BY <1>5, Zenon DEF ChooseRoute
  <2>2. PICK chosen : /\ chosen \in IF AtHand(request) = {} THEN Baseline ELSE evident
                      /\ Select(job, chosen, {})
    BY <2>1
  <2>3. CASE AtHand(request) # {}
    <3>1. PICK batch \in AtHand(request) : chosen \in OnEvidence(quoted, batch)
      BY <2>2, <2>3
    <3>2. batch \in snapshots
      BY DEF AtHand
    <3>3. chosen \in Chosen
      BY <3>1, OnEvidenceIs
    <3> QED BY <2>2, <3>1, <3>2, <3>3 DEF ChoiceIs
  <2>4. CASE AtHand(request) = {}
    <3>1. chosen = [alias |-> BaselineAlias, reason |-> "baseline"]
      BY <2>2, <2>4 DEF Baseline
    <3>2. chosen \in Chosen /\ chosen.reason # "evidence"
      BY <1>1, <3>1 DEF Chosen
    <3> QED BY <2>2, <3>2 DEF ChoiceIs
  <2> QED BY <2>3, <2>4
<1> QED BY <1>2, <1>3, <1>4, <1>5

\* An allocation that the allowance has room for.
LEMMA AllowanceHasRoom ==
    ASSUME NEW explored \in SUBSET Allocations, IsFiniteSet(explored), NEW row \in Allocations, row \notin explored,
           NEW admitted, IsFiniteSet(admitted),
           Cardinality(explored) + 1 <= Share(Max({Cardinality(admitted), Cardinality(explored)})),
           row.quote <= ExplorationCap - QuotesOf(explored)
    PROVE  AllowanceIn(explored \cup {row}, admitted)
<1> DEFINE all == explored \cup {row}
           n == Cardinality(explored)
           m == Cardinality(admitted)
           f == [x \in explored |-> x.quote]
           g == [x \in all |-> x.quote]
<1>1. n \in Nat /\ m \in Nat /\ Cardinality(all) = n + 1 /\ IsFiniteSet(all)
  BY FS_CardinalityType, FS_AddElement
<1>2. 100 * n < m * ExplorationRate
  <2> HIDE DEF n, m
  <2>1. n + 1 <= Share(Max({m, n}))
    BY DEF n, m
  <2> QED BY <1>1, <2>1, ShareAllows
<1>3. 100 * (Cardinality(all) - 1) < Cardinality(admitted) * ExplorationRate
  <2>1. Cardinality(all) - 1 = n
    <3> HIDE DEF n, all
    <3> QED BY <1>1
  <2> QED BY <1>2, <2>1
<1>4. \A x \in all : g[x] = x.quote /\ x.quote \in Nat
  BY DEF Allocations
<1>5. \A x \in explored : f[x] = g[x]
  OBVIOUS
<1>6. QuotesOf(all) = SumFunctionOnSet(g, all) /\ QuotesOf(explored) = SumFunctionOnSet(f, explored)
  BY DEF QuotesOf
<1>7. g[row] = row.quote /\ row.quote \in Nat
  BY <1>4
<1> HIDE DEF f, g
<1>8. SumFunctionOnSet(f, explored) = SumFunctionOnSet(g, explored)
  BY <1>5, SumsAreEqual
<1>9. SumFunctionOnSet(g, explored \cup {row}) = g[row] + SumFunctionOnSet(g, explored)
  <2>1. \A x \in explored \cup {row} : g[x] \in Nat
    BY <1>4
  <2> QED BY <2>1, SumAdded
<1>10. SumFunctionOnSet(g, explored) \in Nat
  <2>1. \A x \in explored : g[x] \in Nat
    BY <1>4
  <2> QED BY <2>1, SumIsNat
<1>11. QuotesOf(all) <= ExplorationCap
  <2>1. QuotesOf(all) = row.quote + QuotesOf(explored)
    BY <1>6, <1>7, <1>8, <1>9
  <2>2. QuotesOf(explored) \in Nat /\ ExplorationCap \in Nat
    BY <1>6, <1>8, <1>10, WorkRoutesAssumption
  <2> QED BY <1>7, <2>1, <2>2
<1> QED BY <1>3, <1>11 DEF AllowanceIn

LEMMA ChooseRouteKeeps ==
    ASSUME RoutesInv, NEW job \in RouteJobs, NEW quoted, NEW request, ChooseRoute(job, quoted, request)
    PROVE  RoutesInv'
<1>1. PICK chosen, allocated : ChoiceIs(job, quoted, chosen, allocated)
  BY RouteIsChosen
<1>2. /\ selections' = [selections EXCEPT ![job] = chosen] /\ explorations' = explorations \cup allocated
      /\ UNCHANGED <<routeJobs, tries, generations, routePlan, routeMonth, reads, snapshots>>
      /\ chosen \in Chosen /\ (allocated = {} \/ Allocates(job, chosen, allocated))
  BY <1>1 DEF ChoiceIs, Select, profileVars
<1>3. RoutesTyped /\ selections' \in [RouteJobs -> Chosen]
  BY <1>2 DEF RoutesInv, RoutesTyped
<1>4. routeMonth \in Nat /\ CompletedIsObserved(routeJobs') /\ RowsAreRead'
  <2>1. routeMonth \in Nat /\ CompletedIsObserved(routeJobs')
    BY <1>2, <1>3 DEF RoutesTyped, RoutesInv, CompletedIsObserved
  <2>2. RowsAreRead'
    BY <1>2, RowsStand DEF RoutesInv
  <2> QED BY <2>1, <2>2
<1>5. CASE allocated = {}
  <2>1. explorations' = explorations
    BY <1>2, <1>5
  <2>2. RoutesTyped'
    BY <1>2, <1>3, <2>1 DEF RoutesTyped
  <2>3. routeMonth <= routeMonth' /\ tries' = tries
    BY <1>2, <1>4
  <2> QED BY <1>4, <2>1, <2>2, <2>3, NothingMoreExplored
<1>6. CASE Allocates(job, chosen, allocated)
  <2>1. PICK alias \in RouteAliases :
           /\ allocated = {[job |-> job, alias |-> alias, quote |-> QuoteOf[alias], month |-> routeMonth]}
           /\ WithinAllowance(QuoteOf[alias])
    BY <1>6 DEF Allocates
  <2> DEFINE row == [job |-> job, alias |-> alias, quote |-> QuoteOf[alias], month |-> routeMonth]
  <2>2. row \in Allocations /\ row.job = job /\ row.month = routeMonth /\ row.quote = QuoteOf[alias]
    BY <1>4, <2>1, WorkRoutesAssumption DEF Allocations
  <2>3. explorations' = explorations \cup {row} /\ WithinAllowance(row.quote)
    BY <1>2, <2>1
  <2> HIDE DEF row
  <2>4. \A other \in explorations : other.job # job
    BY <1>6 DEF Allocates, Prior
  <2>5. row \notin explorations
    BY <2>2, <2>4
  <2>6. /\ explorations' \subseteq Allocations /\ IsFiniteSet(explorations')
        /\ explorations \subseteq Allocations /\ IsFiniteSet(explorations)
    BY <1>3, <2>2, <2>3, FS_AddElement DEF RoutesTyped
  <2>7. RoutesTyped'
    BY <1>2, <1>3, <2>6 DEF RoutesTyped
  <2>8. \A one, other \in explorations' : one.job = other.job => one = other
    BY <2>2, <2>3, <2>4 DEF RoutesInv
  <2>9. \A one \in explorations' : one.month <= routeMonth'
    BY <1>2, <1>4, <2>2, <2>3 DEF RoutesInv
  <2>10. ASSUME NEW when \in 0 .. routeMonth PROVE AllowanceIn({one \in explorations' : one.month = when}, AdmittedIn(when))
    <3>1. IsFiniteSet(AdmittedIn(when))
      BY AdmittedIsFinite
    <3>2. CASE when = routeMonth
      <4> DEFINE explored == ExploredIn(when)
      <4>1. {one \in explorations' : one.month = when} = explored \cup {row}
        BY <2>2, <2>3, <3>2 DEF ExploredIn
      <4>2. explored \in SUBSET Allocations /\ IsFiniteSet(explored) /\ row \notin explored
        BY <2>5, <2>6, FS_Subset DEF ExploredIn
      <4>3. /\ Cardinality(explored) + 1 <= Share(Max({Cardinality(AdmittedIn(when)), Cardinality(explored)}))
            /\ row.quote <= ExplorationCap - QuotesOf(explored)
        BY <2>3, <3>2 DEF WithinAllowance
      <4> HIDE DEF explored
      <4> QED BY <2>2, <3>1, <4>1, <4>2, <4>3, AllowanceHasRoom
    <3>3. CASE when # routeMonth
      <4>1. {one \in explorations' : one.month = when} = ExploredIn(when)
        BY <2>2, <2>3, <3>3 DEF ExploredIn
      <4> QED BY <4>1 DEF RoutesInv
    <3> QED BY <3>2, <3>3
  <2>11. \A when \in 0 .. routeMonth' : AllowanceIn(ExploredIn(when), AdmittedIn(when))'
    BY <1>2, <2>10 DEF AllowanceIn, QuotesOf, ExploredIn, AdmittedIn
  <2>12. CompletedIsObserved(routeJobs)'
    BY <1>4 DEF CompletedIsObserved
  <2> QED BY <1>4, <2>7, <2>8, <2>9, <2>11, <2>12 DEF RoutesInv
<1> QED BY <1>2, <1>5, <1>6

-----------------------------------------------------------------------------
(* What is chosen on evidence has evidence of its own.                     *)

LEMMA SamplesRanThere == ASSUME NEW alias, NEW batch PROVE Samples(alias, batch) \subseteq OnlyOn(alias, batch)
<1> SUFFICES ASSUME NEW job \in Samples(alias, batch) PROVE job \in OnlyOn(alias, batch)
  OBVIOUS
<1> DEFINE ran == {batch.tries[job][i] : i \in DOMAIN batch.tries[job]}
<1>1. /\ job \in RouteJobs /\ ran # {} /\ \A try \in ran : try.state \in {"succeeded", "failed"}
      /\ {Fingerprint(try) : try \in ran} = {[alias |-> alias, generation |-> generations[alias]]}
  BY DEF Samples, Episode
<1>2. batch.tries[job] # <<>>
  <2>1. DOMAIN <<>> = {}
    BY EmptySeq
  <2> QED BY <1>1, <2>1
<1>3. ASSUME NEW i \in DOMAIN batch.tries[job]
      PROVE  /\ batch.tries[job][i].alias = alias /\ batch.tries[job][i].generation = generations[alias]
             /\ batch.tries[job][i].state \in {"succeeded", "failed"}
  <2>1. batch.tries[job][i] \in ran
    OBVIOUS
  <2> HIDE DEF ran
  <2>2. Fingerprint(batch.tries[job][i]) = [alias |-> alias, generation |-> generations[alias]]
    BY <1>1, <2>1
  <2> QED BY <1>1, <2>1, <2>2 DEF Fingerprint
<1> QED BY <1>1, <1>2, <1>3 DEF OnlyOn

LEMMA SamplesAreFinite ==
    ASSUME NEW alias, NEW batch
    PROVE  /\ IsFiniteSet(Samples(alias, batch)) /\ Cardinality(Samples(alias, batch)) \in Nat
           /\ IsFiniteSet(OnlyOn(alias, batch)) /\ Cardinality(Samples(alias, batch)) <= Cardinality(OnlyOn(alias, batch))
           /\ Cardinality(OnlyOn(alias, batch)) \in Nat
<1>1. IsFiniteSet(RouteJobs) /\ OnlyOn(alias, batch) \subseteq RouteJobs
  BY WorkRoutesAssumption DEF OnlyOn
<1>2. IsFiniteSet(OnlyOn(alias, batch))
  BY <1>1, FS_Subset
<1> QED BY <1>2, SamplesRanThere, FS_Subset, FS_CardinalityType

LEMMA MeasuredIs ==
    ASSUME NEW alias, NEW batch, Measured(alias, batch)
    PROVE  Cardinality(Samples(alias, batch)) >= MinimumSamples /\ Cardinality(OnlyOn(alias, batch)) >= MinimumSamples
<1>1. Cardinality(Samples(alias, batch)) >= MinimumSamples
  BY DEF Measured, Profile
<1> QED BY <1>1, SamplesAreFinite, WorkRoutesAssumption

LEMMA QualifiedHasEvidence ==
    ASSUME RoutesInv, NEW batch \in snapshots, NEW quoted, NEW alias \in Qualified(quoted, batch), Measured(BaselineAlias, batch)
    PROVE  HasEvidence(alias, batch)
<1>1. Measured(alias, batch)
  BY DEF Qualified
<1>2. ASSUME routePlan.objective # "quality", DoneOn(alias, batch) = {}
      PROVE  \E other \in OnlyOn(BaselineAlias, batch) : batch.jobs[other].state # "completed"
  <2> DEFINE ours == {job \in Samples(alias, batch) : Episode(job, batch).completed}
             theirs == {job \in Samples(BaselineAlias, batch) : Episode(job, batch).completed}
             s == Cardinality(Samples(alias, batch))
             b == Cardinality(Samples(BaselineAlias, batch))
             t == Cardinality(theirs)
  <2>1. Cardinality(ours) * b >= t * s
    <3>1. NotWorse(Profile(alias, batch), Profile(BaselineAlias, batch))
      BY <1>2 DEF Qualified
    <3> QED BY <3>1 DEF NotWorse, Profile
  <2>2. ours = {}
    <3>1. ASSUME NEW job \in ours PROVE job \in DoneOn(alias, batch)
      <4>1. job \in OnlyOn(alias, batch)
        BY SamplesRanThere
      <4>2. "completed" \in batch.jobs[job].statuses
        BY DEF Episode
      <4> QED BY <4>1, <4>2 DEF DoneOn
    <3> QED BY <1>2, <3>1
  <2>3. Cardinality(ours) = 0
    BY <2>2, FS_EmptySet
  <2>4. s \in Nat /\ b \in Nat /\ s >= 1 /\ b >= 1
    <3>1. MinimumSamples \in Nat /\ MinimumSamples >= 1
      BY WorkRoutesAssumption
    <3>2. s \in Nat /\ b \in Nat /\ s >= MinimumSamples /\ b >= MinimumSamples
      BY <1>1, MeasuredIs, SamplesAreFinite
    <3> HIDE DEF s, b
    <3> QED BY <3>1, <3>2
  <2>5. IsFiniteSet(theirs) /\ t \in Nat
    <3>1. IsFiniteSet(theirs)
      BY SamplesAreFinite, FS_Subset
    <3> QED BY <3>1, FS_CardinalityType
  <2>6. t = 0
    <3>1. 0 >= t * s
      <4>1. 0 * b = 0
        BY <2>4
      <4> HIDE DEF s, b, t, ours
      <4> QED BY <2>1, <2>3, <4>1
    <3> HIDE DEF s, b, t
    <3> QED BY <2>4, <2>5, <3>1
  <2>7. theirs = {}
    BY <2>5, <2>6, FS_EmptySet
  <2>8. Samples(BaselineAlias, batch) # {}
    <3>1. Cardinality({}) = 0
      BY FS_EmptySet
    <3> QED BY <2>4, <3>1
  <2>9. PICK other \in Samples(BaselineAlias, batch) : TRUE
    BY <2>8
  <2>10. ~(batch.jobs[other].state = "completed" /\ "completed" \in batch.jobs[other].statuses)
    <3>1. ~Episode(other, batch).completed
      BY <2>7
    <3> QED BY <3>1 DEF Episode
  <2>11. other \in OnlyOn(BaselineAlias, batch) /\ other \in RouteJobs
    BY SamplesRanThere DEF OnlyOn
  <2>12. CompletedIsObserved(batch.jobs)
    BY DEF RoutesInv, RowsAreRead
  <2> QED BY <2>10, <2>11, <2>12 DEF CompletedIsObserved
<1> QED BY <1>1, <1>2, MeasuredIs DEF HasEvidence

EvidenceIsOwn ==
    \A job \in RouteJobs :
       (selections'[job].reason = "evidence" /\ selections'[job] # selections[job])
       => \E batch \in snapshots : HasEvidence(selections'[job].alias, batch)

LEMMA ChooseRouteHasEvidence ==
    ASSUME RoutesInv, NEW job \in RouteJobs, NEW quoted, NEW request, ChooseRoute(job, quoted, request)
    PROVE  EvidenceIsOwn
<1>1. PICK chosen, allocated : ChoiceIs(job, quoted, chosen, allocated)
  BY RouteIsChosen
<1>2. /\ selections' = [selections EXCEPT ![job] = chosen]
      /\ chosen.reason = "evidence" => \E batch \in snapshots : chosen \in OnEvidence(quoted, batch)
  BY <1>1 DEF ChoiceIs, Select
<1>3. \A q \in RouteJobs : selections'[q] = IF q = job THEN chosen ELSE selections[q]
  BY <1>2 DEF RoutesInv, RoutesTyped
<1>4. chosen.reason = "evidence" => \E batch \in snapshots : HasEvidence(chosen.alias, batch)
  <2> SUFFICES ASSUME chosen.reason = "evidence" PROVE \E batch \in snapshots : HasEvidence(chosen.alias, batch)
    OBVIOUS
  <2>1. PICK batch \in snapshots : chosen \in OnEvidence(quoted, batch)
    BY <1>2
  <2>2. Measured(BaselineAlias, batch) /\ chosen.alias \in Qualified(quoted, batch)
    BY <2>1, OnEvidenceIs
  <2> QED BY <2>2, QualifiedHasEvidence
<1> QED BY <1>3, <1>4 DEF EvidenceIsOwn

-----------------------------------------------------------------------------
(* Every step.                                                             *)

LEMMA RoutesStart == RoutesInit => RoutesInv
<1> SUFFICES ASSUME RoutesInit PROVE RoutesInv
  OBVIOUS
<1>1. RoutesTyped
  <2>1. NotChosen \in Chosen /\ [state |-> "active", statuses |-> {}] \in JobRecords
    BY WorkRoutesAssumption DEF Chosen, NotChosen, JobRecords
  <2>2. <<>> \in Seq(TryRows)
    BY EmptySeq
  <2> QED BY <2>1, <2>2, FS_EmptySet DEF RoutesInit, RoutesTyped
<1>2. explorations = {} /\ \A job \in RouteJobs : routeJobs[job].state = "active"
  BY DEF RoutesInit
<1>3. \A when \in 0 .. routeMonth : AllowanceIn(ExploredIn(when), AdmittedIn(when))
  <2>1. \A when : ExploredIn(when) = {}
    BY <1>2 DEF ExploredIn
  <2> QED BY <2>1, AdmittedIsFinite, NothingExplored
<1>4. CompletedIsObserved(routeJobs) /\ RowsAreRead
  BY <1>2 DEF RoutesInit, CompletedIsObserved, RowsAreRead
<1> QED BY <1>1, <1>2, <1>3, <1>4 DEF RoutesInv

LEMMA RouteStepsKeep == RoutesInv /\ [RoutesNext]_routeVars => RoutesInv' /\ EvidenceIsOwn
<1> SUFFICES ASSUME RoutesInv, [RoutesNext]_routeVars PROVE RoutesInv' /\ EvidenceIsOwn
  OBVIOUS
<1>1. ASSUME NEW job \in RouteJobs, NEW quoted \in {{}, {BaselineAlias}, RouteAliases}, NEW request \in RouteRequests,
             ChooseRoute(job, quoted, request)
      PROVE  RoutesInv' /\ EvidenceIsOwn
  BY <1>1, ChooseRouteKeeps, ChooseRouteHasEvidence
<1>2. ASSUME NEW job \in RouteJobs, NEW request \in RouteRequests, ReserveChosen(job, request)
      PROVE  RoutesInv' /\ EvidenceIsOwn
  BY <1>2, ReserveChosenKeeps DEF EvidenceIsOwn
<1>3. ASSUME NEW job \in RouteJobs, NEW i \in DOMAIN tries[job], NEW outcome \in TryOutcomes, SettleTry(job, i, outcome)
      PROVE  RoutesInv' /\ EvidenceIsOwn
  BY <1>3, SettleTryKeeps DEF EvidenceIsOwn
<1>4. ASSUME NEW job \in RouteJobs, NEW status \in JobStatuses, ObserveJob(job, status)
      PROVE  RoutesInv' /\ EvidenceIsOwn
  BY <1>4, ObserveJobKeeps DEF EvidenceIsOwn
<1>5. ASSUME \/ (\E alias \in Reconfigured : Reconfigure(alias)) \/ NextMonth \/ UNCHANGED routeVars
             \/ (\E batch \in reads : SaveProfiles(batch)) \/ \E batch \in snapshots : RetireProfiles(batch)
      PROVE  RoutesInv' /\ EvidenceIsOwn
  BY <1>5, OtherRouteStepsKeep DEF EvidenceIsOwn
<1>6. ASSUME NEW shape \in RouteRequests, ReadProfiles(shape) PROVE RoutesInv' /\ EvidenceIsOwn
  BY <1>6, ReadProfilesKeeps DEF EvidenceIsOwn
<1> QED BY <1>1, <1>2, <1>3, <1>4, <1>5, <1>6 DEF RoutesNext

\* Exploration stays within its share of the jobs and its cap of the money in every month, and a job tries one
\* route; a route is chosen on evidence only if enough jobs had run on it alone, as it is configured now, when the
\* profiles at hand were read, and nothing they count has been undone since (work_runtime.py choose_route, _explore,
\* _profiles, _snapshot_profiles), for any jobs, routes, quotes, rates and outcomes, and however old the profiles are.
THEOREM RoutesAreSoundHolds == RoutesSpec => RoutesAreSound
<1>1. RoutesInit => RoutesInv
  BY RoutesStart
<1>2. RoutesInv /\ [RoutesNext]_routeVars => RoutesInv'
  BY RouteStepsKeep
<1>3. RoutesInv => AllowanceIsKept /\ EvidenceStands
  BY RouteInvariants
<1>4. RoutesInv /\ [RoutesNext]_routeVars
      => [\A job \in RouteJobs :
            (selections'[job].reason = "evidence" /\ selections'[job] # selections[job])
            => \E batch \in snapshots : HasEvidence(selections'[job].alias, batch)]_routeVars
  BY RouteStepsKeep DEF EvidenceIsOwn
<1> QED BY <1>1, <1>2, <1>3, <1>4, PTL DEF RoutesSpec, RoutesAreSound, EvidenceIsOfThisRoute

==============================================================================
