------------------------------ MODULE WorkLedger ------------------------------
(***************************************************************************)
(* The work ledger of one actor (hormuz/work_runtime.py): jobs with their  *)
(* plans, the provider attempts reserved against them, the conversations   *)
(* bound to them and the model a continuing job stays on.  Every action is *)
(* one write transaction; a call that raises changes nothing, except the   *)
(* denied reservation, which is recorded and pauses the job.               *)
(*                                                                         *)
(* The ledger outlives the process: Restart is a new runtime over the same *)
(* file, and a call of the old one may still arrive.                       *)
(***************************************************************************)
EXTENDS Naturals, Sequences, FiniteSetsExt, Functions

CONSTANTS
    Jobs, Repos,
    RepoOf,      \* repository of each job
    Requests,    \* request ids
    Threads,     \* native conversations
    Models, Contexts,
    Amounts,     \* reserved maxima
    Charges,     \* settled and confirmed costs
    Budgets,     \* budgets of plans
    Planned,     \* bound: the scopes that are ever given a plan
    MaxBindings, \* 1024 in the code
    MaxGen,      \* bound: cache generations
    MaxMonth,    \* bound: months that pass
    None

Workspace == "workspace"
Scopes == {Workspace} \cup Repos \cup Jobs

ASSUME JobsAssumption ==
    RepoOf \in [Jobs -> Repos] /\ None \notin Jobs \cup Models
                       /\ Planned \subseteq Scopes
ASSUME MoneyAssumption == Amounts \cup Charges \cup Budgets \subseteq Nat
ASSUME BoundsAssumption == {MaxBindings, MaxGen} \subseteq Nat /\ MaxMonth \in Nat \ {0}

VARIABLES
    state,    \* state of a job
    pin,      \* pinned_model
    gen,      \* cache_generation
    ctx,      \* context_signature
    attempt,  \* ai_work_attempts
    rows,     \* request ids in the order of their rows
    budget,   \* budget_microusd of a plan; None when there is no limit
    bound,    \* ai_work_conversations
    month,    \* the current month
    retired,  \* history: generation of a job at its last correction
    moved,    \* history: whether the context changed since the generation began
    ceiling   \* history: what a scope may have admitted since its plan was set

jobs == <<state, pin, gen, ctx, retired, moved>>
vars == <<state, pin, gen, ctx, attempt, rows, budget, bound, month, retired, moved, ceiling>>

Open == {"pending", "unknown"}
Terminal == {"succeeded", "failed", "cache_hit", "denied"}
JobStates == {"none", "active", "paused", "completed", "canceled", "unknown"}

Row == [job : Jobs, model : Models, amount : Amounts, state : Open \cup Terminal,
        cost : Charges \cup {0, None}, confirmed : Charges \cup {None}, ok : BOOLEAN,
        gen : 0 .. MaxGen, ctx : Contexts, month : 1 .. MaxMonth]

ASSUME RowAssumption == None \notin Row

TypeOK ==
    /\ state \in [Jobs -> JobStates]
    /\ pin \in [Jobs -> Models \cup {None}]
    /\ gen \in [Jobs -> 0 .. MaxGen]
    /\ ctx \in [Jobs -> Contexts]
    /\ attempt \in [Requests -> Row \cup {None}]
    /\ rows \in Seq(Requests)
    /\ budget \in [Scopes -> Budgets \cup {None}]
    /\ bound \in [Threads -> Jobs \cup {None}]
    /\ month \in 1 .. MaxMonth
    /\ retired \in [Jobs -> 0 .. MaxGen]
    /\ moved \in [Jobs -> BOOLEAN]
    /\ ceiling \in [Scopes -> Nat]

Init ==
    /\ state = [j \in Jobs |-> "none"]
    /\ pin = [j \in Jobs |-> None]
    /\ gen = [j \in Jobs |-> 0]
    /\ ctx \in [Jobs -> Contexts]
    /\ attempt = [r \in Requests |-> None]
    /\ rows = <<>>
    /\ budget = [s \in Scopes |-> None]
    /\ bound = [t \in Threads |-> None]
    /\ month = 1
    /\ retired = [j \in Jobs |-> 0]
    /\ moved = [j \in Jobs |-> FALSE]
    /\ ceiling = [s \in Scopes |-> 0]

(***************************************************************************)
(* Spend of a scope.                                                       *)
(***************************************************************************)

Covers(s, j) == s = Workspace \/ s = RepoOf[j] \/ s = j

\* A job counts over its lifetime, the other scopes over the current month.
InScope(s) ==
    {r \in Requests : /\ attempt[r] # None
                      /\ Covers(s, attempt[r].job)
                      /\ s \in Jobs \/ attempt[r].month = month}

\* Mistake: an unknown outcome is taken for no charge.
Consumed_KnownOnly(s) ==
    SumFunctionOnSet([r \in Requests |->
                         IF attempt[r].confirmed # None THEN attempt[r].confirmed
                         ELSE IF attempt[r].state \in Terminal \ {"denied"} THEN attempt[r].cost
                         ELSE IF attempt[r].state = "pending" THEN attempt[r].amount ELSE 0],
                     InScope(s))

\* A confirmed cost, else a settled one, else the whole reservation.
Consumed(s) ==
    SumFunctionOnSet([r \in Requests |->
                         IF attempt[r].confirmed # None THEN attempt[r].confirmed
                         ELSE IF attempt[r].state \in Terminal \ {"denied"} THEN attempt[r].cost
                         ELSE IF attempt[r].state \in Open THEN attempt[r].amount ELSE 0],
                     InScope(s))

Fits(j, amount) ==
    \A s \in Scopes : Covers(s, j) /\ budget[s] # None => Consumed(s) + amount <= budget[s]

\* What a scope has admitted, as far as it is still not known to have cost less.
Exposure(s) ==
    SumFunctionOnSet([r \in Requests |->
                         IF attempt[r].state = "denied" THEN 0
                         ELSE Min({attempt[r].amount}
                                  \cup (IF attempt[r].state \in Terminal THEN {attempt[r].cost} ELSE {})
                                  \cup ({attempt[r].confirmed} \ {None}))],
                     InScope(s))

(***************************************************************************)
(* Jobs and plans.                                                         *)
(***************************************************************************)

CreateWork(j) ==
    /\ state[j] = "none"
    /\ state' = [state EXCEPT ![j] = "active"]
    /\ UNCHANGED <<pin, gen, ctx, attempt, rows, budget, bound, month, retired, moved, ceiling>>

SetBudget(s, amount) ==
    /\ budget' = [budget EXCEPT ![s] = amount]
    /\ ceiling' = [ceiling EXCEPT ![s] =
                      IF amount = None THEN 0 ELSE Max({amount, Exposure(s)})]

\* set_plan; a job's plan needs the job.
SetPlan(s, amount) ==
    /\ s \in Jobs => state[s] # "none"
    /\ SetBudget(s, amount)
    /\ UNCHANGED <<jobs, attempt, rows, bound, month>>

\* Mistake: a thread that looked up no job makes one of its own.
ConversationWork_Twice(t, j) ==
    /\ state[j] = "none"
    /\ Cardinality({u \in Threads : bound[u] # None}) < MaxBindings
    /\ state' = [state EXCEPT ![j] = "active"]
    /\ bound' = [bound EXCEPT ![t] = j]
    /\ UNCHANGED <<pin, gen, ctx, attempt, rows, budget, month, retired, moved, ceiling>>

\* conversation_work(create=True): a known thread answers its job; a new one is
\* bound to a new job, unless all bindings are taken.
ConversationWork(t, j) ==
    /\ bound[t] = None
    /\ state[j] = "none"
    /\ Cardinality({u \in Threads : bound[u] # None}) < MaxBindings
    /\ state' = [state EXCEPT ![j] = "active"]
    /\ bound' = [bound EXCEPT ![t] = j]
    /\ UNCHANGED <<pin, gen, ctx, attempt, rows, budget, month, retired, moved, ceiling>>

\* Each request rebinds the context, unless it carries provider state.
BindRequestContext(j, c) ==
    /\ state[j] # "none"
    /\ ctx' = [ctx EXCEPT ![j] = c]
    /\ moved' = [moved EXCEPT ![j] = @ \/ c # ctx[j]]
    /\ UNCHANGED <<state, pin, gen, attempt, rows, budget, bound, month, retired, ceiling>>

Bump(j) ==
    /\ gen[j] < MaxGen
    /\ gen' = [gen EXCEPT ![j] = @ + 1]
    /\ moved' = [moved EXCEPT ![j] = FALSE]

\* A repeated reference answers the job as it is.
Observe(j, status) ==
    /\ state[j] # "none"
    /\ LET stays == status \in {"corrected", "reopened", "unknown"}
                      /\ state[j] \in {"paused", "canceled"}
           next  == IF status \in {"completed", "canceled", "unknown"} THEN status ELSE "active"
       IN  state' = [state EXCEPT ![j] = IF stays THEN @ ELSE next]
    /\ IF status \in {"corrected", "reopened", "canceled"}
       THEN /\ Bump(j)
            /\ pin' = [pin EXCEPT ![j] = None]
            /\ retired' = [retired EXCEPT ![j] = gen'[j]]
       ELSE UNCHANGED <<gen, pin, retired, moved>>
    /\ UNCHANGED <<ctx, attempt, rows, budget, bound, month, ceiling>>

\* Mistake: the action is stored as the state of the job.
Pause_Verbatim(j) ==
    /\ state[j] # "none"
    /\ state' = [state EXCEPT ![j] = "pause"]
    /\ UNCHANGED <<pin, gen, ctx, attempt, rows, budget, bound, month, retired, moved, ceiling>>

Pause(j) ==
    /\ state[j] # "none"
    /\ state' = [state EXCEPT ![j] = "paused"]
    /\ UNCHANGED <<pin, gen, ctx, attempt, rows, budget, bound, month, retired, moved, ceiling>>

Resume(j) ==
    /\ state[j] \notin {"none", "completed"}
    /\ state' = [state EXCEPT ![j] = "active"]
    /\ UNCHANGED <<pin, gen, ctx, attempt, rows, budget, bound, month, retired, moved, ceiling>>

Stop(j) ==
    /\ state[j] # "none"
    /\ state' = [state EXCEPT ![j] = "canceled"]
    /\ Bump(j)
    /\ UNCHANGED <<pin, ctx, attempt, rows, budget, bound, month, retired, ceiling>>

ApproveBudget(j, amount) ==
    /\ state[j] \notin {"none", "completed"}
    /\ SetBudget(j, amount)
    /\ state' = [state EXCEPT ![j] = "active"]
    /\ UNCHANGED <<pin, gen, ctx, attempt, rows, bound, month, retired, moved>>

\* recurrence_guard retires the answers of a job that repeats itself: two of them
\* at least in this context, one from the cache.
RecurrenceGuard(j) ==
    /\ state[j] = "active"
    /\ LET answered == {r \in Requests : /\ attempt[r] # None
                                         /\ attempt[r].job = j /\ attempt[r].ctx = ctx[j]
                                         /\ attempt[r].state \in {"succeeded", "cache_hit"}}
       IN  /\ Cardinality(answered) >= 2
           /\ \E r \in answered : attempt[r].state = "cache_hit"
    /\ Bump(j)
    /\ UNCHANGED <<state, pin, ctx, attempt, rows, budget, bound, month, retired, ceiling>>

CacheInvalidate(j) ==
    /\ state[j] # "none"
    /\ Bump(j)
    /\ UNCHANGED <<state, pin, ctx, attempt, rows, budget, bound, month, retired, ceiling>>

(***************************************************************************)
(* Attempts.                                                               *)
(***************************************************************************)

NewRow(j, m, amount, c, s) ==
    [job |-> j, model |-> m, amount |-> amount, state |-> s, cost |-> None, confirmed |-> None,
     ok |-> FALSE, gen |-> gen[j], ctx |-> c, month |-> month]

Insert(r, row) ==
    /\ attempt[r] = None
    /\ attempt' = [attempt EXCEPT ![r] = row]
    /\ rows' = Append(rows, r)

\* reserve, when every plan has room: the job stays on the first model it used.
Reserve(r, j, m, amount, c) ==
    /\ state[j] = "active"
    /\ Fits(j, amount)
    /\ Insert(r, NewRow(j, m, amount, c, "pending"))
    /\ pin' = [pin EXCEPT ![j] = IF @ = None THEN m ELSE @]
    /\ UNCHANGED <<state, gen, ctx, budget, bound, month, retired, moved, ceiling>>

\* reserve, when one has not: the denial is recorded and the job pauses.
ReserveDenied(r, j, m, amount, c) ==
    /\ state[j] = "active"
    /\ ~Fits(j, amount)
    /\ Insert(r, NewRow(j, m, amount, c, "denied"))
    /\ state' = [state EXCEPT ![j] = "paused"]
    /\ UNCHANGED <<pin, gen, ctx, budget, bound, month, retired, moved, ceiling>>

\* Mistake: the answer that came last takes the pin, whatever it belongs to.
Affinity_Any(j, r) == attempt'[r].model

\* Mistake: of the answers that count, the one that came last takes the pin.
Affinity_Last(j, r) ==
    IF attempt[r].gen = gen[j] /\ attempt[r].ctx = ctx[j] THEN attempt'[r].model ELSE pin[j]

\* Of the answers to this generation and context, the one admitted last.
Affinity(j, r) ==
    LET answered == {i \in DOMAIN rows :
                        /\ attempt'[rows[i]].job = j /\ attempt'[rows[i]].ok
                        /\ attempt'[rows[i]].gen = gen[j] /\ attempt'[rows[i]].ctx = ctx[j]}
    IN  IF attempt[r].gen = gen[j] /\ attempt[r].ctx = ctx[j]
        THEN attempt'[rows[Max(answered)]].model
        ELSE pin[j]

\* Mistake: a late answer of a reservation that was settled is written over it.
Settle_Again(r, status, cost) ==
    /\ attempt[r] # None
    /\ LET s == IF cost = None THEN "unknown" ELSE status
       IN  attempt' = [attempt EXCEPT ![r].state = s, ![r].cost = cost,
                                      ![r].ok = @ \/ status \in {"succeeded", "cache_hit"}]
    /\ UNCHANGED <<state, pin, gen, ctx, rows, budget, bound, month, retired, moved, ceiling>>

\* settle: an unknown outcome may still become known, a known one never changes.
\* The pin follows the response, whether or not the charge is certain.
Settle(r, status, cost) ==
    /\ attempt[r] # None
    /\ attempt[r].state \notin Terminal
    /\ LET s  == IF cost = None THEN "unknown" ELSE status
           ok == status \in {"succeeded", "cache_hit"}
           j  == attempt[r].job
       IN  /\ attempt' = [attempt EXCEPT ![r].state = s, ![r].cost = cost, ![r].ok = @ \/ ok]
           /\ pin' = IF ok THEN [pin EXCEPT ![j] = Affinity(j, r)] ELSE pin
    /\ UNCHANGED <<state, gen, ctx, rows, budget, bound, month, retired, moved, ceiling>>

\* confirm_cost keeps the estimate beside the confirmed cost.
ConfirmCost(r, cost) ==
    /\ attempt[r] # None
    /\ attempt[r].state \notin {"pending", "denied", "cache_hit"}
    /\ attempt[r].confirmed = None
    /\ attempt' = [attempt EXCEPT ![r].confirmed = cost]
    /\ UNCHANGED <<jobs, rows, budget, bound, month, ceiling>>

(***************************************************************************)
(* The runtime.                                                            *)
(***************************************************************************)

\* A new runtime cannot prove that a reserved call is still going on.
Restart ==
    /\ attempt' = [r \in Requests |->
                      IF attempt[r] # None /\ attempt[r].state = "pending"
                      THEN [attempt[r] EXCEPT !.state = "unknown"] ELSE attempt[r]]
    /\ bound' = [t \in Threads |-> None]
    /\ UNCHANGED <<jobs, rows, budget, month, ceiling>>

NewMonth ==
    /\ month < MaxMonth
    /\ month' = month + 1
    /\ UNCHANGED <<jobs, attempt, rows, budget, bound, ceiling>>

Next ==
    \/ \E j \in Jobs :
          \/ CreateWork(j) \/ Pause(j) \/ Resume(j) \/ Stop(j)
          \/ RecurrenceGuard(j) \/ CacheInvalidate(j)
          \/ \E t \in Threads : ConversationWork(t, j)
          \/ \E c \in Contexts : BindRequestContext(j, c)
          \/ j \in Planned /\ \E b \in Budgets : ApproveBudget(j, b)
          \/ \E status \in {"completed", "reopened", "corrected", "unknown", "canceled"} :
                Observe(j, status)
    \/ \E s \in Planned, b \in Budgets \cup {None} : SetPlan(s, b)
    \/ \E r \in Requests :
          \/ \E j \in Jobs, m \in Models, amount \in Amounts, c \in Contexts :
                Reserve(r, j, m, amount, c) \/ ReserveDenied(r, j, m, amount, c)
          \/ \E status \in {"succeeded", "failed", "unknown"}, cost \in Charges \cup {None} :
                Settle(r, status, cost)
          \/ Settle(r, "cache_hit", 0)
          \/ \E cost \in Charges : ConfirmCost(r, cost)
    \/ Restart \/ NewMonth

Spec == Init /\ [][Next]_vars

(***************************************************************************)
(* What the ledger promises.                                               *)
(***************************************************************************)

\* From the moment a plan has a budget, a scope never admits more than it: not
\* by attempts settled out of order, by outcomes that stay unknown or by a
\* restart of the runtime.  A lower budget admits nothing until there is room.
BudgetIsKept == \A s \in Scopes : budget[s] # None => Exposure(s) <= ceiling[s]

\* A response admitted before a correction, however late it arrives, never puts
\* the job back on the model the correction retired.
RetiredPinStaysRetired ==
    \A j \in Jobs : pin[j] # None =>
        \E r \in Requests : /\ attempt[r] # None /\ attempt[r].job = j
                            /\ attempt[r].model = pin[j] /\ attempt[r].gen >= retired[j]

\* Responses that complete out of order leave the job on the model of the one
\* admitted last, as long as the job keeps its context.
Answers(j) == {i \in DOMAIN rows : LET a == attempt[rows[i]]
                                   IN  a.job = j /\ a.ok /\ a.gen = gen[j]}
PinIsLastAdmittedAnswer ==
    \A j \in Jobs :
        Answers(j) # {} /\ ~moved[j] /\ (\A i \in Answers(j) : attempt[rows[i]].ctx = ctx[j])
            => pin[j] = attempt[rows[Max(Answers(j))]].model

\* A settled or a confirmed cost is never rewritten, and nothing that was
\* reserved is forgotten.
ChargesAreFinal ==
    [][\A r \in Requests : attempt[r] # None =>
          /\ attempt'[r] # None
          /\ attempt[r].state \in Terminal =>
                attempt'[r].state = attempt[r].state /\ attempt'[r].cost = attempt[r].cost
          /\ attempt[r].confirmed # None => attempt'[r].confirmed = attempt[r].confirmed]_vars

\* A conversation keeps its job until the runtime ends: a stopped or exhausted
\* job is not escaped by binding the thread to another one.
ThreadKeepsJob ==
    [][\A t \in Threads : bound[t] # None =>
          bound'[t] = bound[t] \/ bound' = [u \in Threads |-> None]]_vars

\* The budget of a job is kept, a charge that was made is never undone or made twice, and a thread
\* keeps its job.
BudgetIsSound == []BudgetIsKept /\ ChargesAreFinal /\ ThreadKeepsJob

\* A job returns to the model of its last admitted answer, and to no retired one.
AffinityIsSound == RetiredPinStaysRetired /\ PinIsLastAdmittedAnswer

===============================================================================
