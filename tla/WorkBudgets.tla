------------------------------ MODULE WorkBudgets ------------------------------
(***************************************************************************)
(* Work budgets inside the attempt transaction (hormuz/budget_runtime.py). *)
(* A request names a version of a use case; its transaction checks that    *)
(* the version and its parents are still the current ones, finds the plans *)
(* in force for any of them, and binds the reservation to each, or to      *)
(* none.  The time it judges by was read before it waited for the lock.    *)
(*                                                                         *)
(* Scopes, plans and activations are written by a control plane under the  *)
(* constraints and triggers of their tables.  A plan in force names a      *)
(* window: its reservations are those of the same plan and window, whatever *)
(* version admitted them.                                                  *)
(***************************************************************************)
EXTENDS Naturals, Sequences, FiniteSetsExt, Functions

CONSTANTS
    WorkScopes,
    KindOf,         \* 0 portfolio, 1 initiative, 2 use case
    BudgetPlans,
    ScopeTexts,     \* what a scope's version may say: scope, parent, active
    PlanTexts,      \* what a plan's version may say: scope, ver, from, to, amount, cap
    WorkAttempts,
    WorkEstimates, WorkCharges,
    MaxScopeWrites, \* bound: versions of a scope
    MaxPlanWrites,  \* bound: versions and activations of a plan
    MaxClock,       \* bound: time
    NoScope

ASSUME WorkBudgetsAssumption ==
    /\ IsFiniteSet(BudgetPlans)
    /\ KindOf \in [WorkScopes -> 0 .. 2] /\ NoScope \notin WorkScopes \X Nat
    /\ \A text \in ScopeTexts : /\ text.scope \in WorkScopes /\ text.active \in BOOLEAN
                                /\ text.parent \in (WorkScopes \X Nat) \cup {NoScope}
    /\ \A text \in PlanTexts : /\ text.scope \in WorkScopes
                               /\ {text.ver, text.from, text.to, text.amount, text.cap} \subseteq Nat
    /\ WorkEstimates \cup WorkCharges \subseteq Nat /\ {MaxScopeWrites, MaxPlanWrites} \subseteq Nat
    /\ MaxClock \in Nat \ {0}

VARIABLES
    wclock,
    wscope,    \* versions of a scope: its parent and whether it is active
    plans,     \* versions of a plan
    acts,      \* its activations: version and committed_at; the last one is the pointer
    wreq,      \* where a request stands
    wref,      \* the scope it is attributed to
    asOf,      \* the time its begin has read
    wcost,     \* what it reserved, and what it cost when that is known
    bindings,  \* portfolio_work_budget_reservation_bindings
    denial     \* plan versions that a denial names

budgetVars == <<wclock, wscope, plans, acts, wreq, wref, asOf, wcost, bindings, denial>>

OpenWork == {"pending", "unknown"}
SettledWork == {"succeeded", "failed"}
WorkRefs == WorkScopes \X (1 .. MaxScopeWrites)
PlanRefs == BudgetPlans \X (1 .. MaxPlanWrites)

WorkBudgetsTypeOK ==
    /\ wclock \in 1 .. MaxClock
    /\ wscope \in [WorkScopes -> Seq(ScopeTexts)]
    /\ plans \in [BudgetPlans -> Seq(PlanTexts)]
    /\ acts \in [BudgetPlans -> Seq([ver : 1 .. MaxPlanWrites, at : 1 .. MaxClock])]
    /\ wreq \in [WorkAttempts -> {"new", "waits", "denied", "refused"} \cup OpenWork \cup SettledWork]
    /\ wref \in [WorkAttempts -> WorkRefs \cup {NoScope}]
    /\ asOf \in [WorkAttempts -> 0 .. MaxClock]
    /\ wcost \in [WorkAttempts -> [reserved : WorkEstimates \cup {0}, settled : WorkCharges \cup {0}]]
    /\ bindings \subseteq [attempt : WorkAttempts, plan : BudgetPlans, gen : 1 .. MaxPlanWrites,
                           from : Nat, to : Nat]
    /\ denial \in [WorkAttempts -> SUBSET PlanRefs]

WorkBudgetsInit ==
    /\ wclock = 1
    /\ wscope = [s \in WorkScopes |-> <<>>]
    /\ plans = [p \in BudgetPlans |-> <<>>]
    /\ acts = [p \in BudgetPlans |-> <<>>]
    /\ wreq = [a \in WorkAttempts |-> "new"]
    /\ wref = [a \in WorkAttempts |-> NoScope]
    /\ asOf = [a \in WorkAttempts |-> 0]
    /\ wcost = [a \in WorkAttempts |-> [reserved |-> 0, settled |-> 0]]
    /\ bindings = {} /\ denial = [a \in WorkAttempts |-> {}]

requestVars == <<wreq, wref, asOf, wcost, bindings, denial>>

(***************************************************************************)
(* The control plane.                                                      *)
(***************************************************************************)

ScopeExists(ref) == ref[2] \in DOMAIN wscope[ref[1]]

\* A version supersedes the one before; its parent's version is one that exists.
PublishScope(text) ==
    /\ Len(wscope[text.scope]) < MaxScopeWrites
    /\ text.parent # NoScope => /\ ScopeExists(text.parent)
                                /\ KindOf[text.parent[1]] < KindOf[text.scope]
    /\ wscope' = [wscope EXCEPT ![text.scope] = Append(@, text)]
    /\ UNCHANGED <<wclock, plans, acts, requestVars>>

\* Of what a row must be to be read, only the window matters here.
PlanIsValid(text) == text.from < text.to

\* The same content is never stored twice for a plan.
CorrectPlan(p, text) ==
    /\ PlanIsValid(text)
    /\ Len(plans[p]) < MaxPlanWrites
    /\ ScopeExists(<<text.scope, text.ver>>)
    /\ \A i \in DOMAIN plans[p] : plans[p][i] # text
    /\ plans' = [plans EXCEPT ![p] = Append(@, text)]
    /\ UNCHANGED <<wclock, wscope, acts, requestVars>>

\* An activation follows the one before and moves the pointer, inside the window.
ActivationFollows(p, v) == acts[p] # <<>> => acts[p][Len(acts[p])].ver # v

ActivatePlan(p, v) ==
    /\ Len(acts[p]) < MaxPlanWrites
    /\ ActivationFollows(p, v)
    /\ plans[p][v].from <= wclock /\ wclock < plans[p][v].to
    /\ acts' = [acts EXCEPT ![p] = Append(@, [ver |-> v, at |-> wclock])]
    /\ UNCHANGED <<wclock, wscope, plans, requestVars>>

(***************************************************************************)
(* What the transaction of a request reads.                                *)
(***************************************************************************)

ScopeParent(ref) == wscope[ref[1]][ref[2]].parent
ScopeIsCurrent(ref) == ref[2] = Len(wscope[ref[1]]) /\ wscope[ref[1]][ref[2]].active

\* A use case and what is above it; none of the kinds comes twice.
ScopeChain(ref) ==
    IF ref = NoScope THEN {}
    ELSE LET up == ScopeParent(ref)
             top == IF up = NoScope THEN NoScope ELSE ScopeParent(up)
         IN  {ref, up, top} \ {NoScope}

ChainHolds(ref) == KindOf[ref[1]] = 2 /\ \A r \in ScopeChain(ref) : ScopeIsCurrent(r)

PlanPointer(p) == acts[p][Len(acts[p])]
PlanInForce(p) == plans[p][PlanPointer(p).ver]
ActivatedPlans == {p \in BudgetPlans : acts[p] # <<>>}
RefsOf(ps) == {<<p, PlanPointer(p).ver>> : p \in ps}

\* An activation from after the time that was read is no evidence to judge by.
UnreadablePlans(t) == {p \in ActivatedPlans : PlanPointer(p).at > t}

EffectivePlans(t) ==
    {p \in ActivatedPlans : /\ PlanInForce(p).from <= t /\ PlanPointer(p).at <= t
                       /\ t < PlanInForce(p).to}

PlansFor(t, ref) ==
    {p \in EffectivePlans(t) : <<PlanInForce(p).scope, PlanInForce(p).ver>> \in ScopeChain(ref)}

\* What is open counts as its estimate, what is settled as its cost.
BoundCost ==
    [b \in bindings |-> IF wreq[b.attempt] \in OpenWork THEN wcost[b.attempt].reserved
                        ELSE wcost[b.attempt].settled]

\* Mistake: the reservations of the version in force are counted, no earlier ones.
BudgetConsumed_OfVersion(p) ==
    SumFunctionOnSet(BoundCost, {b \in bindings : b.plan = p /\ b.gen = Len(acts[p])})

\* What a plan's window holds.
BudgetConsumed(p) ==
    SumFunctionOnSet(BoundCost, {b \in bindings : /\ b.plan = p
                                                  /\ b.from = PlanInForce(p).from /\ b.to = PlanInForce(p).to})

\* A plan refuses what exceeds its request cap or what is left of its amount.
PlanRefuses(p, cost) ==
    cost > PlanInForce(p).cap \/ BudgetConsumed(p) + cost > PlanInForce(p).amount

(***************************************************************************)
(* Requests.                                                               *)
(***************************************************************************)

\* The attribution of a request is a configured reference, which may be stale, or
\* none.  It reads the time and then waits for its transaction.
Attribute(a, ref) ==
    /\ wreq[a] = "new"
    /\ ref # NoScope => ScopeExists(ref)
    /\ wreq' = [wreq EXCEPT ![a] = "waits"]
    /\ wref' = [wref EXCEPT ![a] = ref]
    /\ asOf' = [asOf EXCEPT ![a] = wclock]
    /\ UNCHANGED <<wclock, wscope, plans, acts, wcost, bindings, denial>>

\* Mistake: the plans that were in force when the request came are bound, as if
\* nothing could be activated while it waits.
PreparedWork_Later(a) ==
    IF wref[a] = NoScope THEN EffectivePlans(asOf[a]) = {} ELSE ChainHolds(wref[a])

\* prepare_work_budget lets the request go on to the ceilings.
PreparedWork(a) ==
    /\ UnreadablePlans(asOf[a]) = {}
    /\ IF wref[a] = NoScope THEN EffectivePlans(asOf[a]) = {} ELSE ChainHolds(wref[a])

\* begin_request_attempt: attempt, attribution and bindings commit together.
BeginWorkAttempt(a, cost) ==
    LET t == asOf[a] IN
    /\ wreq[a] = "waits"
    /\ PreparedWork(a)
    /\ \A p \in PlansFor(t, wref[a]) : ~PlanRefuses(p, cost)
    /\ wreq' = [wreq EXCEPT ![a] = "pending"]
    /\ wcost' = [wcost EXCEPT ![a].reserved = cost]
    /\ bindings' = bindings \cup
          {[attempt |-> a, plan |-> p, gen |-> Len(acts[p]),
            from |-> PlanInForce(p).from, to |-> PlanInForce(p).to] : p \in PlansFor(t, wref[a])}
    /\ UNCHANGED <<wclock, wscope, plans, acts, wref, asOf, denial>>

\* Everything is rolled back, and the denial leaves the transaction with the plans
\* it names: the unreadable one, all in force, or the first of those that refuse.
DenyWorkAttempt(a, cost) ==
    LET t == asOf[a]
        refusing == {p \in PlansFor(t, wref[a]) : PlanRefuses(p, cost)}
    IN
    /\ wreq[a] = "waits"
    /\ wreq' = [wreq EXCEPT ![a] = "denied"]
    /\ \/ \E p \in UnreadablePlans(t) : denial' = [denial EXCEPT ![a] = RefsOf({p})]
       \/ /\ UnreadablePlans(t) = {} /\ ~PreparedWork(a) /\ EffectivePlans(t) # {}
          /\ denial' = [denial EXCEPT ![a] = RefsOf(EffectivePlans(t))]
       \/ /\ PreparedWork(a)
          /\ \E p \in refusing :
                /\ \A q \in refusing : KindOf[PlanInForce(p).scope] <= KindOf[PlanInForce(q).scope]
                /\ denial' = [denial EXCEPT ![a] = RefsOf({p})]
    /\ UNCHANGED <<wclock, wscope, plans, acts, wref, asOf, wcost, bindings>>

\* A stale reference where no plan is in force is an error of the client's.
RejectWorkAttempt(a) ==
    /\ wreq[a] = "waits"
    /\ UnreadablePlans(asOf[a]) = {} /\ ~PreparedWork(a) /\ EffectivePlans(asOf[a]) = {}
    /\ wreq' = [wreq EXCEPT ![a] = "refused"]
    /\ UNCHANGED <<wclock, wscope, plans, acts, wref, asOf, wcost, bindings, denial>>

\* A transaction of its own records the denial; if it fails the client is told of
\* an unavailable store.
RecordDenial(a) ==
    /\ wreq[a] = "denied"
    /\ wreq' = [wreq EXCEPT ![a] = "refused"]
    /\ denial' \in {denial, [denial EXCEPT ![a] = {}]}
    /\ UNCHANGED <<wclock, wscope, plans, acts, wref, asOf, wcost, bindings>>

\* The ledger settles an attempt, or gives it up and keeps its estimate.
SettleWorkAttempt(a, state, cost) ==
    /\ wreq[a] = "pending"
    /\ wreq' = [wreq EXCEPT ![a] = state]
    /\ wcost' = [wcost EXCEPT ![a].settled = IF state = "unknown" THEN 0 ELSE cost]
    /\ UNCHANGED <<wclock, wscope, plans, acts, wref, asOf, bindings, denial>>

AdvanceClock ==
    /\ wclock < MaxClock
    /\ wclock' = wclock + 1
    /\ UNCHANGED <<wscope, plans, acts, requestVars>>

WorkBudgetsNext ==
    \/ AdvanceClock
    \/ \E text \in ScopeTexts : PublishScope(text)
    \/ \E p \in BudgetPlans :
          \/ \E text \in PlanTexts : CorrectPlan(p, text)
          \/ \E v \in DOMAIN plans[p] : ActivatePlan(p, v)
    \/ \E a \in WorkAttempts :
          \/ \E ref \in WorkRefs \cup {NoScope} : Attribute(a, ref)
          \/ \E cost \in WorkEstimates : BeginWorkAttempt(a, cost) \/ DenyWorkAttempt(a, cost)
          \/ \E cost \in WorkCharges, state \in SettledWork \cup {"unknown"} :
                SettleWorkAttempt(a, state, cost)
          \/ RejectWorkAttempt(a) \/ RecordDenial(a)

WorkBudgetsSpec == WorkBudgetsInit /\ [][WorkBudgetsNext]_budgetVars

(***************************************************************************)
(* What the budgets promise.                                               *)
(***************************************************************************)

\* What the attempts bound to a window may come to, as far as none is known to
\* have cost less than its estimate.
BoundExposure ==
    [b \in bindings |-> IF wreq[b.attempt] \in OpenWork THEN wcost[b.attempt].reserved
                        ELSE Min({wcost[b.attempt].reserved, wcost[b.attempt].settled})]

WindowExposure(p, from, to) ==
    SumFunctionOnSet(BoundExposure, {b \in bindings : b.plan = p /\ b.from = from /\ b.to = to})

\* However versions of a plan are corrected, activated and reactivated while
\* attempts are open and settle, a window never admits more than the largest
\* amount that was in force for it.
WindowsAreKept ==
    \A p \in BudgetPlans, b \in bindings :
        b.plan = p =>
            WindowExposure(p, b.from, b.to) <=
                Max({plans[p][acts[p][i].ver].amount : i \in
                        {i \in DOMAIN acts[p] : LET text == plans[p][acts[p][i].ver]
                                                IN  text.from = b.from /\ text.to = b.to}})

\* The stored rows alone explain every admission: an attempt is bound to a plan if
\* the activation in force at its time was for a scope above it, and to no other,
\* also when another activation was committed while it waited for the lock.
BindingsAreComplete ==
    \A a \in WorkAttempts, p \in BudgetPlans :
        wreq[a] \in OpenWork \cup SettledWork =>
            LET before == {i \in DOMAIN acts[p] : acts[p][i].at < asOf[a]}
                text   == plans[p][acts[p][Max(before)].ver]
                bound  == {b \in bindings : b.attempt = a /\ b.plan = p}
            IN  /\ Cardinality(bound) <= 1
                /\ \A b \in bound : acts[p][b.gen].at <= asOf[a]
                /\ before # {} /\ (\A i \in DOMAIN acts[p] : acts[p][i].at # asOf[a])
                   /\ text.from <= asOf[a] /\ asOf[a] < text.to
                      => (bound # {} <=> <<text.scope, text.ver>> \in ScopeChain(wref[a]))

\* What is prepared and bound stays sound: no window admits more than was in force for it, and the stored
\* rows explain every admission (budget_runtime.py).
WorkBudgetsAreSound == WindowsAreKept /\ BindingsAreComplete

================================================================================
