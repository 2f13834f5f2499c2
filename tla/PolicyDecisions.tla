------------------------------ MODULE PolicyDecisions ------------------------------
(***************************************************************************)
(* How the policies of an organization, a team and an employee become one  *)
(* decision about a request (hormuz/policy.py PolicyEngine,                *)
(* policy_document.py, config.py Policy): which model it may use, with how *)
(* many output tokens, and against which limits its cost is reserved.      *)
(* Requests are evaluated before they reserve, several at a time.          *)
(*                                                                         *)
(* One organization and one team.  Tokens and cost are limited in the same *)
(* way: a limit is on the cost, and the one for each employee is too.      *)
(***************************************************************************)
EXTENDS Naturals, FiniteSetsExt, Functions

CONSTANTS
    Employees,
    PolicyRequests,
    PolicyDocuments,    \* [organization, team, actors, modelLimits]
    PolicyRoutes,       \* alias -> [protocol, failover, destination]
    PolicyAsks,         \* what is asked: [client, protocol, model]
    PolicyHolds,        \* alias -> what a request of it reserves, at its price
    NotSet              \* an absent policy, limit, list or alias

PoliciesOf(d) == ({d.organization, d.team} \cup {d.actors[e] : e \in Employees}) \ {NotSet}
PolicyLists ==
    (UNION {UNION {{policy.clients, policy.models} : policy \in PoliciesOf(d)} : d \in PolicyDocuments})
    \ {NotSet}

\* A limit is a number, a list a set of names, and a failover names a route.
ASSUME PolicyAssumption ==
    /\ IsFiniteSet(Employees) /\ IsFiniteSet(PolicyRequests)
    /\ PolicyHolds \in [DOMAIN PolicyRoutes -> Nat]
    /\ NotSet \notin Nat /\ NotSet \notin DOMAIN PolicyRoutes
    /\ \A list \in SUBSET UNION PolicyLists : NotSet # list
    /\ \A alias \in DOMAIN PolicyRoutes : PolicyRoutes[alias].failover \in DOMAIN PolicyRoutes \cup {NotSet}
    /\ \A d \in PolicyDocuments :
          /\ d.organization # NotSet
          /\ d.modelLimits \in [DOMAIN PolicyRoutes -> Nat \cup {NotSet}]
          /\ \A policy \in PoliciesOf(d) : {policy.output, policy.budget, policy.perActor} \subseteq Nat \cup {NotSet}

VARIABLES
    document,   \* the policy in force: it is read once
    requests,   \* each request: where it stands, whose it is, what it asks and its decision
    spent       \* what each employee has been charged this month

policyVars == <<document, requests, spent>>

PolicyLevels(d, e) == {d.organization, d.team, d.actors[e]} \ {NotSet}

-----------------------------------------------------------------------------
\* Mistake: the narrower list takes the place of the wider one.
Intersection_Narrower(left, right) == IF right = NotSet THEN left ELSE right

Intersection(left, right) ==
    IF left = NotSet THEN right ELSE IF right = NotSet THEN left ELSE left \cap right

Minimum(left, right) ==
    IF left = NotSet THEN right ELSE IF right = NotSet THEN left ELSE Min({left, right})

FirstSet(left, right) == IF left # NotSet THEN left ELSE right

\* A narrower scope can restrict, and choose its own fallback; it cannot grant.
Overlaid(policy, other) ==
    IF other = NotSet THEN policy
    ELSE [clients |-> Intersection(policy.clients, other.clients),
          models |-> Intersection(policy.models, other.models),
          fallback |-> FirstSet(other.fallback, policy.fallback),
          fallbacks |-> [p \in DOMAIN policy.fallbacks |-> FirstSet(other.fallbacks[p], policy.fallbacks[p])],
          output |-> Minimum(policy.output, other.output),
          budget |-> Minimum(policy.budget, other.budget),
          perActor |-> Minimum(policy.perActor, other.perActor)]

Effective(d, e) == Overlaid(Overlaid(d.organization, d.team), d.actors[e])

\* What a document must satisfy to be used: its aliases have routes of their protocol, and an
\* employee with a limit has an output limit.
IsValid(d) ==
    /\ \A policy \in PoliciesOf(d) :
          /\ policy.models = NotSet \/ policy.models \subseteq DOMAIN PolicyRoutes
          /\ policy.fallback \in DOMAIN PolicyRoutes \cup {NotSet}
          /\ \A p \in DOMAIN policy.fallbacks : policy.fallbacks[p] # NotSet =>
                policy.fallbacks[p] \in DOMAIN PolicyRoutes /\ PolicyRoutes[policy.fallbacks[p]].protocol = p
    /\ \A e \in Employees :
          (\E policy \in PolicyLevels(d, e) : policy.budget # NotSet \/ policy.perActor # NotSet)
          => Effective(d, e).output # NotSet

-----------------------------------------------------------------------------
SpentBy(employees) == SumFunctionOnSet(spent, employees)

Reached(limit, total) == limit # NotSet /\ total >= limit

\* The limits that are reached already, each scope's own and every level's for the employee.
LimitReached(e) ==
    \/ Reached(document.organization.budget, SpentBy(Employees))
    \/ document.team # NotSet /\ Reached(document.team.budget, SpentBy(Employees))
    \/ document.actors[e] # NotSet /\ Reached(document.actors[e].budget, spent[e])
    \/ \E policy \in PolicyLevels(document, e) : Reached(policy.perActor, spent[e])

Allows(list, value) == list = NotSet \/ value \in list

Serves(alias, protocol) == alias \in DOMAIN PolicyRoutes /\ PolicyRoutes[alias].protocol = protocol

\* The model asked for, or the fallback of the protocol, or the fallback, if it may be used.
ResolvedAlias(policy, ask) ==
    LET fallback == FirstSet(policy.fallbacks[ask.protocol], policy.fallback)
    IN  CASE Serves(ask.model, ask.protocol) /\ Allows(policy.models, ask.model) -> ask.model
          [] Serves(fallback, ask.protocol) /\ Allows(policy.models, fallback) -> fallback
          [] OTHER -> NotSet

Decision(alias, output) == [alias |-> alias, output |-> output]
Denied == Decision(NotSet, NotSet)

Evaluated(e, ask) ==
    LET policy == Effective(document, e)
        alias == ResolvedAlias(policy, ask)
    IN  IF ~Allows(policy.clients, ask.client) \/ LimitReached(e) \/ alias = NotSet THEN Denied
        ELSE Decision(alias, Minimum(policy.output, document.modelLimits[alias]))

\* The one alternate a route names, when the employee may use it, with the lower of both limits.
OperationalFailover(e, decision) ==
    LET route == PolicyRoutes[decision.alias]
        alternate == route.failover
    IN  IF \/ alternate = NotSet
           \/ PolicyRoutes[alternate].protocol # route.protocol
           \/ PolicyRoutes[alternate].destination # route.destination
           \/ ~Allows(Effective(document, e).models, alternate)
        THEN Denied
        ELSE Decision(alternate, Minimum(decision.output, document.modelLimits[alternate]))

-----------------------------------------------------------------------------
\* Mistake: only the employee's own policy limits the employee.
ActorLimit_Own(e) == IF document.actors[e] = NotSet THEN NotSet
                     ELSE Minimum(document.actors[e].perActor, document.actors[e].budget)

\* The least of what any level sets for each employee and of what the employee's own policy sets.
ActorLimit(e) ==
    LET limits == ({policy.perActor : policy \in PolicyLevels(document, e)}
                   \cup {policy.budget : policy \in {document.actors[e]} \ {NotSet}}) \ {NotSet}
    IN  IF limits = {} THEN NotSet ELSE Min(limits)

InHold == {"reserved", "failed over"}
Hold(request, employees) ==
    IF request.at \in InHold /\ request.by \in employees THEN PolicyHolds[request.decision.alias] ELSE 0
HeldBy(employees) == SumFunctionOnSet([r \in PolicyRequests |-> Hold(requests[r], employees)], PolicyRequests)

\* The scopes of a reservation, each with the employees it counts and its limit.
BudgetScopes(e) ==
    {[of |-> Employees, limit |-> document.organization.budget]}
    \cup {[of |-> Employees, limit |-> policy.budget] : policy \in {document.team} \ {NotSet}}
    \cup {[of |-> {e}, limit |-> ActorLimit(e)]}

FitsScope(scope, hold) ==
    scope.limit = NotSet \/ SpentBy(scope.of) + HeldBy(scope.of) + hold <= scope.limit

Fits(r) == \A scope \in BudgetScopes(requests[r].by) : FitsScope(scope, PolicyHolds[requests[r].decision.alias])

-----------------------------------------------------------------------------
UsableDocuments == {d \in PolicyDocuments : IsValid(d)}

PolicyInit ==
    /\ document \in UsableDocuments
    /\ requests = [r \in PolicyRequests |-> [at |-> "new", by |-> NotSet, ask |-> NotSet, decision |-> Denied]]
    /\ spent = [e \in Employees |-> 0]

Evaluate(r, e, ask) ==
    LET decision == Evaluated(e, ask)
    IN  /\ requests[r].at = "new"
        /\ requests' = [requests EXCEPT ![r] =
              [at |-> IF decision = Denied THEN "ended" ELSE "decided", by |-> e, ask |-> ask, decision |-> decision]]
        /\ UNCHANGED <<document, spent>>

\* All scopes are checked, and the hold is made, by one transaction.
BeginAttempt(r) ==
    /\ requests[r].at = "decided"
    /\ requests' = [requests EXCEPT ![r].at = IF Fits(r) THEN "reserved" ELSE "ended"]
    /\ UNCHANGED <<document, spent>>

\* The provider refuses for want of capacity: the attempt is settled at no cost, which gives its
\* hold back, and the alternate that was chosen when it began is to be tried.
FailOver(r) ==
    LET alternate == OperationalFailover(requests[r].by, requests[r].decision)
    IN  /\ requests[r].at = "reserved" /\ alternate # Denied
        /\ requests' = [requests EXCEPT ![r].at = "released", ![r].decision = alternate]
        /\ UNCHANGED <<document, spent>>

\* Mistake: the alternate takes over the hold that was given back.
BeginAlternate_TakeOver(r) ==
    /\ requests[r].at = "released"
    /\ requests' = [requests EXCEPT ![r].at = "failed over"]
    /\ UNCHANGED <<document, spent>>

\* A second reservation, at the alternate's price: others may have reserved in between, and all
\* scopes are checked again.  The reached limits (LimitReached) and the policy are not.
BeginAlternate(r) ==
    /\ requests[r].at = "released"
    /\ requests' = [requests EXCEPT ![r].at = IF Fits(r) THEN "failed over" ELSE "ended"]
    /\ UNCHANGED <<document, spent>>

SettleRequest(r, charge) ==
    /\ requests[r].at \in InHold /\ charge \in {0, PolicyHolds[requests[r].decision.alias]}
    /\ requests' = [requests EXCEPT ![r].at = "ended"]
    /\ spent' = [spent EXCEPT ![requests[r].by] = @ + charge]
    /\ UNCHANGED document

PolicyNext ==
    \E r \in PolicyRequests :
        \/ \E e \in Employees : \E ask \in PolicyAsks : Evaluate(r, e, ask)
        \/ BeginAttempt(r) \/ FailOver(r) \/ BeginAlternate(r)
        \/ \E charge \in {0} \cup Range(PolicyHolds) : SettleRequest(r, charge)

PolicySpec == PolicyInit /\ [][PolicyNext]_policyVars

-----------------------------------------------------------------------------
\* The types of the variables.
PolicyTypeOK ==
    /\ document \in PolicyDocuments
    /\ \A r \in PolicyRequests :
          /\ requests[r].at \in {"new", "decided", "reserved", "released", "failed over", "ended"}
          /\ requests[r].by \in Employees \cup {NotSet} /\ requests[r].ask \in PolicyAsks \cup {NotSet}
          /\ requests[r].decision.alias \in DOMAIN PolicyRoutes \cup {NotSet}
    /\ spent \in [Employees -> Nat]

\* What is decided, at first, by fallback or by failover, every level allows: the client, the
\* model, and an output limit no higher than any of theirs or the model's (Policy.overlaid: a
\* narrower scope "cannot grant a client/model the organization did not allow").
EveryLevelAllows ==
    \A r \in PolicyRequests :
        LET request == requests[r]
        IN  request.decision # Denied =>
            /\ Serves(request.decision.alias, request.ask.protocol)
            /\ \A policy \in PolicyLevels(document, request.by) :
                  /\ Allows(policy.clients, request.ask.client)
                  /\ Allows(policy.models, request.decision.alias)
                  /\ policy.output # NotSet => request.decision.output # NotSet /\ request.decision.output <= policy.output
            /\ LET limit == document.modelLimits[request.decision.alias]
               IN  limit # NotSet => request.decision.output # NotSet /\ request.decision.output <= limit

\* Requests that were evaluated together never spend and hold together more than any level's
\* limit for the organization, the team or one of its employees, also when others reserve what a
\* failover has given back before its alternate, which may be dearer, reserves: what _check_limits
\* reads before the first reservation, budget_scopes limits within each.
EveryLimitIsReserved ==
    \A e \in Employees :
        /\ \A policy \in {document.organization, document.team} \ {NotSet} :
              policy.budget # NotSet => SpentBy(Employees) + HeldBy(Employees) <= policy.budget
        /\ document.actors[e] # NotSet /\ document.actors[e].budget # NotSet
              => spent[e] + HeldBy({e}) <= document.actors[e].budget
        /\ \A policy \in PolicyLevels(document, e) :
              policy.perActor # NotSet => spent[e] + HeldBy({e}) <= policy.perActor

\* A decision is one that every level allows, and its request is held against every limit that applies.
PolicyIsSound == EveryLevelAllows /\ EveryLimitIsReserved

====
