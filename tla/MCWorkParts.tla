---------------------------- MODULE MCWorkParts ----------------------------
(***************************************************************************)
(* Four parts of the work runtime that share no state in these models:     *)
(* the route a job stays on (one job, two models, two contexts, no plans), *)
(* the choice of a route, the budgets of work scopes, and the receipts.    *)
(* Each is explored alone, while the others stand still in their           *)
(* initial states, so that the states add up and do not multiply.          *)
(***************************************************************************)
EXTENDS WorkLedger, WorkRoutes, WorkBudgets, WorkReceipts, TLC

CONSTANTS repo, w1, q1, q2, m1, m2, c1, c2

CONSTANT Parts \* the parts that are explored

VARIABLE part  \* the one that is

MCRepoOf == [j \in Jobs |-> repo]

\* Work budgets: a portfolio and a use case below it, plans of 2 and 3 over 3 ticks.
MCKindOf == "pf" :> 0 @@ "uc" :> 2
MCScopeTexts == {[scope |-> "pf", parent |-> NoScope, active |-> TRUE],
                 [scope |-> "uc", parent |-> <<"pf", 1>>, active |-> TRUE]}
PlanText(scope, to, amount) ==
    [scope |-> scope, ver |-> 1, from |-> 1, to |-> to, amount |-> amount, cap |-> amount]
MCPlanTexts == {PlanText("pf", 3, 3), PlanText("uc", 4, 2), PlanText("uc", 3, 2)}

\* Work routes: a dear and fast route, a cheap and slow one, and a budget of 4.
MCQuoteOf == "base" :> 2 @@ "alt" :> 1
MCLatencyOf == "base" :> 1 @@ "alt" :> 2
MCRoutePlans == {[budget |-> 4, objective |-> "cost", explore |-> TRUE]}
MCTryOutcomes == {[state |-> "succeeded", timed |-> TRUE], [state |-> "unknown", timed |-> FALSE]}

\* Work receipts: two jobs of two repositories.
MCRepositoryOf == "jA" :> "jA" @@ "jB" :> "jB"

AnyRequestModelContext == Permutations(Requests) \cup Permutations(Models) \cup Permutations(Contexts)

\* The variables of the parts, in groups, so that each step can name the rest.
Routing   == <<vars, routeVars>>
Accounting == <<budgetVars, receiptVars>>

PartsInit ==
    /\ part \in Parts
    /\ Init
    /\ RoutesInit
    /\ WorkBudgetsInit
    /\ ReceiptInit

PartsNext ==
    /\ UNCHANGED part
    /\ \/ part = "affinity" /\ Next
          /\ UNCHANGED <<routeVars, Accounting>>
       \/ part = "routes" /\ RoutesNext
          /\ UNCHANGED <<vars, Accounting>>
       \/ part = "budgets" /\ WorkBudgetsNext
          /\ UNCHANGED <<receiptVars, Routing>>
       \/ part = "receipts" /\ ReceiptNext
          /\ UNCHANGED <<budgetVars, Routing>>

PartsVars == <<part, Routing, Accounting>>

PartsSpec == PartsInit /\ [][PartsNext]_PartsVars

\* What the part that is explored stores, counts and remembers has its type.
PartsTypeOK ==
    CASE part = "affinity" -> TypeOK
      [] part = "routes" -> RoutesTypeOK
      [] part = "budgets" -> WorkBudgetsTypeOK
      [] part = "receipts" -> ReceiptTypeOK

===============================================================================
