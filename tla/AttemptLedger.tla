---------------------------- MODULE AttemptLedger ----------------------------
(***************************************************************************)
(* The durable ledger of provider attempts and budget holds of one         *)
(* organization (hormuz/store.py, hormuz/_persistence.py).  Every action   *)
(* is one BEGIN IMMEDIATE transaction; a transaction that raises is rolled *)
(* back whole, the sweep it began with included, and is no step.           *)
(*                                                                         *)
(* An attempt is known by its latest event.  A reservation row either      *)
(* belongs to an attempt or stands alone; the two kinds count and lapse    *)
(* by different rules.                                                     *)
(***************************************************************************)
EXTENDS Naturals, Functions

CONSTANTS
    Attempts,   \* attempt ids (also the ids of their reservation rows)
    Plain,      \* ids of reservation rows that stand alone
    Actors, Scopes,
    Members,    \* the actors whose usage and holds a scope adds up
    Limit,      \* monthly cost limit of each scope
    Costs,      \* reservation amounts
    Charges,    \* settled costs, zero among them
    MaxMonth,   \* bound: months that pass
    None        \* no predecessor

Ids == Attempts \cup Plain

ASSUME IdsAssumption == Attempts \cap Plain = {} /\ None \notin Ids
ASSUME AmountsAssumption == Costs \subseteq Nat /\ Charges \subseteq Nat /\ 0 \in Charges
ASSUME ScopesAssumption == Members \in [Scopes -> SUBSET Actors] /\ Limit \in [Scopes -> Nat]
ASSUME MonthAssumption == MaxMonth \in Nat \ {0}

VARIABLES
    event,    \* latest event of an attempt; "row" once a plain row was inserted
    root,     \* what was recorded when the row was inserted
    hold,     \* gateway_budget_reservations
    expired,  \* rows whose expires_at has passed
    usage,    \* the usage event of a settled attempt
    month     \* the current month

ledger == <<event, root, hold, expired, usage, month>>

Settled == {"succeeded", "failed", "rate_limited"}
States  == {"none", "row", "pending", "outcome_unknown"} \cup Settled
Roots   == [who : Actors, cost : Costs, pred : Attempts \cup {None}]

ASSUME NoneAssumption == None \notin Roots

LedgerTypeOK ==
    /\ event \in [Ids -> States]
    /\ root \in [Ids -> Roots \cup {None}]
    /\ hold \subseteq Ids
    /\ expired \subseteq hold
    /\ usage \in [Attempts -> [cost : Charges, month : 0 .. MaxMonth]]
    /\ month \in 1 .. MaxMonth

LedgerInit ==
    /\ event = [i \in Ids |-> "none"]
    /\ root = [i \in Ids |-> None]
    /\ hold = {}
    /\ expired = {}
    /\ usage = [a \in Attempts |-> [cost |-> 0, month |-> 0]]
    /\ month = 1

(***************************************************************************)
(* Adding up a scope.                                                      *)
(***************************************************************************)

\* A row that stands alone counts until it expires; a row of an attempt counts
\* for as long as the attempt has no known outcome.
Active(i) ==
    /\ i \in hold
    /\ IF i \in Plain THEN i \notin expired ELSE event[i] \in {"pending", "outcome_unknown"}

Of(s, ids) == {i \in ids : root[i] # None /\ root[i].who \in Members[s]}

Reserved(s) ==
    SumFunctionOnSet([i \in Ids |-> root[i].cost], {i \in Of(s, hold) : Active(i)})

UsedThisMonth(s) ==
    SumFunctionOnSet([a \in Attempts |-> usage[a].cost],
                     {a \in Of(s, Attempts) : usage[a].month = month})

Fits(who, cost) ==
    \A s \in Scopes : who \in Members[s] => UsedThisMonth(s) + Reserved(s) + cost <= Limit[s]

(***************************************************************************)
(* The parts every opening transaction shares.                             *)
(***************************************************************************)

\* Expired pending attempts become unknown and keep their holds.
Swept == [i \in Ids |-> IF i \in Attempts \cap expired /\ event[i] = "pending"
                        THEN "outcome_unknown" ELSE event[i]]

\* Mistake: expired rows are filtered and never deleted.
Purged_Nothing == {}

\* Mistake: deletes every expired row, as one rule for both kinds.
Purged_Expired == expired

\* Expired rows that stand alone are deleted before anything is added up.
Purged == Plain \cap expired

Insert(i, state, r) ==
    /\ event[i] = "none"
    /\ Fits(r.who, r.cost)
    /\ event' = [Swept EXCEPT ![i] = state]
    /\ root' = [root EXCEPT ![i] = r]
    /\ hold' = (hold \ Purged) \cup {i}
    /\ expired' = expired \ Purged
    /\ UNCHANGED <<usage, month>>

(***************************************************************************)
(* The transactions.                                                       *)
(***************************************************************************)

\* Mistake: a failover does not look at its predecessor.
PredecessorSettled_Unchecked(pred, status) == TRUE

\* A failover names the attempt it replaces: a 429 must have left it
\* rate_limited, a 529 failed.
PredecessorSettled(pred, status) ==
    pred # None => event[pred] = IF status = 429 THEN "rate_limited" ELSE "failed"

BeginAttempt(a, who, cost, pred, status) ==
    /\ a \in Attempts
    /\ PredecessorSettled(pred, status)
    /\ Insert(a, "pending", [who |-> who, cost |-> cost, pred |-> pred])

ReserveBudget(p, who, cost) ==
    /\ p \in Plain
    /\ Insert(p, "row", [who |-> who, cost |-> cost, pred |-> None])

\* Mistake: settles whatever the latest event is.
Finalize_Any(a, state, cost) ==
    /\ a \in hold
    /\ event' = [event EXCEPT ![a] = state]
    /\ usage' = [usage EXCEPT ![a] = [cost |-> cost, month |-> month]]
    /\ hold' = hold \ {a}
    /\ expired' = expired \ {a}
    /\ UNCHANGED <<root, month>>

\* The usage event, the terminal event and the deletion of the hold commit
\* together, and only while the attempt is pending.
Finalize(a, state, cost) ==
    /\ event[a] = "pending"
    /\ a \in hold
    /\ event' = [event EXCEPT ![a] = state]
    /\ usage' = [usage EXCEPT ![a] = [cost |-> cost, month |-> month]]
    /\ hold' = hold \ {a}
    /\ expired' = expired \ {a}
    /\ UNCHANGED <<root, month>>

\* Mistake: skips only attempts that are unknown already.
MarkUnknown_Settled(a) ==
    /\ event[a] \notin {"none", "outcome_unknown"}
    /\ event' = [event EXCEPT ![a] = "outcome_unknown"]
    /\ UNCHANGED <<root, hold, expired, usage, month>>

\* The hold is not touched.  A second mark answers False; a mark of a settled
\* attempt raises.
MarkUnknown(a) ==
    /\ event[a] = "pending"
    /\ event' = [event EXCEPT ![a] = "outcome_unknown"]
    /\ UNCHANGED <<root, hold, expired, usage, month>>

Sweep ==
    /\ event' = Swept
    /\ UNCHANGED <<root, hold, expired, usage, month>>

\* Mistake: releases any row by its id.
Release_Any(i) ==
    /\ i \in hold
    /\ hold' = hold \ {i}
    /\ expired' = expired \ {i}
    /\ UNCHANGED <<event, root, usage, month>>

\* Only rows that stand alone can be released.
Release(i) ==
    /\ i \in hold \cap Plain
    /\ hold' = hold \ {i}
    /\ expired' = expired \ {i}
    /\ UNCHANGED <<event, root, usage, month>>

\* Whatever is left of the time to live, it starts again.
Refresh(i) ==
    /\ i \in hold
    /\ expired' = expired \ {i}
    /\ UNCHANGED <<event, root, hold, usage, month>>

\* Time passes.
Expire(i) ==
    /\ i \in hold \ expired
    /\ expired' = expired \cup {i}
    /\ UNCHANGED <<event, root, hold, usage, month>>

NewMonth ==
    /\ month < MaxMonth
    /\ month' = month + 1
    /\ UNCHANGED <<event, root, hold, expired, usage>>

LedgerNext ==
    \/ \E a \in Attempts, who \in Actors, cost \in Costs, pred \in Attempts \cup {None},
          status \in {429, 529} : BeginAttempt(a, who, cost, pred, status)
    \/ \E p \in Plain, who \in Actors, cost \in Costs : ReserveBudget(p, who, cost)
    \/ \E a \in Attempts, state \in Settled, cost \in Charges : Finalize(a, state, cost)
    \/ \E a \in Attempts : MarkUnknown(a)
    \/ Sweep
    \/ \E i \in Ids : Release(i) \/ Refresh(i) \/ Expire(i)
    \/ NewMonth

LedgerSpec == LedgerInit /\ [][LedgerNext]_ledger

(***************************************************************************)
(* What the ledger promises.                                               *)
(***************************************************************************)

\* An attempt has its reservation row exactly while its outcome is open: a
\* settled attempt leaves no hold behind, and no path (finalize, sweep, purge,
\* release) drops the hold of a pending or an unknown one.
HoldIffOpen ==
    \A a \in Attempts : a \in hold <=> event[a] \in {"pending", "outcome_unknown"}

\* What a scope has committed never exceeds its limit: the month's usage, as far
\* as it was reserved, and every active hold, across settlements in another
\* order, lapsed and refreshed rows and the change of month.
Least(x, y) == IF x < y THEN x ELSE y

WithinLimits ==
    \A s \in Scopes :
        SumFunctionOnSet([a \in Attempts |-> Least(usage[a].cost, root[a].cost)],
                         {a \in Of(s, Attempts) : usage[a].month = month})
          + Reserved(s) <= Limit[s]

\* A failover attempt exists only after the attempt it replaces was settled, and
\* that settlement stands.
FailoverAfterSettled ==
    \A a \in Attempts : root[a] # None /\ root[a].pred # None =>
        event[root[a].pred] \in {"rate_limited", "failed"}

\* An outcome is recorded once: no later call, sweep or retry changes a
\* terminal state or the usage event that came with it.
OutcomeIsFinal ==
    [][\A a \in Attempts : event[a] \in Settled \cup {"outcome_unknown"} =>
           event'[a] = event[a] /\ usage'[a] = usage[a]]_ledger

stageOf == [a \in Attempts |->
                IF event[a] = "none" THEN "unopened"
                ELSE IF event[a] = "pending" THEN "held"
                ELSE IF event[a] = "outcome_unknown" THEN "withheld" ELSE "settled"]
paidOf == [a \in Attempts |-> usage[a].cost]

Holds == INSTANCE BudgetHolds WITH stage <- stageOf, paid <- paidOf

\* Every behaviour of the ledger is one of the abstract life of holds: nothing
\* opens without a hold, and a hold ends at most once, in a charge.
ImplementsHolds == Holds!Spec

\* Budget is held for exactly the open attempts, a failover follows a settled attempt only, and what is
\* settled stays as it is.
LedgerIsSound == [](HoldIffOpen /\ FailoverAfterSettled) /\ OutcomeIsFinal

==============================================================================
