---------------------------- MODULE BudgetHolds ----------------------------
(***************************************************************************)
(* What the attempt ledger promises of each provider attempt: money is     *)
(* held before anything is asked of a provider, and the hold ends at most  *)
(* once, in a charge.  A hold whose outcome cannot be known stays for good *)
(* (docs/decisions on request attempts; implemented by AttemptLedger).     *)
(***************************************************************************)
EXTENDS Naturals

CONSTANTS Attempts, Charges

VARIABLES stage, paid

vars == <<stage, paid>>

Stages == {"unopened", "held", "withheld", "settled"}

Init ==
    /\ stage = [a \in Attempts |-> "unopened"]
    /\ paid = [a \in Attempts |-> 0]

\* The holds that nobody has refreshed for too long; a hold may open in the
\* transaction that gives up others.
Withhold(W) == [a \in Attempts |-> IF a \in W /\ stage[a] = "held" THEN "withheld" ELSE stage[a]]

GiveUp == \E W \in SUBSET Attempts : stage' = Withhold(W) /\ UNCHANGED paid

Open(a) ==
    /\ stage[a] = "unopened"
    /\ \E W \in SUBSET Attempts : stage' = [Withhold(W) EXCEPT ![a] = "held"]
    /\ UNCHANGED paid

Settle(a) ==
    /\ stage[a] = "held"
    /\ stage' = [stage EXCEPT ![a] = "settled"]
    /\ \E c \in Charges : paid' = [paid EXCEPT ![a] = c]

Next == GiveUp \/ \E a \in Attempts : Open(a) \/ Settle(a)

Spec == Init /\ [][Next]_vars

=============================================================================
