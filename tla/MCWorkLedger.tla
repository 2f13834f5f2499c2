----------------------------- MODULE MCWorkLedger -----------------------------
(***************************************************************************)
(* WorkLedger with two jobs of one repository, plans with budgets, and one *)
(* model: what a budget admits and what is charged to it.                  *)
(***************************************************************************)
EXTENDS WorkLedger, TLC

CONSTANTS repo, j1, j2, q1, q2, m1, c1, t1

MCRepoOf == [j \in Jobs |-> repo]
AnyRequest == Permutations(Requests)

\* Bound: plans, conversations and corrections are explored apart from each other, the
\* last two within a month and corrections of one job.
Planning   == \E s \in Scopes : budget[s] # None
Conversing == \E t \in Threads : bound[t] # None
Correcting == \E j \in Jobs : gen[j] # 0
Apart ==
    /\ Conversing => ~Planning /\ ~Correcting /\ month = 1
    /\ Correcting => ~Planning /\ month = 1 /\ state[j2] = "none"

===============================================================================
