--------------------------- MODULE MCEvidenceTables ---------------------------
(* The append-only tables of work budgets, whose no_replace triggers look at   *)
(* the primary key of a row and at no other key.                               *)
EXTENDS EvidenceTables

MCBudgetFamilies == {{PlanVersions}, {PlanActivations}, {BudgetBindings}, {BudgetAuditEvents}}

================================================================================
