--------------------------- MODULE MCProfileRefresh ---------------------------
(***************************************************************************)
(* ProfileRefresh with two or three keys, k3 in a cohort of its own.       *)
(***************************************************************************)
EXTENDS ProfileRefresh, TLC

CONSTANTS k1, k2, k3, coding, review, h1, h2

MCCohortOf == [k \in Keys |-> IF k = k3 THEN review ELSE coding]

===============================================================================
