--------------------------- MODULE MCAttemptLedger ---------------------------
(***************************************************************************)
(* AttemptLedger on three attempts and one row that stands alone, for two  *)
(* actors under an organization limit and one actor's own limit.           *)
(***************************************************************************)
EXTENDS AttemptLedger, TLC

CONSTANTS a1, a2, a3, p1, ann, bob, organization, person

MCMembers == (organization :> {ann, bob}) @@ (person :> {ann})
MCLimit == (organization :> 3) @@ (person :> 2)
MCCosts == {1, 2}
MCCharges == {0, 2}
Symmetric == Permutations(Attempts)

==============================================================================
