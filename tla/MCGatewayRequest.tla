-------------------------- MODULE MCGatewayRequest --------------------------
(***************************************************************************)
(* GatewayRequest on two local requests and three attempts of one actor    *)
(* whose limit fits two holds.                                             *)
(***************************************************************************)
EXTENDS GatewayRequest, TLC

CONSTANTS a1, a2, a3, r1, r2, ann, organization

MCMembers == organization :> {ann}
MCLimit == organization :> 2

=============================================================================
