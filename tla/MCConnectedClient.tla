-------------------------- MODULE MCConnectedClient --------------------------
(***************************************************************************)
(* ConnectedClient on two generations, the second one with an engine.      *)
(***************************************************************************)
EXTENDS ConnectedClient

CONSTANTS uPinned, uOther

MCMaxGen == 2
MCManagedGens == {2}
MCOneGen == 1
MCOneGenManaged == {1}
MCUserVals == {uPinned, uOther}

==============================================================================
