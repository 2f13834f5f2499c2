----------------------------- MODULE MCDeviceParts -----------------------------
(***************************************************************************)
(* Eight parts of a device that share no state in these models.  Each is   *)
(* explored alone, while the others stand still in one of their initial    *)
(* states, so that the states add up and do not multiply.                  *)
(***************************************************************************)
EXTENDS CodingProbe, LocalHistory, NativeConversations, AppBridge, LocalAcquisition, ChatOwner,
        TerminalObserver, LocalSetup, TLC

CONSTANTS p1, p2, p3, p4, t1, t2, c1, c2, c3, ann, bob, n1, n2, n3, n4, b1, b2

CONSTANT Parts \* the parts that are explored

VARIABLE part  \* the one that is

\* Probes: three on one thread, one on another; three forms of input.
MCThreadOf == p1 :> t1 @@ p2 :> t1 @@ p3 :> t1 @@ p4 :> t2
MCInputs == {<<"user">>, <<"user", "call">>, <<"user", "call", "output">>}
MCFirstInput == <<"user">>

\* Captures: two of ann, one of bob.
MCActorOf == c1 :> ann @@ c2 :> ann @@ c3 :> bob
MCLengthOf == c1 :> 1 @@ c2 :> 2 @@ c3 :> 2

\* Native conversations: two handlers on each of two.
MCBindingOf == n1 :> b1 @@ n2 :> b1 @@ n3 :> b2 @@ n4 :> b2

\* Chat owners: the bridge's home, which connects twice, and another.
MCMaxConnections == "hA" :> 2 @@ "hB" :> 1

\* Setups: two commands of the managed mode and one of the environment mode.
MCModeOf == "s1" :> "managed" @@ "s2" :> "managed" @@ "s3" :> "environment"

\* The variables of the parts, in groups, so that each step can name the rest.
Client == <<probeVars, historyVars, acquisitionVars, setupVars>>
Codex  == <<nativeVars, bridgeVars, ownerVars, observerVars>>

\* A part that is not explored has one initial state only.
StandStill == part # "observer" => stream = CHOOSE s \in Streams : TRUE

PartsInit ==
    /\ part \in Parts
    /\ ProbeInit
    /\ HistoryInit
    /\ NativeInit
    /\ BridgeInit
    /\ AcquisitionInit
    /\ OwnerInit
    /\ ObserverInit
    /\ SetupInit
    /\ StandStill

PartsNext ==
    /\ UNCHANGED part
    /\ \/ part = "probe" /\ ProbeNext
          /\ UNCHANGED <<historyVars, acquisitionVars, setupVars, Codex>>
       \/ part = "history" /\ HistoryNext
          /\ UNCHANGED <<probeVars, acquisitionVars, setupVars, Codex>>
       \/ part = "native" /\ NativeNext
          /\ UNCHANGED <<bridgeVars, ownerVars, observerVars, Client>>
       \/ part = "bridge" /\ BridgeNext
          /\ UNCHANGED <<nativeVars, ownerVars, observerVars, Client>>
       \/ part = "assets" /\ AcquisitionNext
          /\ UNCHANGED <<probeVars, historyVars, setupVars, Codex>>
       \/ part = "owner" /\ OwnerNext
          /\ UNCHANGED <<nativeVars, bridgeVars, observerVars, Client>>
       \/ part = "observer" /\ ObserverNext
          /\ UNCHANGED <<nativeVars, bridgeVars, ownerVars, Client>>
       \/ part = "setup" /\ SetupNext
          /\ UNCHANGED <<probeVars, historyVars, acquisitionVars, Codex>>

PartsVars == <<part, Client, Codex>>

PartsSpec == PartsInit /\ [][PartsNext]_PartsVars

\* What the part that is explored stores, counts and remembers has its type.
PartsTypeOK ==
    CASE part = "probe" -> ProbeTypeOK
      [] part = "history" -> HistoryTypeOK
      [] part = "native" -> NativeTypeOK
      [] part = "bridge" -> BridgeTypeOK
      [] part = "assets" -> AcquisitionTypeOK
      [] part = "owner" -> OwnerTypeOK
      [] part = "observer" -> ObserverTypeOK
      [] part = "setup" -> SetupTypeOK

================================================================================
