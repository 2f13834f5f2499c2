------------------------------- MODULE ChatOwner -------------------------------
(***************************************************************************)
(* One normal Codex home, the separate router homes its chat commands may  *)
(* use, the record that says which of them owns the chat, and the launch   *)
(* setting an app bridge puts itself into.  Chat commands register the     *)
(* owner they found, `off` finds it and stops it; each works in steps that *)
(* reconnections, other commands and an installation of the bridge come    *)
(* between.  Only the record is under a lock of its own.                   *)
(*                                                                         *)
(* A lifetime is as ConnectedClient has it: a generation per connection,   *)
(* and a disconnect that can end with the cleanup pending.                 *)
(***************************************************************************)
EXTENDS Naturals, FiniteSets

CONSTANTS
    RouterHomes,       \* control homes of routers
    Chats,             \* chat commands, each run once
    Offs,              \* `off` commands, each run once
    Unregistered,      \* no home
    BridgeHome,        \* the home an app bridge is installed for, or Unregistered
    MaxConnections     \* bound: connections, per home

ASSUME OwnerAssumption == Unregistered \notin RouterHomes /\ MaxConnections \in [RouterHomes -> Nat]

VARIABLES
    lifetimes,   \* per home, its generation and phase
    owner,       \* the record: home and generation
    ownerLock,   \* the command that holds the lock of the record
    chats,       \* per chat command, where it is and the generation it found
    offs,        \* per `off`, where it is and what it read and achieved
    bridge,      \* the manifest (and the home in it), where its installation is, and the saved setting
    launch       \* the launch setting: "bridge", or one of the user's; "users late" is one the user makes
                 \* between the reading and the writing of a restoration

ownerVars == <<lifetimes, owner, ownerLock, chats, offs, bridge, launch>>

Generations == UNION {0..MaxConnections[home] : home \in RouterHomes}
None == [home |-> Unregistered, generation |-> 0]
At(home) == [home |-> home, generation |-> lifetimes[home].generation]

NewOff == [at |-> "new", named |-> 0, read |-> None, stopped |-> FALSE, failed |-> FALSE,
           target |-> None, alone |-> TRUE]

OwnerInit ==
    /\ lifetimes = [home \in RouterHomes |-> [generation |-> 0, phase |-> "disconnected"]]
    /\ owner = None /\ ownerLock = None
    /\ chats = [chat \in Chats |-> [at |-> "new", found |-> None]]
    /\ offs = [off \in Offs |-> NewOff]
    /\ bridge = [manifest |-> "none", installing |-> "no", saved |-> "users"]
    /\ launch = "users"

-----------------------------------------------------------------------------
(* The lifetimes, used from elsewhere too.                                 *)

Reconnect(home) ==
    /\ lifetimes[home].phase = "disconnected" /\ lifetimes[home].generation < MaxConnections[home]
    /\ lifetimes' = [lifetimes EXCEPT ![home] = [generation |-> @.generation + 1, phase |-> "connected"]]
    /\ UNCHANGED <<owner, ownerLock, chats, offs, bridge, launch>>

\* `off` with the home named, after which its processes may linger.
Disconnected(home, phase) == lifetimes' = [lifetimes EXCEPT ![home].phase = phase]
DisconnectHome(home) ==
    /\ lifetimes[home].phase # "disconnected"
    /\ \E phase \in {"pending", "disconnected"} : Disconnected(home, phase)
    /\ UNCHANGED <<owner, ownerLock, chats, offs, bridge, launch>>

-----------------------------------------------------------------------------
(* chat_task.run: the status, the registration, the requests.              *)

EndedChat == [at |-> "ended", found |-> None]

ReadStatus(chat, home) ==
    /\ chats[chat].at = "new" /\ lifetimes[home].phase = "connected"
    /\ chats' = [chats EXCEPT ![chat] = [at |-> "register", found |-> At(home)]]
    /\ UNCHANGED <<lifetimes, owner, ownerLock, offs, bridge, launch>>

\* Mistake: an owner whose disconnect is still pending counts as gone.
MayReplace_Pending(home) == lifetimes[home].phase # "connected"

\* Another home may become the owner once the one before it is disconnected and its router stopped.
MayReplace(home) == lifetimes[home].phase = "disconnected"

\* register_owner: under the lock, another owner is asked for its status first.
RegisterOwner(chat) ==
    LET found == chats[chat].found
    IN  /\ chats[chat].at = "register" /\ ownerLock = None
        /\ IF owner.home \notin {Unregistered, found.home} => MayReplace(owner.home)
           THEN chats' = [chats EXCEPT ![chat].at = "write"] /\ ownerLock' = found
           ELSE chats' = [chats EXCEPT ![chat] = EndedChat] /\ UNCHANGED ownerLock
        /\ UNCHANGED <<lifetimes, owner, offs, bridge, launch>>

WriteOwner(chat) ==
    /\ chats[chat].at = "write"
    /\ owner' = chats[chat].found /\ ownerLock' = None
    /\ chats' = [chats EXCEPT ![chat].at = "requests"]
    /\ UNCHANGED <<lifetimes, offs, bridge, launch>>

\* The requests are done, or failed; a lock that is not free in time is an error too.
EndChat(chat) ==
    /\ chats[chat].at = "requests" \/ (chats[chat].at = "register" /\ ownerLock # None)
    /\ chats' = [chats EXCEPT ![chat] = EndedChat]
    /\ UNCHANGED <<lifetimes, owner, ownerLock, offs, bridge, launch>>

-----------------------------------------------------------------------------
(* disconnect_owner, and disable_bridge within it.                         *)

To(command, at) == [command EXCEPT !.at = at]
Failing(command) == [command EXCEPT !.failed = TRUE]
Lingering(command) == [command EXCEPT !.stopped = FALSE]
Targeting(command, target) == [command EXCEPT !.target = target]
Overlapped(command) == [command EXCEPT !.alone = FALSE]

Off(off, at) == offs' = [offs EXCEPT ![off] = To(offs[off], at)]
OffFails(off, at) == offs' = [offs EXCEPT ![off] = To(Failing(offs[off]), at)]
OffLingers(off, at) == offs' = [offs EXCEPT ![off] = To(Lingering(offs[off]), at)]
\* The end of an `off`: with the record read, the lock is given back.
EndOff(off, failed) ==
    /\ offs' = [offs EXCEPT ![off] = IF failed THEN To(Failing(NewOff), "ended") ELSE To(NewOff, "ended")]
    /\ ownerLock' = None

StartOff(off, named) ==
    LET started == [at |-> IF owner = None THEN "bridge" ELSE "check", named |-> named, read |-> owner,
                    stopped |-> TRUE, failed |-> FALSE, target |-> None, alone |-> TRUE]
    IN  /\ offs[off].at = "new" /\ ownerLock = None
        /\ IF owner # None /\ named # 0 /\ named # owner.generation
           THEN EndOff(off, TRUE)
           ELSE /\ offs' = [offs EXCEPT ![off] =
                              IF bridge.installing = "no" THEN started ELSE Overlapped(started)]
                /\ ownerLock' = [home |-> Unregistered, generation |-> 1]
        /\ UNCHANGED <<lifetimes, owner, chats, bridge, launch>>

CheckOwner(off) ==
    LET read == offs[off].read
    IN  /\ offs[off].at = "check"
        /\ IF lifetimes[read.home].generation # read.generation
           THEN EndOff(off, TRUE) ELSE Off(off, "disconnect") /\ UNCHANGED ownerLock
        /\ UNCHANGED <<lifetimes, owner, chats, bridge, launch>>

\* Mistake: the generation is compared with the status only, not again by the disconnect.
Disconnects_Any(target) == TRUE

\* ConnectedClientLifetime.disconnect(generation): nothing of another generation is touched.
Disconnects(target) == target.generation \in {0, lifetimes[target.home].generation}

\* It may find everything stopped, leave the cleanup pending, or fail having tried.
StopOwner(off) ==
    LET read == offs[off].read
    IN  /\ offs[off].at = "disconnect"
        /\ IF ~Disconnects(read)
           THEN EndOff(off, TRUE) /\ UNCHANGED lifetimes
           ELSE /\ \/ Disconnected(read.home, "disconnected") /\ Off(off, "bridge")
                   \/ /\ lifetimes[read.home].phase # "disconnected" /\ Disconnected(read.home, "pending")
                      /\ \/ OffLingers(off, "bridge")
                         \/ offs' = [offs EXCEPT ![off] = To(Failing(Lingering(offs[off])), "bridge")]
                /\ UNCHANGED ownerLock
        /\ UNCHANGED <<owner, chats, bridge, launch>>

\* The generation a bridge's home is to have: the owner's when it is the owner, else the one named.
BridgeTarget(off) ==
    [home |-> BridgeHome,
     generation |-> IF offs[off].read.home = BridgeHome THEN offs[off].read.generation ELSE offs[off].named]

\* disable_bridge: without a manifest there is nothing to do; a generation that differs is an error,
\* and nothing of the bridge is touched.
CheckBridge(off) ==
    /\ offs[off].at = "bridge"
    /\ IF bridge.manifest = "none" THEN Off(off, "finish")
       ELSE IF ~Disconnects(BridgeTarget(off))
       THEN OffFails(off, "finish")
       ELSE offs' = [offs EXCEPT ![off] = To(Targeting(offs[off], BridgeTarget(off)), "disable")]
    /\ UNCHANGED <<lifetimes, owner, ownerLock, chats, bridge, launch>>

DisableManifest(off) ==
    /\ offs[off].at = "disable"
    /\ bridge' = [bridge EXCEPT !.manifest = "off"]
    /\ Off(off, "restore")
    /\ UNCHANGED <<lifetimes, owner, ownerLock, chats, launch>>

\* Mistake: the setting is put back whoever has changed it since.
IsTheBridges_Assumed == TRUE

\* restore_launch_environment: `launchctl getenv` finds the bridge's own setting.
IsTheBridges == launch = "bridge"

\* The setting is put back while it is the bridge's own.  It cannot be read: an error, reported at the end.
RestoreLaunch(off) ==
    /\ offs[off].at = "restore"
    /\ Off(off, IF IsTheBridges THEN "put" ELSE "retire") \/ OffFails(off, "retire")
    /\ UNCHANGED <<lifetimes, owner, ownerLock, chats, bridge, launch>>

\* `launchctl setenv` or `unsetenv` is a process of its own, and writes whatever is there by now.
PutLaunch(off) ==
    /\ offs[off].at = "put"
    /\ \/ launch' = bridge.saved /\ Off(off, "retire")
       \/ OffFails(off, "retire") /\ UNCHANGED launch
    /\ UNCHANGED <<lifetimes, owner, ownerLock, chats, bridge>>

RetireBridgeHome(off) ==
    LET target == offs[off].target
    IN  /\ offs[off].at = "retire"
        /\ IF ~Disconnects(target)
           THEN OffFails(off, "finish") /\ UNCHANGED lifetimes
           ELSE \/ Disconnected(target.home, "disconnected") /\ Off(off, "finish")
                \/ /\ lifetimes[target.home].phase # "disconnected" /\ Disconnected(target.home, "pending")
                   /\ OffLingers(off, "finish")
        /\ UNCHANGED <<owner, ownerLock, chats, bridge, launch>>

\* The record goes when everything it led to has stopped.
FinishOff(off) ==
    /\ offs[off].at = "finish"
    /\ owner' = IF offs[off].stopped /\ ~offs[off].failed THEN None ELSE owner
    /\ EndOff(off, offs[off].failed)
    /\ UNCHANGED <<lifetimes, chats, bridge, launch>>

-----------------------------------------------------------------------------
(* install_bridge, and the user's own changes of the launch setting.       *)

Disturbed == [off \in Offs |-> IF offs[off].at \in {"new", "ended"} THEN offs[off] ELSE Overlapped(offs[off])]

\* The manifest is written disabled and the setting of the user saved; then the manifest is enabled,
\* the setting made, and the installation noted.  It can fail or be killed on the way.
InstallBridge ==
    /\ BridgeHome \in RouterHomes
    /\ \/ /\ bridge.installing = "no" /\ bridge.manifest = "none" /\ lifetimes[BridgeHome].phase = "connected"
          /\ bridge' = [manifest |-> "off", installing |-> "enable", saved |-> launch] /\ UNCHANGED launch
       \/ /\ bridge.installing = "enable"
          /\ bridge' = [manifest |-> "on", installing |-> "set", saved |-> bridge.saved] /\ UNCHANGED launch
       \/ /\ bridge.installing = "set"
          /\ bridge' = [bridge EXCEPT !.installing = "check"] /\ launch' = "bridge"
       \/ /\ bridge.installing \in {"set", "check"}
          /\ bridge' = [manifest |-> "off", installing |-> "undo", saved |-> bridge.saved] /\ UNCHANGED launch
       \/ /\ bridge.installing = "undo"
          /\ bridge' = [bridge EXCEPT !.installing = IF IsTheBridges THEN "put" ELSE "no"] /\ UNCHANGED launch
       \/ /\ bridge.installing = "put"
          /\ bridge' = [bridge EXCEPT !.installing = "no"] /\ launch' = bridge.saved
       \/ /\ bridge.installing \in {"enable", "set", "check", "undo", "put"}
          /\ bridge' = [bridge EXCEPT !.installing = "no"] /\ UNCHANGED launch
    /\ offs' = Disturbed
    /\ UNCHANGED <<lifetimes, owner, ownerLock, chats>>

\* A restoration has compared the setting and has yet to write it.
Restoring == bridge.installing = "put" \/ \E off \in Offs : offs[off].at = "put"

\* What the user sets before an installation is what that one saves.
UserSetsLaunch ==
    /\ bridge.manifest # "none" /\ launch # "users own"
    /\ launch' = IF Restoring THEN "users late" ELSE "users own"
    /\ UNCHANGED <<lifetimes, owner, ownerLock, chats, offs, bridge>>

OwnerNext ==
    \/ \E home \in RouterHomes : Reconnect(home) \/ DisconnectHome(home)
    \/ \E chat \in Chats : \/ \E home \in RouterHomes : ReadStatus(chat, home)
                           \/ RegisterOwner(chat) \/ WriteOwner(chat) \/ EndChat(chat)
    \/ \E off \in Offs : \/ \E named \in Generations : StartOff(off, named)
                         \/ CheckOwner(off) \/ StopOwner(off) \/ CheckBridge(off) \/ DisableManifest(off)
                         \/ RestoreLaunch(off) \/ PutLaunch(off) \/ RetireBridgeHome(off) \/ FinishOff(off)
    \/ InstallBridge \/ UserSetsLaunch

OwnerSpec == OwnerInit /\ [][OwnerNext]_ownerVars

-----------------------------------------------------------------------------
OwnerTypeOK ==
    /\ \A home \in RouterHomes : /\ lifetimes[home].generation \in Generations
                                 /\ lifetimes[home].phase \in {"connected", "pending", "disconnected"}
    /\ owner.home \in RouterHomes \cup {Unregistered}
    /\ bridge.manifest \in {"none", "off", "on"} /\ launch \in {"users", "users own", "users late", "bridge"}

\* A chat that is sending to the connection it found.
Live(chat) ==
    LET found == chats[chat].found
    IN  /\ chats[chat].at = "requests" /\ lifetimes[found.home].phase # "disconnected"
        /\ lifetimes[found.home].generation = found.generation

\* A normal home has one owner: every chat that is sending sends to the home in the record.
OneLiveOwner == \A chat \in Chats : Live(chat) => owner.home = chats[chat].found.home

\* `off` by the record stops the connection the record names and no later one of that home, though
\* the home can be disconnected and connected again between any two of its steps, and though the
\* bridge names the home again.
NoReplacementIsStopped ==
    [][\A off \in Offs : \A home \in RouterHomes :
         (offs'[off].at # offs[off].at /\ offs[off].read.home = home /\ lifetimes'[home] # lifetimes[home])
           => lifetimes[home].generation = offs[off].read.generation]_ownerVars

\* An `off` that reports no error, and that no installation overlapped, leaves a launch setting that
\* is the user's: the one saved, or the one chosen since, which nothing overwrites but the installation
\* that is just making its own.  A setting that the user makes between the reading and the writing of
\* a restoration is lost, since these are two processes of launchctl (codex_app_bridge_control.py:118-125).
LaunchIsTheUsers ==
    /\ [][\A off \in Offs : (offs'[off].at = "ended" /\ offs[off].at = "finish" /\ ~offs[off].failed
                              /\ offs[off].alone /\ bridge.manifest # "none") => launch # "bridge"]_ownerVars
    /\ [][launch = "users own" => launch' = "users own" \/ bridge.installing = "set"]_ownerVars

\* Chats have one live owner, `off` stops no other lifetime than the one it read, and the launch setting
\* returns to what the user had.
OwnerIsSound == []OneLiveOwner /\ NoReplacementIsStopped /\ LaunchIsTheUsers

=============================================================================
