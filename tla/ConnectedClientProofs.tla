------------------------ MODULE ConnectedClientProofs ------------------------
(***************************************************************************)
(* What the connected-client lifetime guarantees for every number of       *)
(* generations, every set of them that owns an engine and every set of     *)
(* values a user may give to a setting; and, for any number of commands,   *)
(* what the set-up of a home's files and the commands that share a chat's  *)
(* owner guarantee. The three keep no state in common.                     *)
(***************************************************************************)
EXTENDS ConnectedClient, LocalSetup, ChatOwner, TLAPS

(***************************************************************************)
(* The inductive invariant, part by part.                                  *)
(***************************************************************************)

\* What a command has established when it stands at a given step.
Control ==
    /\ pc \in {"fresh", "stage"} => journal.phase = "disconnected"
    /\ pc = "stage" => journal.gen < MaxGen
    /\ pc \in {"install_compare", "install_replace"} =>
           journal.gen # 0 /\ journal.phase = "prepared"
    /\ pc \in RestorePCs => why # "none"
    /\ pc = "restored" => why # "disconnect"
    /\ pc \in RestorePCs /\ why = "disconnect" => journal.phase = "disconnecting"
    /\ pc \in DisconnectPCs => journal.phase = "disconnecting"

\* One process tree at most holds descriptors of the runtime lease.
OneHolder == \A g, h \in Gens : HoldsLease(g) /\ HoldsLease(h) => g = h

\* Host states that a host reaches only by reading its own generation in the
\* journal, under the lease.
PastReading == {"engine", "built", "binding", "bound", "serving"}

NoRouter  == \A g \in Gens : host[g] \notin PastReading
NoRuntime == \A g \in Gens : /\ host[g] \in {"none", "spawned", "checked", "locked", "exited"}
                             /\ guardian[g] \in {"none", "gone"}

\* A new generation is staged only when no router is left of an older one.
Current == RouterIsCurrent /\ (pc = "stage" => NoRouter)

\* The lease found free stays without a router until the journal is saved.
Cleaned == CleanDisconnect /\ (pc = "disconnect_save" => NoRuntime)

\* Documents without, and with no more than the current generation's, mark of
\* this program.
Clean(c) == c.key["provider"] \in UserVals /\ \A g \in Gens : c.table[g] # "exact"
Owned(c) == /\ c.key["provider"] \in UserVals \cup {journal.gen}
            /\ \A g \in Gens : c.table[g] = "exact" => g = journal.gen

\* What the document, and the copy a command compares with, may hold.
Ownership ==
    /\ Owned(config)
    /\ journal.original["provider"] \in UserVals
    /\ journal.phase = "disconnected" => Clean(config)
    /\ pc \in {"stage", "install_compare", "install_replace"} => Clean(snap)
    /\ pc \in {"restore_compare", "restore_replace"} => Owned(snap)
    /\ pc = "restored" => Clean(config)
    /\ pc \in DisconnectPCs /\ ~err => Clean(config)

(***************************************************************************)
(* What a step leaves alone.                                               *)
(***************************************************************************)

Process == \E g \in Gens : HostStep(g) \/ HostDies(g) \/ GuardianStep(g) \/ GuardianFails(g)

\* Hosts and guardians write neither the journal nor the configuration, and
\* never take a step of the command.
LEMMA ProcessFrame ==
    Process => UNCHANGED <<journal, config, cliVars, userVars>>
  BY DEF Process, HostStep, HostDies, GuardianStep, GuardianFails, HostCheck, HostLock,
         HostRecheck, HostEngine, HostBuilt, HostBind, HostServe, HostDrain, HostExit,
         GuardianLaunch, GuardianReady, GuardianOwnerLost, GuardianStops

\* Process steps keep the types of what they do write.
LEMMA ProcessTypes ==
    ASSUME TypeOK, Process
    PROVE  /\ host' \in [Gens -> HostStates]
           /\ stop' \in [Gens -> BOOLEAN]
           /\ guardian' \in [Gens -> GuardianStates]
<1> USE DEF TypeOK, HostStates, GuardianStates
<1>1. ASSUME NEW g \in Gens, HostStep(g) \/ HostDies(g)
      PROVE  /\ UNCHANGED guardian \/ \E s \in GuardianStates : guardian' = [guardian EXCEPT ![g] = s]
             /\ \E s \in HostStates : Becomes(g, s)
  <2> USE DEF Moves
  <2>1. CASE HostCheck(g) BY <2>1 DEF HostCheck
  <2>2. CASE HostLock(g) BY <2>2 DEF HostLock
  <2>3. CASE HostRecheck(g) BY <2>3 DEF HostRecheck
  <2>4. CASE HostEngine(g) BY <2>4 DEF HostEngine
  <2>5. CASE HostBuilt(g) BY <2>5 DEF HostBuilt, Quits
  <2>6. CASE HostBind(g) BY <2>6 DEF HostBind
  <2>7. CASE HostServe(g) BY <2>7 DEF HostServe
  <2>8. CASE HostDrain(g) BY <2>8 DEF HostDrain
  <2>9. CASE HostExit(g) \/ HostDies(g) BY <2>9 DEF HostExit, HostDies
  <2> QED
    BY <1>1, <2>1, <2>2, <2>3, <2>4, <2>5, <2>6, <2>7, <2>8, <2>9 DEF HostStep
<1>2. CASE \E g \in Gens : HostStep(g) \/ HostDies(g)
  <2>1. PICK g \in Gens : HostStep(g) \/ HostDies(g)
    BY <1>2
  <2>2. UNCHANGED guardian \/ \E s \in GuardianStates : guardian' = [guardian EXCEPT ![g] = s]
    BY <1>1, <2>1
  <2>3. guardian' \in [Gens -> GuardianStates]
    BY <2>2
  <2>4. PICK s \in HostStates : Becomes(g, s)
    BY <1>1, <2>1
  <2>5. host' \in [Gens -> HostStates]
    BY <2>4 DEF Becomes
  <2>6. stop' \in [Gens -> BOOLEAN]
    BY <2>4 DEF Becomes
  <2> QED
    BY <2>3, <2>5, <2>6
<1>3. CASE \E g \in Gens : GuardianStep(g) \/ GuardianFails(g)
  BY <1>3 DEF GuardianStep, GuardianFails, GuardianLaunch, GuardianReady,
              GuardianOwnerLost, GuardianStops
<1> QED
  BY <1>2, <1>3 DEF Process

\* A command starts no guardian and takes no lease: it makes a host of the
\* journal's generation, ends it or drains it.
LEMMA CommandFrame ==
    ASSUME TypeOK, Command, NEW g \in Gens
    PROVE  /\ guardian' = guardian
           /\ \/ host'[g] = host[g]
              \/ host'[g] \in {"spawned", "exited"}
              \/ host[g] \in {"serving", "draining"} /\ host'[g] = "draining"
<1> USE DEF TypeOK, procVars
<1>1. CASE Spawn BY <1>1 DEF Spawn
<1>2. CASE AwaitFailed BY <1>2 DEF AwaitFailed
<1>3. CASE SendStop BY <1>3 DEF SendStop
<1>4. CASE ~(Spawn \/ AwaitFailed \/ SendStop)
  BY <1>4 DEF Command, ConnectBegin, Inspect, Fresh, Stage, InstallCompare, InstallReplace,
              AwaitReady, ConnectSave, TermWait, RestoreRead, RestoreCompare, RestoreReplace,
              RestoredSave, DisconnectBegin, LeaseReleased, LeaseTimeout, DisconnectSave,
              CommandDies
<1> QED
  BY <1>1, <1>2, <1>3, <1>4

\* The user writes the configuration and nothing else that is not history.
LEMMA UserFrame ==
    User => UNCHANGED <<journal, cliVars, procVars>>
  BY DEF User, UserSets, UserEditsTable

(***************************************************************************)
(* Types and control.                                                      *)
(***************************************************************************)

CliTypes == pc \in PCs /\ why \in Paths /\ snap \in Config /\ err \in BOOLEAN

LEMMA NoSnapType == NoSnap \in Config
  BY PinnedAssumption DEF NoSnap, Config, Tables

\* A command moves on to a step there is.
LEMMA GotoTypes ==
    ASSUME TypeOK, NEW label \in PCs, Goto(label)
    PROVE  CliTypes'
<1>1. snap' \in Config
  BY NoSnapType DEF Goto, TypeOK
<1>2. err' \in BOOLEAN /\ why' \in Paths /\ pc' \in PCs
  BY DEF Goto, TypeOK, Paths
<1> QED
  BY <1>1, <1>2 DEF CliTypes

\* Every step of a command goes to a step there is.
LEMMA CommandCliTypes ==
    ASSUME TypeOK, Command
    PROVE  CliTypes'
<1> USE NoSnapType, GotoTypes DEF CliTypes, PCs, ConnectPCs, RestorePCs, DisconnectPCs
<1>0. CliTypes /\ config \in Config BY DEF TypeOK
<1>r. ASSUME NEW p \in {"recover", "failed", "disconnect"}, Restore(p) PROVE CliTypes'
  BY <1>0, <1>r DEF Restore, Paths
<1>e. ASSUME RestoreError PROVE CliTypes'
  BY <1>0, <1>e DEF RestoreError, Paths
<1>1. CASE ConnectBegin BY <1>1 DEF ConnectBegin
<1>2. CASE Inspect BY <1>2, <1>r DEF Inspect
<1>3. CASE Fresh BY <1>3, <1>0 DEF Fresh
<1>4. CASE Stage BY <1>4 DEF Stage
<1>5. CASE InstallCompare BY <1>5 DEF InstallCompare
<1>6. CASE InstallReplace BY <1>6 DEF InstallReplace
<1>7. CASE Spawn BY <1>7 DEF Spawn
<1>8. CASE AwaitReady BY <1>8 DEF AwaitReady
<1>9. CASE ConnectSave BY <1>9 DEF ConnectSave
<1>10. CASE AwaitFailed BY <1>10 DEF AwaitFailed
<1>11. CASE TermWait BY <1>11, <1>r DEF TermWait
<1>12. CASE RestoreRead BY <1>12, <1>0, <1>e DEF RestoreRead
<1>13. CASE RestoreCompare BY <1>13, <1>e DEF RestoreCompare
<1>14. CASE RestoreReplace BY <1>14 DEF RestoreReplace
<1>15. CASE RestoredSave BY <1>15 DEF RestoredSave
<1>16. CASE \E receipt \in 0 .. MaxGen : DisconnectBegin(receipt)
  BY <1>16, <1>r DEF DisconnectBegin
<1>17. CASE SendStop BY <1>17 DEF SendStop
<1>18. CASE LeaseReleased BY <1>18 DEF LeaseReleased
<1>19. CASE LeaseTimeout BY <1>19 DEF LeaseTimeout
<1>20. CASE DisconnectSave BY <1>20 DEF DisconnectSave
<1>21. CASE CommandDies BY <1>21 DEF CommandDies
<1> QED
  BY <1>1, <1>2, <1>3, <1>4, <1>5, <1>6, <1>7, <1>8, <1>9, <1>10, <1>11, <1>12, <1>13,
     <1>14, <1>15, <1>16, <1>17, <1>18, <1>19, <1>20, <1>21 DEF Command

\* Every step of a command keeps the types.
LEMMA CommandTypes ==
    ASSUME TypeOK, Control, Command
    PROVE  TypeOK'
<1> USE CommandCliTypes DEF CliTypes, procVars, userVars
<1>s. UNCHANGED <<journal, config, procVars, userVars>> => TypeOK'
  BY DEF TypeOK
<1>j. ASSUME UNCHANGED <<config, procVars, userVars>>,
             journal' \in [gen : 0 .. MaxGen, phase : Phases,
                           original : [Keys -> UserVals \cup Gens], by : Paths]
      PROVE  TypeOK'
  BY <1>j DEF TypeOK
<1>c. ASSUME UNCHANGED <<journal, procVars, userVars>>, config' \in Config
      PROVE  TypeOK'
  BY <1>c DEF TypeOK
<1>4. CASE Stage
  <2>1. journal' \in [gen : 0 .. MaxGen, phase : Phases,
                      original : [Keys -> UserVals \cup Gens], by : Paths]
    BY <1>4, MaxGenAssumption DEF Stage, TypeOK, Control, Config, Phases, Paths
  <2> QED
    BY <1>4, <1>j, <2>1 DEF Stage
<1>6. CASE InstallReplace
  <2>1. \A k \in Keys : Installed(k, journal.gen) \in UserVals \cup Gens
    BY <1>6, MaxGenAssumption, PinnedAssumption
       DEF InstallReplace, Control, TypeOK, Installed, Gens
  <2>2. config' \in Config
    BY <1>6, <2>1 DEF InstallReplace, TypeOK, Config, Tables
  <2> QED
    BY <1>6, <1>c, <2>2 DEF InstallReplace
<1>7. CASE Spawn BY <1>7 DEF Spawn, TypeOK, HostStates
<1>10. CASE AwaitFailed BY <1>10 DEF AwaitFailed, TypeOK, HostStates
<1>14. CASE RestoreReplace
  <2>1. \A k \in Keys : RestoredKey(k) \in UserVals \cup Gens
    BY DEF TypeOK, Config, RestoredKey
  <2>2. \A g \in Gens : RestoredTable(g) \in Tables
    BY DEF TypeOK, Config, RestoredTable, Tables
  <2>3. config' \in Config
    BY <1>14, <2>1, <2>2 DEF RestoreReplace, Config
  <2> QED
    BY <1>14, <1>c, <2>3 DEF RestoreReplace
<1>17. CASE SendStop BY <1>17 DEF SendStop, TypeOK
<1>22. CASE ConnectSave \/ RestoredSave \/ DisconnectSave
               \/ \E receipt \in 0 .. MaxGen : DisconnectBegin(receipt)
  <2>1. journal' \in [gen : 0 .. MaxGen, phase : Phases,
                      original : [Keys -> UserVals \cup Gens], by : Paths]
    BY <1>22 DEF ConnectSave, RestoredSave, DisconnectSave, DisconnectBegin, TypeOK, Phases, Paths
  <2> QED
    BY <1>22, <1>j, <2>1 DEF ConnectSave, RestoredSave, DisconnectSave, DisconnectBegin
<1>23. CASE \/ ConnectBegin \/ Inspect \/ Fresh \/ InstallCompare \/ AwaitReady \/ TermWait
            \/ RestoreRead \/ RestoreCompare \/ LeaseReleased \/ LeaseTimeout \/ CommandDies
  BY <1>23, <1>s DEF ConnectBegin, Inspect, Fresh, InstallCompare, AwaitReady, TermWait,
                     RestoreRead, RestoreCompare, LeaseReleased, LeaseTimeout, CommandDies
<1> QED
  BY <1>4, <1>6, <1>7, <1>10, <1>14, <1>17, <1>22, <1>23 DEF Command

\* A command step establishes what the step it leads to relies on.
LEMMA CommandControl ==
    ASSUME TypeOK, Control, Command
    PROVE  Control'
<1> USE MaxGenAssumption DEF TypeOK, Control, Goto, Gens, RestorePCs, DisconnectPCs
<1>1. CASE ConnectBegin BY <1>1 DEF ConnectBegin
<1>2. CASE Inspect BY <1>2 DEF Inspect, Restore
<1>3. CASE Fresh BY <1>3 DEF Fresh
<1>4. CASE Stage BY <1>4 DEF Stage
<1>5. CASE InstallCompare BY <1>5 DEF InstallCompare
<1>6. CASE InstallReplace BY <1>6 DEF InstallReplace
<1>7. CASE Spawn BY <1>7 DEF Spawn
<1>8. CASE AwaitReady BY <1>8 DEF AwaitReady
<1>9. CASE ConnectSave BY <1>9 DEF ConnectSave
<1>10. CASE AwaitFailed BY <1>10 DEF AwaitFailed
<1>11. CASE TermWait BY <1>11 DEF TermWait, Restore
<1>12. CASE RestoreRead BY <1>12 DEF RestoreRead, RestoreError
<1>13. CASE RestoreCompare BY <1>13 DEF RestoreCompare, RestoreError
<1>14. CASE RestoreReplace BY <1>14 DEF RestoreReplace
<1>15. CASE RestoredSave BY <1>15 DEF RestoredSave
<1>16. CASE \E receipt \in 0 .. MaxGen : DisconnectBegin(receipt)
  BY <1>16 DEF DisconnectBegin, Restore
<1>17. CASE SendStop BY <1>17 DEF SendStop
<1>18. CASE LeaseReleased BY <1>18 DEF LeaseReleased
<1>19. CASE LeaseTimeout BY <1>19 DEF LeaseTimeout
<1>20. CASE DisconnectSave BY <1>20 DEF DisconnectSave
<1>21. CASE CommandDies BY <1>21 DEF CommandDies
<1> QED
  BY <1>1, <1>2, <1>3, <1>4, <1>5, <1>6, <1>7, <1>8, <1>9, <1>10, <1>11, <1>12, <1>13,
     <1>14, <1>15, <1>16, <1>17, <1>18, <1>19, <1>20, <1>21 DEF Command

\* The user gives values of UserVals and rewords tables.
LEMMA UserTypes ==
    ASSUME TypeOK, User
    PROVE  TypeOK'
<1> USE DEF TypeOK, Config, Tables, cliVars, procVars
<1>1. ASSUME NEW k \in Keys, NEW v \in UserVals, UserSets(k, v) PROVE TypeOK'
  BY <1>1 DEF UserSets, Racing
<1>2. ASSUME NEW g \in Gens, NEW t \in {"touched", "edited"}, UserEditsTable(g, t) PROVE TypeOK'
  BY <1>2 DEF UserEditsTable, Racing
<1> QED
  BY <1>1, <1>2 DEF User

(***************************************************************************)
(* Routers, engines and the lease.                                         *)
(***************************************************************************)

\* No host but one that finds the lease free comes to hold it.
LEMMA ProcessLease ==
    ASSUME TypeOK, Process
    PROVE  \/ \A g \in Gens : HoldsLease(g)' => HoldsLease(g)
           \/ \E g \in Gens : /\ ~RuntimeActive
                              /\ \A h \in Gens \ {g} : HoldsLease(h)' => HoldsLease(h)
<1> USE DEF TypeOK, HoldsLease, HostHolds, GuardianAlive, EngineAlive
<1>1. ASSUME NEW g \in Gens, HostLock(g)
      PROVE  \/ \A h \in Gens : HoldsLease(h)' => HoldsLease(h)
             \/ ~RuntimeActive /\ \A h \in Gens \ {g} : HoldsLease(h)' => HoldsLease(h)
  BY <1>1 DEF HostLock, Moves, Becomes
<1>2. ASSUME NEW g \in Gens, HostStep(g), ~HostLock(g)
      PROVE  \A h \in Gens : HoldsLease(h)' => HoldsLease(h)
  <2> USE DEF Moves, Becomes
  <2>1. CASE HostCheck(g) BY <2>1 DEF HostCheck
  <2>2. CASE HostRecheck(g) BY <2>2 DEF HostRecheck
  <2>3. CASE HostEngine(g) \/ HostBuilt(g) BY <2>3 DEF HostEngine, HostBuilt
  <2>4. CASE HostBind(g) \/ HostServe(g) BY <2>4 DEF HostBind, HostServe
  <2>5. CASE HostDrain(g) \/ HostExit(g) BY <2>5 DEF HostDrain, HostExit
  <2> QED
    BY <1>2, <2>1, <2>2, <2>3, <2>4, <2>5 DEF HostStep
<1>3. ASSUME NEW g \in Gens, HostDies(g) \/ GuardianStep(g) \/ GuardianFails(g)
      PROVE  \A h \in Gens : HoldsLease(h)' => HoldsLease(h)
  BY <1>3 DEF HostDies, Becomes, GuardianStep, GuardianFails, GuardianLaunch, GuardianReady,
              GuardianOwnerLost, GuardianStops
<1> QED
  BY <1>1, <1>2, <1>3 DEF Process

\* A process of a generation the journal does not ask for gains nothing.
LEMMA ProcessUnwanted ==
    ASSUME TypeOK, Process, NEW g \in Gens, ~Wanted(g)
    PROVE  /\ host'[g] \in PastReading => host[g] \in PastReading
           /\ host'[g] = "draining" => host[g] \in PastReading \cup {"draining"}
           /\ GuardianAlive(g)' => GuardianAlive(g)
<1> USE DEF TypeOK, PastReading, GuardianAlive, EngineAlive
<1>1. ASSUME NEW h \in Gens, HostStep(h) \/ HostDies(h)
      PROVE  /\ host'[g] \in PastReading => host[g] \in PastReading
             /\ host'[g] = "draining" => host[g] \in PastReading \cup {"draining"}
             /\ GuardianAlive(g)' => GuardianAlive(g)
  <2> USE DEF Moves, Becomes
  <2>1. CASE HostCheck(h) \/ HostLock(h) BY <2>1 DEF HostCheck, HostLock
  <2>2. CASE HostRecheck(h) BY <2>2 DEF HostRecheck
  <2>3. CASE HostEngine(h) \/ HostBuilt(h) BY <2>3 DEF HostEngine, HostBuilt, Quits
  <2>4. CASE HostBind(h) \/ HostServe(h) BY <2>4 DEF HostBind, HostServe
  <2>5. CASE HostDrain(h) \/ HostExit(h) \/ HostDies(h)
    BY <2>5 DEF HostDrain, HostExit, HostDies
  <2> QED
    BY <1>1, <2>1, <2>2, <2>3, <2>4, <2>5 DEF HostStep
<1>2. ASSUME NEW h \in Gens, GuardianStep(h) \/ GuardianFails(h)
      PROVE  host' = host /\ (GuardianAlive(g)' => GuardianAlive(g))
  BY <1>2 DEF GuardianStep, GuardianFails, GuardianLaunch, GuardianReady,
              GuardianOwnerLost, GuardianStops
<1> QED
  BY <1>1, <1>2 DEF Process

\* The lease passes from one generation to another only through being free.
LEMMA HolderStep ==
    ASSUME TypeOK, OneHolder, [Next]_vars
    PROVE  OneHolder'
<1> USE DEF OneHolder
<1>1. CASE Process
  BY <1>1, ProcessLease DEF RuntimeActive
<1>2. CASE Command
  BY <1>2, CommandFrame DEF HoldsLease, HostHolds, GuardianAlive, EngineAlive
<1>3. CASE User \/ UNCHANGED vars
  BY <1>3, UserFrame DEF vars, procVars, HoldsLease, HostHolds, GuardianAlive, EngineAlive
<1> QED
  BY <1>1, <1>2, <1>3 DEF Next, Process

\* A free lease means that no router and no engine is left.
LEMMA FreeLease ==
    ASSUME TypeOK, ~RuntimeActive
    PROVE  NoRuntime /\ NoRouter
  BY DEF TypeOK, HostStates, GuardianStates, NoRuntime, NoRouter, PastReading, RuntimeActive,
         HoldsLease, HostHolds, GuardianAlive, EngineAlive

\* Only the journal's generation passes a reading, and a command gives the
\* journal a new generation only when no router is left.
LEMMA CurrentStep ==
    ASSUME TypeOK, Control, Current, [Next]_vars
    PROVE  Current'
<1> USE DEF Current, RouterIsCurrent, NoRouter
<1>1. CASE Process
  <2>1. UNCHANGED <<journal, pc>>
    BY <1>1, ProcessFrame DEF cliVars
  <2> QED
    BY <1>1, <2>1, ProcessUnwanted DEF Wanted, Control, PastReading
<1>2. CASE Command
  <2>1. \A g \in Gens : host'[g] \in PastReading => host[g] \in PastReading
    BY <1>2, CommandFrame DEF PastReading
  <2>2. CASE Stage
    BY <2>1, <2>2 DEF Stage, Goto, PastReading
  <2>3. CASE Fresh
    BY <2>1, <2>3, FreeLease DEF Fresh, Goto, PastReading
  <2>4. CASE ~Stage /\ ~Fresh
    <3>1. journal'.gen = journal.gen /\ pc' # "stage"
      BY <1>2, <2>4 DEF Command, ConnectBegin, Inspect, InstallCompare, InstallReplace, Spawn,
            AwaitReady, ConnectSave, AwaitFailed, TermWait, RestoreRead, RestoreCompare,
            RestoreReplace, RestoredSave, DisconnectBegin, SendStop, LeaseReleased,
            LeaseTimeout, DisconnectSave, CommandDies, Goto, Restore, RestoreError, TypeOK
    <3> QED
      BY <2>1, <3>1 DEF PastReading
  <2> QED
    BY <2>2, <2>3, <2>4
<1>3. CASE User \/ UNCHANGED vars
  BY <1>3, UserFrame DEF vars, cliVars, procVars
<1> QED
  BY <1>1, <1>2, <1>3 DEF Next, Process

\* What a clean "disconnected" found stopped stays stopped, because a journal
\* in that phase asks for no generation.
LEMMA CleanedStep ==
    ASSUME TypeOK, Control, Cleaned, [Next]_vars
    PROVE  Cleaned'
<1> DEFINE Quiet == journal.phase = "disconnected" /\ journal.by # "recover"
<1>0. Cleaned <=> (Quiet \/ pc = "disconnect_save" => NoRuntime)
  BY DEF Cleaned, CleanDisconnect, NoRuntime
<1>p. Cleaned' <=> ((Quiet \/ pc = "disconnect_save")' => NoRuntime')
  BY DEF Cleaned, CleanDisconnect, NoRuntime
<1> HIDE DEF Quiet
<1>1. CASE Process
  <2>1. UNCHANGED <<journal, pc>>
    BY <1>1, ProcessFrame DEF cliVars
  <2>2. ASSUME Quiet \/ pc = "disconnect_save" PROVE NoRuntime'
    <3>1. \A g \in Gens : ~Wanted(g)
      BY <2>2 DEF Quiet, Wanted, Control, DisconnectPCs
    <3> QED
      BY <1>0, <1>1, <2>2, <3>1, ProcessUnwanted, ProcessTypes
         DEF NoRuntime, PastReading, GuardianAlive, EngineAlive, HostStates, GuardianStates
  <2> QED
    BY <1>p, <2>1, <2>2 DEF Quiet
<1>2. CASE Command
  <2>1. NoRuntime => NoRuntime'
    BY <1>2, CommandFrame DEF NoRuntime
  <2>2. CASE LeaseReleased
    BY <1>p, <2>1, <2>2, FreeLease DEF LeaseReleased
  <2>3. CASE RestoredSave
    <3>1. pc' # "disconnect_save" /\ (Quiet' => ~RuntimeActive)
      BY <2>3 DEF RestoredSave, Goto, Quiet, Control, TypeOK, Paths, RestorePCs
    <3> QED
      BY <1>p, <2>1, <3>1, FreeLease
  <2>4. CASE DisconnectSave
    BY <1>0, <1>p, <2>1, <2>4 DEF DisconnectSave
  <2>5. CASE ~LeaseReleased /\ ~RestoredSave /\ ~DisconnectSave
    <3>1. CASE Stage \/ ConnectSave \/ \E receipt \in 0 .. MaxGen : DisconnectBegin(receipt)
      <4>1. pc' # "disconnect_save"
        BY <3>1 DEF Stage, ConnectSave, DisconnectBegin, Goto, Restore
      <4>2. journal'.phase # "disconnected"
        <5>1. CASE Stage BY <5>1 DEF Stage
        <5>2. CASE ConnectSave BY <5>2 DEF ConnectSave, TypeOK
        <5>3. CASE \E receipt \in 0 .. MaxGen : DisconnectBegin(receipt)
          BY <5>3 DEF DisconnectBegin, TypeOK
        <5> QED
          BY <3>1, <5>1, <5>2, <5>3
      <4> QED
        BY <1>p, <4>1, <4>2 DEF Quiet
    <3>2. CASE ~Stage /\ ~ConnectSave /\ ~\E receipt \in 0 .. MaxGen : DisconnectBegin(receipt)
      <4>1. pc' # "disconnect_save" /\ journal' = journal
        BY <1>2, <2>5, <3>2 DEF Command, ConnectBegin, Inspect, Fresh, InstallCompare,
              InstallReplace, Spawn, AwaitReady, AwaitFailed, TermWait, RestoreRead,
              RestoreCompare, RestoreReplace, SendStop, LeaseTimeout, CommandDies, Goto,
              Restore, RestoreError
      <4> QED
        BY <1>0, <1>p, <2>1, <4>1 DEF Quiet
    <3> QED
      BY <3>1, <3>2
  <2> QED
    BY <2>2, <2>3, <2>4, <2>5
<1>3. CASE User \/ UNCHANGED vars
  BY <1>0, <1>p, <1>3, UserFrame DEF vars, cliVars, procVars, Quiet, NoRuntime
<1> QED
  BY <1>1, <1>2, <1>3 DEF Next, Process

(***************************************************************************)
(* The configuration.                                                      *)
(***************************************************************************)

\* What a restoration writes carries no mark of any generation.
LEMMA RestoredIsClean ==
    ASSUME TypeOK, Ownership, Owned(snap), RestoreReplace
    PROVE  Clean(config')
<1>1. RestoredKey("provider") \in UserVals
  BY DEF RestoredKey, Installed, Owned, Ownership
<1>2. \A g \in Gens : RestoredTable(g) # "exact"
  BY DEF RestoredTable, Owned
<1>3. "provider" \in Keys
  BY DEF Keys
<1> QED
  BY <1>1, <1>2, <1>3 DEF RestoreReplace, Clean

\* A command installs only over a clean document, and records "disconnected"
\* only with a clean one.
LEMMA CommandOwnership ==
    ASSUME TypeOK, Control, Ownership, Command
    PROVE  Ownership'
<1> USE DEF Goto
<1>s. Owned(NoSnap)
  BY PinnedAssumption DEF NoSnap, Owned, Keys
<1>4. CASE Stage
  <2>1. journal' = [gen |-> journal.gen + 1, phase |-> "prepared",
                    original |-> snap.key, by |-> "none"]
    BY <1>4 DEF Stage
  <2>2. config' = config /\ snap' = snap /\ pc' = "install_compare"
    BY <1>4 DEF Stage
  <2>3. Clean(config) /\ Clean(snap)
    BY <1>4 DEF Stage, Control, Ownership
  <2>4. journal'.phase = "prepared" /\ journal'.original["provider"] \in UserVals
    BY <2>1, <2>3 DEF Clean
  <2> QED
    BY <2>2, <2>3, <2>4 DEF Ownership, Clean, Owned, DisconnectPCs
<1>6. CASE InstallReplace
  <2>1. journal' = journal /\ pc' = "spawn" /\ journal.phase = "prepared"
    BY <1>6 DEF InstallReplace, Control
  <2>2. Owned(config)'
    <3>1. config'.key["provider"] = journal.gen
      BY <1>6 DEF InstallReplace, Installed, Keys
    <3>2. \A g \in Gens : config'.table[g] = "exact" => g = journal.gen
      BY <1>6 DEF InstallReplace, Ownership, Clean, TypeOK, Config
    <3> QED
      BY <2>1, <3>1, <3>2 DEF Owned
  <2> QED
    BY <2>1, <2>2 DEF Ownership, DisconnectPCs
<1>14. CASE RestoreReplace
  <2>1. Clean(config)'
    BY <1>14, RestoredIsClean DEF RestoreReplace, Ownership, Clean
  <2>2. journal' = journal /\ pc' \in {"stop", "restored"}
    BY <1>14 DEF RestoreReplace
  <2> QED
    BY <2>1, <2>2 DEF Ownership, Clean, Owned
<1>15. CASE RestoredSave
  <2>1. /\ config' = config /\ pc' \in {"fresh", "idle"} /\ Clean(config)
        /\ journal'.original = journal.original /\ journal'.gen = journal.gen
    BY <1>15 DEF RestoredSave, Ownership, TypeOK
  <2> QED
    BY <2>1 DEF Ownership, Clean, Owned, DisconnectPCs
<1>20. CASE DisconnectSave
  <2>1. /\ config' = config /\ pc' = "idle"
        /\ journal'.original = journal.original /\ journal'.gen = journal.gen
    BY <1>20 DEF DisconnectSave, TypeOK
  <2>2. journal'.phase = "disconnected" => Clean(config)
    <3>1. journal'.phase = IF err THEN "restore_required" ELSE "disconnected"
      BY <1>20 DEF DisconnectSave, TypeOK
    <3> QED
      BY <1>20, <3>1 DEF DisconnectSave, Ownership, DisconnectPCs
  <2> QED
    BY <2>1, <2>2 DEF Ownership, Clean, Owned, DisconnectPCs
<1>9. CASE ConnectSave
  <2>1. /\ config' = config /\ pc' = "idle" /\ journal'.phase = "connected"
        /\ journal'.original = journal.original /\ journal'.gen = journal.gen
    BY <1>9 DEF ConnectSave, TypeOK
  <2> QED
    BY <2>1 DEF Ownership, Owned, DisconnectPCs
<1>16. CASE \E receipt \in 0 .. MaxGen : DisconnectBegin(receipt)
  <2>1. /\ config' = config /\ pc' = "restore_read" /\ journal'.phase = "disconnecting"
        /\ journal'.original = journal.original /\ journal'.gen = journal.gen
    BY <1>16 DEF DisconnectBegin, Restore, TypeOK
  <2> QED
    BY <2>1 DEF Ownership, Owned, DisconnectPCs
<1>22. CASE \/ ConnectBegin \/ Inspect \/ Fresh \/ InstallCompare \/ Spawn \/ AwaitReady
            \/ AwaitFailed \/ TermWait \/ RestoreRead \/ RestoreCompare \/ SendStop
            \/ LeaseReleased \/ LeaseTimeout \/ CommandDies
  <2>1. journal' = journal /\ config' = config
    BY <1>22 DEF ConnectBegin, Inspect, Fresh, InstallCompare, Spawn, AwaitReady, AwaitFailed,
          TermWait, RestoreRead, RestoreCompare, SendStop, LeaseReleased, LeaseTimeout,
          CommandDies
  <2>2. pc' \in {"stage", "install_compare", "install_replace"} => Clean(snap')
    <3>1. CASE Fresh
      BY <3>1 DEF Fresh, Control, Ownership
    <3>2. CASE InstallCompare
      BY <3>2 DEF InstallCompare, Ownership
    <3>3. CASE ~Fresh /\ ~InstallCompare
      BY <1>22, <3>3 DEF ConnectBegin, Inspect, Spawn, AwaitReady, AwaitFailed, TermWait,
            RestoreRead, RestoreCompare, SendStop, LeaseReleased, LeaseTimeout, CommandDies,
            Restore, RestoreError
    <3> QED
      BY <3>1, <3>2, <3>3
  <2>3. pc' \in {"restore_compare", "restore_replace"} => Owned(snap')
    <3>1. CASE RestoreRead
      BY <3>1 DEF RestoreRead, RestoreError, Ownership
    <3>2. CASE RestoreCompare
      BY <3>2 DEF RestoreCompare, RestoreError, Ownership
    <3>3. CASE ~RestoreRead /\ ~RestoreCompare
      BY <1>22, <3>3 DEF ConnectBegin, Inspect, Fresh, InstallCompare, Spawn, AwaitReady,
            AwaitFailed, TermWait, SendStop, LeaseReleased, LeaseTimeout, CommandDies, Restore
    <3> QED
      BY <3>1, <3>2, <3>3
  <2>4. pc' # "restored"
    BY <1>22 DEF ConnectBegin, Inspect, Fresh, InstallCompare, Spawn, AwaitReady, AwaitFailed,
          TermWait, RestoreRead, RestoreCompare, SendStop, LeaseReleased, LeaseTimeout,
          CommandDies, Restore, RestoreError
  <2>5. pc' \in DisconnectPCs /\ ~err' => Clean(config)
    <3>1. CASE SendStop \/ LeaseReleased
      BY <3>1 DEF SendStop, LeaseReleased, Ownership, DisconnectPCs
    <3>2. CASE RestoreRead \/ RestoreCompare
      BY <3>2 DEF RestoreRead, RestoreCompare, RestoreError, DisconnectPCs
    <3>3. CASE ~SendStop /\ ~LeaseReleased /\ ~RestoreRead /\ ~RestoreCompare
      BY <1>22, <3>3 DEF ConnectBegin, Inspect, Fresh, InstallCompare, Spawn, AwaitReady,
            AwaitFailed, TermWait, LeaseTimeout, CommandDies, Restore, DisconnectPCs
    <3> QED
      BY <3>1, <3>2, <3>3
  <2> QED
    BY <2>1, <2>2, <2>3, <2>4, <2>5 DEF Ownership, Clean, Owned
<1> QED
  BY <1>4, <1>6, <1>9, <1>14, <1>15, <1>16, <1>20, <1>22 DEF Command

\* A user writes no generation's provider name and restores no table to the
\* bytes this program wrote.
LEMMA UserOwnership ==
    ASSUME TypeOK, Ownership, User
    PROVE  Ownership'
<1>1. UNCHANGED <<journal, pc, why, snap, err>>
  BY UserFrame DEF cliVars
<1>2. /\ config'.key["provider"] \in UserVals \cup {config.key["provider"]}
      /\ \A g \in Gens : config'.table[g] = "exact" => config.table[g] = "exact"
  <2>1. ASSUME NEW k \in Keys, NEW v \in UserVals, UserSets(k, v) PROVE <1>2
    BY <2>1 DEF UserSets, TypeOK, Config, Keys
  <2>2. ASSUME NEW g \in Gens, NEW t \in {"touched", "edited"}, UserEditsTable(g, t) PROVE <1>2
    BY <2>2 DEF UserEditsTable, TypeOK, Config, Keys
  <2> QED
    BY <2>1, <2>2 DEF User
<1> QED
  BY <1>1, <1>2 DEF Ownership, Owned, Clean

(***************************************************************************)
(* The user's choices.                                                     *)
(***************************************************************************)

\* What the journal's generation installs for a key.
Ours(k) == Installed(k, journal.gen)

\* Every key has the value the user last gave it, or that value is ours;
Kept == \A k \in Keys : want[k] = Ours(k) \/ config.key[k] = want[k]

\* and while a connection stands, a key that has our value instead has the user's in the journal.
Traced ==
    \A k \in Keys : \/ want[k] = Ours(k) \/ config.key[k] = want[k]
                    \/ config.key[k] = Ours(k) /\ journal.original[k] = want[k]

\* UserChoiceKept is not inductive: what a restoration writes depends on what the journal and
\* the copy say that a command compared with.
Choices ==
    /\ pc \in {"install_compare", "install_replace"} => journal.original = snap.key
    /\ ~lost =>
           /\ Traced
           /\ journal.phase = "disconnected" => Kept
           /\ pc = "restored" => Kept
           /\ pc \in DisconnectPCs /\ ~err => Kept
           /\ pc \in {"install_replace", "restore_replace"} => config = snap

\* No provider name that the user gives is a generation's.
LEMMA ProviderIsApart ==
    ASSUME TypeOK
    PROVE  want["provider"] # Ours("provider") /\ "provider" \in Keys
  BY UserValsAssumption, MaxGenAssumption DEF TypeOK, Ours, Installed, Keys

\* A step that writes neither the journal's record nor the configuration.
LEMMA ChoicesFrame ==
    ASSUME Choices, UNCHANGED <<config, userVars>>,
           journal'.gen = journal.gen, journal'.original = journal.original,
           journal'.phase = "disconnected" => journal.phase = "disconnected" \/ Kept \/ lost,
           pc' = "restored" => pc = "restored",
           pc' \in DisconnectPCs /\ ~err' => pc \in DisconnectPCs /\ ~err,
           pc' \in {"install_replace", "restore_replace"} => config = snap',
           pc' \in {"install_compare", "install_replace"} =>
               pc \in {"install_compare", "install_replace"} /\ snap' = snap
    PROVE  Choices'
<1>1. (Kept' <=> Kept) /\ (Traced' <=> Traced)
  BY DEF Kept, Traced, Ours, userVars
<1> QED
  BY <1>1 DEF Choices, userVars

LEMMA CommandChoices ==
    ASSUME TypeOK, Control, Ownership, Choices, Command
    PROVE  Choices'
<1> USE DEF Goto
<1>4. CASE Stage
  <2>1. /\ journal'.gen = journal.gen + 1 /\ journal'.phase = "prepared"
        /\ journal'.original = snap.key /\ snap' = snap
        /\ UNCHANGED <<config, want, lost>> /\ pc' = "install_compare"
    BY <1>4 DEF Stage, userVars
  <2>2. ~lost => Kept
    BY <1>4 DEF Stage, Control, Choices
  <2>3. Kept => Traced'
    BY <2>1, ProviderIsApart DEF Kept, Traced, Ours, Installed, Keys
  <2> QED
    BY <2>1, <2>2, <2>3 DEF Choices, DisconnectPCs
<1>6. CASE InstallReplace
  <2>1. /\ UNCHANGED <<journal, want, lost>> /\ pc' = "spawn" /\ journal.phase = "prepared"
        /\ \A k \in Keys : config'.key[k] = Ours(k)
    BY <1>6 DEF InstallReplace, Control, userVars, Ours
  <2>2. ~lost => Traced /\ config.key = journal.original
    BY <1>6 DEF InstallReplace, Choices
  <2>3. ~lost => Traced'
    BY <2>1, <2>2 DEF Traced, Ours
  <2> QED
    BY <2>1, <2>3 DEF Choices, DisconnectPCs
<1>14. CASE RestoreReplace
  <2>1. /\ UNCHANGED <<journal, want, lost>> /\ pc' \in {"stop", "restored"}
        /\ \A k \in Keys : config'.key[k] = RestoredKey(k)
    BY <1>14 DEF RestoreReplace, userVars
  <2>2. ~lost => Traced /\ config = snap
    BY <1>14 DEF RestoreReplace, Choices
  <2>3. ~lost => Kept'
    BY <2>1, <2>2 DEF Traced, Kept, Ours, RestoredKey
  <2>4. Kept' => Traced'
    BY DEF Kept, Traced
  <2> QED
    BY <2>1, <2>3, <2>4 DEF Choices
<1>15. CASE RestoredSave
  BY <1>15, ChoicesFrame DEF RestoredSave, procVars, TypeOK, DisconnectPCs, Choices
<1>20. CASE DisconnectSave
  <2>1. journal'.phase = "disconnected" => ~err
    BY <1>20 DEF DisconnectSave, TypeOK
  <2>2. /\ UNCHANGED <<config, userVars>> /\ pc = "disconnect_save" /\ pc' = "idle"
        /\ journal'.gen = journal.gen /\ journal'.original = journal.original
    BY <1>20 DEF DisconnectSave, TypeOK
  <2>3. journal'.phase = "disconnected" => Kept \/ lost
    BY <2>1, <2>2 DEF Choices, DisconnectPCs
  <2> QED
    BY <2>2, <2>3, ChoicesFrame DEF DisconnectPCs
<1>9. CASE ConnectSave
  BY <1>9, ChoicesFrame DEF ConnectSave, TypeOK, DisconnectPCs
<1>16. CASE \E receipt \in 0 .. MaxGen : DisconnectBegin(receipt)
  BY <1>16, ChoicesFrame DEF DisconnectBegin, Restore, TypeOK, DisconnectPCs
<1>22. CASE InstallCompare \/ RestoreCompare
  BY <1>22, ChoicesFrame DEF InstallCompare, RestoreCompare, RestoreError, DisconnectPCs
<1>23. CASE \/ ConnectBegin \/ Inspect \/ Fresh \/ Spawn \/ AwaitReady \/ AwaitFailed \/ TermWait
            \/ RestoreRead
  <2>1. /\ UNCHANGED <<config, journal, userVars>>
        /\ pc' \notin {"restored", "install_replace", "restore_replace", "install_compare"}
        /\ ~(pc' \in DisconnectPCs /\ ~err')
    BY <1>23 DEF ConnectBegin, Inspect, Fresh, Spawn, AwaitReady, AwaitFailed, TermWait,
          RestoreRead, RestoreError, Restore, DisconnectPCs
  <2> QED
    BY <2>1, ChoicesFrame
<1>24. CASE SendStop \/ LeaseReleased \/ LeaseTimeout \/ CommandDies
  <2>1. /\ UNCHANGED <<config, journal, userVars>>
        /\ pc' \notin {"restored", "install_replace", "restore_replace", "install_compare"}
        /\ pc' \in DisconnectPCs /\ ~err' => pc \in DisconnectPCs /\ ~err
    BY <1>24 DEF SendStop, LeaseReleased, LeaseTimeout, CommandDies, DisconnectPCs
  <2> QED
    BY <2>1, ChoicesFrame
<1> QED
  BY <1>4, <1>6, <1>9, <1>14, <1>15, <1>16, <1>20, <1>22, <1>23, <1>24 DEF Command

\* An edit is the user's last choice, and one that races with a replace is counted as lost.
LEMMA UserChoices ==
    ASSUME TypeOK, Choices, User
    PROVE  Choices'
<1>1. UNCHANGED <<journal, pc, why, snap, err>>
  BY UserFrame DEF cliVars
<1>2. /\ lost' = (lost \/ Racing)
      /\ \A k \in Keys : \/ config'.key[k] = config.key[k] /\ want'[k] = want[k]
                         \/ config'.key[k] = want'[k]
  <2>1. ASSUME NEW k \in Keys, NEW v \in UserVals, UserSets(k, v) PROVE <1>2
    BY <2>1 DEF UserSets, TypeOK, Config
  <2>2. ASSUME NEW g \in Gens, NEW t \in {"touched", "edited"}, UserEditsTable(g, t) PROVE <1>2
    BY <2>2 DEF UserEditsTable, TypeOK, Config
  <2> QED
    BY <2>1, <2>2 DEF User
<1>3. (Kept => Kept') /\ (Traced => Traced')
  BY <1>1, <1>2 DEF Kept, Traced, Ours
<1>4. pc \in {"install_replace", "restore_replace"} => lost'
  BY <1>2 DEF Racing
<1>5. ~lost' => ~lost
  BY <1>2
<1> QED
  BY <1>1, <1>3, <1>4, <1>5 DEF Choices

(***************************************************************************)
(* The theorems.                                                           *)
(***************************************************************************)

IInv == TypeOK /\ Control /\ OneHolder /\ Current /\ Cleaned /\ Ownership

LEMMA InitIInv == Init => IInv
<1> SUFFICES ASSUME Init PROVE IInv
  OBVIOUS
<1>1. TypeOK
  <2>1. want \in [Keys -> UserVals] /\ lost \in BOOLEAN
    BY DEF Init
  <2>2. config \in Config
    BY DEF Init, Config, Tables
  <2>3. journal \in [gen : 0 .. MaxGen, phase : Phases,
                     original : [Keys -> UserVals \cup Gens], by : Paths]
    BY <2>1, MaxGenAssumption DEF Init, Phases, Paths
  <2>4. CliTypes
    BY NoSnapType DEF Init, CliTypes, PCs, Paths
  <2>5. /\ host \in [Gens -> HostStates]
        /\ stop \in [Gens -> BOOLEAN]
        /\ guardian \in [Gens -> GuardianStates]
    BY DEF Init, HostStates, GuardianStates
  <2> QED
    BY <2>1, <2>2, <2>3, <2>4, <2>5 DEF TypeOK, CliTypes
<1>2. Control
  BY DEF Init, Control, RestorePCs, DisconnectPCs
<1>3. OneHolder /\ Current /\ Cleaned
  BY DEF Init, OneHolder, HoldsLease, HostHolds, GuardianAlive, EngineAlive, Current,
         RouterIsCurrent, Cleaned, CleanDisconnect
<1>4. Ownership
  BY DEF Init, Ownership, Owned, Clean, DisconnectPCs, Keys
<1> QED
  BY <1>1, <1>2, <1>3, <1>4 DEF IInv

LEMMA NextIInv == IInv /\ [Next]_vars => IInv'
<1> SUFFICES ASSUME IInv, [Next]_vars PROVE IInv'
  OBVIOUS
<1> USE DEF IInv
<1>1. (TypeOK /\ Control /\ Ownership)'
  <2>1. CASE Command
    BY <2>1, CommandTypes, CommandControl, CommandOwnership
  <2>2. CASE Process
    <3>1. TypeOK'
      BY <2>2, ProcessFrame, ProcessTypes DEF TypeOK, cliVars, userVars
    <3>2. (Control /\ Ownership)'
      BY <2>2, ProcessFrame DEF cliVars, Control, Ownership, Owned, Clean
    <3> QED
      BY <3>1, <3>2
  <2>3. CASE User
    <3>1. Control'
      BY <2>3, UserFrame DEF cliVars, Control
    <3> QED
      BY <2>3, <3>1, UserTypes, UserOwnership
  <2>4. CASE UNCHANGED vars
    BY <2>4 DEF vars, TypeOK, Control, Ownership, Owned, Clean
  <2> QED
    BY <2>1, <2>2, <2>3, <2>4 DEF Next, Process
<1>2. (OneHolder /\ Current /\ Cleaned)'
  BY HolderStep, CurrentStep, CleanedStep
<1> QED
  BY <1>1, <1>2

LEMMA Invariance == Spec => []IInv
  BY InitIInv, NextIInv, PTL DEF Spec

\* The journal, the configuration, the command and the processes keep their
\* types (_parse_record rejects any other phase).
THEOREM Typing == Spec => []TypeOK
<1>1. IInv => TypeOK
  BY DEF IInv
<1> QED
  BY Invariance, <1>1, PTL

\* The runtime lease of connected_client_runtime.main and the descriptor
\* OwnedLlama passes to its guardian keep the routers and engines of two
\* generations apart.
THEOREM OneRuntimeHolds == Spec => []OneRuntime
<1>1. IInv => OneRuntime
  BY DEF IInv, OneHolder, OneRuntime, RuntimeAlive, HoldsLease, GuardianAlive
<1> QED
  BY Invariance, <1>1, PTL

\* main's readings of the journal under the lease keep a stale host from
\* serving under a newer connection.
THEOREM RouterIsCurrentHolds == Spec => []RouterIsCurrent
<1>1. IInv => RouterIsCurrent
  BY DEF IInv, Current
<1> QED
  BY Invariance, <1>1, PTL

\* A "disconnected" that disconnect, or connect after a failed start, records
\* means that no router passed its readings and that no engine is left.
THEOREM CleanDisconnectHolds == Spec => []CleanDisconnect
<1>1. IInv => CleanDisconnect
  BY DEF IInv, Cleaned
<1> QED
  BY Invariance, <1>1, PTL

\* _restore leaves no provider name and no intact provider table of any
\* generation in a configuration that is recorded as disconnected.
THEOREM NothingOwnedLeftHolds == Spec => []NothingOwnedLeft
<1>1. IInv => NothingOwnedLeft
  BY DEF IInv, Ownership, Clean, NothingOwnedLeft
<1> QED
  BY Invariance, <1>1, PTL

\* The lease and the readings of the journal under it keep the runtimes apart and
\* the serving router current.
THEOREM RuntimeIsSoundHolds == Spec => []RuntimeIsSound
  BY OneRuntimeHolds, RouterIsCurrentHolds, PTL DEF RuntimeIsSound

\* What is recorded as disconnected is clean: its processes are gone, and its
\* entries are out of the configuration.
THEOREM DisconnectIsCleanHolds == Spec => []DisconnectIsClean
  BY CleanDisconnectHolds, NothingOwnedLeftHolds, PTL DEF DisconnectIsClean

\* What _restore writes back is the user's last choice, through interrupted set-ups, failed
\* restorations and edits between the steps of a command: it compares with the value that was
\* installed, and originals are read from the document the installation was compared with.
THEOREM UserChoiceKeptHolds == Spec => []UserChoiceKept
<1>1. Init => Choices
  BY DEF Init, Choices, Kept, Traced, DisconnectPCs
<1>2. IInv /\ Choices /\ [Next]_vars => Choices'
  <2> SUFFICES ASSUME IInv, Choices, [Next]_vars PROVE Choices'
    OBVIOUS
  <2>1. CASE Command
    BY <2>1, CommandChoices DEF IInv
  <2>2. CASE Process \/ UNCHANGED vars
    BY <2>2, ProcessFrame
       DEF vars, cliVars, userVars, Choices, Kept, Traced, Ours
  <2>3. CASE User
    BY <2>3, UserChoices DEF IInv
  <2> QED
    BY <2>1, <2>2, <2>3 DEF Next, Process
<1>3. Choices => UserChoiceKept
  BY DEF Choices, Kept, Ours, UserChoiceKept
<1> QED
  BY <1>1, <1>2, <1>3, Invariance, PTL DEF Spec

(***************************************************************************)
(* Local setup: however many set-ups run, and wherever each is             *)
(* interrupted, the same command can be given again, and no set-up changes *)
(* a credential or a configuration that is there.                          *)
(*                                                                         *)
(* A set-up that finds a name compares what it stands for, so the          *)
(* invariant says what is there while nobody intervened: a credential of   *)
(* the number of names it has, and a configuration that is this program's. *)
(***************************************************************************)

SetupStages == {"idle", "locked", "read", "ready", "staged", "credential", "linked", "configuration",
                "published", "connecting"}
SetupResults == {"none", "unsafe", "changed", "unreadable", "missing", "reused", "previewed", "failed", "created"}
Callers == [at : SetupStages, preview : BOOLEAN, existing : BOOLEAN, result : SetupResults]
CredentialFiles == [names : 0..2, token : Nat]
ConfigurationFiles == [names : 0..2, text : {"none", "managed", "environment", "edited"}]
SetupTyping ==
    /\ setups \in [Setups -> Callers] /\ credential \in CredentialFiles
    /\ configuration \in ConfigurationFiles /\ entries \in [Directories -> Nat] /\ intervened \in BOOLEAN

OneSetup == \A s, t \in Setups : LockHolder(s) /\ LockHolder(t) => s = t

\* A configuration is the text of some command, and one that needs a credential finds it.
ConfigurationIsOurs ==
    /\ configuration.names = 0 => configuration.text = "none"
    /\ configuration.names > 0 => \E t \in Setups : configuration.text = TextOf(t)
    /\ configuration.names > 0 /\ configuration.text = "managed" => credential.names > 0

\* What a command that holds the lock has found is still so.
FoundIsThere(s) ==
    /\ setups[s].at \in {"read", "ready"} /\ setups[s].existing =>
         configuration.names > 0 /\ configuration.text = TextOf(s)
    /\ setups[s].at \in {"read", "ready"} /\ ~setups[s].existing => configuration.names = 0
    /\ setups[s].at \in {"staged", "credential", "linked", "configuration"} => configuration.names = 0
    /\ setups[s].at \in {"ready", "linked", "configuration"} /\ ModeOf[s] = "managed" => credential.names > 0

ResultIsOurs(s) ==
    /\ setups[s].result # "missing"
    /\ setups[s].result = "unsafe" => Crowded("configuration")
    /\ setups[s].result = "unreadable" => Crowded("credential")
    /\ setups[s].result = "changed" => configuration.names > 0 /\ configuration.text # TextOf(s)

SetupInv ==
    /\ SetupTyping /\ OneSetup
    /\ ~intervened => ConfigurationIsOurs /\ \A s \in Setups : FoundIsThere(s) /\ ResultIsOurs(s)

LEMMA SetupStarts == SetupInit => SetupInv
<1> SUFFICES ASSUME SetupInit PROVE SetupInv
  OBVIOUS
<1>1. Rest \in Callers /\ Rest.at = "idle" /\ Rest.result = "none"
  BY DEF Rest, Caller, Callers, SetupStages, SetupResults
<1> HIDE DEF Rest
<1>2. \A s \in Setups : setups[s] = Rest
  BY DEF SetupInit
<1>3. SetupTyping
  <2>1. setups \in [Setups -> Callers]
    BY <1>1 DEF SetupInit
  <2>2. credential \in CredentialFiles /\ configuration \in ConfigurationFiles
    BY DEF SetupInit, CredentialFiles, ConfigurationFiles
  <2>3. intervened \in BOOLEAN /\ entries \in [Directories -> Nat]
    BY DEF SetupInit
  <2> QED BY <2>1, <2>2, <2>3 DEF SetupTyping
<1> QED
  BY <1>1, <1>2, <1>3 DEF SetupInit, SetupInv, OneSetup, LockHolder, ConfigurationIsOurs, FoundIsThere, ResultIsOurs

\* The caller that acts goes on, ends or is replaced; the others stand where they stood.
LEMMA CallerGoes ==
    ASSUME setups \in [Setups -> Callers], NEW s \in Setups, NEW at \in SetupStages, Goes(s, at)
    PROVE  /\ setups' \in [Setups -> Callers]
           /\ setups'[s].at = at /\ setups'[s].existing = setups[s].existing
           /\ setups'[s].preview = setups[s].preview /\ setups'[s].result = setups[s].result
           /\ \A t \in Setups \ {s} : setups'[t] = setups[t]
BY DEF Goes, Callers

LEMMA CallerEnds ==
    ASSUME setups \in [Setups -> Callers], NEW s \in Setups, NEW result \in SetupResults, SetupEnds(s, result)
    PROVE  /\ setups' \in [Setups -> Callers]
           /\ setups'[s].at = "idle" /\ setups'[s].result = result
           /\ \A t \in Setups \ {s} : setups'[t] = setups[t]
<1>2. /\ Caller("idle", FALSE, FALSE, result) \in Callers
      /\ Caller("idle", FALSE, FALSE, result).at = "idle" /\ Caller("idle", FALSE, FALSE, result).result = result
  BY DEF Caller, Callers, SetupStages
<1> QED BY <1>2 DEF SetupEnds

\* Once the user has intervened, only the types and the lock count.
LEMMA SetupKeeps == SetupInv /\ [SetupNext]_setupVars => SetupInv'
<1> SUFFICES ASSUME SetupInv, [SetupNext]_setupVars PROVE SetupInv'
  OBVIOUS
<1>1. SetupTyping /\ OneSetup /\ ModeOf \in [Setups -> {"managed", "environment"}] /\ ScanLimit \in Nat
  BY SetupAssumption DEF SetupInv
<1>0. /\ setups \in [Setups -> Callers] /\ credential \in CredentialFiles
      /\ configuration \in ConfigurationFiles /\ intervened \in BOOLEAN /\ entries \in [Directories -> Nat]
  BY <1>1 DEF SetupTyping
<1> DEFINE Facts == ConfigurationIsOurs /\ \A s \in Setups : FoundIsThere(s) /\ ResultIsOurs(s)
<1>2. ~intervened => Facts
  BY DEF SetupInv
\* A step of the command that holds the lock, or of one that takes it while it is free.
<1>3. ASSUME NEW s \in Setups, \A t \in Setups \ {s} : setups'[t] = setups[t] /\ setups[t].at = "idle",
             setups' \in [Setups -> Callers], credential' \in CredentialFiles,
             configuration' \in ConfigurationFiles, UNCHANGED <<entries, intervened>>,
             Facts /\ configuration.names > 0 => configuration'.names > 0 /\ configuration'.text = configuration.text,
             Facts => ConfigurationIsOurs' /\ FoundIsThere(s)' /\ ResultIsOurs(s)'
      PROVE  SetupInv'
  <2>1. SetupTyping' /\ OneSetup'
    BY <1>0, <1>3 DEF SetupTyping, OneSetup, LockHolder
  <2>2. ASSUME Facts, NEW t \in Setups \ {s}
        PROVE  FoundIsThere(t)' /\ ResultIsOurs(t)'
    BY <1>3, <2>2 DEF FoundIsThere, ResultIsOurs, Crowded, TextOf
  <2> QED BY <1>2, <1>3, <2>1, <2>2 DEF SetupInv
<1>4. ASSUME NEW s \in Setups, LockHolder(s)
      PROVE  \A t \in Setups \ {s} : setups[t].at = "idle"
  BY <1>1, <1>4 DEF OneSetup, LockHolder
<1>5. ASSUME NEW s \in Setups, NEW preview \in BOOLEAN, LockConfiguration(s, preview)
      PROVE  SetupInv'
  <2>1. /\ Caller("locked", preview, FALSE, "none") \in Callers
        /\ Caller("locked", preview, FALSE, "none").at = "locked"
        /\ Caller("locked", preview, FALSE, "none").result = "none"
    BY DEF Caller, Callers, SetupStages, SetupResults
  <2>2. /\ setups' \in [Setups -> Callers] /\ setups'[s].at = "locked" /\ setups'[s].result = "none"
        /\ \A t \in Setups \ {s} : setups'[t] = setups[t] /\ setups[t].at = "idle"
        /\ UNCHANGED <<credential, configuration, entries, intervened>>
    BY <1>0, <1>5, <2>1 DEF LockConfiguration, LockHolder
  <2> QED BY <1>0, <1>3, <2>2 DEF ConfigurationIsOurs, FoundIsThere, ResultIsOurs, TextOf
<1>6. ASSUME NEW s \in Setups, ReadConfiguration(s)
      PROVE  SetupInv'
  <2>0. PICK names \in Recovered("configuration", configuration.names) :
           LET found == [configuration EXCEPT !.names = names]
           IN  /\ setups[s].at = "locked" /\ configuration' = found
               /\ CASE found.names > 1 -> SetupEnds(s, "unsafe")
                    [] found.names < 2 /\ ~ReadsPorts(found.text) -> SetupEnds(s, "changed")
                    [] found.names = 1 /\ ReadsPorts(found.text) /\ found.text # TextOf(s) -> SetupEnds(s, "changed")
                    [] OTHER ->
                         setups' = [setups EXCEPT ![s] = Caller("read", setups[s].preview, found.names > 0, "none")]
               /\ UNCHANGED <<credential, entries, intervened>>
    BY <1>6 DEF ReadConfiguration
  <2> DEFINE found == [configuration EXCEPT !.names = names]
  <2>1. /\ found \in ConfigurationFiles /\ found.names \in 0..2 /\ found.text = configuration.text
        /\ found.names = 0 <=> configuration.names = 0
        /\ found.names > 0 <=> configuration.names > 0
        /\ found.names = 2 => Crowded("configuration")
    BY <1>0, <2>0 DEF Recovered, ConfigurationFiles
  <2>2. configuration' = found /\ UNCHANGED <<credential, entries, intervened>> /\ setups[s].at = "locked"
    BY <2>0
  <2>7. \/ found.names = 2 /\ SetupEnds(s, "unsafe")
        \/ found.names < 2 /\ ~ReadsPorts(found.text) /\ SetupEnds(s, "changed")
        \/ found.names = 1 /\ found.text # TextOf(s) /\ SetupEnds(s, "changed")
        \/ /\ found.names < 2 /\ ReadsPorts(found.text) /\ ~(found.names = 1 /\ found.text # TextOf(s))
           /\ setups' = [setups EXCEPT ![s] = Caller("read", setups[s].preview, found.names > 0, "none")]
    <3> HIDE DEF found
    <3> QED BY <2>0, <2>1 DEF found
  <2> HIDE DEF found
  <2>3. \A t \in Setups \ {s} : setups[t].at = "idle"
    BY <1>4, <2>2 DEF LockHolder
  <2>4. Facts => ConfigurationIsOurs'
    BY <2>1, <2>2 DEF ConfigurationIsOurs, TextOf
  <2>8. found.names = configuration'.names /\ found.text = configuration'.text
    BY <2>2
  <2>5. ASSUME NEW result \in {"unsafe", "changed"}, SetupEnds(s, result),
               \/ result = "unsafe" /\ found.names = 2
               \/ result = "changed" /\ found.names < 2 /\ ~ReadsPorts(found.text)
               \/ result = "changed" /\ found.names = 1 /\ found.text # TextOf(s)
        PROVE  SetupInv'
    <3>2. /\ setups' \in [Setups -> Callers] /\ setups'[s].at = "idle" /\ setups'[s].result = result
          /\ \A t \in Setups \ {s} : setups'[t] = setups[t]
      BY <1>0, <2>5, CallerEnds DEF SetupResults
    <3>3. Facts => ReadsPorts(found.text)
      BY <1>1, <2>1 DEF ConfigurationIsOurs, TextOf, ReadsPorts
    <3>4. Facts => FoundIsThere(s)' /\ ResultIsOurs(s)'
      BY <2>1, <2>2, <2>5, <2>8, <3>2, <3>3 DEF FoundIsThere, ResultIsOurs, Crowded, TextOf
    <3> QED BY <1>0, <1>3, <2>1, <2>2, <2>3, <2>4, <3>2, <3>4
  <2>6. ASSUME found.names < 2, ReadsPorts(found.text), ~(found.names = 1 /\ found.text # TextOf(s)),
               setups' = [setups EXCEPT ![s] = Caller("read", setups[s].preview, found.names > 0, "none")]
        PROVE  SetupInv'
    <3>1. setups' = [setups EXCEPT ![s] = Caller("read", setups[s].preview, found.names > 0, "none")]
      BY <2>6
    <3>2. setups[s].preview \in BOOLEAN /\ (found.names > 0) \in BOOLEAN
      BY <1>0 DEF Callers
    <3> DEFINE c == Caller("read", setups[s].preview, found.names > 0, "none")
    <3>3. c \in Callers /\ c.at = "read" /\ c.result = "none"
      BY <3>2 DEF Caller, Callers, SetupStages, SetupResults
    <3>7. ASSUME found.names = 0
          PROVE  ~c.existing
      <4>1. (found.names > 0) = FALSE
        BY <3>7
      <4>2. c.existing = FALSE
        BY <4>1, Zenon DEF Caller
      <4> QED BY <4>2
    <3>8. ASSUME found.names = 1
          PROVE  c.existing
      <4>1. (found.names > 0) = TRUE
        BY <3>8
      <4>2. c.existing = TRUE
        BY <4>1, Zenon DEF Caller
      <4> QED BY <4>2
    <3> HIDE DEF c
    <3>4. /\ setups' \in [Setups -> Callers] /\ setups'[s] = c
          /\ \A t \in Setups \ {s} : setups'[t] = setups[t]
      BY <1>0, <3>1, <3>3 DEF c
    <3>5. \/ configuration'.names = 1 /\ setups'[s].existing /\ configuration'.text = TextOf(s)
          \/ configuration'.names = 0 /\ ~setups'[s].existing
      <4>1. CASE found.names = 0
        BY <2>2, <3>4, <3>7, <4>1
      <4>2. CASE found.names = 1
        <5>1. setups'[s].existing
          BY <3>4, <3>8, <4>2
        <5> QED BY <2>2, <2>6, <4>2, <5>1
      <4> QED BY <2>1, <2>6, <4>1, <4>2
    <3>6. FoundIsThere(s)' /\ ResultIsOurs(s)'
      BY <3>3, <3>4, <3>5 DEF FoundIsThere, ResultIsOurs, TextOf
    <3> QED BY <1>0, <1>3, <2>1, <2>2, <2>3, <2>4, <3>4, <3>6
  <2> QED BY <2>5, <2>6, <2>7
<1>7. ASSUME NEW s \in Setups, FindCredential(s)
      PROVE  SetupInv'
  <2>0. PICK names \in Recovered("credential", credential.names) :
           LET found == [credential EXCEPT !.names = names]
           IN  /\ setups[s].at = "read" /\ ModeOf[s] = "managed" /\ credential' = found
               /\ CASE IsReadable(found) -> Goes(s, "ready")
                    [] found.names > 1 -> SetupEnds(s, "unreadable")
                    [] found.names = 0 /\ setups[s].existing -> SetupEnds(s, "missing")
                    [] OTHER -> credential.token < MaxCredentials /\ Goes(s, "staged")
               /\ UNCHANGED <<configuration, entries, intervened>>
    BY <1>7 DEF FindCredential
  <2> DEFINE found == [credential EXCEPT !.names = names]
  <2>1. /\ found \in CredentialFiles /\ found.names \in 0..2
        /\ found.names > 0 <=> credential.names > 0
        /\ found.names = 2 => Crowded("credential")
    BY <1>0, <2>0 DEF Recovered, CredentialFiles
  <2>2. credential' = found /\ UNCHANGED <<configuration, entries, intervened>> /\ setups[s].at = "read"
        /\ ModeOf[s] = "managed"
    BY <2>0
  <2>3. \/ found.names > 0 /\ Goes(s, "ready")
        \/ found.names = 2 /\ SetupEnds(s, "unreadable")
        \/ found.names = 0 /\ setups[s].existing /\ SetupEnds(s, "missing")
        \/ found.names = 0 /\ ~setups[s].existing /\ Goes(s, "staged")
    <3> HIDE DEF found
    <3> QED BY <1>0, <2>0, <2>1 DEF found, IsReadable
  <2> HIDE DEF found
  <2>4. \A t \in Setups \ {s} : setups[t].at = "idle"
    BY <1>4, <2>2 DEF LockHolder
  <2>5. ConfigurationIsOurs => ConfigurationIsOurs'
    BY <2>1, <2>2 DEF ConfigurationIsOurs, TextOf
  <2>6. CASE found.names > 0 /\ Goes(s, "ready")
    <3>1. /\ setups' \in [Setups -> Callers] /\ setups'[s].at = "ready"
          /\ setups'[s].existing = setups[s].existing /\ setups'[s].result = setups[s].result
          /\ \A t \in Setups \ {s} : setups'[t] = setups[t]
      BY <1>0, <2>6, CallerGoes DEF SetupStages
    <3>2. FoundIsThere(s) /\ ResultIsOurs(s) => FoundIsThere(s)' /\ ResultIsOurs(s)'
      BY <2>2, <2>6, <3>1 DEF FoundIsThere, ResultIsOurs, Crowded, TextOf
    <3> QED BY <1>0, <1>3, <2>1, <2>2, <2>4, <2>5, <3>1, <3>2
  <2>7. CASE found.names = 0 /\ setups[s].existing /\ SetupEnds(s, "missing")
    <3>1. /\ setups' \in [Setups -> Callers]
          /\ \A t \in Setups \ {s} : setups'[t] = setups[t]
      BY <1>0, <2>7, CallerEnds DEF SetupResults
    <3>2. ConfigurationIsOurs /\ FoundIsThere(s) => FALSE
      BY <2>1, <2>2, <2>7 DEF ConfigurationIsOurs, FoundIsThere, TextOf
    <3> QED BY <1>0, <1>3, <2>1, <2>2, <2>4, <3>1, <3>2
  <2>8. CASE found.names = 0 /\ ~setups[s].existing /\ Goes(s, "staged")
    <3>1. /\ setups' \in [Setups -> Callers] /\ setups'[s].at = "staged"
          /\ setups'[s].existing = setups[s].existing /\ setups'[s].result = setups[s].result
          /\ \A t \in Setups \ {s} : setups'[t] = setups[t]
      BY <1>0, <2>8, CallerGoes DEF SetupStages
    <3>2. FoundIsThere(s) /\ ResultIsOurs(s) => FoundIsThere(s)' /\ ResultIsOurs(s)'
      BY <2>2, <2>8, <3>1 DEF FoundIsThere, ResultIsOurs, Crowded, TextOf
    <3> QED BY <1>0, <1>3, <2>1, <2>2, <2>4, <2>5, <3>1, <3>2
  <2>9. CASE found.names = 2 /\ SetupEnds(s, "unreadable")
    <3>1. /\ setups' \in [Setups -> Callers] /\ setups'[s].at = "idle" /\ setups'[s].result = "unreadable"
          /\ \A t \in Setups \ {s} : setups'[t] = setups[t]
      BY <1>0, <2>9, CallerEnds DEF SetupResults
    <3>2. FoundIsThere(s)' /\ ResultIsOurs(s)'
      BY <2>1, <2>2, <2>9, <3>1 DEF FoundIsThere, ResultIsOurs, Crowded
    <3> QED BY <1>0, <1>3, <2>1, <2>2, <2>4, <2>5, <3>1, <3>2
  <2> QED BY <2>3, <2>6, <2>7, <2>8, <2>9
<1>8. ASSUME NEW s \in Setups, UNCHANGED <<credential, configuration, entries, intervened>>, LockHolder(s),
             NEW result \in SetupResults \ {"unsafe", "unreadable", "missing", "changed"}, SetupEnds(s, result)
      PROVE  SetupInv'
  <2>1. /\ setups' \in [Setups -> Callers] /\ setups'[s].at = "idle" /\ setups'[s].result = result
        /\ \A t \in Setups \ {s} : setups'[t] = setups[t] /\ setups[t].at = "idle"
    BY <1>0, <1>4, <1>8, CallerEnds
  <2> QED BY <1>0, <1>3, <1>8, <2>1 DEF ConfigurationIsOurs, FoundIsThere, ResultIsOurs, TextOf
<1>9. ASSUME NEW s \in Setups, UNCHANGED <<credential, configuration, entries, intervened>>, LockHolder(s),
             NEW at \in SetupStages, Goes(s, at),
             \/ setups[s].at = "read" /\ ModeOf[s] = "environment" /\ at = "ready"
             \/ setups[s].at = "staged" /\ at = "credential"
             \/ setups[s].at = "ready" /\ ~setups[s].existing /\ at = "configuration"
      PROVE  SetupInv'
  <2>1. /\ setups' \in [Setups -> Callers] /\ setups'[s].at = at
        /\ setups'[s].existing = setups[s].existing /\ setups'[s].result = setups[s].result
        /\ \A t \in Setups \ {s} : setups'[t] = setups[t] /\ setups[t].at = "idle"
    BY <1>0, <1>4, <1>9, CallerGoes
  <2>2. FoundIsThere(s) /\ ResultIsOurs(s) => FoundIsThere(s)' /\ ResultIsOurs(s)'
    BY <1>9, <2>1 DEF FoundIsThere, ResultIsOurs, Crowded, TextOf
  <2>3. ConfigurationIsOurs => ConfigurationIsOurs'
    BY <1>9 DEF ConfigurationIsOurs, TextOf
  <2> QED BY <1>0, <1>3, <1>9, <2>1, <2>2, <2>3
<1>10. ASSUME NEW s \in Setups, LinkCredential(s)
       PROVE  SetupInv'
  <2>1. CASE credential.names > 0
    BY <1>8, <1>10, <2>1 DEF LinkCredential, LockHolder, SetupResults
  <2>2. CASE ~(credential.names > 0)
    <3>1. /\ setups[s].at = "credential" /\ Goes(s, "linked")
          /\ credential' = [names |-> 2, token |-> credential.token + 1]
          /\ UNCHANGED <<configuration, entries, intervened>>
      BY <1>10, <2>2 DEF LinkCredential
    <3>2. credential' \in CredentialFiles /\ credential'.names = 2
      BY <1>0, <3>1 DEF CredentialFiles
    <3>3. /\ setups' \in [Setups -> Callers] /\ setups'[s].at = "linked"
          /\ setups'[s].existing = setups[s].existing /\ setups'[s].result = setups[s].result
          /\ \A t \in Setups \ {s} : setups'[t] = setups[t] /\ setups[t].at = "idle"
      BY <1>0, <1>4, <3>1, CallerGoes DEF SetupStages, LockHolder
    <3>4. FoundIsThere(s) /\ ResultIsOurs(s) => FoundIsThere(s)' /\ ResultIsOurs(s)'
      BY <3>1, <3>2, <3>3 DEF FoundIsThere, ResultIsOurs, Crowded, TextOf
    <3>5. ConfigurationIsOurs => ConfigurationIsOurs'
      BY <3>1, <3>2 DEF ConfigurationIsOurs, TextOf
    <3> QED BY <1>0, <1>3, <3>1, <3>2, <3>3, <3>4, <3>5
  <2> QED BY <2>1, <2>2
<1>11. ASSUME NEW s \in Setups, UnlinkCredential(s)
       PROVE  SetupInv'
  <2>1. /\ setups[s].at = "linked" /\ Goes(s, "configuration")
        /\ credential' = [credential EXCEPT !.names = Unstaged(@)]
        /\ UNCHANGED <<configuration, entries, intervened>>
    BY <1>11 DEF UnlinkCredential
  <2>2. credential' \in CredentialFiles /\ (credential'.names > 0 <=> credential.names > 0)
    BY <1>0, <2>1 DEF CredentialFiles, Unstaged
  <2>3. /\ setups' \in [Setups -> Callers] /\ setups'[s].at = "configuration"
        /\ setups'[s].existing = setups[s].existing /\ setups'[s].result = setups[s].result
        /\ \A t \in Setups \ {s} : setups'[t] = setups[t] /\ setups[t].at = "idle"
    BY <1>0, <1>4, <2>1, CallerGoes DEF SetupStages, LockHolder
  <2>4. FoundIsThere(s) /\ ResultIsOurs(s) => FoundIsThere(s)' /\ ResultIsOurs(s)'
    BY <2>1, <2>2, <2>3 DEF FoundIsThere, ResultIsOurs, Crowded, TextOf
  <2>5. ConfigurationIsOurs => ConfigurationIsOurs'
    BY <2>1, <2>2 DEF ConfigurationIsOurs, TextOf
  <2> QED BY <1>0, <1>3, <2>1, <2>2, <2>3, <2>4, <2>5
<1>12. ASSUME NEW s \in Setups, LinkConfiguration(s)
       PROVE  SetupInv'
  <2>1. CASE configuration.names > 0
    <3>1. /\ setups[s].at = "configuration" /\ SetupEnds(s, "changed")
          /\ UNCHANGED <<credential, configuration, entries, intervened>>
      BY <1>12, <2>1 DEF LinkConfiguration
    <3>2. /\ setups' \in [Setups -> Callers]
          /\ \A t \in Setups \ {s} : setups'[t] = setups[t] /\ setups[t].at = "idle"
      BY <1>0, <1>4, <3>1, CallerEnds DEF SetupResults, LockHolder
    <3>3. FoundIsThere(s) => FALSE
      BY <2>1, <3>1 DEF FoundIsThere
    <3> QED BY <1>0, <1>3, <3>1, <3>2, <3>3
  <2>2. CASE ~(configuration.names > 0)
    <3>1. /\ setups[s].at = "configuration" /\ Goes(s, "published")
          /\ configuration' = [names |-> 2, text |-> TextOf(s)]
          /\ UNCHANGED <<credential, entries, intervened>>
      BY <1>12, <2>2 DEF LinkConfiguration
    <3>2. configuration' \in ConfigurationFiles /\ configuration'.names = 2 /\ configuration'.text = TextOf(s)
      BY <1>1, <3>1 DEF ConfigurationFiles, TextOf
    <3>3. /\ setups' \in [Setups -> Callers] /\ setups'[s].at = "published"
          /\ setups'[s].existing = setups[s].existing /\ setups'[s].result = setups[s].result
          /\ \A t \in Setups \ {s} : setups'[t] = setups[t] /\ setups[t].at = "idle"
      BY <1>0, <1>4, <3>1, CallerGoes DEF SetupStages, LockHolder
    <3>4. FoundIsThere(s) /\ ResultIsOurs(s) => FoundIsThere(s)' /\ ResultIsOurs(s)'
      BY <3>1, <3>3 DEF FoundIsThere, ResultIsOurs, Crowded
    <3>5. FoundIsThere(s) => ConfigurationIsOurs'
      BY <3>1, <3>2 DEF FoundIsThere, ConfigurationIsOurs, TextOf
    <3> QED BY <1>0, <1>3, <2>2, <3>1, <3>2, <3>3, <3>4, <3>5
  <2> QED BY <2>1, <2>2
<1>13. ASSUME NEW s \in Setups, UnlinkConfiguration(s)
       PROVE  SetupInv'
  <2>1. /\ setups[s].at = "published" /\ Goes(s, "connecting")
        /\ configuration' = [configuration EXCEPT !.names = Unstaged(@)]
        /\ UNCHANGED <<credential, entries, intervened>>
    BY <1>13 DEF UnlinkConfiguration
  <2>2. /\ configuration' \in ConfigurationFiles /\ configuration'.text = configuration.text
        /\ (configuration'.names > 0 <=> configuration.names > 0)
        /\ (configuration'.names = 0 <=> configuration.names = 0)
    BY <1>0, <2>1 DEF ConfigurationFiles, Unstaged
  <2>3. /\ setups' \in [Setups -> Callers] /\ setups'[s].at = "connecting"
        /\ setups'[s].existing = setups[s].existing /\ setups'[s].result = setups[s].result
        /\ \A t \in Setups \ {s} : setups'[t] = setups[t] /\ setups[t].at = "idle"
    BY <1>0, <1>4, <2>1, CallerGoes DEF SetupStages, LockHolder
  <2>4. FoundIsThere(s) /\ ResultIsOurs(s) => FoundIsThere(s)' /\ ResultIsOurs(s)'
    BY <2>1, <2>2, <2>3 DEF FoundIsThere, ResultIsOurs, Crowded, TextOf
  <2>5. ConfigurationIsOurs => ConfigurationIsOurs'
    BY <2>1, <2>2 DEF ConfigurationIsOurs, TextOf
  <2> QED BY <1>0, <1>3, <2>1, <2>2, <2>3, <2>4, <2>5
<1>14. CASE Intervene
  <2>1. setups' = setups /\ intervened' = TRUE /\ entries' = entries
    BY <1>14 DEF Intervene
  <2>2. credential' \in CredentialFiles /\ configuration' \in ConfigurationFiles
    BY <1>0, <1>14 DEF Intervene, CredentialFiles, ConfigurationFiles
  <2>3. OneSetup'
    BY <1>1, <2>1 DEF OneSetup, LockHolder
  <2> QED BY <1>0, <2>1, <2>2, <2>3 DEF SetupInv, SetupTyping
<1>15. CASE UNCHANGED setupVars
  <2>1. UNCHANGED <<setups, credential, configuration, entries, intervened>>
    BY <1>15 DEF setupVars
  <2>2. (SetupTyping <=> SetupTyping') /\ (OneSetup <=> OneSetup') /\ (ConfigurationIsOurs <=> ConfigurationIsOurs')
    BY <2>1 DEF SetupTyping, OneSetup, LockHolder, ConfigurationIsOurs, TextOf
  <2>3. \A s \in Setups : (FoundIsThere(s) => FoundIsThere(s)') /\ (ResultIsOurs(s) => ResultIsOurs(s)')
    BY <2>1 DEF FoundIsThere, ResultIsOurs, TextOf, Crowded
  <2> QED BY <1>1, <1>2, <2>1, <2>2, <2>3 DEF SetupInv
<1>16. ASSUME NEW s \in Setups,
              \/ UseEnvironment(s) \/ ConnectExisting(s) \/ PreviewConnection(s)
              \/ ConnectCreated(s) \/ FailSetup(s)
       PROVE  SetupInv'
  <2>1. CASE UseEnvironment(s)
    BY <1>9, <2>1 DEF UseEnvironment, LockHolder, SetupStages
  <2>2. CASE ConnectExisting(s)
    BY <1>8, <2>2 DEF ConnectExisting, LockHolder, SetupResults
  <2>3. CASE PreviewConnection(s)
    <3>1. CASE setups[s].preview
      BY <1>8, <2>3, <3>1 DEF PreviewConnection, LockHolder, SetupResults
    <3>2. CASE ~setups[s].preview /\ setups[s].at = "staged"
      BY <1>9, <2>3, <3>2 DEF PreviewConnection, LockHolder, SetupStages
    <3>3. CASE ~setups[s].preview /\ setups[s].at = "ready"
      BY <1>9, <2>3, <3>3 DEF PreviewConnection, LockHolder, SetupStages
    <3> QED BY <2>3, <3>1, <3>2, <3>3 DEF PreviewConnection
  <2>4. CASE ConnectCreated(s)
    BY <1>8, <2>4 DEF ConnectCreated, LockHolder, SetupResults
  <2>5. CASE FailSetup(s)
    BY <1>8, <2>5 DEF FailSetup, LockHolder, SetupResults
  <2> QED BY <1>16, <2>1, <2>2, <2>3, <2>4, <2>5
\* Entries are counted up to the limit, and what is crowded stays so.
<1>17. ASSUME NEW left \in SUBSET Directories, Fill(left)
       PROVE  entries' \in [Directories -> Nat] /\ \A d \in Directories : Crowded(d) => Crowded(d)'
  <2>1. \A d \in Directories : entries[d] \in Nat /\ entries'[d] \in {entries[d], OneMore(entries[d])}
    BY <1>0, <1>17 DEF Fill
  <2>2. \A d \in Directories : entries'[d] \in Nat /\ entries'[d] >= entries[d]
    BY <2>1 DEF OneMore
  <2>3. entries' = [d \in Directories |-> entries'[d]]
    BY <1>17 DEF Fill
  <2> QED BY <1>1, <2>1, <2>2, <2>3 DEF Crowded
<1>18. ASSUME NEW left \in SUBSET Directories, Fill(left), UNCHANGED <<credential, configuration, intervened>>,
              setups' \in [Setups -> Callers],
              \A s \in Setups : setups'[s] = setups[s] \/ (setups'[s].at = "idle" /\ setups'[s].result = "none")
       PROVE  SetupInv'
  <2>1. SetupTyping' /\ OneSetup'
    BY <1>0, <1>1, <1>17, <1>18 DEF SetupTyping, OneSetup, LockHolder
  <2>2. Facts => ConfigurationIsOurs'
    BY <1>18 DEF ConfigurationIsOurs, TextOf
  <2>3. ASSUME NEW s \in Setups, Facts
        PROVE  FoundIsThere(s)' /\ ResultIsOurs(s)'
    <3>1. FoundIsThere(s) /\ ResultIsOurs(s)
      BY <2>3
    <3>2. \A d \in {"credential", "configuration"} : Crowded(d) => Crowded(d)'
      BY <1>17, <1>18 DEF Directories
    <3> QED BY <1>18, <3>1, <3>2 DEF FoundIsThere, ResultIsOurs, TextOf
  <2> QED BY <1>2, <1>18, <2>1, <2>2, <2>3 DEF SetupInv
<1>19. ASSUME NEW s \in Setups, CrashSetup(s)
       PROVE  SetupInv'
  <2>1. PICK left \in SUBSET Staging(s) : Fill(left)
    BY <1>19 DEF CrashSetup
  <2>2. left \in SUBSET Directories
    BY DEF Staging
  <2>3. /\ setups' \in [Setups -> Callers] /\ setups'[s].at = "idle" /\ setups'[s].result = "none"
        /\ \A t \in Setups \ {s} : setups'[t] = setups[t]
    BY <1>0, <1>19, CallerEnds DEF CrashSetup, SetupResults
  <2> QED BY <1>18, <1>19, <2>1, <2>2, <2>3 DEF CrashSetup
<1>20. ASSUME NEW directory \in Directories, FilesAppear(directory)
       PROVE  SetupInv'
  <2>1. {directory} \in SUBSET Directories
    OBVIOUS
  <2> QED BY <1>0, <1>18, <1>20, <2>1 DEF FilesAppear
<1> QED
  BY <1>5, <1>6, <1>7, <1>10, <1>11, <1>12, <1>13, <1>14, <1>15, <1>16, <1>19, <1>20 DEF SetupNext

\* No step replaces a credential or a configuration that is there.
LEMMA SetupReplacesNothing ==
    ASSUME SetupInv, [SetupNext]_setupVars, intervened' = intervened
    PROVE  /\ credential.names > 0 => credential'.token = credential.token /\ credential'.names > 0
           /\ configuration.names > 0 => configuration'.text = configuration.text
<1>1. credential \in CredentialFiles /\ configuration \in ConfigurationFiles
  BY DEF SetupInv, SetupTyping
<1>2. \A file \in CredentialFiles : \A names \in Recovered("credential", file.names) \cup {Unstaged(file.names)} :
         LET found == [file EXCEPT !.names = names]
         IN  found.token = file.token /\ (file.names > 0 => found.names > 0)
  BY DEF CredentialFiles, Recovered, Unstaged
<1>3. \A file \in ConfigurationFiles : \A names : [file EXCEPT !.names = names].text = file.text
  BY DEF ConfigurationFiles
<1>4. ~Intervene
  <2> SUFFICES ASSUME Intervene PROVE FALSE
    OBVIOUS
  <2> QED BY DEF Intervene
<1>5. CASE UNCHANGED <<credential, configuration>>
  BY <1>5
<1>6. ASSUME NEW s \in Setups, FindCredential(s) \/ UnlinkCredential(s)
      PROVE  /\ credential.names > 0 => credential'.token = credential.token /\ credential'.names > 0
             /\ configuration.names > 0 => configuration'.text = configuration.text
  BY <1>1, <1>2, <1>6 DEF FindCredential, UnlinkCredential
<1>7. ASSUME NEW s \in Setups, ReadConfiguration(s) \/ UnlinkConfiguration(s)
      PROVE  /\ credential.names > 0 => credential'.token = credential.token /\ credential'.names > 0
             /\ configuration.names > 0 => configuration'.text = configuration.text
  BY <1>1, <1>3, <1>7 DEF ReadConfiguration, UnlinkConfiguration
<1>8. ASSUME NEW s \in Setups, LinkCredential(s) \/ LinkConfiguration(s)
      PROVE  /\ credential.names > 0 => credential'.token = credential.token /\ credential'.names > 0
             /\ configuration.names > 0 => configuration'.text = configuration.text
  BY <1>8 DEF LinkCredential, LinkConfiguration
<1> QED
  BY <1>4, <1>5, <1>6, <1>7, <1>8
     DEF SetupNext, setupVars, LockConfiguration, UseEnvironment, ConnectExisting, PreviewConnection,
         ConnectCreated, FailSetup, CrashSetup, FilesAppear

\* Wherever setups were interrupted, and however many there were, the same command can be given again
\* and is refused only for what the user changed, for another command's configuration, or for a half
\* published file among more entries than are searched; and no setup changes a credential or a
\* configuration that is there (local_setup.py setup_local, _recover_publication).
THEOREM SetupIsSoundHolds == SetupSpec => SetupIsSound
<1>1. SetupInv => SetupCanBeRepeated
  BY DEF SetupInv, SetupCanBeRepeated, ResultIsOurs
<1>2. SetupInv /\ [SetupNext]_setupVars => SetupInv'
  BY SetupKeeps
<1>3. SetupInv /\ [SetupNext]_setupVars =>
        [intervened' = intervened =>
           /\ credential.names > 0 => credential'.token = credential.token /\ credential'.names > 0
           /\ configuration.names > 0 => configuration'.text = configuration.text]_setupVars
  BY SetupReplacesNothing
<1> QED
  BY <1>1, <1>2, <1>3, SetupStarts, PTL DEF SetupSpec, SetupIsSound, SetupKeepsWhatIsThere

(***************************************************************************)
(* Owner of a chat: for any number of homes, chats and `off` commands,     *)
(* every chat that is sending sends to the home in the record, an `off`    *)
(* disconnects no connection but the one it read, and the launch setting   *)
(* returns to what the user had.                                           *)
(*                                                                         *)
(* Three things make it inductive. A chat that is live stays with the home *)
(* in the record because a writer of another home has seen that home       *)
(* disconnected, and a disconnected connection never comes back:           *)
(* generations only grow. What an `off` has read is still the record,      *)
(* since the lock of the record is held from the reading to the end. And   *)
(* the setting that is saved is never the bridge's own, since it is saved  *)
(* only while no manifest is there.  A restoration that has compared the   *)
(* setting meets none of the user's but one made since (`LateIsApart`).    *)
(***************************************************************************)

OwnerRecords == [home : RouterHomes \cup {Unregistered}, generation : Nat]
HomeLifetimes == [generation : Nat, phase : {"connected", "pending", "disconnected"}]
ChatStates == [at : {"new", "register", "write", "requests", "ended"}, found : OwnerRecords]
OffStages == {"new", "check", "disconnect", "bridge", "disable", "restore", "put", "retire", "finish",
              "ended"}
OffCommands == [at : OffStages, named : Nat, read : OwnerRecords, stopped : BOOLEAN, failed : BOOLEAN,
                target : OwnerRecords, alone : BOOLEAN]
LaunchSettings == {"users", "users own", "users late", "bridge"}
BridgeStates == [manifest : {"none", "off", "on"}, installing : {"no", "enable", "set", "check", "undo", "put"},
                 saved : LaunchSettings]

OwnerTyping ==
    /\ lifetimes \in [RouterHomes -> HomeLifetimes]
    /\ owner \in OwnerRecords /\ ownerLock \in OwnerRecords
    /\ chats \in [Chats -> ChatStates] /\ offs \in [Offs -> OffCommands]
    /\ bridge \in BridgeStates /\ launch \in LaunchSettings

\* A generation that someone has found is one that was, and every connection has one.
GenerationsAreKnown ==
    /\ \A home \in RouterHomes : lifetimes[home].phase # "disconnected" => lifetimes[home].generation > 0
    /\ \A chat \in Chats : chats[chat].at \in {"register", "write", "requests"} =>
         /\ chats[chat].found.home \in RouterHomes /\ chats[chat].found.generation > 0
         /\ chats[chat].found.generation <= lifetimes[chats[chat].found.home].generation
    /\ owner # None => owner.home \in RouterHomes /\ owner.generation > 0

\* The lock of the record has one holder: a chat that is about to write it, or an `off`.
Writes(chat) == chats[chat].at = "write"
Runs(off) == offs[off].at \notin {"new", "ended"}
OneLockHolder ==
    /\ (\E chat \in Chats : Writes(chat)) \/ (\E off \in Offs : Runs(off)) => ownerLock # None
    /\ \A chat, other \in Chats : Writes(chat) /\ Writes(other) => chat = other
    /\ \A off, other \in Offs : Runs(off) /\ Runs(other) => off = other
    /\ \A chat \in Chats, off \in Offs : ~(Writes(chat) /\ Runs(off))

\* What an `off` has read is still the record, and no chat is live once it has stopped them.
ReadIsTheRecord ==
    /\ \A off \in Offs : Runs(off) => offs[off].read = owner
    /\ \A off \in Offs : ~Runs(off) => offs[off].read = None
    /\ \A off \in Offs : offs[off].at \in {"check", "disconnect"} => owner # None
NoneIsLive == \A chat \in Chats : ~Live(chat)
StopsThem(off) ==
    offs[off].at \in {"bridge", "disable", "restore", "put", "retire", "finish"} /\ offs[off].stopped => NoneIsLive
StoppedIsStopped == \A off \in Offs : StopsThem(off)
WriterIsAlone ==
    \A writer, chat \in Chats : Writes(writer) /\ Live(chat) => chats[chat].found.home = chats[writer].found.home

AimsAtTheBridge(off) ==
    offs[off].at \in {"disable", "restore", "put", "retire"} =>
        /\ offs[off].target.home = BridgeHome /\ BridgeHome \in RouterHomes
        /\ offs[off].read.home = BridgeHome => offs[off].target.generation = offs[off].read.generation
TargetIsTheBridge == \A off \in Offs : AimsAtTheBridge(off)

\* What is saved is never the bridge's own setting, and an `off` that was alone put it back.
SettingIsSaved ==
    /\ bridge.saved = "users"
    /\ bridge.manifest = "none" => bridge.installing = "no" /\ launch = "users"
    /\ bridge.manifest # "none" => BridgeHome \in RouterHomes
PutsBack(off) ==
    /\ offs[off].at \in {"retire", "finish"} /\ ~offs[off].failed /\ offs[off].alone
    /\ bridge.manifest # "none"
    => launch # "bridge"
SavedIsTheUsers == SettingIsSaved /\ \A off \in Offs : PutsBack(off)

OwnerInv ==
    /\ OwnerTyping /\ GenerationsAreKnown /\ OneLockHolder /\ ReadIsTheRecord
    /\ OneLiveOwner /\ StoppedIsStopped /\ WriterIsAlone /\ TargetIsTheBridge /\ SavedIsTheUsers

-----------------------------------------------------------------------------
LEMMA NoneIs == None \in OwnerRecords /\ None.home = Unregistered /\ Unregistered \notin RouterHomes
BY OwnerAssumption DEF None, OwnerRecords

LEMMA NewOffIs ==
    /\ NewOff \in OffCommands /\ NewOff.at = "new" /\ NewOff.read = None
BY NoneIs DEF NewOff, OffCommands, OffStages

LEMMA OwnerStarts == OwnerInit => OwnerInv
<1> SUFFICES ASSUME OwnerInit PROVE OwnerInv
  OBVIOUS
<1>1. /\ lifetimes \in [RouterHomes -> HomeLifetimes]
      /\ \A home \in RouterHomes : lifetimes[home].phase = "disconnected"
  BY DEF OwnerInit, HomeLifetimes
<1>2. /\ chats \in [Chats -> ChatStates]
      /\ \A chat \in Chats : chats[chat].at = "new"
  BY NoneIs DEF OwnerInit, ChatStates
<1>3. /\ offs \in [Offs -> OffCommands]
      /\ \A off \in Offs : offs[off] = NewOff
  BY NewOffIs DEF OwnerInit
<1>4. /\ bridge \in BridgeStates /\ launch \in LaunchSettings
      /\ bridge.saved = "users" /\ bridge.manifest = "none" /\ bridge.installing = "no" /\ launch = "users"
  BY DEF OwnerInit, BridgeStates, LaunchSettings
<1>5. owner = None /\ ownerLock = None
  BY DEF OwnerInit
<1>6. OwnerTyping
  BY <1>1, <1>2, <1>3, <1>4, <1>5, NoneIs DEF OwnerTyping
<1>7. \A off \in Offs : offs[off].at = "new" /\ offs[off].read = None
  BY <1>3, NewOffIs
<1>8. GenerationsAreKnown /\ OneLockHolder /\ ReadIsTheRecord
  BY <1>1, <1>2, <1>5, <1>7 DEF GenerationsAreKnown, OneLockHolder, ReadIsTheRecord, Writes, Runs
<1>9. OneLiveOwner /\ StoppedIsStopped /\ WriterIsAlone /\ TargetIsTheBridge /\ SavedIsTheUsers
  BY <1>2, <1>4, <1>7 DEF OneLiveOwner, StoppedIsStopped, WriterIsAlone, TargetIsTheBridge, SavedIsTheUsers, Live, Writes,
     NoneIsLive, StopsThem, AimsAtTheBridge, SettingIsSaved, PutsBack
<1> QED BY <1>6, <1>8, <1>9 DEF OwnerInv

\* Each change of a command changes one thing.
LEMMA CommandGoes ==
    ASSUME NEW command \in OffCommands, NEW at \in OffStages
    PROVE  /\ To(command, at) \in OffCommands /\ To(command, at).at = at
           /\ To(command, at).read = command.read /\ To(command, at).stopped = command.stopped
           /\ To(command, at).failed = command.failed /\ To(command, at).target = command.target
           /\ To(command, at).alone = command.alone
BY DEF To, OffCommands

LEMMA CommandFails ==
    ASSUME NEW command \in OffCommands
    PROVE  /\ Failing(command) \in OffCommands /\ Failing(command).failed = TRUE
           /\ Failing(command).read = command.read /\ Failing(command).stopped = command.stopped
           /\ Failing(command).at = command.at /\ Failing(command).target = command.target
           /\ Failing(command).alone = command.alone
BY DEF Failing, OffCommands

LEMMA CommandLingers ==
    ASSUME NEW command \in OffCommands
    PROVE  /\ Lingering(command) \in OffCommands /\ Lingering(command).stopped = FALSE
           /\ Lingering(command).read = command.read /\ Lingering(command).failed = command.failed
           /\ Lingering(command).at = command.at /\ Lingering(command).target = command.target
           /\ Lingering(command).alone = command.alone
BY DEF Lingering, OffCommands

LEMMA CommandTargets ==
    ASSUME NEW command \in OffCommands, NEW target \in OwnerRecords
    PROVE  /\ Targeting(command, target) \in OffCommands /\ Targeting(command, target).target = target
           /\ Targeting(command, target).read = command.read /\ Targeting(command, target).failed = command.failed
           /\ Targeting(command, target).at = command.at /\ Targeting(command, target).stopped = command.stopped
           /\ Targeting(command, target).alone = command.alone
BY DEF Targeting, OffCommands

LEMMA CommandIsOverlapped ==
    ASSUME NEW command \in OffCommands
    PROVE  /\ Overlapped(command) \in OffCommands /\ Overlapped(command).alone = FALSE
           /\ Overlapped(command).read = command.read /\ Overlapped(command).failed = command.failed
           /\ Overlapped(command).at = command.at /\ Overlapped(command).target = command.target
           /\ Overlapped(command).stopped = command.stopped
BY DEF Overlapped, OffCommands

-----------------------------------------------------------------------------
(* The steps of the commands, as the invariant sees them.                  *)

\* The other commands stand where they stood, and the one that moves keeps what it read.
OneOffMoves(off) ==
    /\ offs' \in [Offs -> OffCommands] /\ \A other \in Offs \ {off} : offs'[other] = offs[other]
    /\ offs'[off].read = offs[off].read /\ offs'[off].alone = offs[off].alone

LEMMA OffMoves ==
    ASSUME offs \in [Offs -> OffCommands], NEW off \in Offs, NEW at \in OffStages, Off(off, at)
    PROVE  /\ OneOffMoves(off) /\ offs'[off].at = at /\ offs'[off].stopped = offs[off].stopped
           /\ offs'[off].failed = offs[off].failed /\ offs'[off].target = offs[off].target
<1> DEFINE command == offs[off]
<1>1. command \in OffCommands
  OBVIOUS
<1> DEFINE moved == To(command, at)
<1>2. /\ moved \in OffCommands /\ moved.at = at
      /\ moved.read = command.read /\ moved.stopped = command.stopped
      /\ moved.failed = command.failed /\ moved.target = command.target /\ moved.alone = command.alone
  BY <1>1, CommandGoes
<1>3. offs' = [offs EXCEPT ![off] = moved]
  BY DEF Off
<1> HIDE DEF moved
<1> QED BY <1>2, <1>3 DEF OneOffMoves

LEMMA OffFailing ==
    ASSUME offs \in [Offs -> OffCommands], NEW off \in Offs, NEW at \in OffStages, OffFails(off, at)
    PROVE  /\ OneOffMoves(off) /\ offs'[off].at = at /\ offs'[off].stopped = offs[off].stopped
           /\ offs'[off].failed = TRUE /\ offs'[off].target = offs[off].target
<1> DEFINE command == offs[off]
<1>1. command \in OffCommands
  OBVIOUS
<1> DEFINE failing == Failing(command)
<1>2. /\ failing \in OffCommands /\ failing.read = command.read /\ failing.stopped = command.stopped
      /\ failing.failed = TRUE /\ failing.target = command.target /\ failing.alone = command.alone
  BY <1>1, CommandFails
<1> DEFINE moved == To(failing, at)
<1>3. offs' = [offs EXCEPT ![off] = moved]
  BY DEF OffFails
<1> HIDE DEF failing
<1>4. /\ moved \in OffCommands /\ moved.at = at
      /\ moved.read = command.read /\ moved.stopped = command.stopped
      /\ moved.failed = TRUE /\ moved.target = command.target /\ moved.alone = command.alone
  BY <1>2, CommandGoes
<1> HIDE DEF moved
<1> QED BY <1>3, <1>4 DEF OneOffMoves

LEMMA OffLingering ==
    ASSUME offs \in [Offs -> OffCommands], NEW off \in Offs, NEW at \in OffStages,
           \/ OffLingers(off, at)
           \/ offs' = [offs EXCEPT ![off] = To(Failing(Lingering(offs[off])), at)]
    PROVE  /\ OneOffMoves(off) /\ offs'[off].at = at /\ offs'[off].stopped = FALSE
           /\ offs'[off].target = offs[off].target
           /\ offs'[off].failed = offs[off].failed \/ offs'[off].failed = TRUE
<1> DEFINE command == offs[off]
<1>1. command \in OffCommands
  OBVIOUS
<1> DEFINE lingering == Lingering(command)
           failing == Failing(lingering)
<1>2. /\ lingering \in OffCommands /\ lingering.read = command.read /\ lingering.stopped = FALSE
      /\ lingering.failed = command.failed /\ lingering.target = command.target
      /\ lingering.alone = command.alone
  BY <1>1, CommandLingers
<1>3. \/ offs' = [offs EXCEPT ![off] = To(lingering, at)] \/ offs' = [offs EXCEPT ![off] = To(failing, at)]
  BY DEF OffLingers
<1> HIDE DEF lingering
<1>4. /\ failing \in OffCommands /\ failing.read = command.read /\ failing.stopped = FALSE
      /\ failing.failed = TRUE /\ failing.target = command.target /\ failing.alone = command.alone
  BY <1>2, CommandFails
<1> HIDE DEF failing
<1>5. ASSUME NEW changed \in {lingering, failing}, offs' = [offs EXCEPT ![off] = To(changed, at)]
      PROVE  /\ OneOffMoves(off) /\ offs'[off].at = at /\ offs'[off].stopped = FALSE
             /\ offs'[off].target = offs[off].target
             /\ offs'[off].failed = offs[off].failed \/ offs'[off].failed = TRUE
  <2> DEFINE moved == To(changed, at)
  <2>1. /\ changed \in OffCommands /\ changed.read = command.read /\ changed.stopped = FALSE
        /\ changed.target = command.target /\ changed.alone = command.alone
        /\ changed.failed = command.failed \/ changed.failed = TRUE
    BY <1>2, <1>4, <1>5
  <2>2. /\ moved \in OffCommands /\ moved.at = at
        /\ moved.read = changed.read /\ moved.stopped = changed.stopped
        /\ moved.failed = changed.failed /\ moved.target = changed.target /\ moved.alone = changed.alone
    BY <2>1, CommandGoes
  <2> HIDE DEF moved
  <2> QED BY <1>5, <2>1, <2>2 DEF OneOffMoves, moved
<1> QED BY <1>3, <1>5

LEMMA OffTargets ==
    ASSUME offs \in [Offs -> OffCommands], NEW off \in Offs, NEW target \in OwnerRecords,
           offs' = [offs EXCEPT ![off] = To(Targeting(offs[off], target), "disable")]
    PROVE  /\ OneOffMoves(off) /\ offs'[off].at = "disable" /\ offs'[off].stopped = offs[off].stopped
           /\ offs'[off].failed = offs[off].failed /\ offs'[off].target = target
<1> DEFINE command == offs[off]
<1>1. command \in OffCommands
  OBVIOUS
<1> DEFINE aimed == Targeting(command, target)
<1>2. /\ aimed \in OffCommands /\ aimed.read = command.read /\ aimed.stopped = command.stopped
      /\ aimed.failed = command.failed /\ aimed.target = target /\ aimed.alone = command.alone
  BY <1>1, CommandTargets
<1> DEFINE moved == To(aimed, "disable")
<1>3. offs' = [offs EXCEPT ![off] = moved]
  OBVIOUS
<1> HIDE DEF aimed
<1>4. "disable" \in OffStages
  BY DEF OffStages
<1>5. /\ moved \in OffCommands /\ moved.at = "disable"
      /\ moved.read = aimed.read /\ moved.stopped = aimed.stopped
      /\ moved.failed = aimed.failed /\ moved.target = aimed.target /\ moved.alone = aimed.alone
  BY <1>2, <1>4, CommandGoes
<1> HIDE DEF moved
<1> QED BY <1>2, <1>3, <1>5 DEF OneOffMoves

LEMMA OffEnds ==
    ASSUME offs \in [Offs -> OffCommands], NEW off \in Offs, NEW failed, EndOff(off, failed)
    PROVE  /\ offs' \in [Offs -> OffCommands] /\ \A other \in Offs \ {off} : offs'[other] = offs[other]
           /\ offs'[off].at = "ended" /\ offs'[off].read = None /\ ownerLock' = None
<1>1. "ended" \in OffStages
  BY DEF OffStages
<1>2. /\ To(NewOff, "ended") \in OffCommands /\ To(NewOff, "ended").at = "ended"
      /\ To(NewOff, "ended").read = None
  BY <1>1, NewOffIs, CommandGoes
<1>3. Failing(NewOff) \in OffCommands /\ Failing(NewOff).read = None
  BY NewOffIs, CommandFails
<1>4. /\ To(Failing(NewOff), "ended") \in OffCommands /\ To(Failing(NewOff), "ended").at = "ended"
      /\ To(Failing(NewOff), "ended").read = None
  BY <1>1, <1>3, CommandGoes
<1>5. \E ended \in {To(NewOff, "ended"), To(Failing(NewOff), "ended")} :
         offs' = [offs EXCEPT ![off] = ended]
  BY DEF EndOff
<1>6. PICK ended \in {To(NewOff, "ended"), To(Failing(NewOff), "ended")} :
         offs' = [offs EXCEPT ![off] = ended]
  BY <1>5
<1>7. ended \in OffCommands /\ ended.at = "ended" /\ ended.read = None
  BY <1>2, <1>4, <1>6
<1> QED BY <1>6, <1>7 DEF EndOff


-----------------------------------------------------------------------------
(* The lifetimes only go on: no connection that has ended comes back, so   *)
(* a chat that is live was live before, or has just written the record.    *)

LaterLifetimes ==
    /\ lifetimes' \in [RouterHomes -> HomeLifetimes]
    /\ \A home \in RouterHomes :
         /\ lifetimes[home].generation <= lifetimes'[home].generation
         /\ lifetimes'[home].phase # "disconnected" =>
              /\ lifetimes'[home].generation > 0
              /\ lifetimes[home].phase = "disconnected" => lifetimes[home].generation < lifetimes'[home].generation

LEMMA DisconnectedIsLater ==
    ASSUME OwnerTyping, GenerationsAreKnown, NEW home \in RouterHomes, NEW phase \in {"pending", "disconnected"},
           Disconnected(home, phase), phase = "disconnected" \/ lifetimes[home].phase # "disconnected"
    PROVE  /\ LaterLifetimes /\ lifetimes'[home].phase = phase
           /\ \A other \in RouterHomes \ {home} : lifetimes'[other] = lifetimes[other]
<1>1. lifetimes \in [RouterHomes -> HomeLifetimes]
  BY DEF OwnerTyping
<1>2. lifetimes' = [lifetimes EXCEPT ![home].phase = phase]
  BY DEF Disconnected
<1>3. lifetimes' \in [RouterHomes -> HomeLifetimes]
  BY <1>1, <1>2 DEF HomeLifetimes
<1>4. lifetimes'[home].phase = phase /\ lifetimes'[home].generation = lifetimes[home].generation
  BY <1>1, <1>2 DEF HomeLifetimes
<1>5. \A other \in RouterHomes \ {home} : lifetimes'[other] = lifetimes[other]
  BY <1>1, <1>2
<1>6. \A other \in RouterHomes : lifetimes[other].generation \in Nat
  BY <1>1 DEF HomeLifetimes
<1>7. \A other \in RouterHomes : lifetimes[other].phase # "disconnected" => lifetimes[other].generation > 0
  BY DEF GenerationsAreKnown
<1>8. ASSUME NEW other \in RouterHomes
      PROVE  /\ lifetimes[other].generation <= lifetimes'[other].generation
             /\ lifetimes'[other].phase # "disconnected" =>
                  /\ lifetimes'[other].generation > 0
                  /\ lifetimes[other].phase = "disconnected" =>
                       lifetimes[other].generation < lifetimes'[other].generation
  <2>1. CASE other = home
    BY <1>4, <1>6, <1>7, <2>1
  <2>2. CASE other # home
    BY <1>5, <1>6, <1>7, <2>2
  <2> QED BY <2>1, <2>2
<1> QED BY <1>3, <1>4, <1>5, <1>8 DEF LaterLifetimes

LEMMA ReconnectIsLater ==
    ASSUME OwnerTyping, GenerationsAreKnown, NEW home \in RouterHomes, Reconnect(home)
    PROVE  LaterLifetimes
<1>1. lifetimes \in [RouterHomes -> HomeLifetimes]
  BY DEF OwnerTyping
<1> DEFINE fresh == [generation |-> lifetimes[home].generation + 1, phase |-> "connected"]
<1>2. lifetimes' = [lifetimes EXCEPT ![home] = fresh]
  BY DEF Reconnect
<1>3. lifetimes[home].generation \in Nat
  BY <1>1 DEF HomeLifetimes
<1>4. fresh \in HomeLifetimes /\ fresh.generation = lifetimes[home].generation + 1
  BY <1>3 DEF HomeLifetimes
<1> HIDE DEF fresh
<1>5. lifetimes' \in [RouterHomes -> HomeLifetimes] /\ lifetimes'[home] = fresh
  BY <1>1, <1>2, <1>4
<1>6. \A other \in RouterHomes \ {home} : lifetimes'[other] = lifetimes[other]
  BY <1>1, <1>2
<1>7. \A other \in RouterHomes : lifetimes[other].generation \in Nat
  BY <1>1 DEF HomeLifetimes
<1>8. \A other \in RouterHomes : lifetimes[other].phase # "disconnected" => lifetimes[other].generation > 0
  BY DEF GenerationsAreKnown
<1>9. ASSUME NEW other \in RouterHomes
      PROVE  /\ lifetimes[other].generation <= lifetimes'[other].generation
             /\ lifetimes'[other].phase # "disconnected" =>
                  /\ lifetimes'[other].generation > 0
                  /\ lifetimes[other].phase = "disconnected" =>
                       lifetimes[other].generation < lifetimes'[other].generation
  <2>1. CASE other = home
    BY <1>3, <1>4, <1>5, <2>1
  <2>2. CASE other # home
    BY <1>6, <1>7, <1>8, <2>2
  <2> QED BY <2>1, <2>2
<1> QED BY <1>5, <1>9 DEF LaterLifetimes

LEMMA SameIsLater ==
    ASSUME OwnerTyping, GenerationsAreKnown, UNCHANGED lifetimes
    PROVE  LaterLifetimes
<1>1. \A home \in RouterHomes : lifetimes[home].generation \in Nat
  BY DEF OwnerTyping, HomeLifetimes
<1> QED BY <1>1 DEF OwnerTyping, GenerationsAreKnown, LaterLifetimes

\* A chat that stands where it stood is live only when it was.
LEMMA LiveShrinks ==
    ASSUME OwnerTyping, GenerationsAreKnown, LaterLifetimes, NEW chat \in Chats, chats'[chat] = chats[chat], Live(chat)'
    PROVE  Live(chat)
<1> DEFINE found == chats[chat].found
<1>1. chats[chat].at = "requests" /\ found.home \in RouterHomes
  BY DEF Live, GenerationsAreKnown
<1>2. /\ lifetimes'[found.home].phase # "disconnected"
      /\ lifetimes'[found.home].generation = found.generation
  BY DEF Live
<1>3. found.generation <= lifetimes[found.home].generation
  BY <1>1 DEF GenerationsAreKnown
<1>4. lifetimes[found.home].generation \in Nat /\ lifetimes'[found.home].generation \in Nat
  BY <1>1 DEF OwnerTyping, LaterLifetimes, HomeLifetimes
<1>5. /\ lifetimes[found.home].generation <= lifetimes'[found.home].generation
      /\ lifetimes[found.home].phase = "disconnected" =>
           lifetimes[found.home].generation < lifetimes'[found.home].generation
  BY <1>1, <1>2 DEF LaterLifetimes
<1>6. lifetimes[found.home].generation = found.generation
  BY <1>2, <1>3, <1>4, <1>5
<1>7. lifetimes[found.home].phase # "disconnected"
  BY <1>2, <1>4, <1>5, <1>6
<1> QED BY <1>1, <1>6, <1>7 DEF Live

\* What is found stays found.
LEMMA FoundIsKnown ==
    ASSUME OwnerTyping, GenerationsAreKnown, LaterLifetimes, UNCHANGED owner,
           \A chat \in Chats : chats'[chat] = chats[chat]
    PROVE  GenerationsAreKnown'
<1>1. ASSUME NEW chat \in Chats, chats[chat].at \in {"register", "write", "requests"}
      PROVE  /\ chats[chat].found.home \in RouterHomes /\ chats[chat].found.generation > 0
             /\ chats[chat].found.generation <= lifetimes'[chats[chat].found.home].generation
  <2> DEFINE found == chats[chat].found
  <2>1. /\ found.home \in RouterHomes /\ found.generation > 0
        /\ found.generation <= lifetimes[found.home].generation
    BY <1>1 DEF GenerationsAreKnown
  <2>2. found.generation \in Nat
    BY DEF OwnerTyping, ChatStates, OwnerRecords
  <2>3. lifetimes[found.home].generation \in Nat /\ lifetimes'[found.home].generation \in Nat
    BY <2>1 DEF OwnerTyping, LaterLifetimes, HomeLifetimes
  <2>4. lifetimes[found.home].generation <= lifetimes'[found.home].generation
    BY <2>1 DEF LaterLifetimes
  <2> HIDE DEF found
  <2>5. found.generation <= lifetimes'[found.home].generation
    BY <2>1, <2>2, <2>3, <2>4
  <2> QED BY <2>1, <2>5 DEF found
<1>2. \A home \in RouterHomes : lifetimes'[home].phase # "disconnected" => lifetimes'[home].generation > 0
  BY DEF LaterLifetimes
<1>3. owner' # None => owner'.home \in RouterHomes /\ owner'.generation > 0
  BY DEF GenerationsAreKnown, None
<1> QED BY <1>1, <1>2, <1>3 DEF GenerationsAreKnown

\* While the chats and the record stand still, who may be live is settled.
LEMMA ChatsStand ==
    ASSUME OwnerInv, LaterLifetimes, UNCHANGED <<owner, chats>>
    PROVE  /\ GenerationsAreKnown' /\ OneLiveOwner' /\ WriterIsAlone'
           /\ \A chat \in Chats : Live(chat)' => Live(chat)
<1> USE DEF OwnerInv
<1>1. \A chat \in Chats : Live(chat)' => Live(chat)
  BY LiveShrinks
<1>2. GenerationsAreKnown'
  BY FoundIsKnown
<1>3. OneLiveOwner'
  BY <1>1 DEF OneLiveOwner
<1>4. WriterIsAlone'
  BY <1>1 DEF WriterIsAlone, Writes
<1> QED BY <1>1, <1>2, <1>3, <1>4

-----------------------------------------------------------------------------
(* The steps of the homes and of the chats.                                *)

LEMMA OffsStand ==
    ASSUME OwnerInv, UNCHANGED <<offs, bridge, launch>>
    PROVE  TargetIsTheBridge' /\ SavedIsTheUsers'
BY DEF OwnerInv, TargetIsTheBridge, AimsAtTheBridge, SavedIsTheUsers, SettingIsSaved, PutsBack

LEMMA HomesKeepOwner ==
    ASSUME OwnerInv, NEW home \in RouterHomes, Reconnect(home) \/ DisconnectHome(home)
    PROVE  OwnerInv'
<1> USE DEF OwnerInv
<1>1. LaterLifetimes
  <2>1. CASE Reconnect(home)
    BY <2>1, ReconnectIsLater
  <2>2. CASE DisconnectHome(home)
    <3>1. PICK phase \in {"pending", "disconnected"} : Disconnected(home, phase)
      BY <2>2 DEF DisconnectHome
    <3>2. lifetimes[home].phase # "disconnected"
      BY <2>2 DEF DisconnectHome
    <3> QED BY <3>1, <3>2, DisconnectedIsLater
  <2> QED BY <2>1, <2>2
<1>2. UNCHANGED <<owner, ownerLock, chats, offs, bridge, launch>>
  BY DEF Reconnect, DisconnectHome
<1>3. /\ GenerationsAreKnown' /\ OneLiveOwner' /\ WriterIsAlone'
      /\ \A chat \in Chats : Live(chat)' => Live(chat)
  BY <1>1, <1>2, ChatsStand
<1>4. OwnerTyping'
  BY <1>1, <1>2 DEF OwnerTyping, LaterLifetimes
<1>5. OneLockHolder' /\ ReadIsTheRecord'
  BY <1>2 DEF OneLockHolder, ReadIsTheRecord, Writes, Runs
<1>6. StoppedIsStopped'
  BY <1>2, <1>3 DEF StoppedIsStopped, StopsThem, NoneIsLive
<1>7. TargetIsTheBridge' /\ SavedIsTheUsers'
  BY <1>2, OffsStand
<1> QED BY <1>3, <1>4, <1>5, <1>6, <1>7

\* A chat that moves without writing the record.
ChatMoves(chat, state) == chats' = [chats EXCEPT ![chat] = state]

LEMMA ChatKeepsOwner ==
    ASSUME OwnerInv, NEW chat \in Chats, NEW state \in ChatStates, ChatMoves(chat, state), state.at # "requests",
           UNCHANGED <<lifetimes, owner, offs, bridge, launch>>,
           state.at # "ended" =>
             /\ state.found.home \in RouterHomes /\ state.found.generation > 0
             /\ state.found.generation <= lifetimes[state.found.home].generation,
           state.at # "write" => ~Writes(chat) /\ UNCHANGED ownerLock,
           state.at = "write" =>
             /\ ownerLock = None /\ ownerLock' = state.found
             /\ \A other \in Chats \ {chat} : Live(other) => chats[other].found.home = state.found.home
    PROVE  OwnerInv'
<1> USE DEF OwnerInv
<1>1. chats' \in [Chats -> ChatStates] /\ chats'[chat] = state
  BY DEF ChatMoves, OwnerTyping
<1>2. \A other \in Chats \ {chat} : chats'[other] = chats[other]
  BY DEF ChatMoves, OwnerTyping
<1>3. LaterLifetimes
  BY SameIsLater
<1>4. \A other \in Chats \ {chat} : Live(other)' => Live(other)
  BY <1>2, <1>3, LiveShrinks
<1>5. ~Live(chat)'
  BY <1>1 DEF Live
<1>6. ownerLock' \in OwnerRecords
  <2>1. state.found \in OwnerRecords
    BY DEF ChatStates
  <2> QED BY <2>1 DEF OwnerTyping
<1>7. OwnerTyping'
  BY <1>1, <1>6 DEF OwnerTyping
<1>8. ASSUME NEW other \in Chats, chats'[other].at \in {"register", "write", "requests"}
      PROVE  /\ chats'[other].found.home \in RouterHomes /\ chats'[other].found.generation > 0
             /\ chats'[other].found.generation <= lifetimes[chats'[other].found.home].generation
  <2>1. CASE other = chat
    BY <1>1, <1>8, <2>1
  <2>2. CASE other # chat
    <3>1. chats'[other] = chats[other]
      BY <1>2, <2>2
    <3> QED BY <1>8, <3>1 DEF GenerationsAreKnown
  <2> QED BY <2>1, <2>2
<1>9. GenerationsAreKnown'
  BY <1>8 DEF GenerationsAreKnown, None
<1>10. OneLockHolder'
  <2>1. \A other \in Chats : Writes(other)' => Writes(other) \/ (other = chat /\ state.at = "write")
    BY <1>1, <1>2 DEF Writes
  <2>2. CASE state.at = "write"
    <3>1. (\A other \in Chats : ~Writes(other)) /\ (\A off \in Offs : ~Runs(off))
      BY <2>2 DEF OneLockHolder
    <3>2. state.found.home \in RouterHomes
      BY <2>2
    <3>3. ownerLock' # None
      BY <2>2, <3>2, NoneIs
    <3> QED BY <2>1, <3>1, <3>3 DEF OneLockHolder, Runs
  <2>3. CASE state.at # "write"
    <3>1. \A other \in Chats : Writes(other)' => Writes(other)
      BY <2>1, <2>3
    <3>2. ownerLock' = ownerLock
      BY <2>3
    <3> QED BY <3>1, <3>2 DEF OneLockHolder, Runs, None
  <2> QED BY <2>2, <2>3
<1>11. ReadIsTheRecord'
  BY DEF ReadIsTheRecord, Runs, None
<1>12. OneLiveOwner'
  BY <1>2, <1>4, <1>5 DEF OneLiveOwner
<1>13. StoppedIsStopped'
  BY <1>4, <1>5 DEF StoppedIsStopped, StopsThem, NoneIsLive
<1>14. ASSUME NEW writer \in Chats, NEW other \in Chats, Writes(writer)', Live(other)'
       PROVE  chats'[other].found.home = chats'[writer].found.home
  <2>1. other # chat /\ Live(other) /\ chats'[other] = chats[other]
    BY <1>2, <1>4, <1>5, <1>14
  <2>2. CASE writer = chat
    BY <1>1, <1>14, <2>1, <2>2 DEF Writes
  <2>3. CASE writer # chat
    BY <1>2, <1>14, <2>1, <2>3 DEF Writes, WriterIsAlone
  <2> QED BY <2>2, <2>3
<1>15. WriterIsAlone'
  BY <1>14 DEF WriterIsAlone
<1>16. TargetIsTheBridge' /\ SavedIsTheUsers'
  BY OffsStand
<1> QED BY <1>7, <1>9, <1>10, <1>11, <1>12, <1>13, <1>15, <1>16

LEMMA ChatStatesAre ==
    /\ EndedChat \in ChatStates /\ EndedChat.at = "ended"
    /\ \A at \in {"register", "write", "requests"}, found \in OwnerRecords :
         [at |-> at, found |-> found] \in ChatStates
BY NoneIs DEF EndedChat, ChatStates

LEMMA ReadKeepsOwner ==
    ASSUME OwnerInv, NEW chat \in Chats, NEW home \in RouterHomes, ReadStatus(chat, home)
    PROVE  OwnerInv'
<1> DEFINE state == [at |-> "register", found |-> At(home)]
<1>1. /\ chats[chat].at = "new" /\ lifetimes[home].phase = "connected"
      /\ UNCHANGED <<lifetimes, owner, ownerLock, offs, bridge, launch>>
  BY DEF ReadStatus
<1>2. ChatMoves(chat, state)
  BY DEF ReadStatus, ChatMoves
<1>3. lifetimes[home].generation \in Nat /\ lifetimes[home].generation > 0
  BY <1>1 DEF OwnerInv, OwnerTyping, HomeLifetimes, GenerationsAreKnown
<1>4. /\ At(home) \in OwnerRecords /\ At(home).home = home
      /\ At(home).generation = lifetimes[home].generation
  BY <1>3 DEF At, OwnerRecords
<1>5. state \in ChatStates /\ state.at = "register" /\ state.found = At(home)
  BY <1>4, ChatStatesAre
<1> HIDE DEF state
<1>6. /\ state.found.home \in RouterHomes /\ state.found.generation > 0
      /\ state.found.generation <= lifetimes[state.found.home].generation
  BY <1>3, <1>4, <1>5
<1>7. ~Writes(chat)
  BY <1>1 DEF Writes
<1> QED BY <1>1, <1>2, <1>5, <1>6, <1>7, ChatKeepsOwner

LEMMA ChatEndsKeepsOwner ==
    ASSUME OwnerInv, NEW chat \in Chats, EndChat(chat)
    PROVE  OwnerInv'
<1>1. /\ ~Writes(chat) /\ ChatMoves(chat, EndedChat)
      /\ UNCHANGED <<lifetimes, owner, ownerLock, offs, bridge, launch>>
  BY DEF EndChat, ChatMoves, Writes
<1>2. EndedChat \in ChatStates /\ EndedChat.at = "ended"
  BY ChatStatesAre
<1> QED BY <1>1, <1>2, ChatKeepsOwner

LEMMA RegisterKeepsOwner ==
    ASSUME OwnerInv, NEW chat \in Chats, RegisterOwner(chat)
    PROVE  OwnerInv'
<1> DEFINE found == chats[chat].found
           state == [at |-> "write", found |-> found]
<1>1. /\ chats[chat].at = "register" /\ ownerLock = None
      /\ UNCHANGED <<lifetimes, owner, offs, bridge, launch>>
  BY DEF RegisterOwner
<1>2. /\ found \in OwnerRecords /\ found.home \in RouterHomes /\ found.generation > 0
      /\ found.generation <= lifetimes[found.home].generation
  BY <1>1 DEF OwnerInv, OwnerTyping, ChatStates, GenerationsAreKnown
<1>3. ~Writes(chat)
  BY <1>1 DEF Writes
<1>4. CASE owner.home \notin {Unregistered, found.home} => MayReplace(owner.home)
  <2>1. chats' = [chats EXCEPT ![chat].at = "write"] /\ ownerLock' = found
    BY <1>4 DEF RegisterOwner
  <2>2. chats[chat] \in ChatStates
    BY DEF OwnerInv, OwnerTyping
  <2>3. [chats[chat] EXCEPT !.at = "write"] = state
    BY <2>2 DEF ChatStates
  <2>4. ChatMoves(chat, state)
    BY <2>1, <2>3 DEF ChatMoves, OwnerInv, OwnerTyping
  <2>5. state \in ChatStates /\ state.at = "write" /\ state.found = found
    BY <1>2, ChatStatesAre
  <2>6. ASSUME NEW other \in Chats \ {chat}, Live(other)
        PROVE  chats[other].found.home = found.home
    <3>1. owner.home = chats[other].found.home
      BY <2>6 DEF OwnerInv, OneLiveOwner
    <3>2. chats[other].found.home \in RouterHomes /\ lifetimes[chats[other].found.home].phase # "disconnected"
      BY <2>6 DEF OwnerInv, GenerationsAreKnown, Live
    <3>3. owner.home # Unregistered /\ ~MayReplace(owner.home)
      BY <3>1, <3>2, NoneIs DEF MayReplace
    <3> QED BY <1>4, <3>1, <3>3
  <2> HIDE DEF state
  <2> HIDE DEF found
  <2>7. /\ state.found.home \in RouterHomes /\ state.found.generation > 0
        /\ state.found.generation <= lifetimes[state.found.home].generation
    BY <1>2, <2>5
  <2>8. \A other \in Chats \ {chat} : Live(other) => chats[other].found.home = state.found.home
    BY <2>5, <2>6
  <2> QED BY <1>1, <2>1, <2>4, <2>5, <2>7, <2>8, ChatKeepsOwner
<1>5. CASE ~(owner.home \notin {Unregistered, found.home} => MayReplace(owner.home))
  <2>1. ChatMoves(chat, EndedChat) /\ UNCHANGED ownerLock
    BY <1>5 DEF RegisterOwner, ChatMoves
  <2>2. EndedChat \in ChatStates /\ EndedChat.at = "ended"
    BY ChatStatesAre
  <2> QED BY <1>1, <1>3, <2>1, <2>2, ChatKeepsOwner
<1> QED BY <1>4, <1>5

LEMMA WriteKeepsOwner ==
    ASSUME OwnerInv, NEW chat \in Chats, WriteOwner(chat)
    PROVE  OwnerInv'
<1> USE DEF OwnerInv
<1> DEFINE found == chats[chat].found
<1>1. /\ chats[chat].at = "write" /\ Writes(chat) /\ owner' = found /\ ownerLock' = None
      /\ UNCHANGED <<lifetimes, offs, bridge, launch>>
  BY DEF WriteOwner, Writes
<1>2. chats' = [chats EXCEPT ![chat].at = "requests"]
  BY DEF WriteOwner
<1>3. chats' \in [Chats -> ChatStates] /\ chats'[chat].at = "requests" /\ chats'[chat].found = found
  BY <1>2 DEF OwnerTyping, ChatStates
<1>4. \A other \in Chats \ {chat} : chats'[other] = chats[other]
  BY <1>2 DEF OwnerTyping
<1>5. /\ found \in OwnerRecords /\ found.home \in RouterHomes /\ found.generation > 0
      /\ found.generation <= lifetimes[found.home].generation
  BY <1>1 DEF OwnerTyping, ChatStates, GenerationsAreKnown
<1>6. LaterLifetimes
  BY <1>1, SameIsLater
<1>7. \A other \in Chats \ {chat} : Live(other)' => Live(other)
  BY <1>4, <1>6, LiveShrinks
<1>8. /\ \A off \in Offs : ~Runs(off)
      /\ \A other \in Chats \ {chat} : ~Writes(other)
  BY <1>1 DEF OneLockHolder
<1>9. \A other \in Chats : ~Writes(other)'
  BY <1>3, <1>4, <1>8 DEF Writes
<1>10. OwnerTyping'
  BY <1>1, <1>3, <1>5, NoneIs DEF OwnerTyping
<1>11. ASSUME NEW other \in Chats, chats'[other].at \in {"register", "write", "requests"}
       PROVE  /\ chats'[other].found.home \in RouterHomes /\ chats'[other].found.generation > 0
              /\ chats'[other].found.generation <= lifetimes[chats'[other].found.home].generation
  <2>1. CASE other = chat
    BY <1>3, <1>5, <2>1
  <2>2. CASE other # chat
    <3>1. chats'[other] = chats[other]
      BY <1>4, <2>2
    <3> QED BY <1>11, <3>1 DEF GenerationsAreKnown
  <2> QED BY <2>1, <2>2
<1>12. GenerationsAreKnown'
  BY <1>1, <1>5, <1>11 DEF GenerationsAreKnown
<1>13. \A off \in Offs : ~Runs(off)'
  BY <1>1, <1>8 DEF Runs
<1>14. OneLockHolder'
  BY <1>9, <1>13 DEF OneLockHolder
<1>15. \A off \in Offs : offs'[off].read = None
  BY <1>1, <1>8 DEF ReadIsTheRecord
<1>16. ReadIsTheRecord'
  BY <1>13, <1>15 DEF ReadIsTheRecord, None, Runs
<1>17. OneLiveOwner'
  <2> SUFFICES ASSUME NEW other \in Chats, Live(other)' PROVE owner'.home = chats'[other].found.home
    BY DEF OneLiveOwner
  <2>1. CASE other = chat
    BY <1>1, <1>3, <2>1
  <2>2. CASE other # chat
    <3>1. Live(other) /\ chats'[other] = chats[other]
      BY <1>4, <1>7, <2>2
    <3> QED BY <1>1, <3>1 DEF WriterIsAlone
  <2> QED BY <2>1, <2>2
<1>18. StoppedIsStopped'
  BY <1>13 DEF StoppedIsStopped, StopsThem, Runs
<1>19. WriterIsAlone'
  BY <1>9 DEF WriterIsAlone
<1>20. TargetIsTheBridge' /\ SavedIsTheUsers'
  BY <1>1, OffsStand
<1> QED BY <1>10, <1>12, <1>14, <1>16, <1>17, <1>18, <1>19, <1>20

-----------------------------------------------------------------------------
(* The steps of an `off`: it alone holds the lock before, so no chat       *)
(* writes and no other `off` runs.                                         *)

LEMMA OffStepKeepsOwner ==
    ASSUME OwnerInv, NEW off \in Offs, LaterLifetimes, UNCHANGED chats,
           offs' \in [Offs -> OffCommands], \A other \in Offs \ {off} : offs'[other] = offs[other],
           Runs(off) \/ ownerLock = None,
           ownerLock' \in OwnerRecords, bridge' \in BridgeStates, launch' \in LaunchSettings,
           Runs(off)' => ownerLock' # None /\ offs'[off].read = owner',
           ~Runs(off)' => offs'[off].read = None,
           owner' = owner \/ (owner' = None /\ NoneIsLive),
           offs'[off].at \in {"check", "disconnect"} => owner' # None,
           StopsThem(off)', AimsAtTheBridge(off)', PutsBack(off)', SettingIsSaved'
    PROVE  OwnerInv'
<1> USE DEF OwnerInv
<1>1. \A other \in Offs \ {off} : ~Runs(other)
  BY DEF OneLockHolder
<1>2. \A other \in Offs \ {off} : ~Runs(other)' /\ offs'[other].read = None
  BY <1>1 DEF Runs, ReadIsTheRecord
<1>3. \A chat \in Chats : ~Writes(chat)
  BY DEF OneLockHolder
<1>4. \A chat \in Chats : ~Writes(chat)'
  BY <1>3 DEF Writes
<1>5. \A chat \in Chats : Live(chat)' => Live(chat)
  BY LiveShrinks
<1>6. OwnerTyping'
  BY NoneIs DEF OwnerTyping, LaterLifetimes
<1>7. GenerationsAreKnown'
  <2>1. CASE owner' = owner
    BY <2>1, FoundIsKnown
  <2>2. CASE owner' = None
    <3>1. ASSUME NEW chat \in Chats, chats[chat].at \in {"register", "write", "requests"}
          PROVE  /\ chats[chat].found.home \in RouterHomes /\ chats[chat].found.generation > 0
                 /\ chats[chat].found.generation <= lifetimes'[chats[chat].found.home].generation
      <4> DEFINE found == chats[chat].found
      <4>1. /\ found.home \in RouterHomes /\ found.generation > 0
            /\ found.generation <= lifetimes[found.home].generation
        BY <3>1 DEF GenerationsAreKnown
      <4>2. found.generation \in Nat
        BY DEF OwnerTyping, ChatStates, OwnerRecords
      <4>3. lifetimes[found.home].generation \in Nat /\ lifetimes'[found.home].generation \in Nat
        BY <4>1 DEF OwnerTyping, LaterLifetimes, HomeLifetimes
      <4>4. lifetimes[found.home].generation <= lifetimes'[found.home].generation
        BY <4>1 DEF LaterLifetimes
      <4> HIDE DEF found
      <4>5. found.generation <= lifetimes'[found.home].generation
        BY <4>1, <4>2, <4>3, <4>4
      <4> QED BY <4>1, <4>5 DEF found
    <3>2. \A home \in RouterHomes : lifetimes'[home].phase # "disconnected" => lifetimes'[home].generation > 0
      BY DEF LaterLifetimes
    <3> QED BY <2>2, <3>1, <3>2 DEF GenerationsAreKnown, None
  <2> QED BY <2>1, <2>2
<1>8. OneLockHolder'
  BY <1>2, <1>4 DEF OneLockHolder
<1>9. ReadIsTheRecord'
  <2>1. \A other \in Offs \ {off} : offs'[other].at \notin {"check", "disconnect"}
    BY <1>2 DEF Runs
  <2> QED BY <1>2, <2>1 DEF ReadIsTheRecord, None
<1>10. OneLiveOwner'
  BY <1>5 DEF OneLiveOwner, NoneIsLive
<1>11. WriterIsAlone'
  BY <1>4 DEF WriterIsAlone
<1>12. \A other \in Offs \ {off} : offs'[other].at \in {"new", "ended"}
  BY <1>2 DEF Runs
<1>13. \A other \in Offs \ {off} : StopsThem(other)' /\ AimsAtTheBridge(other)' /\ PutsBack(other)'
  BY <1>12 DEF StopsThem, AimsAtTheBridge, PutsBack
<1>14. StoppedIsStopped' /\ TargetIsTheBridge' /\ SavedIsTheUsers'
  BY <1>13 DEF StoppedIsStopped, TargetIsTheBridge, SavedIsTheUsers
<1> QED BY <1>6, <1>7, <1>8, <1>9, <1>10, <1>11, <1>14

\* One that ends has nothing left to answer for.
LEMMA OffEndKeepsOwner ==
    ASSUME OwnerInv, NEW off \in Offs, NEW failed, EndOff(off, failed), Runs(off) \/ ownerLock = None,
           UNCHANGED <<lifetimes, chats, bridge, launch>>, owner' = owner \/ (owner' = None /\ NoneIsLive)
    PROVE  OwnerInv'
<1>1. /\ offs' \in [Offs -> OffCommands] /\ \A other \in Offs \ {off} : offs'[other] = offs[other]
      /\ offs'[off].at = "ended" /\ offs'[off].read = None /\ ownerLock' = None
  BY OffEnds DEF OwnerInv, OwnerTyping
<1>2. LaterLifetimes
  BY SameIsLater DEF OwnerInv
<1>3. ~Runs(off)' /\ StopsThem(off)' /\ AimsAtTheBridge(off)' /\ PutsBack(off)'
  BY <1>1 DEF Runs, StopsThem, AimsAtTheBridge, PutsBack
<1>4. SettingIsSaved'
  BY DEF OwnerInv, SavedIsTheUsers, SettingIsSaved
<1>5. ownerLock' \in OwnerRecords /\ bridge' \in BridgeStates /\ launch' \in LaunchSettings
  BY <1>1, NoneIs DEF OwnerInv, OwnerTyping
<1>6. offs'[off].at \notin {"check", "disconnect"}
  BY <1>1
<1> QED BY <1>1, <1>2, <1>3, <1>4, <1>5, <1>6, OffStepKeepsOwner

\* One that goes on keeps the lock and the record it read.
LEMMA OffGoesOnKeepsOwner ==
    ASSUME OwnerInv, NEW off \in Offs, OneOffMoves(off), Runs(off), Runs(off)', LaterLifetimes,
           UNCHANGED <<owner, ownerLock, chats>>, bridge' \in BridgeStates, launch' \in LaunchSettings,
           offs'[off].at \in {"check", "disconnect"} => offs[off].at \in {"check", "disconnect"},
           StopsThem(off)', AimsAtTheBridge(off)', PutsBack(off)', SettingIsSaved'
    PROVE  OwnerInv'
<1>1. ownerLock' # None
  BY DEF OwnerInv, OneLockHolder, None
<1>2. offs'[off].read = owner'
  BY DEF OwnerInv, ReadIsTheRecord, OneOffMoves
<1>3. offs'[off].at \in {"check", "disconnect"} => owner' # None
  BY DEF OwnerInv, ReadIsTheRecord, None
<1>4. ownerLock' \in OwnerRecords
  BY DEF OwnerInv, OwnerTyping
<1>5. offs' \in [Offs -> OffCommands] /\ \A other \in Offs \ {off} : offs'[other] = offs[other]
  BY DEF OneOffMoves
<1> QED BY <1>1, <1>2, <1>3, <1>4, <1>5, OffStepKeepsOwner

LEMMA StartOffKeepsOwner ==
    ASSUME OwnerInv, NEW off \in Offs, NEW named \in Nat, StartOff(off, named)
    PROVE  OwnerInv'
<1> DEFINE at == IF owner = None THEN "bridge" ELSE "check"
           started == [at |-> at, named |-> named, read |-> owner,
                       stopped |-> TRUE, failed |-> FALSE, target |-> None, alone |-> TRUE]
<1>1. /\ offs[off].at = "new" /\ ownerLock = None
      /\ UNCHANGED <<lifetimes, owner, chats, bridge, launch>>
  BY DEF StartOff
<1>2. CASE owner # None /\ named # 0 /\ named # owner.generation
  <2>1. EndOff(off, TRUE)
    BY <1>2 DEF StartOff
  <2> QED BY <1>1, <2>1, OffEndKeepsOwner
<1>3. CASE ~(owner # None /\ named # 0 /\ named # owner.generation)
  <2>1. /\ offs' = [offs EXCEPT ![off] = IF bridge.installing = "no" THEN started ELSE Overlapped(started)]
        /\ ownerLock' = [home |-> Unregistered, generation |-> 1]
    BY <1>3 DEF StartOff
  <2>2. at \in {"bridge", "check"} /\ at \in OffStages
    BY DEF OffStages
  <2>3. owner \in OwnerRecords
    BY DEF OwnerInv, OwnerTyping
  <2> HIDE DEF at
  <2>4. started \in OffCommands /\ started.at = at /\ started.read = owner
    BY <2>2, <2>3, NoneIs DEF OffCommands
  <2> HIDE DEF started
  <2>5. Overlapped(started) \in OffCommands /\ Overlapped(started).at = at /\ Overlapped(started).read = owner
    BY <2>4, CommandIsOverlapped
  <2>6. PICK command \in {started, Overlapped(started)} : offs' = [offs EXCEPT ![off] = command]
    BY <2>1
  <2>7. command \in OffCommands /\ command.at = at /\ command.read = owner
    BY <2>4, <2>5
  <2>8. /\ offs' \in [Offs -> OffCommands] /\ \A other \in Offs \ {off} : offs'[other] = offs[other]
        /\ offs'[off].at = at /\ offs'[off].read = owner
    BY <2>6, <2>7 DEF OwnerInv, OwnerTyping
  <2>9. LaterLifetimes
    BY <1>1, SameIsLater DEF OwnerInv
  <2>10. Runs(off)'
    BY <2>2, <2>8 DEF Runs
  <2>11. ownerLock' \in OwnerRecords /\ ownerLock' # None
    BY <2>1 DEF OwnerRecords, None
  <2>12. bridge' \in BridgeStates /\ launch' \in LaunchSettings /\ SettingIsSaved'
    BY <1>1 DEF OwnerInv, OwnerTyping, SavedIsTheUsers, SettingIsSaved
  <2>13. AimsAtTheBridge(off)' /\ PutsBack(off)'
    BY <2>2, <2>8 DEF AimsAtTheBridge, PutsBack
  <2>14. offs'[off].at \in {"check", "disconnect"} => owner' # None
    BY <1>1, <2>8 DEF at, None
  <2>15. StopsThem(off)'
    <3>1. CASE owner = None
      <4>1. ASSUME NEW chat \in Chats, Live(chat) PROVE FALSE
        <5>1. owner.home = chats[chat].found.home /\ chats[chat].found.home \in RouterHomes
          BY <4>1 DEF OwnerInv, OneLiveOwner, GenerationsAreKnown, Live
        <5> QED BY <3>1, <5>1, NoneIs
      <4>2. \A chat \in Chats : ~Live(chat)'
        BY <1>1, <4>1 DEF Live
      <4> QED BY <4>2 DEF StopsThem, NoneIsLive
    <3>2. CASE owner # None
      BY <2>8, <3>2 DEF StopsThem, at
    <3> QED BY <3>1, <3>2
  <2>16. offs'[off].read = owner'
    BY <1>1, <2>8
  <2>17. owner' = owner /\ UNCHANGED chats
    BY <1>1
  <2> HIDE DEF at
  <2> QED BY <1>1, <2>8, <2>9, <2>10, <2>11, <2>12, <2>13, <2>14, <2>15, <2>16, <2>17, OffStepKeepsOwner
<1> QED BY <1>2, <1>3

LEMMA OffIsACommand ==
    ASSUME OwnerInv, NEW off \in Offs
    PROVE  /\ offs \in [Offs -> OffCommands] /\ offs[off] \in OffCommands
           /\ bridge \in BridgeStates /\ launch \in LaunchSettings /\ SettingIsSaved
           /\ StopsThem(off) /\ AimsAtTheBridge(off) /\ PutsBack(off)
BY DEF OwnerInv, OwnerTyping, SavedIsTheUsers, StoppedIsStopped, TargetIsTheBridge

LEMMA CheckKeepsOwner ==
    ASSUME OwnerInv, NEW off \in Offs, CheckOwner(off)
    PROVE  OwnerInv'
<1>1. offs[off].at = "check" /\ Runs(off) /\ UNCHANGED <<lifetimes, owner, chats, bridge, launch>>
  BY DEF CheckOwner, Runs
<1>2. CASE EndOff(off, TRUE)
  BY <1>1, <1>2, OffEndKeepsOwner
<1>3. CASE Off(off, "disconnect") /\ UNCHANGED ownerLock
  <2>1. "disconnect" \in OffStages
    BY DEF OffStages
  <2>2. OneOffMoves(off) /\ offs'[off].at = "disconnect"
    BY <1>3, <2>1, OffMoves, OffIsACommand
  <2>3. Runs(off)' /\ StopsThem(off)' /\ AimsAtTheBridge(off)' /\ PutsBack(off)'
    BY <2>2 DEF Runs, StopsThem, AimsAtTheBridge, PutsBack
  <2>4. bridge' \in BridgeStates /\ launch' \in LaunchSettings /\ SettingIsSaved'
    BY <1>1, OffIsACommand DEF SettingIsSaved
  <2>5. LaterLifetimes
    BY <1>1, SameIsLater DEF OwnerInv
  <2> QED BY <1>1, <1>3, <2>2, <2>3, <2>4, <2>5, OffGoesOnKeepsOwner
<1> QED BY <1>2, <1>3 DEF CheckOwner

LEMMA StopKeepsOwner ==
    ASSUME OwnerInv, NEW off \in Offs, StopOwner(off)
    PROVE  OwnerInv'
<1> DEFINE read == offs[off].read
<1>1. offs[off].at = "disconnect" /\ Runs(off) /\ UNCHANGED <<owner, chats, bridge, launch>>
  BY DEF StopOwner, Runs
<1>2. CASE EndOff(off, TRUE) /\ UNCHANGED lifetimes
  BY <1>1, <1>2, OffEndKeepsOwner
<1>3. read = owner /\ owner # None
  BY <1>1 DEF OwnerInv, ReadIsTheRecord
<1>4. read.home \in RouterHomes
  BY <1>3 DEF OwnerInv, GenerationsAreKnown
<1>5. "bridge" \in OffStages
  BY DEF OffStages
<1>6. bridge' \in BridgeStates /\ launch' \in LaunchSettings /\ SettingIsSaved'
  BY <1>1, OffIsACommand DEF SettingIsSaved
<1>7. CASE Disconnected(read.home, "disconnected") /\ Off(off, "bridge") /\ UNCHANGED ownerLock
  <2>1. OneOffMoves(off) /\ offs'[off].at = "bridge"
    BY <1>5, <1>7, OffMoves, OffIsACommand
  <2>2. LaterLifetimes /\ lifetimes'[read.home].phase = "disconnected"
    BY <1>4, <1>7, DisconnectedIsLater DEF OwnerInv
  <2>3. ASSUME NEW chat \in Chats, Live(chat)' PROVE FALSE
    <3>1. Live(chat)
      BY <1>1, <2>2, <2>3, LiveShrinks DEF OwnerInv
    <3>2. owner.home = chats[chat].found.home
      BY <3>1 DEF OwnerInv, OneLiveOwner
    <3>3. lifetimes'[chats[chat].found.home].phase # "disconnected"
      BY <1>1, <2>3 DEF Live
    <3> QED BY <1>3, <2>2, <3>2, <3>3
  <2>4. NoneIsLive'
    BY <2>3 DEF NoneIsLive
  <2>5. Runs(off)' /\ StopsThem(off)' /\ AimsAtTheBridge(off)' /\ PutsBack(off)'
    BY <2>1, <2>4 DEF Runs, StopsThem, AimsAtTheBridge, PutsBack
  <2> QED BY <1>1, <1>6, <1>7, <2>1, <2>2, <2>5, OffGoesOnKeepsOwner
<1>8. CASE /\ lifetimes[read.home].phase # "disconnected" /\ Disconnected(read.home, "pending")
           /\ \/ OffLingers(off, "bridge")
              \/ offs' = [offs EXCEPT ![off] = To(Failing(Lingering(offs[off])), "bridge")]
           /\ UNCHANGED ownerLock
  <2>1. OneOffMoves(off) /\ offs'[off].at = "bridge" /\ offs'[off].stopped = FALSE
    BY <1>5, <1>8, OffLingering, OffIsACommand
  <2>2. LaterLifetimes
    BY <1>4, <1>8, DisconnectedIsLater DEF OwnerInv
  <2>3. Runs(off)' /\ StopsThem(off)' /\ AimsAtTheBridge(off)' /\ PutsBack(off)'
    BY <2>1 DEF Runs, StopsThem, AimsAtTheBridge, PutsBack
  <2> QED BY <1>1, <1>6, <1>8, <2>1, <2>2, <2>3, OffGoesOnKeepsOwner
<1> QED BY <1>2, <1>7, <1>8 DEF StopOwner

\* Nobody is live after a step that moves no chat, when nobody was.
LEMMA NoneStaysNone ==
    ASSUME OwnerInv, LaterLifetimes, UNCHANGED chats, NoneIsLive
    PROVE  NoneIsLive'
<1>1. \A chat \in Chats : Live(chat)' => Live(chat)
  BY LiveShrinks DEF OwnerInv
<1> QED BY <1>1 DEF NoneIsLive

LEMMA CheckBridgeKeepsOwner ==
    ASSUME OwnerInv, NEW off \in Offs, CheckBridge(off)
    PROVE  OwnerInv'
<1>1. /\ offs[off].at = "bridge" /\ Runs(off)
      /\ UNCHANGED <<lifetimes, owner, ownerLock, chats, bridge, launch>>
  BY DEF CheckBridge, Runs
<1>2. "finish" \in OffStages
  BY DEF OffStages
<1>3. bridge' \in BridgeStates /\ launch' \in LaunchSettings /\ SettingIsSaved'
  BY <1>1, OffIsACommand DEF SettingIsSaved
<1>4. LaterLifetimes
  BY <1>1, SameIsLater DEF OwnerInv
<1>5. ASSUME OneOffMoves(off), offs'[off].stopped = offs[off].stopped,
             offs'[off].at \in {"finish", "disable"}, AimsAtTheBridge(off)', PutsBack(off)'
      PROVE  OwnerInv'
  <2>1. StopsThem(off)'
    <3>1. offs[off].stopped => NoneIsLive
      BY <1>1, OffIsACommand DEF StopsThem
    <3>2. offs[off].stopped => NoneIsLive'
      BY <1>1, <1>4, <3>1, NoneStaysNone
    <3> QED BY <1>5, <3>2 DEF StopsThem
  <2>2. Runs(off)'
    BY <1>5 DEF Runs
  <2>3. offs'[off].at \notin {"check", "disconnect"}
    BY <1>5
  <2> QED BY <1>1, <1>3, <1>4, <1>5, <2>1, <2>2, <2>3, OffGoesOnKeepsOwner
<1>6. CASE bridge.manifest = "none" /\ Off(off, "finish")
  <2>1. OneOffMoves(off) /\ offs'[off].at = "finish" /\ offs'[off].stopped = offs[off].stopped
    BY <1>2, <1>6, OffMoves, OffIsACommand
  <2>2. AimsAtTheBridge(off)' /\ PutsBack(off)'
    BY <1>1, <1>6, <2>1 DEF AimsAtTheBridge, PutsBack
  <2> QED BY <1>5, <2>1, <2>2
<1>7. CASE OffFails(off, "finish")
  <2>1. /\ OneOffMoves(off) /\ offs'[off].at = "finish" /\ offs'[off].stopped = offs[off].stopped
        /\ offs'[off].failed = TRUE
    BY <1>2, <1>7, OffFailing, OffIsACommand
  <2>2. AimsAtTheBridge(off)' /\ PutsBack(off)'
    BY <2>1 DEF AimsAtTheBridge, PutsBack
  <2> QED BY <1>5, <2>1, <2>2
<1>8. CASE /\ bridge.manifest # "none"
           /\ offs' = [offs EXCEPT ![off] = To(Targeting(offs[off], BridgeTarget(off)), "disable")]
  <2>1. BridgeHome \in RouterHomes
    BY <1>8, OffIsACommand DEF SettingIsSaved
  <2>2. offs[off].read \in OwnerRecords /\ offs[off].named \in Nat
    BY OffIsACommand DEF OffCommands
  <2>3. offs[off].read.generation \in Nat
    BY <2>2 DEF OwnerRecords
  <2>4. /\ BridgeTarget(off) \in OwnerRecords /\ BridgeTarget(off).home = BridgeHome
        /\ offs[off].read.home = BridgeHome => BridgeTarget(off).generation = offs[off].read.generation
    BY <2>1, <2>2, <2>3 DEF BridgeTarget, OwnerRecords
  <2>5. /\ OneOffMoves(off) /\ offs'[off].at = "disable" /\ offs'[off].stopped = offs[off].stopped
        /\ offs'[off].target = BridgeTarget(off)
    BY <1>8, <2>4, OffTargets, OffIsACommand
  <2>6. AimsAtTheBridge(off)'
    BY <2>1, <2>4, <2>5 DEF AimsAtTheBridge, OneOffMoves
  <2>7. PutsBack(off)'
    BY <2>5 DEF PutsBack
  <2> QED BY <1>5, <2>5, <2>6, <2>7
<1> QED BY <1>6, <1>7, <1>8 DEF CheckBridge

\* The steps after the bridge has been looked at: what was stopped stays stopped.
LEMMA LateOffKeepsOwner ==
    ASSUME OwnerInv, NEW off \in Offs, offs[off].at \in {"disable", "restore", "put", "retire"},
           OneOffMoves(off), LaterLifetimes, UNCHANGED <<owner, ownerLock, chats>>,
           offs'[off].at \in {"restore", "put", "retire", "finish"}, offs'[off].target = offs[off].target,
           offs'[off].stopped = offs[off].stopped \/ offs'[off].stopped = FALSE,
           bridge' \in BridgeStates, launch' \in LaunchSettings, PutsBack(off)', SettingIsSaved'
    PROVE  OwnerInv'
<1>1. StopsThem(off)'
  <2>1. offs[off].stopped => NoneIsLive
    BY OffIsACommand DEF StopsThem
  <2>2. offs[off].stopped => NoneIsLive'
    BY <2>1, NoneStaysNone
  <2> QED BY <2>2 DEF StopsThem
<1>2. AimsAtTheBridge(off)'
  BY OffIsACommand DEF AimsAtTheBridge, OneOffMoves
<1>3. Runs(off) /\ Runs(off)' /\ offs'[off].at \notin {"check", "disconnect"}
  BY DEF Runs
<1> QED BY <1>1, <1>2, <1>3, OffGoesOnKeepsOwner

LEMMA DisableKeepsOwner ==
    ASSUME OwnerInv, NEW off \in Offs, DisableManifest(off)
    PROVE  OwnerInv'
<1>1. /\ offs[off].at = "disable" /\ UNCHANGED <<lifetimes, owner, ownerLock, chats, launch>>
      /\ Off(off, "restore") /\ bridge' = [bridge EXCEPT !.manifest = "off"]
  BY DEF DisableManifest
<1>2. "restore" \in OffStages
  BY DEF OffStages
<1>3. /\ OneOffMoves(off) /\ offs'[off].at = "restore" /\ offs'[off].target = offs[off].target
      /\ offs'[off].stopped = offs[off].stopped
  BY <1>1, <1>2, OffMoves, OffIsACommand
<1>4. LaterLifetimes
  BY <1>1, SameIsLater DEF OwnerInv
<1>5. BridgeHome \in RouterHomes
  BY <1>1, OffIsACommand DEF AimsAtTheBridge
<1>6. /\ bridge' \in BridgeStates /\ bridge'.manifest = "off" /\ bridge'.saved = bridge.saved
  BY <1>1, OffIsACommand DEF BridgeStates
<1>7. SettingIsSaved' /\ launch' \in LaunchSettings
  BY <1>1, <1>5, <1>6, OffIsACommand DEF SettingIsSaved
<1>8. PutsBack(off)'
  BY <1>3 DEF PutsBack
<1> QED BY <1>1, <1>3, <1>4, <1>6, <1>7, <1>8, LateOffKeepsOwner

\* The comparison leads to the writing or past it; where it leads past it, the setting is not the bridge's.
LEMMA RestoreKeepsOwner ==
    ASSUME OwnerInv, NEW off \in Offs, RestoreLaunch(off)
    PROVE  OwnerInv'
<1>1. offs[off].at = "restore" /\ UNCHANGED <<lifetimes, owner, ownerLock, chats, bridge, launch>>
  BY DEF RestoreLaunch
<1>2. "retire" \in OffStages /\ "put" \in OffStages
  BY DEF OffStages
<1>3. LaterLifetimes
  BY <1>1, SameIsLater DEF OwnerInv
<1>4. bridge' \in BridgeStates /\ launch' \in LaunchSettings /\ SettingIsSaved'
  BY <1>1, OffIsACommand DEF SettingIsSaved
<1>5. ASSUME NEW at \in {"put", "retire"}, Off(off, at), at = "retire" => launch # "bridge"
      PROVE  OwnerInv'
  <2>1. /\ OneOffMoves(off) /\ offs'[off].at = at /\ offs'[off].target = offs[off].target
        /\ offs'[off].stopped = offs[off].stopped
    BY <1>2, <1>5, OffMoves, OffIsACommand
  <2>2. PutsBack(off)'
    BY <1>1, <1>5, <2>1 DEF PutsBack
  <2> QED BY <1>1, <1>3, <1>4, <2>1, <2>2, LateOffKeepsOwner
<1>6. CASE OffFails(off, "retire")
  <2>1. /\ OneOffMoves(off) /\ offs'[off].at = "retire" /\ offs'[off].target = offs[off].target
        /\ offs'[off].stopped = offs[off].stopped /\ offs'[off].failed = TRUE
    BY <1>2, <1>6, OffFailing, OffIsACommand
  <2>2. PutsBack(off)'
    BY <2>1 DEF PutsBack
  <2> QED BY <1>1, <1>3, <1>4, <2>1, <2>2, LateOffKeepsOwner
<1>7. OffFails(off, "retire") \/ Off(off, IF IsTheBridges THEN "put" ELSE "retire")
  BY DEF RestoreLaunch
<1>8. CASE IsTheBridges /\ Off(off, "put")
  BY <1>5, <1>8
<1>9. CASE ~IsTheBridges /\ Off(off, "retire")
  BY <1>5, <1>9 DEF IsTheBridges
<1> QED BY <1>6, <1>7, <1>8, <1>9

LEMMA PutKeepsOwner ==
    ASSUME OwnerInv, NEW off \in Offs, PutLaunch(off)
    PROVE  OwnerInv'
<1>1. offs[off].at = "put" /\ UNCHANGED <<lifetimes, owner, ownerLock, chats, bridge>>
  BY DEF PutLaunch
<1>2. "retire" \in OffStages
  BY DEF OffStages
<1>3. LaterLifetimes
  BY <1>1, SameIsLater DEF OwnerInv
<1>4. CASE launch' = bridge.saved /\ Off(off, "retire")
  <2>1. /\ OneOffMoves(off) /\ offs'[off].at = "retire" /\ offs'[off].target = offs[off].target
        /\ offs'[off].stopped = offs[off].stopped
    BY <1>2, <1>4, OffMoves, OffIsACommand
  <2>2. launch' \in LaunchSettings /\ launch' = "users"
    BY <1>4, OffIsACommand DEF SettingIsSaved, LaunchSettings
  <2>3. bridge' \in BridgeStates /\ SettingIsSaved' /\ PutsBack(off)'
    BY <1>1, <2>2, OffIsACommand DEF SettingIsSaved, PutsBack
  <2> QED BY <1>1, <1>3, <2>1, <2>2, <2>3, LateOffKeepsOwner
<1>5. CASE OffFails(off, "retire") /\ UNCHANGED launch
  <2>1. /\ OneOffMoves(off) /\ offs'[off].at = "retire" /\ offs'[off].target = offs[off].target
        /\ offs'[off].stopped = offs[off].stopped /\ offs'[off].failed = TRUE
    BY <1>2, <1>5, OffFailing, OffIsACommand
  <2>2. PutsBack(off)'
    BY <2>1 DEF PutsBack
  <2>3. bridge' \in BridgeStates /\ launch' \in LaunchSettings /\ SettingIsSaved'
    BY <1>1, <1>5, OffIsACommand DEF SettingIsSaved
  <2> QED BY <1>1, <1>3, <2>1, <2>2, <2>3, LateOffKeepsOwner
<1> QED BY <1>4, <1>5 DEF PutLaunch

LEMMA RetireKeepsOwner ==
    ASSUME OwnerInv, NEW off \in Offs, RetireBridgeHome(off)
    PROVE  OwnerInv'
<1> DEFINE home == offs[off].target.home
<1>1. offs[off].at = "retire" /\ UNCHANGED <<owner, ownerLock, chats, bridge, launch>>
  BY DEF RetireBridgeHome
<1>2. "finish" \in OffStages
  BY DEF OffStages
<1>3. home \in RouterHomes
  BY <1>1, OffIsACommand DEF AimsAtTheBridge
<1>4. bridge' \in BridgeStates /\ launch' \in LaunchSettings /\ SettingIsSaved'
  BY <1>1, OffIsACommand DEF SettingIsSaved
<1>5. ~offs[off].failed /\ offs[off].alone /\ bridge.manifest # "none" => launch # "bridge"
  BY <1>1, OffIsACommand DEF PutsBack
<1>6. CASE OffFails(off, "finish") /\ UNCHANGED lifetimes
  <2>1. /\ OneOffMoves(off) /\ offs'[off].at = "finish" /\ offs'[off].target = offs[off].target
        /\ offs'[off].stopped = offs[off].stopped /\ offs'[off].failed = TRUE
    BY <1>2, <1>6, OffFailing, OffIsACommand
  <2>2. LaterLifetimes /\ PutsBack(off)'
    BY <1>6, <2>1, SameIsLater DEF PutsBack, OwnerInv
  <2> QED BY <1>1, <1>4, <2>1, <2>2, LateOffKeepsOwner
<1>7. CASE Disconnected(home, "disconnected") /\ Off(off, "finish")
  <2>1. /\ OneOffMoves(off) /\ offs'[off].at = "finish" /\ offs'[off].target = offs[off].target
        /\ offs'[off].stopped = offs[off].stopped /\ offs'[off].failed = offs[off].failed
    BY <1>2, <1>7, OffMoves, OffIsACommand
  <2>2. LaterLifetimes
    BY <1>3, <1>7, DisconnectedIsLater DEF OwnerInv
  <2>3. PutsBack(off)'
    BY <1>1, <1>5, <2>1 DEF PutsBack, OneOffMoves
  <2> QED BY <1>1, <1>4, <2>1, <2>2, <2>3, LateOffKeepsOwner
<1>8. CASE /\ lifetimes[home].phase # "disconnected" /\ Disconnected(home, "pending")
           /\ OffLingers(off, "finish")
  <2>1. /\ OneOffMoves(off) /\ offs'[off].at = "finish" /\ offs'[off].target = offs[off].target
        /\ offs'[off].stopped = FALSE
        /\ offs'[off].failed = offs[off].failed \/ offs'[off].failed = TRUE
    BY <1>2, <1>8, OffLingering, OffIsACommand
  <2>2. LaterLifetimes
    BY <1>3, <1>8, DisconnectedIsLater DEF OwnerInv
  <2>3. PutsBack(off)'
    BY <1>1, <1>5, <2>1 DEF PutsBack, OneOffMoves
  <2> QED BY <1>1, <1>4, <2>1, <2>2, <2>3, LateOffKeepsOwner
<1> QED BY <1>6, <1>7, <1>8 DEF RetireBridgeHome

LEMMA FinishKeepsOwner ==
    ASSUME OwnerInv, NEW off \in Offs, FinishOff(off)
    PROVE  OwnerInv'
<1>1. /\ offs[off].at = "finish" /\ Runs(off) /\ EndOff(off, offs[off].failed)
      /\ UNCHANGED <<lifetimes, chats, bridge, launch>>
      /\ owner' = IF offs[off].stopped /\ ~offs[off].failed THEN None ELSE owner
  BY DEF FinishOff, Runs
<1>2. offs[off].stopped => NoneIsLive
  BY <1>1, OffIsACommand DEF StopsThem
<1>3. owner' = owner \/ (owner' = None /\ NoneIsLive)
  BY <1>1, <1>2
<1> DEFINE failed == offs[off].failed
<1>4. EndOff(off, failed)
  BY <1>1
<1> HIDE DEF failed
<1> QED BY <1>1, <1>3, <1>4, OffEndKeepsOwner

-----------------------------------------------------------------------------
(* The installation of a bridge and the user's own changes.                *)

LEMMA DisturbedIs ==
    ASSUME OwnerInv, offs' = Disturbed
    PROVE  /\ offs' \in [Offs -> OffCommands]
           /\ \A off \in Offs : /\ offs'[off].at = offs[off].at /\ offs'[off].read = offs[off].read
                                /\ offs'[off].stopped = offs[off].stopped /\ offs'[off].target = offs[off].target
                                /\ Runs(off) => offs'[off].alone = FALSE
<1>1. ASSUME NEW off \in Offs
      PROVE  /\ offs'[off] \in OffCommands
             /\ offs'[off].at = offs[off].at /\ offs'[off].read = offs[off].read
             /\ offs'[off].stopped = offs[off].stopped /\ offs'[off].target = offs[off].target
             /\ Runs(off) => offs'[off].alone = FALSE
  <2> DEFINE command == offs[off]
             overlapped == Overlapped(command)
  <2>1. command \in OffCommands
    BY OffIsACommand
  <2>2. /\ overlapped \in OffCommands /\ overlapped.alone = FALSE
        /\ overlapped.read = command.read /\ overlapped.at = command.at
        /\ overlapped.target = command.target /\ overlapped.stopped = command.stopped
    BY <2>1, CommandIsOverlapped
  <2>3. offs'[off] = IF command.at \in {"new", "ended"} THEN command ELSE overlapped
    BY DEF Disturbed
  <2> HIDE DEF overlapped
  <2> QED BY <2>1, <2>2, <2>3 DEF Runs
<1>2. offs' = [off \in Offs |-> offs'[off]]
  BY DEF Disturbed
<1> QED BY <1>1, <1>2

LEMMA InstallKeepsOwner ==
    ASSUME OwnerInv, InstallBridge
    PROVE  OwnerInv'
<1> USE DEF OwnerInv
<1>1. offs' = Disturbed /\ BridgeHome \in RouterHomes /\ UNCHANGED <<lifetimes, owner, ownerLock, chats>>
  BY DEF InstallBridge
<1>2. /\ offs' \in [Offs -> OffCommands]
      /\ \A off \in Offs : /\ offs'[off].at = offs[off].at /\ offs'[off].read = offs[off].read
                           /\ offs'[off].stopped = offs[off].stopped /\ offs'[off].target = offs[off].target
                           /\ Runs(off) => offs'[off].alone = FALSE
  BY <1>1, DisturbedIs
<1>3. bridge \in BridgeStates /\ launch \in LaunchSettings /\ SettingIsSaved
  BY DEF OwnerTyping, SavedIsTheUsers
<1>4. bridge.saved = "users"
  BY <1>3 DEF SettingIsSaved
<1>5. bridge' \in BridgeStates /\ launch' \in LaunchSettings /\ SettingIsSaved'
  <2>1. CASE /\ bridge.manifest = "none"
             /\ bridge' = [manifest |-> "off", installing |-> "enable", saved |-> launch] /\ UNCHANGED launch
    BY <1>1, <1>3, <2>1 DEF BridgeStates, SettingIsSaved
  <2>2. CASE bridge' = [manifest |-> "on", installing |-> "set", saved |-> bridge.saved] /\ UNCHANGED launch
    BY <1>1, <1>3, <2>2 DEF BridgeStates, SettingIsSaved
  <2>3. CASE /\ bridge.installing = "set"
             /\ bridge' = [bridge EXCEPT !.installing = "check"] /\ launch' = "bridge"
    <3>1. bridge.manifest # "none"
      BY <1>3, <2>3 DEF SettingIsSaved
    <3>2. bridge' \in BridgeStates /\ bridge'.manifest = bridge.manifest /\ bridge'.saved = bridge.saved
      BY <1>3, <2>3 DEF BridgeStates
    <3> QED BY <1>1, <1>3, <2>3, <3>1, <3>2 DEF SettingIsSaved, LaunchSettings
  <2>4. CASE bridge' = [manifest |-> "off", installing |-> "undo", saved |-> bridge.saved] /\ UNCHANGED launch
    BY <1>1, <1>3, <2>4 DEF BridgeStates, SettingIsSaved
  <2>5. ASSUME NEW installing \in {"no", "put"}, bridge' = [bridge EXCEPT !.installing = installing],
               bridge.installing # "no", launch' \in {launch, bridge.saved}
        PROVE  bridge' \in BridgeStates /\ launch' \in LaunchSettings /\ SettingIsSaved'
    <3>1. bridge.manifest # "none"
      BY <1>3, <2>5 DEF SettingIsSaved
    <3>2. /\ bridge' \in BridgeStates /\ bridge'.manifest = bridge.manifest /\ bridge'.saved = bridge.saved
      BY <1>3, <2>5 DEF BridgeStates
    <3> QED BY <1>1, <1>3, <1>4, <2>5, <3>1, <3>2 DEF SettingIsSaved, LaunchSettings
  <2>6. CASE /\ bridge.installing = "undo" /\ UNCHANGED launch
             /\ bridge' = [bridge EXCEPT !.installing = IF IsTheBridges THEN "put" ELSE "no"]
    BY <2>5, <2>6
  <2>7. CASE bridge.installing = "put" /\ bridge' = [bridge EXCEPT !.installing = "no"] /\ launch' = bridge.saved
    BY <2>5, <2>7
  <2>8. CASE /\ bridge.installing \in {"enable", "set", "check", "undo", "put"}
             /\ bridge' = [bridge EXCEPT !.installing = "no"] /\ UNCHANGED launch
    BY <2>5, <2>8
  <2> QED BY <2>1, <2>2, <2>3, <2>4, <2>6, <2>7, <2>8 DEF InstallBridge
<1>6. OwnerTyping'
  BY <1>1, <1>2, <1>5 DEF OwnerTyping
<1>7. LaterLifetimes
  BY <1>1, SameIsLater
<1>8. /\ GenerationsAreKnown' /\ OneLiveOwner' /\ WriterIsAlone'
      /\ \A chat \in Chats : Live(chat)' => Live(chat)
  BY <1>1, <1>7, ChatsStand
<1>9. \A off \in Offs : Runs(off)' <=> Runs(off)
  BY <1>2 DEF Runs
<1>10. OneLockHolder'
  BY <1>1, <1>9 DEF OneLockHolder, Writes, None
<1>11. ReadIsTheRecord'
  BY <1>1, <1>2, <1>9 DEF ReadIsTheRecord, None
<1>12. NoneIsLive => NoneIsLive'
  BY <1>8 DEF NoneIsLive
<1>13. ASSUME NEW off \in Offs
       PROVE  StopsThem(off)' /\ AimsAtTheBridge(off)' /\ PutsBack(off)'
  <2>1. StopsThem(off)'
    BY <1>2, <1>12 DEF StopsThem, StoppedIsStopped
  <2>2. AimsAtTheBridge(off)'
    BY <1>2 DEF AimsAtTheBridge, TargetIsTheBridge
  <2>3. PutsBack(off)'
    BY <1>2 DEF PutsBack, Runs
  <2> QED BY <2>1, <2>2, <2>3
<1>14. StoppedIsStopped' /\ TargetIsTheBridge' /\ SavedIsTheUsers'
  BY <1>5, <1>13 DEF StoppedIsStopped, TargetIsTheBridge, SavedIsTheUsers
<1> QED BY <1>6, <1>8, <1>10, <1>11, <1>14

LEMMA UserKeepsOwner ==
    ASSUME OwnerInv, UserSetsLaunch
    PROVE  OwnerInv'
<1> USE DEF OwnerInv
<1>1. /\ bridge.manifest # "none" /\ launch' \in {"users own", "users late"}
      /\ UNCHANGED <<lifetimes, owner, ownerLock, chats, offs, bridge>>
  BY DEF UserSetsLaunch
<1>2. LaterLifetimes
  BY <1>1, SameIsLater
<1>3. /\ GenerationsAreKnown' /\ OneLiveOwner' /\ WriterIsAlone'
      /\ \A chat \in Chats : Live(chat)' => Live(chat)
  BY <1>1, <1>2, ChatsStand
<1>4. OwnerTyping'
  BY <1>1 DEF OwnerTyping, LaunchSettings
<1>5. OneLockHolder' /\ ReadIsTheRecord'
  BY <1>1 DEF OneLockHolder, ReadIsTheRecord, Writes, Runs, None
<1>6. StoppedIsStopped'
  BY <1>1, <1>3 DEF StoppedIsStopped, StopsThem, NoneIsLive
<1>7. TargetIsTheBridge' /\ SavedIsTheUsers'
  BY <1>1 DEF TargetIsTheBridge, AimsAtTheBridge, SavedIsTheUsers, SettingIsSaved, PutsBack
<1> QED BY <1>3, <1>4, <1>5, <1>6, <1>7

LEMMA OwnerStutters == OwnerInv /\ UNCHANGED ownerVars => OwnerInv'
<1> SUFFICES ASSUME OwnerInv, UNCHANGED ownerVars PROVE OwnerInv'
  OBVIOUS
<1> USE DEF OwnerInv, ownerVars
<1>1. LaterLifetimes
  BY SameIsLater
<1>2. /\ GenerationsAreKnown' /\ OneLiveOwner' /\ WriterIsAlone'
      /\ \A chat \in Chats : Live(chat)' => Live(chat)
  BY <1>1, ChatsStand
<1>3. OwnerTyping'
  BY DEF OwnerTyping
<1>4. OneLockHolder' /\ ReadIsTheRecord'
  BY DEF OneLockHolder, ReadIsTheRecord, Writes, Runs, None
<1>5. StoppedIsStopped'
  BY <1>2 DEF StoppedIsStopped, StopsThem, NoneIsLive
<1>6. TargetIsTheBridge' /\ SavedIsTheUsers'
  BY OffsStand
<1> QED BY <1>2, <1>3, <1>4, <1>5, <1>6

LEMMA GenerationsAreNumbers == \A named \in Generations : named \in Nat
BY OwnerAssumption DEF Generations

LEMMA OwnerKeeps == OwnerInv /\ [OwnerNext]_ownerVars => OwnerInv'
<1> SUFFICES ASSUME OwnerInv, [OwnerNext]_ownerVars PROVE OwnerInv'
  OBVIOUS
<1>1. CASE UNCHANGED ownerVars
  BY <1>1, OwnerStutters
<1>2. ASSUME NEW home \in RouterHomes, Reconnect(home) \/ DisconnectHome(home) PROVE OwnerInv'
  BY <1>2, HomesKeepOwner
<1>3. ASSUME NEW chat \in Chats, NEW home \in RouterHomes, ReadStatus(chat, home) PROVE OwnerInv'
  BY <1>3, ReadKeepsOwner
<1>4. ASSUME NEW chat \in Chats, RegisterOwner(chat) \/ WriteOwner(chat) \/ EndChat(chat) PROVE OwnerInv'
  BY <1>4, RegisterKeepsOwner, WriteKeepsOwner, ChatEndsKeepsOwner
<1>5. ASSUME NEW off \in Offs, NEW named \in Generations, StartOff(off, named) PROVE OwnerInv'
  BY <1>5, GenerationsAreNumbers, StartOffKeepsOwner
<1>6. ASSUME NEW off \in Offs, \/ CheckOwner(off) \/ StopOwner(off) \/ CheckBridge(off) \/ DisableManifest(off)
                               \/ RestoreLaunch(off) \/ PutLaunch(off) \/ RetireBridgeHome(off) \/ FinishOff(off)
      PROVE  OwnerInv'
  BY <1>6, CheckKeepsOwner, StopKeepsOwner, CheckBridgeKeepsOwner, DisableKeepsOwner, RestoreKeepsOwner,
     PutKeepsOwner, RetireKeepsOwner, FinishKeepsOwner
<1>7. CASE InstallBridge
  BY <1>7, InstallKeepsOwner
<1>8. CASE UserSetsLaunch
  BY <1>8, UserKeepsOwner
<1> QED BY <1>1, <1>2, <1>3, <1>4, <1>5, <1>6, <1>7, <1>8 DEF OwnerNext

-----------------------------------------------------------------------------
(* What a step of a command may do to a lifetime and to the setting.       *)

\* Only the two steps that disconnect change a lifetime under an `off`, and each names the connection read.
StopsWhatItRead ==
    \A off \in Offs : \A home \in RouterHomes :
        (offs'[off].at # offs[off].at /\ offs[off].read.home = home /\ lifetimes'[home] # lifetimes[home])
          => lifetimes[home].generation = offs[off].read.generation

LEMMA ReplacementsAreSafe == OwnerInv /\ [OwnerNext]_ownerVars => StopsWhatItRead
<1> SUFFICES ASSUME OwnerInv, [OwnerNext]_ownerVars, NEW off \in Offs, NEW home \in RouterHomes,
                    offs'[off].at # offs[off].at, offs[off].read.home = home, lifetimes'[home] # lifetimes[home]
             PROVE  lifetimes[home].generation = offs[off].read.generation
  BY DEF StopsWhatItRead
<1>1. PICK mover \in Offs : StopOwner(mover) \/ RetireBridgeHome(mover)
  BY DEF OwnerNext, ownerVars, Reconnect, DisconnectHome, ReadStatus, RegisterOwner, WriteOwner, EndChat, StartOff,
     CheckOwner, CheckBridge, DisableManifest, RestoreLaunch, PutLaunch, FinishOff, InstallBridge, UserSetsLaunch
<1>2. offs \in [Offs -> OffCommands]
  BY OffIsACommand
<1>3. \E command \in {offs'[mover]} : offs' = [offs EXCEPT ![mover] = command]
  BY <1>1, <1>2 DEF StopOwner, RetireBridgeHome, EndOff, Off, OffLingers, OffFails
<1>4. off = mover
  BY <1>2, <1>3
<1>5. CASE StopOwner(off)
  <2>1. Disconnects(offs[off].read) /\ offs[off].at = "disconnect"
    BY <1>5 DEF StopOwner
  <2>2. offs[off].read = owner /\ owner # None
    BY <2>1 DEF OwnerInv, ReadIsTheRecord, Runs
  <2>3. offs[off].read.generation > 0
    BY <2>2 DEF OwnerInv, GenerationsAreKnown
  <2> QED BY <2>1, <2>3 DEF Disconnects
<1>6. CASE RetireBridgeHome(off)
  <2> DEFINE target == offs[off].target
  <2>1. offs[off].at = "retire" /\ Disconnects(target)
    BY <1>6 DEF RetireBridgeHome
  <2>2. target.home = BridgeHome /\ BridgeHome \in RouterHomes
    BY <2>1, OffIsACommand DEF AimsAtTheBridge
  <2>3. \E phase \in {"pending", "disconnected"} : Disconnected(target.home, phase)
    BY <1>6, <2>1 DEF RetireBridgeHome
  <2>4. lifetimes \in [RouterHomes -> HomeLifetimes]
    BY DEF OwnerInv, OwnerTyping
  <2>5. home = BridgeHome
    BY <2>2, <2>3, <2>4 DEF Disconnected
  <2>6. target.generation = offs[off].read.generation
    BY <2>1, <2>5, OffIsACommand DEF AimsAtTheBridge
  <2>7. offs[off].read = owner
    BY <2>1 DEF OwnerInv, ReadIsTheRecord, Runs
  <2>8. owner # None
    BY <2>7, NoneIs
  <2>9. owner.generation > 0
    BY <2>8 DEF OwnerInv, GenerationsAreKnown
  <2> QED BY <2>1, <2>2, <2>5, <2>6, <2>7, <2>9 DEF Disconnects
<1> QED BY <1>1, <1>4, <1>5, <1>6

EndsWithTheUsers ==
    \A off \in Offs : (offs'[off].at = "ended" /\ offs[off].at = "finish" /\ ~offs[off].failed
                        /\ offs[off].alone /\ bridge.manifest # "none") => launch # "bridge"
LEMMA EndsAreClean == OwnerInv => EndsWithTheUsers
BY OffIsACommand DEF EndsWithTheUsers, PutsBack

\* A setting of the user's own was there before a restoration began to write, or is made after.
LateIsApart == Restoring => launch # "users own"

\* No step but the comparison leads to the writing of a restoration.
LEMMA OthersDoNotPut ==
    ASSUME OwnerInv, LateIsApart, NEW mover \in Offs, offs'[mover].at # "put",
           \A off \in Offs \ {mover} : offs'[off] = offs[off],
           UNCHANGED launch, bridge'.installing = bridge.installing
    PROVE  LateIsApart'
BY DEF LateIsApart, Restoring

LEMMA OffStaysApart ==
    ASSUME OwnerInv, LateIsApart, NEW off \in Offs, NEW at \in OffStages \ {"put"},
           UNCHANGED launch, bridge'.installing = bridge.installing,
           \/ Off(off, at) \/ OffFails(off, at) \/ OffLingers(off, at)
           \/ offs' = [offs EXCEPT ![off] = To(Failing(Lingering(offs[off])), at)]
    PROVE  LateIsApart'
<1>1. offs \in [Offs -> OffCommands]
  BY OffIsACommand DEF OwnerInv, OwnerTyping
<1>2. OneOffMoves(off) /\ offs'[off].at = at
  BY <1>1, OffMoves, OffFailing, OffLingering
<1> QED BY <1>2, OthersDoNotPut DEF OneOffMoves

LEMMA EndStaysApart ==
    ASSUME OwnerInv, LateIsApart, NEW off \in Offs, NEW failed, EndOff(off, failed), UNCHANGED <<bridge, launch>>
    PROVE  LateIsApart'
<1>1. offs \in [Offs -> OffCommands]
  BY OffIsACommand DEF OwnerInv, OwnerTyping
<1>2. offs'[off].at = "ended" /\ \A other \in Offs \ {off} : offs'[other] = offs[other]
  BY <1>1, OffEnds
<1> QED BY <1>2, OthersDoNotPut

LEMMA StartStaysApart ==
    ASSUME OwnerInv, LateIsApart, NEW off \in Offs, NEW named \in Nat, StartOff(off, named)
    PROVE  LateIsApart'
<1> DEFINE at == IF owner = None THEN "bridge" ELSE "check"
           started == [at |-> at, named |-> named, read |-> owner, stopped |-> TRUE, failed |-> FALSE,
                       target |-> None, alone |-> TRUE]
<1>1. UNCHANGED <<bridge, launch>>
  BY DEF StartOff
<1>2. CASE EndOff(off, TRUE)
  BY <1>1, <1>2, EndStaysApart
<1>3. CASE offs' = [offs EXCEPT ![off] = IF bridge.installing = "no" THEN started ELSE Overlapped(started)]
  <2>1. started.at # "put" /\ Overlapped(started).at # "put"
    BY DEF Overlapped
  <2>2. offs \in [Offs -> OffCommands]
    BY OffIsACommand DEF OwnerInv, OwnerTyping
  <2> HIDE DEF started
  <2>3. offs'[off].at # "put" /\ \A other \in Offs \ {off} : offs'[other] = offs[other]
    BY <1>3, <2>1, <2>2
  <2> QED BY <1>1, <2>3, OthersDoNotPut
<1> QED BY <1>2, <1>3 DEF StartOff

LEMMA TargetStaysApart ==
    ASSUME OwnerInv, LateIsApart, NEW off \in Offs, CheckBridge(off)
    PROVE  LateIsApart'
<1>1. UNCHANGED <<bridge, launch>>
  BY DEF CheckBridge
<1>2. CASE Off(off, "finish") \/ OffFails(off, "finish")
  BY <1>1, <1>2, OffStaysApart DEF OffStages
<1>3. CASE offs' = [offs EXCEPT ![off] = To(Targeting(offs[off], BridgeTarget(off)), "disable")]
  <2>1. offs \in [Offs -> OffCommands]
    BY OffIsACommand DEF OwnerInv, OwnerTyping
  <2> DEFINE command == Targeting(offs[off], BridgeTarget(off))
             moved == To(command, "disable")
  <2>2. DOMAIN command = DOMAIN offs[off]
    BY DEF Targeting
  <2>3. "at" \in DOMAIN offs[off]
    BY <2>1 DEF OffCommands
  <2>4. moved.at = "disable"
    BY <2>2, <2>3 DEF To
  <2> HIDE DEF moved, command
  <2>5. offs'[off].at # "put" /\ \A other \in Offs \ {off} : offs'[other] = offs[other]
    BY <1>3, <2>1, <2>4 DEF moved, command
  <2> QED BY <1>1, <2>5, OthersDoNotPut
<1> QED BY <1>2, <1>3 DEF CheckBridge

LEMMA InstallStaysApart ==
    ASSUME OwnerInv, LateIsApart, InstallBridge
    PROVE  LateIsApart'
<1>1. \A off \in Offs : offs'[off].at = offs[off].at
  BY DisturbedIs DEF InstallBridge
<1>2. bridge \in BridgeStates /\ bridge.saved = "users"
  BY DEF OwnerInv, OwnerTyping, SavedIsTheUsers, SettingIsSaved
<1>3. \/ launch' # "users own"
      \/ UNCHANGED launch /\ bridge'.installing # "put"
  <2>1. \A at \in {"set", "check", "undo", "put", "no"} : [bridge EXCEPT !.installing = at].installing = at
    BY <1>2 DEF BridgeStates
  <2>2. CASE launch' = "bridge" \/ launch' = bridge.saved
    BY <1>2, <2>2
  <2>3. CASE bridge' = [bridge EXCEPT !.installing = IF IsTheBridges THEN "put" ELSE "no"] /\ UNCHANGED launch
    <3>1. CASE launch = "bridge"
      BY <2>3, <3>1
    <3>2. CASE launch # "bridge"
      BY <2>1, <2>3, <3>2 DEF IsTheBridges
    <3> QED BY <3>1, <3>2
  <2>4. CASE /\ UNCHANGED launch
             /\ \/ bridge' = [manifest |-> "off", installing |-> "enable", saved |-> launch]
                \/ bridge' = [manifest |-> "on", installing |-> "set", saved |-> bridge.saved]
                \/ bridge' = [manifest |-> "off", installing |-> "undo", saved |-> bridge.saved]
                \/ bridge' = [bridge EXCEPT !.installing = "no"]
    <3>1. CASE bridge' = [bridge EXCEPT !.installing = "no"]
      <4>1. bridge'.installing = "no"
        BY <1>2, <3>1 DEF BridgeStates
      <4> QED BY <2>4, <4>1
    <3>2. CASE \E other \in {"enable", "set", "undo"}, manifest, saved \in {"off", "on", launch, bridge.saved} :
                  bridge' = [manifest |-> manifest, installing |-> other, saved |-> saved]
      <4>1. bridge'.installing # "put"
        BY <3>2
      <4> QED BY <2>4, <4>1
    <3> QED BY <2>4, <3>1, <3>2
  <2> QED BY <2>2, <2>3, <2>4 DEF InstallBridge
<1> QED BY <1>1, <1>3 DEF LateIsApart, Restoring

LEMMA LateStaysApart == OwnerInv /\ LateIsApart /\ [OwnerNext]_ownerVars => LateIsApart'
<1> SUFFICES ASSUME OwnerInv, LateIsApart, [OwnerNext]_ownerVars PROVE LateIsApart'
  OBVIOUS
<1> USE DEF OffStages
<1>1. CASE UNCHANGED <<offs, bridge, launch>>
  BY <1>1 DEF LateIsApart, Restoring
<1>2. ASSUME NEW off \in Offs, NEW named \in Generations, StartOff(off, named) PROVE LateIsApart'
  BY <1>2, GenerationsAreNumbers, StartStaysApart
<1>3. ASSUME NEW off \in Offs, CheckOwner(off) PROVE LateIsApart'
  BY <1>3, EndStaysApart, OffStaysApart DEF CheckOwner
<1>4. ASSUME NEW off \in Offs, StopOwner(off) PROVE LateIsApart'
  BY <1>4, EndStaysApart, OffStaysApart DEF StopOwner
<1>5. ASSUME NEW off \in Offs, CheckBridge(off) PROVE LateIsApart'
  BY <1>5, TargetStaysApart
<1>6. ASSUME NEW off \in Offs, DisableManifest(off) PROVE LateIsApart'
  <2>1. bridge'.installing = bridge.installing
    BY <1>6 DEF DisableManifest, OwnerInv, OwnerTyping, BridgeStates
  <2> QED BY <1>6, <2>1, OffStaysApart DEF DisableManifest
<1>7. ASSUME NEW off \in Offs, RestoreLaunch(off) PROVE LateIsApart'
  <2>1. CASE launch = "bridge"
    BY <1>7, <2>1 DEF RestoreLaunch, LateIsApart
  <2>2. CASE launch # "bridge"
    BY <1>7, <2>2, OffStaysApart DEF RestoreLaunch, IsTheBridges
  <2> QED BY <2>1, <2>2
<1>8. ASSUME NEW off \in Offs, PutLaunch(off) PROVE LateIsApart'
  <2>1. CASE launch' = bridge.saved
    BY <2>1 DEF LateIsApart, OwnerInv, SavedIsTheUsers, SettingIsSaved
  <2>2. CASE OffFails(off, "retire") /\ UNCHANGED launch
    BY <1>8, <2>2, OffStaysApart DEF PutLaunch
  <2> QED BY <1>8, <2>1, <2>2 DEF PutLaunch
<1>9. ASSUME NEW off \in Offs, RetireBridgeHome(off) PROVE LateIsApart'
  BY <1>9, OffStaysApart DEF RetireBridgeHome
<1>10. ASSUME NEW off \in Offs, FinishOff(off) PROVE LateIsApart'
  <2> DEFINE failed == offs[off].failed
  <2>1. EndOff(off, failed) /\ UNCHANGED <<bridge, launch>>
    BY <1>10 DEF FinishOff
  <2> HIDE DEF failed
  <2> QED BY <2>1, EndStaysApart
<1>11. CASE InstallBridge
  BY <1>11, InstallStaysApart
<1>12. CASE UserSetsLaunch
  <2>1. Restoring' <=> Restoring
    BY <1>12 DEF UserSetsLaunch, Restoring
  <2> QED BY <1>12, <2>1 DEF UserSetsLaunch, LateIsApart
<1>13. ASSUME \/ \E home \in RouterHomes : Reconnect(home) \/ DisconnectHome(home)
              \/ \E chat \in Chats : \/ \E home \in RouterHomes : ReadStatus(chat, home)
                                     \/ RegisterOwner(chat) \/ WriteOwner(chat) \/ EndChat(chat)
       PROVE  LateIsApart'
  <2>1. UNCHANGED <<offs, bridge, launch>>
    BY <1>13 DEF Reconnect, DisconnectHome, ReadStatus, RegisterOwner, WriteOwner, EndChat
  <2> QED BY <1>1, <2>1
<1>14. CASE UNCHANGED ownerVars
  BY <1>1, <1>14 DEF ownerVars
<1> QED BY <1>2, <1>3, <1>4, <1>5, <1>6, <1>7, <1>8, <1>9, <1>10, <1>11, <1>12, <1>13, <1>14 DEF OwnerNext

KeepsTheUsers == launch = "users own" => launch' = "users own" \/ bridge.installing = "set"
LEMMA UsersAreKept == OwnerInv /\ LateIsApart /\ [OwnerNext]_ownerVars => KeepsTheUsers
<1> SUFFICES ASSUME OwnerInv, LateIsApart, [OwnerNext]_ownerVars, launch = "users own", launch' # launch
             PROVE  bridge.installing = "set"
  BY DEF KeepsTheUsers
<1>1. ~Restoring
  BY DEF LateIsApart
<1>2. bridge.installing # "put" /\ \A off \in Offs : offs[off].at # "put"
  BY <1>1 DEF Restoring
<1> QED BY <1>2 DEF OwnerNext, ownerVars, Reconnect, DisconnectHome, ReadStatus, RegisterOwner, WriteOwner, EndChat,
     StartOff, CheckOwner, StopOwner, CheckBridge, DisableManifest, RestoreLaunch, PutLaunch, RetireBridgeHome,
     FinishOff, InstallBridge, UserSetsLaunch

\* chat_owner and codex_app_bridge_control.disable_bridge: every chat that is sending sends to the home in the
\* record, an `off` disconnects no other connection than the one it read, and one that reports no error and that
\* no installation overlapped leaves a launch setting that is the user's, who loses no setting but one made
\* between the reading and the writing of a restoration or of an installation.
THEOREM OwnerIsSoundHolds == OwnerSpec => OwnerIsSound
<1>1. OwnerInit => OwnerInv
  BY OwnerStarts
<1>2. OwnerInv /\ [OwnerNext]_ownerVars => OwnerInv'
  BY OwnerKeeps
<1>3. OwnerInv => OneLiveOwner
  BY DEF OwnerInv
<1>4. OwnerInv /\ [OwnerNext]_ownerVars => [StopsWhatItRead]_ownerVars
  BY ReplacementsAreSafe
<1>5. OwnerInv /\ [OwnerNext]_ownerVars => [EndsWithTheUsers]_ownerVars
  BY EndsAreClean
<1>6. OwnerInv /\ LateIsApart /\ [OwnerNext]_ownerVars => [KeepsTheUsers]_ownerVars
  BY UsersAreKept
<1>7. OwnerInit => LateIsApart
  BY DEF OwnerInit, LateIsApart
<1>8. OwnerInv /\ LateIsApart /\ [OwnerNext]_ownerVars => LateIsApart'
  BY LateStaysApart
<1> QED
  BY <1>1, <1>2, <1>3, <1>4, <1>5, <1>6, <1>7, <1>8, PTL
  DEF OwnerSpec, OwnerIsSound, NoReplacementIsStopped, LaunchIsTheUsers, StopsWhatItRead, EndsWithTheUsers, KeepsTheUsers

==============================================================================
