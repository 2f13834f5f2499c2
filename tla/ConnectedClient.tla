--------------------------- MODULE ConnectedClient ---------------------------
(***************************************************************************)
(* The lifetime of a persistent Codex connection: the private journal, the *)
(* user's Codex configuration, the owned router host and the guardian of   *)
(* an owned llama.cpp engine (hormuz/connected_client.py,                  *)
(* hormuz/connected_client_runtime.py, hormuz/managed_llama.py).           *)
(*                                                                         *)
(* One lifecycle command runs at a time: each holds the file lock of       *)
(* _transaction from its first step to its last, so the command in         *)
(* progress is the value of pc, and pc = "idle" is the lock being free.    *)
(* A command may die between any two steps.  The user edits the            *)
(* configuration at any time, and hosts and guardians are processes of     *)
(* their own that outlive the command that started them.                   *)
(***************************************************************************)
EXTENDS Naturals

CONSTANTS
    MaxGen,       \* bound: how many generations are ever installed
    ManagedGens,  \* the generations whose gateway configuration owns an engine
    UserVals,     \* values a user gives to a top-level setting, or its absence
    Pinned        \* the value every connection installs for "setting"

Gens == 1 .. MaxGen
Keys == {"setting", "provider"}

ASSUME MaxGenAssumption == MaxGen \in Nat \ {0}
ASSUME ManagedAssumption == ManagedGens \subseteq Gens
ASSUME PinnedAssumption == Pinned \in UserVals
ASSUME UserValsAssumption == \A v \in UserVals : v \notin Nat

VARIABLES
    journal,   \* connection.json: generation, phase and the original values;
               \* "by" records which path saved the last "disconnected"
    config,    \* the user's config.toml: owned keys and provider tables
    pc,        \* where the command that holds the transaction lock stands
    why,       \* the path a restoration belongs to
    snap,      \* the configuration the command read and compares with
    err,       \* disconnect: the restoration error it carries along
    host,      \* router host process of each generation
    stop,      \* a stop request waits in the control backlog of a generation
    guardian,  \* engine guardian process of each generation
    want,      \* history: the last value the user gave to each key
    lost       \* history: an edit fell between a comparison and its replace

cliVars  == <<pc, why, snap, err>>
procVars == <<host, stop, guardian>>
userVars == <<want, lost>>
vars == <<journal, config, pc, why, snap, err, host, stop, guardian, want, lost>>

Phases == {"prepared", "connected", "disconnecting", "restore_required", "disconnected"}
Tables == {"none", "exact", "touched", "edited"}
Paths  == {"none", "recover", "failed", "disconnect"}
Config == [key : [Keys -> UserVals \cup Gens], table : [Gens -> Tables]]

ConnectPCs == {"inspect", "fresh", "stage", "install_compare",
               "install_replace", "spawn", "await", "term_wait", "connect_save"}
RestorePCs == {"restore_read", "restore_compare", "restore_replace", "restored"}
DisconnectPCs == {"stop", "lease_wait", "disconnect_save"}
PCs == {"idle"} \cup ConnectPCs \cup RestorePCs \cup DisconnectPCs

HostStates == {"none", "spawned", "checked", "locked", "engine", "built",
               "binding", "bound", "serving", "draining", "exited"}
GuardianStates == {"none", "starting", "launched", "running", "stopping", "gone"}

TypeOK ==
    /\ journal \in [gen : 0 .. MaxGen, phase : Phases,
                    original : [Keys -> UserVals \cup Gens],
                    by : Paths]
    /\ config \in Config
    /\ pc \in PCs
    /\ why \in Paths
    /\ snap \in Config
    /\ err \in BOOLEAN
    /\ host \in [Gens -> HostStates]
    /\ stop \in [Gens -> BOOLEAN]
    /\ guardian \in [Gens -> GuardianStates]
    /\ want \in [Keys -> UserVals]
    /\ lost \in BOOLEAN

(***************************************************************************)
(* What a process can observe.                                             *)
(***************************************************************************)

\* The value a generation installs: the provider name is its own, the other
\* settings get a value the user may also choose.
Installed(k, g) == IF k = "provider" THEN g ELSE Pinned

EngineAlive(g)   == guardian[g] \in {"launched", "running", "stopping"}
GuardianAlive(g) == guardian[g] = "starting" \/ EngineAlive(g)

\* The kernel releases the runtime lease with the last descriptor of it: the
\* host's own, and the one its guardian inherits.
HostHolds(g) == host[g] \in {"locked", "engine", "built", "binding", "bound",
                             "serving", "draining"}

\* Mistake: the guardian does not inherit the descriptor.
HoldsLease_HostOnly(g) == HostHolds(g)
HoldsLease(g) == HostHolds(g) \/ GuardianAlive(g)
RuntimeActive == \E g \in Gens : HoldsLease(g)

\* The host's reading of the journal, repeated before and after each resource.
Wanted(g) == journal.gen = g /\ journal.phase \in {"prepared", "connected"}

\* _configuration_state = "installed".
ConfigInstalled(g) ==
    /\ \A k \in Keys : config.key[k] = Installed(k, g)
    /\ config.table[g] \in {"exact", "touched"}

\* _control(record, "status") may answer "ready" (it may also time out).
MayAnswerReady(g) ==
    /\ host[g] = "serving"
    /\ g \in ManagedGens => guardian[g] = "running"

\* A command that ends, or no longer needs what it read, forgets it.
NoSnap == [key |-> [k \in Keys |-> Pinned], table |-> [g \in Gens |-> "none"]]

Goto(label) ==
    /\ pc' = label
    /\ snap' = IF label \in {"install_compare", "install_replace", "stage",
                             "restore_compare", "restore_replace"} THEN snap ELSE NoSnap
    /\ err' = (label \in {"lease_wait", "disconnect_save"} /\ err)
    /\ why' = IF label \in RestorePCs THEN why ELSE "none"

Restore(path) ==
    /\ pc' = "restore_read" /\ why' = path
    /\ UNCHANGED <<snap, err>>

Init ==
    /\ want \in [Keys -> UserVals]
    /\ config = [key |-> want, table |-> [g \in Gens |-> "none"]]
    /\ journal = [gen |-> 0, phase |-> "disconnected", original |-> want, by |-> "none"]
    /\ pc = "idle" /\ why = "none" /\ snap = NoSnap /\ err = FALSE
    /\ host = [g \in Gens |-> "none"]
    /\ stop = [g \in Gens |-> FALSE]
    /\ guardian = [g \in Gens |-> "none"]
    /\ lost = FALSE

(***************************************************************************)
(* connect.  A journal in phase "connected" or "restore_required" makes    *)
(* the command return a status or an error and write nothing.              *)
(***************************************************************************)

ConnectBegin ==
    /\ pc = "idle"
    /\ \/ journal.phase \in {"prepared", "disconnecting"} /\ Goto("inspect")
       \/ journal.phase = "disconnected" /\ Goto("fresh")
    /\ UNCHANGED <<journal, config, procVars, userVars>>

\* An unfinished setup: adopt a router that serves it, leave a lease somebody
\* holds alone, and otherwise undo the setup.
Inspect ==
    /\ pc = "inspect"
    /\ \/ /\ journal.phase = "prepared"
          /\ ConfigInstalled(journal.gen)
          /\ MayAnswerReady(journal.gen)
          /\ Goto("connect_save")
       \/ RuntimeActive /\ Goto("idle")                     \* recovery_required
       \/ ~RuntimeActive /\ Restore("recover")
    /\ UNCHANGED <<journal, config, procVars, userVars>>

\* A new connection needs the lease free; any later refusal (ingress, identity,
\* model, engine files, endpoint, document shape) returns without a write.
Fresh ==
    /\ pc = "fresh"
    /\ \/ Goto("idle")
       \/ /\ ~RuntimeActive
          /\ journal.gen < MaxGen
          /\ pc' = "stage" /\ snap' = config
          /\ UNCHANGED <<why, err>>
    /\ UNCHANGED <<journal, config, procVars, userVars>>

\* secrets.token_hex gives a generation no earlier record has.
Stage ==
    /\ pc = "stage"
    /\ journal' = [gen |-> journal.gen + 1, phase |-> "prepared",
                   original |-> snap.key, by |-> "none"]
    /\ Goto("install_compare")
    /\ UNCHANGED <<config, procVars, userVars>>

\* _write(compare=True): the comparison and the replace are two system calls.
InstallCompare ==
    /\ pc = "install_compare"
    /\ Goto(IF config = snap THEN "install_replace" ELSE "idle")
    /\ UNCHANGED <<journal, config, procVars, userVars>>

InstallReplace ==
    /\ pc = "install_replace"
    /\ config' = [key |-> [k \in Keys |-> Installed(k, journal.gen)],
                  table |-> [snap.table EXCEPT ![journal.gen] = "exact"]]
    /\ Goto("spawn")
    /\ UNCHANGED <<journal, procVars, userVars>>

Spawn ==
    /\ pc = "spawn"
    /\ host' = [host EXCEPT ![journal.gen] = "spawned"]
    /\ Goto("await")
    /\ UNCHANGED <<journal, config, stop, guardian, userVars>>

AwaitReady ==
    /\ pc = "await"
    /\ MayAnswerReady(journal.gen)
    /\ Goto("connect_save")
    /\ UNCHANGED <<journal, config, procVars, userVars>>

ConnectSave ==
    /\ pc = "connect_save"
    /\ journal' = [journal EXCEPT !.phase = "connected"]
    /\ Goto("idle")
    /\ UNCHANGED <<config, procVars, userVars>>

\* The host died or the deadline passed: SIGTERM kills a host that has not yet
\* installed its handler and drains one that serves.
AwaitFailed ==
    /\ pc = "await"
    /\ host' = [host EXCEPT ![journal.gen] =
                   IF @ \in {"serving", "draining"} THEN "draining" ELSE "exited"]
    /\ Goto("term_wait")
    /\ UNCHANGED <<journal, config, stop, guardian, userVars>>

\* process.wait(timeout=5): its expiry leaves the setup prepared.
TermWait ==
    /\ pc = "term_wait"
    /\ \/ host[journal.gen] = "exited" /\ Restore("failed")
       \/ host[journal.gen] # "exited" /\ Goto("idle")
    /\ UNCHANGED <<journal, config, procVars, userVars>>

(***************************************************************************)
(* _restore, for its three callers.                                        *)
(***************************************************************************)

\* The document is unreadable, of an unsupported shape, or not the one that was
\* read.  Only disconnect carries the error on to process cleanup.
RestoreError ==
    IF why = "disconnect"
    THEN pc' = "stop" /\ err' = TRUE /\ why' = "none" /\ snap' = NoSnap
    ELSE Goto("idle")

RestoreRead ==
    /\ pc = "restore_read"
    /\ \/ RestoreError
       \/ pc' = "restore_compare" /\ snap' = config /\ UNCHANGED <<why, err>>
    /\ UNCHANGED <<journal, config, procVars, userVars>>

RestoreCompare ==
    /\ pc = "restore_compare"
    /\ IF config = snap THEN Goto("restore_replace") ELSE RestoreError
    /\ UNCHANGED <<journal, config, procVars, userVars>>

\* A key goes back to its original only while it still has the installed value;
\* a provider table is removed only while it is byte for byte ours.
RestoredKey_Backup(k) == journal.original[k]   \* Mistake: replays a backup.
RestoredKey(k) ==
    IF snap.key[k] = Installed(k, journal.gen) THEN journal.original[k] ELSE snap.key[k]

RestoredTable(g) ==
    IF g = journal.gen /\ snap.table[g] = "exact" THEN "none" ELSE snap.table[g]

RestoreReplace ==
    /\ pc = "restore_replace"
    /\ config' = [key |-> [k \in Keys |-> RestoredKey(k)],
                  table |-> [g \in Gens |-> RestoredTable(g)]]
    /\ Goto(IF why = "disconnect" THEN "stop" ELSE "restored")
    /\ UNCHANGED <<journal, procVars, userVars>>

\* connect records the undone setup, and a recovering connect goes on to set
\* up a new generation.
RestoredSave ==
    /\ pc = "restored"
    /\ journal' = [journal EXCEPT
                      !.phase = IF why = "failed" /\ RuntimeActive
                                THEN "disconnecting" ELSE "disconnected",
                      !.by = why]
    /\ Goto(IF why = "recover" THEN "fresh" ELSE "idle")
    /\ UNCHANGED <<config, procVars, userVars>>

(***************************************************************************)
(* disconnect.  A receipt of another generation is refused.                *)
(***************************************************************************)

DisconnectBegin(receipt) ==
    /\ pc = "idle"
    /\ receipt \in {0, journal.gen}     \* 0: no --generation was given
    /\ journal.phase # "disconnected"
    /\ journal' = [journal EXCEPT !.phase = "disconnecting", !.by = "none"]
    /\ Restore("disconnect")
    /\ UNCHANGED <<config, procVars, userVars>>

\* The request reaches a host whose control socket listens, also before that
\* host's loop accepts it.
SendStop ==
    /\ pc = "stop"
    /\ stop' = [stop EXCEPT ![journal.gen] = @ \/ host[journal.gen] \in {"bound", "serving"}]
    /\ Goto("lease_wait")
    /\ UNCHANGED <<journal, config, host, guardian, userVars>>

\* Mistake: waits for the router and not for its engine.
LeaseReleased_HostOnly ==
    /\ pc = "lease_wait"
    /\ ~\E g \in Gens : HostHolds(g)
    /\ Goto("disconnect_save")
    /\ UNCHANGED <<journal, config, procVars, userVars>>

LeaseReleased ==
    /\ pc = "lease_wait"
    /\ ~RuntimeActive
    /\ Goto("disconnect_save")
    /\ UNCHANGED <<journal, config, procVars, userVars>>

\* The journal keeps "disconnecting".
LeaseTimeout ==
    /\ pc = "lease_wait"
    /\ RuntimeActive
    /\ Goto("idle")
    /\ UNCHANGED <<journal, config, procVars, userVars>>

\* Mistake: forgets that the restoration failed.
DisconnectSave_NoError ==
    /\ pc = "disconnect_save"
    /\ journal' = [journal EXCEPT !.phase = "disconnected", !.by = "disconnect"]
    /\ Goto("idle")
    /\ UNCHANGED <<config, procVars, userVars>>

DisconnectSave ==
    /\ pc = "disconnect_save"
    /\ journal' = [journal EXCEPT !.phase = IF err THEN "restore_required" ELSE "disconnected",
                                  !.by = "disconnect"]
    /\ Goto("idle")
    /\ UNCHANGED <<config, procVars, userVars>>

\* The command is killed; the kernel frees its lock and nothing else changes.
CommandDies ==
    /\ pc # "idle"
    /\ Goto("idle")
    /\ UNCHANGED <<journal, config, procVars, userVars>>

(***************************************************************************)
(* The router host of generation g (connected_client_runtime.main).        *)
(***************************************************************************)

Becomes(g, to) ==
    /\ host' = [host EXCEPT ![g] = to]
    /\ stop' = [stop EXCEPT ![g] = @ /\ to \in {"bound", "serving"}]

Moves(g, from, to) == host[g] = from /\ Becomes(g, to)

\* A host that holds no engine closes its lock at once; one that does drains.
Quits(g) == IF g \in ManagedGens THEN "draining" ELSE "exited"

HostCheck(g) ==
    /\ Moves(g, "spawned", IF Wanted(g) THEN "checked" ELSE "exited")
    /\ UNCHANGED <<journal, config, cliVars, guardian, userVars>>

HostLock(g) ==
    /\ Moves(g, "checked", IF RuntimeActive THEN "exited" ELSE "locked")
    /\ UNCHANGED <<journal, config, cliVars, guardian, userVars>>

\* Mistake: trusts the journal it read before it had the lease.
HostRecheck_Trusting(g) ==
    /\ Moves(g, "locked", IF g \in ManagedGens THEN "engine" ELSE "built")
    /\ guardian' = IF g \in ManagedGens
                   THEN [guardian EXCEPT ![g] = "starting"] ELSE guardian
    /\ UNCHANGED <<journal, config, cliVars, userVars>>

\* Under the lease it reads the journal again, then starts the guardian.
HostRecheck(g) ==
    /\ Moves(g, "locked", IF ~Wanted(g) THEN "exited"
                           ELSE IF g \in ManagedGens THEN "engine" ELSE "built")
    /\ guardian' = IF Wanted(g) /\ g \in ManagedGens
                   THEN [guardian EXCEPT ![g] = "starting"] ELSE guardian
    /\ UNCHANGED <<journal, config, cliVars, userVars>>

HostEngine(g) ==
    /\ \/ guardian[g] = "running" /\ Moves(g, "engine", "built")
       \/ guardian[g] \in {"stopping", "gone"} /\ Moves(g, "engine", "draining")
    /\ UNCHANGED <<journal, config, cliVars, guardian, userVars>>

HostBuilt(g) ==
    /\ Moves(g, "built", IF Wanted(g) THEN "binding" ELSE Quits(g))
    /\ UNCHANGED <<journal, config, cliVars, guardian, userVars>>

HostBind(g) ==
    /\ Moves(g, "binding", "bound")
    /\ UNCHANGED <<journal, config, cliVars, guardian, userVars>>

\* Mistake: no reading after the control socket listens.
HostServe_NoReading(g) ==
    /\ Moves(g, "bound", "serving")
    /\ UNCHANGED <<journal, config, cliVars, guardian, userVars>>

\* The last reading, after the control socket listens.
HostServe(g) ==
    /\ Moves(g, "bound", IF Wanted(g) THEN "serving" ELSE "draining")
    /\ UNCHANGED <<journal, config, cliVars, guardian, userVars>>

HostDrain(g) ==
    /\ stop[g] \/ (g \in ManagedGens /\ guardian[g] = "gone")
    /\ Moves(g, "serving", "draining")
    /\ UNCHANGED <<journal, config, cliVars, guardian, userVars>>

\* The end of the finally block, or the five-second watchdog's os._exit.
HostExit(g) ==
    /\ Moves(g, "draining", "exited")
    /\ UNCHANGED <<journal, config, cliVars, guardian, userVars>>

HostDies(g) ==
    /\ host[g] \notin {"none", "exited"}
    /\ Becomes(g, "exited")
    /\ UNCHANGED <<journal, config, cliVars, guardian, userVars>>

(***************************************************************************)
(* The guardian of generation g (managed_llama._guardian).                 *)
(***************************************************************************)

OwnerLost(g) == host[g] \in {"draining", "exited"}   \* the pipe reads as closed

GuardianLaunch(g) ==
    /\ guardian[g] = "starting"
    /\ guardian' = [guardian EXCEPT ![g] = IF OwnerLost(g) THEN "gone" ELSE "launched"]
    /\ UNCHANGED <<journal, config, cliVars, host, stop, userVars>>

GuardianReady(g) ==
    /\ guardian[g] = "launched" /\ ~OwnerLost(g)
    /\ guardian' = [guardian EXCEPT ![g] = "running"]
    /\ UNCHANGED <<journal, config, cliVars, host, stop, userVars>>

\* Mistake: watches its owner only once the engine is ready.
GuardianOwnerLost_Late(g) ==
    /\ guardian[g] = "running" /\ OwnerLost(g)
    /\ guardian' = [guardian EXCEPT ![g] = "stopping"]
    /\ UNCHANGED <<journal, config, cliVars, host, stop, userVars>>

GuardianOwnerLost(g) ==
    /\ guardian[g] \in {"launched", "running"} /\ OwnerLost(g)
    /\ guardian' = [guardian EXCEPT ![g] = "stopping"]
    /\ UNCHANGED <<journal, config, cliVars, host, stop, userVars>>

\* Verification fails, the engine dies or never becomes healthy.
GuardianFails(g) ==
    /\ \/ guardian[g] = "starting" /\ guardian' = [guardian EXCEPT ![g] = "gone"]
       \/ guardian[g] \in {"launched", "running"} /\ guardian' = [guardian EXCEPT ![g] = "stopping"]
    /\ UNCHANGED <<journal, config, cliVars, host, stop, userVars>>

\* terminate, at most two seconds, kill; then the inherited lease is closed.
GuardianStops(g) ==
    /\ guardian[g] = "stopping"
    /\ guardian' = [guardian EXCEPT ![g] = "gone"]
    /\ UNCHANGED <<journal, config, cliVars, host, stop, userVars>>

(***************************************************************************)
(* The user.                                                               *)
(***************************************************************************)

Racing == pc \in {"install_replace", "restore_replace"}

UserSets(k, v) ==
    /\ config.key[k] # v
    /\ config' = [config EXCEPT !.key[k] = v]
    /\ want' = [want EXCEPT ![k] = v]
    /\ lost' = (lost \/ Racing)
    /\ UNCHANGED <<journal, cliVars, procVars>>

\* A table is reworded without a change of meaning, or edited (a table the user
\* removes is one more that no longer matches).
UserEditsTable(g, t) ==
    /\ config.table[g] = "exact"
    /\ config' = [config EXCEPT !.table[g] = t]
    /\ lost' = (lost \/ Racing)
    /\ UNCHANGED <<journal, cliVars, procVars, want>>

(***************************************************************************)
(* The specification.                                                      *)
(***************************************************************************)

Command ==
    \/ ConnectBegin \/ Inspect \/ Fresh \/ Stage
    \/ InstallCompare \/ InstallReplace \/ Spawn \/ AwaitReady \/ ConnectSave \/ AwaitFailed \/ TermWait
    \/ RestoreRead \/ RestoreCompare \/ RestoreReplace \/ RestoredSave
    \/ \E receipt \in 0 .. MaxGen : DisconnectBegin(receipt)
    \/ SendStop \/ LeaseReleased \/ LeaseTimeout \/ DisconnectSave
    \/ CommandDies

HostStep(g) ==
    \/ HostCheck(g) \/ HostLock(g) \/ HostRecheck(g) \/ HostEngine(g) \/ HostBuilt(g)
    \/ HostBind(g) \/ HostServe(g) \/ HostDrain(g) \/ HostExit(g)

GuardianStep(g) ==
    \/ GuardianLaunch(g) \/ GuardianReady(g) \/ GuardianOwnerLost(g) \/ GuardianStops(g)

User ==
    \/ \E k \in Keys, v \in UserVals : UserSets(k, v)
    \/ \E g \in Gens, t \in {"touched", "edited"} : UserEditsTable(g, t)

Next ==
    \/ Command
    \/ \E g \in Gens : HostStep(g) \/ HostDies(g) \/ GuardianStep(g) \/ GuardianFails(g)
    \/ User

Spec == Init /\ [][Next]_vars

\* Processes that are alive keep running; commands and users owe nothing.
ProcessFairness == \A g \in Gens : WF_vars(HostStep(g)) /\ WF_vars(GuardianStep(g))
FairSpec == Spec /\ ProcessFairness

(***************************************************************************)
(* What the lifetime promises.                                             *)
(***************************************************************************)

RuntimeAlive(g) == HostHolds(g) \/ EngineAlive(g)

\* Two generations never have a router or an engine alive at the same time,
\* because the lease outlives a lost host for as long as its guardian cleans up
\* (main takes the lease without waiting; OwnedLlama passes it on).
OneRuntime ==
    \A g, h \in Gens : RuntimeAlive(g) /\ RuntimeAlive(h) => g = h

\* A router that may serve is the one of the journal's generation: an older
\* generation never serves under a newer connection (main's three readings).
RouterIsCurrent ==
    \A g \in Gens : host[g] \in {"engine", "built", "binding", "bound", "serving"} => journal.gen = g

\* Once disconnect, or connect after a failed start, has recorded
\* "disconnected", no host of any generation gets past its journal check and no
\* engine is left.
CleanDisconnect ==
    journal.phase = "disconnected" /\ journal.by # "recover" =>
        \A g \in Gens : /\ host[g] \in {"none", "spawned", "checked", "locked", "exited"}
                        /\ guardian[g] \in {"none", "gone"}

\* Whatever was interrupted, a configuration recorded as disconnected carries no
\* provider name and no intact provider table of any generation (_restore).
NothingOwnedLeft ==
    journal.phase = "disconnected" =>
        /\ config.key["provider"] \in UserVals
        /\ \A g \in Gens : config.table[g] # "exact"

\* A disconnected configuration has the value the user last chose for each key,
\* unless that value is the very one a connection installs, or an edit fell
\* between a comparison and its replace (_restore compares values, not times).
UserChoiceKept ==
    journal.phase = "disconnected" /\ ~lost =>
        \A k \in Keys : config.key[k] = want[k] \/ want[k] = Installed(k, journal.gen)

\* One generation at a time runs on the device, and the router that serves is the
\* one the journal names (main's lease and its readings of the journal).
RuntimeIsSound == OneRuntime /\ RouterIsCurrent

\* A connection that disconnect, or connect after a failed start, records as
\* disconnected has left no process behind, and nothing of its own in the configuration.
DisconnectIsClean == CleanDisconnect /\ NothingOwnedLeft

\* When a disconnect has asked its host to stop, the lease of that generation
\* comes free: a host that was not listening yet finds the journal changed.
StopReleasesLease ==
    \A g \in Gens : (pc = "lease_wait" /\ journal.gen = g) ~> ~HoldsLease(g)

\* An engine never outlives its lost router for good.
EngineFollowsRouter ==
    \A g \in Gens : (host[g] = "exited" /\ GuardianAlive(g)) ~> ~GuardianAlive(g)

\* What has been asked to end, or has lost what it served, ends.
ProcessesEnd == StopReleasesLease /\ EngineFollowsRouter

(***************************************************************************)
(* What the documentation says and the code does not do.                   *)
(***************************************************************************)

\* docs/CONNECTED_CLIENT_LIFETIME.md: "`disconnected` means owned cleanup
\* completed" and "`stopped` requires completed owned cleanup".
DisconnectedMeansStopped ==
    journal.phase = "disconnected" /\ pc = "idle" => \A g \in Gens : host[g] # "serving"

==============================================================================
