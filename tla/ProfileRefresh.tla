---------------------------- MODULE ProfileRefresh ----------------------------
(***************************************************************************)
(* The snapshots of comparable work that routing reads                     *)
(* (hormuz/work_runtime.py 1208-1325): handler threads commit evidence and *)
(* then retire the snapshots it bears on, one background thread rebuilds   *)
(* them.  Each section under _profile_lock and each read of the ledger is  *)
(* one step.  refresh_benchmark, which nothing calls, is left out.         *)
(*                                                                         *)
(* A profile is known by how much evidence on its key it was computed from.*)
(***************************************************************************)
EXTENDS Naturals, SequencesExt, Subsequences

CONSTANTS
    Keys,        \* (organization, repository, task, protocol, shape)
    CohortOf,    \* the first three of these
    Committers,    \* threads that commit evidence
    MaxVersions, MaxProfiles, MaxPending,   \* 512, 128 and 128 in the code
    MaxEvidence, \* bound: evidence on a key
    MaxCounter,  \* bound: versions given out before routing asks for no more
    NoRefresh

ASSUME ProfileAssumption ==
    /\ IsFiniteSet(Keys) /\ NoRefresh \notin Keys
    /\ {MaxVersions, MaxProfiles, MaxPending} \subseteq Nat \ {0}
    /\ {MaxEvidence, MaxCounter} \subseteq Nat

VARIABLES
    keyEvidence,   \* what the ledger holds on a key
    counter,       \* _profile_version_counter
    versions,      \* _profile_versions: <<key, version>>, least recently used first
    profiles,      \* _profile_cache: <<key, evidence>>, least recently saved first
    pending,       \* _profile_pending, first come first
    worker,        \* _profile_worker is not None
    thread,        \* the worker: where it is, its key, version and profile
    refreshClosed, \* _closed
    committer,     \* a handler: where it is, what its commit bore on, what it queues
    announced      \* the evidence whose retirement is complete: for the keys it was
                   \* recorded on, and for every key it bore on

profileVars == <<keyEvidence, counter, versions, profiles, pending, worker, thread, refreshClosed,
                 committer, announced>>

KeyOf(pair) == pair[1]
KeysIn(pairs) == {KeyOf(pairs[i]) : i \in DOMAIN pairs}
Drop(pairs, keys) == SubsequenceAt(pairs, {i \in DOMAIN pairs : KeyOf(pairs[i]) \notin keys})
Newest(pairs, n) == IF Len(pairs) <= n THEN pairs
                    ELSE SubSeq(pairs, Len(pairs) - n + 1, Len(pairs))
ValueOf(pairs, k) == pairs[CHOOSE i \in DOMAIN pairs : KeyOf(pairs[i]) = k][2]

ProfileLevels == [Keys -> 0 .. MaxEvidence]
NoKeys == [k \in Keys |-> 0]
NoTask == [at |-> "none", key |-> NoRefresh, version |-> 0, profile |-> 0]
IdleCommitter == [at |-> "idle", on |-> {}, bore |-> {}, seen |-> NoKeys, todo |-> {}]

Pairs == Seq(Keys \X Nat)

ProfileTypeOK ==
    /\ keyEvidence \in ProfileLevels
    /\ counter \in Nat
    /\ versions \in Pairs /\ Len(versions) <= MaxVersions
    /\ profiles \in Pairs /\ Len(profiles) <= MaxProfiles
    /\ pending \in Seq(Keys) /\ IsInjective(pending) /\ Len(pending) <= MaxPending
    /\ worker \in BOOLEAN /\ refreshClosed \in BOOLEAN
    /\ thread \in [at : {"none", "loop", "read", "save", "requeue"},
                   key : Keys \cup {NoRefresh}, version : Nat, profile : Nat]
    /\ committer \in [Committers -> [at : {"idle", "retire", "queue"}, on : SUBSET Keys,
                                 bore : SUBSET Keys, seen : ProfileLevels, todo : SUBSET Keys]]
    /\ announced \in [own : ProfileLevels, all : ProfileLevels]

ProfileInit ==
    /\ keyEvidence = NoKeys
    /\ counter = 0
    /\ versions = <<>> /\ profiles = <<>> /\ pending = <<>>
    /\ worker = FALSE /\ refreshClosed = FALSE
    /\ thread = NoTask
    /\ committer = [h \in Committers |-> IdleCommitter]
    /\ announced = [own |-> NoKeys, all |-> NoKeys]

(***************************************************************************)
(* The helpers, under the lock.                                            *)
(***************************************************************************)

Version(k) == ValueOf(versions, k)

\* Mistake: a key that was forgotten starts again from one.
ProfileVersion_PerKey(k) ==
    LET known == k \in KeysIn(versions)
        v     == IF known THEN Version(k) ELSE 1
    IN  /\ counter' = counter
        /\ versions' = Newest(Append(Drop(versions, {k}), <<k, v>>), MaxVersions)

\* _profile_version: the key becomes the most recently used one; a key that was
\* forgotten gets a version no key ever had.
ProfileVersion(k) ==
    LET known == k \in KeysIn(versions)
        v     == IF known THEN Version(k) ELSE counter + 1
    IN  /\ counter' = IF known THEN counter ELSE counter + 1
        /\ versions' = Newest(Append(Drop(versions, {k}), <<k, v>>), MaxVersions)

\* _queue_profile_refresh: starts the worker if there is none.
Queue(k) ==
    IF refreshClosed \/ k \in Range(pending) \/ Len(pending) >= MaxPending
    THEN UNCHANGED <<counter, versions, pending, worker, thread>>
    ELSE /\ ProfileVersion(k)
         /\ pending' = Append(pending, k)
         /\ worker' = TRUE
         /\ thread' = IF worker THEN thread ELSE [NoTask EXCEPT !.at = "loop"]

Current(task) == ~refreshClosed /\ task.key \in KeysIn(versions) /\ Version(task.key) = task.version

\* Mistake: saves whatever was computed.
SaveProfiles_Always(task) ==
    profiles' = IF refreshClosed THEN profiles
             ELSE Newest(Append(Drop(profiles, {task.key}), <<task.key, task.profile>>), MaxProfiles)

\* _save_profiles: only if nothing gave the key a new version meanwhile.
SaveProfiles(task) ==
    profiles' = IF ~Current(task) THEN profiles
             ELSE Newest(Append(Drop(profiles, {task.key}), <<task.key, task.profile>>), MaxProfiles)

(***************************************************************************)
(* A handler that records evidence.                                        *)
(***************************************************************************)

\* observe, settle and their like commit.  The attempts they record have these
\* keys (on); the profile of any other key of the cohort may change as well.
Commit(h) ==
    /\ committer[h].at = "idle"
    /\ \E on \in SUBSET Keys \ {{}}, bore \in SUBSET Keys :
          /\ on \subseteq bore
          /\ \A k, l \in bore : CohortOf[k] = CohortOf[l]
          /\ \A k \in bore : keyEvidence[k] < MaxEvidence
          /\ keyEvidence' = [k \in Keys |-> IF k \in bore THEN keyEvidence[k] + 1 ELSE keyEvidence[k]]
          /\ committer' = [committer EXCEPT ![h] =
                [at |-> "retire", on |-> on, bore |-> bore, seen |-> keyEvidence', todo |-> {}]]
    /\ UNCHANGED <<counter, versions, profiles, pending, worker, thread, refreshClosed, announced>>

\* Every known key of the cohort and every recorded one gets a new version, in
\* an order the set chooses.
Reissue(keys, order) ==
    /\ counter' = counter + Len(order)
    /\ versions' = Newest(Drop(versions, keys)
                            \o [i \in DOMAIN order |-> <<order[i], counter + i>>], MaxVersions)

Announce(level, seen, keys) ==
    [k \in Keys |-> IF k \in keys /\ seen[k] > level[k] THEN seen[k] ELSE level[k]]

CohortKeys(on) == {k \in KeysIn(versions) : \E l \in on : CohortOf[k] = CohortOf[l]} \cup on

\* Mistake: drops the snapshots, and lets a rebuild that is under way save its own.
RetireCohort_KeepsVersions(h) ==
    /\ committer[h].at = "retire"
    /\ LET me == committer[h] keys == CohortKeys(committer[h].on)
       IN  /\ profiles' = Drop(profiles, keys)
           /\ committer' = [committer EXCEPT ![h] = [IdleCommitter EXCEPT !.at = "queue", !.todo = keys]]
           /\ announced' = [own |-> Announce(announced.own, me.seen, me.on),
                          all |-> Announce(announced.all, me.seen, me.bore)]
    /\ UNCHANGED <<keyEvidence, counter, versions, pending, worker, thread, refreshClosed>>

\* Mistake: leaves the other keys of the cohort alone.
RetireCohort_OwnKeys(h) ==
    /\ committer[h].at = "retire"
    /\ LET me == committer[h] keys == committer[h].on
       IN  /\ profiles' = Drop(profiles, keys)
           /\ \E order \in SetToSeqs(keys) : Reissue(keys, order)
           /\ committer' = [committer EXCEPT ![h] = [IdleCommitter EXCEPT !.at = "queue", !.todo = keys]]
           /\ announced' = [own |-> Announce(announced.own, me.seen, me.on),
                          all |-> Announce(announced.all, me.seen, me.bore)]
    /\ UNCHANGED <<keyEvidence, pending, worker, thread, refreshClosed>>

\* _invalidate_profiles, up to the release of the lock.
RetireCohort(h) ==
    /\ committer[h].at = "retire"
    /\ LET me == committer[h] keys == CohortKeys(committer[h].on)
       IN  /\ profiles' = Drop(profiles, keys)
           /\ \E order \in SetToSeqs(keys) : Reissue(keys, order)
           /\ committer' = [committer EXCEPT ![h] = [IdleCommitter EXCEPT !.at = "queue", !.todo = keys]]
           /\ announced' = [own |-> Announce(announced.own, me.seen, me.on),
                          all |-> Announce(announced.all, me.seen, me.bore)]
    /\ UNCHANGED <<keyEvidence, pending, worker, thread, refreshClosed>>

\* Its last loop, one key at a time.
QueueNext(h) ==
    /\ committer[h].at = "queue"
    /\ \E k \in committer[h].todo :
          /\ Queue(k)
          /\ committer' = [committer EXCEPT ![h] = IF @.todo = {k} THEN IdleCommitter
                                               ELSE [committer[h] EXCEPT !.todo = @ \ {k}]]
    /\ UNCHANGED <<keyEvidence, profiles, refreshClosed, announced>>

\* _snapshot_profiles finds no snapshot, or an old one.
Want(k) ==
    /\ counter < MaxCounter
    /\ Queue(k)
    /\ UNCHANGED <<keyEvidence, profiles, refreshClosed, committer, announced>>

(***************************************************************************)
(* The worker (_drain_profiles).                                           *)
(***************************************************************************)

\* Mistake: lets go of the lock between seeing no work and signing off.
Take_TwoSteps(k) ==
    \/ /\ thread.at = "loop"
       /\ ~refreshClosed /\ pending # <<>> /\ k = Head(pending)
       /\ pending' = Tail(pending)
       /\ ProfileVersion(k)
       /\ thread' = [at |-> "read", key |-> k, profile |-> 0,
                     version |-> ValueOf(versions', k)]
       /\ UNCHANGED <<keyEvidence, profiles, worker, refreshClosed, committer, announced>>
    \/ /\ thread.at = "loop" /\ (refreshClosed \/ pending = <<>>)
       /\ thread' = [NoTask EXCEPT !.at = "requeue"]
       /\ UNCHANGED <<keyEvidence, counter, versions, profiles, pending, worker, refreshClosed,
                      committer, announced>>
    \/ /\ thread.at = "requeue" /\ thread.key = NoRefresh
       /\ thread' = NoTask /\ worker' = FALSE
       /\ UNCHANGED <<keyEvidence, counter, versions, profiles, pending, refreshClosed,
                      committer, announced>>

\* Mistake: takes the key that was queued last.
Take_Newest(k) ==
    /\ thread.at = "loop"
    /\ ~refreshClosed /\ pending # <<>> /\ k = Last(pending)
    /\ pending' = Front(pending)
    /\ ProfileVersion(k)
    /\ thread' = [at |-> "read", key |-> k, profile |-> 0,
                  version |-> ValueOf(versions', k)]
    /\ UNCHANGED <<keyEvidence, profiles, worker, refreshClosed, committer, announced>>

\* The version is taken before the ledger is read.
Take(k) ==
    /\ thread.at = "loop"
    /\ ~refreshClosed /\ pending # <<>> /\ k = Head(pending)
    /\ pending' = Tail(pending)
    /\ ProfileVersion(k)
    /\ thread' = [at |-> "read", key |-> k, profile |-> 0,
                  version |-> ValueOf(versions', k)]
    /\ UNCHANGED <<keyEvidence, profiles, worker, refreshClosed, committer, announced>>

SignOff ==
    /\ thread.at = "loop"
    /\ refreshClosed \/ pending = <<>>
    /\ worker' = FALSE
    /\ thread' = NoTask
    /\ UNCHANGED <<keyEvidence, counter, versions, profiles, pending, refreshClosed, committer, announced>>

\* A read of the ledger that fails is given up, without a retry.
Read ==
    /\ thread.at = "read"
    /\ \/ thread' = [thread EXCEPT !.at = "save", !.profile = keyEvidence[thread.key]]
       \/ thread' = [NoTask EXCEPT !.at = "loop"]
    /\ UNCHANGED <<keyEvidence, counter, versions, profiles, pending, worker, refreshClosed,
                   committer, announced>>

Save ==
    /\ thread.at = "save"
    /\ SaveProfiles(thread)
    /\ thread' = IF Current(thread) THEN [NoTask EXCEPT !.at = "loop"]
                 ELSE [thread EXCEPT !.at = "requeue"]
    /\ UNCHANGED <<keyEvidence, counter, versions, pending, worker, refreshClosed, committer, announced>>

\* What was retired meanwhile is queued again; worker stays set meanwhile, so
\* no second thread starts.
Requeue ==
    /\ thread.at = "requeue" /\ thread.key # NoRefresh
    /\ IF refreshClosed \/ thread.key \in Range(pending) \/ Len(pending) >= MaxPending
       THEN UNCHANGED <<counter, versions, pending>>
       ELSE ProfileVersion(thread.key) /\ pending' = Append(pending, thread.key)
    /\ thread' = [NoTask EXCEPT !.at = "loop"]
    /\ UNCHANGED <<keyEvidence, profiles, worker, refreshClosed, committer, announced>>

\* close() empties the queue; the worker signs off by itself.
CloseRefresh ==
    /\ ~refreshClosed
    /\ refreshClosed' = TRUE
    /\ pending' = <<>>
    /\ UNCHANGED <<keyEvidence, counter, versions, profiles, worker, thread, committer, announced>>

ProfileNext ==
    \/ \E h \in Committers : Commit(h) \/ RetireCohort(h) \/ QueueNext(h)
    \/ \E k \in Keys : Want(k) \/ Take(k)
    \/ SignOff \/ Read \/ Save \/ Requeue
    \/ CloseRefresh

ProfileSpec == ProfileInit /\ [][ProfileNext]_profileVars

\* The worker is a thread of a live process: it is scheduled.
WorkerFairness == WF_profileVars(SignOff \/ Read \/ Save \/ Requeue \/ \E k \in Keys : Take(k))

ProfileLiveSpec == ProfileSpec /\ WorkerFairness

(***************************************************************************)
(* What a snapshot promises.                                               *)
(***************************************************************************)

\* Once the handler that recorded evidence has retired the snapshots of its own
\* keys, routing never reads a profile of these keys that lacks it, whatever the
\* worker had read before and however versions were forgotten meanwhile.
OwnEvidenceIsCurrent ==
    \A i \in DOMAIN profiles : profiles[i][2] >= announced.own[profiles[i][1]]

\* "Retire comparable snapshots before queuing committed new evidence": the same
\* of every key the evidence bore on.
SnapshotIsCurrent ==
    \A i \in DOMAIN profiles : profiles[i][2] >= announced.all[profiles[i][1]]

\* Every queued key is taken in its turn, however often routing asks for others.
QueuedIsTaken == \A k \in Keys : []<>(k \notin Range(pending))

\* Profiles are current, and every queued key is rebuilt in its turn.
RefreshIsSound == []SnapshotIsCurrent /\ QueuedIsTaken

===============================================================================
