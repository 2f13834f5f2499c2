-------------------------- MODULE GatewayPartsProofs --------------------------
(***************************************************************************)
(* Parts of the gateway that share no state: which provider account an     *)
(* attempt is charged to, the evidence of its usage, how current the       *)
(* profiles are that routing reads, the answers it keeps, the policies it  *)
(* applies, the life of its processes, the schema of its file and the      *)
(* benchmark of its models.                                                *)
(***************************************************************************)
EXTENDS FinanceAccounts, FinanceEvidence, ProfileRefresh, AnswerCache, PolicyDecisions, GatewayLifetime,
        SchemaUpgrade, ModelBenchmark, DataTheorems, SequenceTheorems, TLAPS

(***************************************************************************)
(* Finance accounts.                                                       *)
(***************************************************************************)

\* The versions of a binding count its registrations, so no two of them are the same.
Numbered(table) ==
    /\ IsFiniteSet(table)
    /\ \A row \in table : /\ row.version \in Nat
                          /\ row.version <= Cardinality(VersionsOf(table, row.org, row.id))
    /\ \A row, other \in table :
          row.org = other.org /\ row.id = other.id /\ row.version = other.version => row = other

LEMMA RegisteredIsNumbered ==
    ASSUME NEW table, Numbered(table), NEW new,
           new.version = NextVersion(table, new.org, new.id)
    PROVE  Numbered(table \cup {new})
<1> DEFINE all == table \cup {new}
<1>1. \A org, id : /\ IsFiniteSet(VersionsOf(table, org, id)) /\ IsFiniteSet(VersionsOf(all, org, id))
                   /\ Cardinality(VersionsOf(table, org, id)) \in Nat
                   /\ Cardinality(VersionsOf(all, org, id)) \in Nat
                   /\ Cardinality(VersionsOf(table, org, id)) <= Cardinality(VersionsOf(all, org, id))
  <2> TAKE org, id
  <2>1. IsFiniteSet(all)
    BY FS_AddElement DEF Numbered
  <2>2. VersionsOf(table, org, id) \subseteq VersionsOf(all, org, id) /\ VersionsOf(all, org, id) \subseteq all
    BY DEF VersionsOf
  <2> QED
    BY <2>1, <2>2, FS_Subset, FS_CardinalityType
<1>2. new \notin table
  BY <1>1 DEF Numbered, NextVersion
<1>3. Cardinality(VersionsOf(all, new.org, new.id)) = Cardinality(VersionsOf(table, new.org, new.id)) + 1
  <2>1. VersionsOf(all, new.org, new.id) = VersionsOf(table, new.org, new.id) \cup {new}
    BY DEF VersionsOf
  <2>2. new \notin VersionsOf(table, new.org, new.id)
    BY <1>2 DEF VersionsOf
  <2> QED
    BY <1>1, <2>1, <2>2, FS_AddElement
<1>4. \A row \in all : /\ row.version \in Nat
                       /\ row.version <= Cardinality(VersionsOf(all, row.org, row.id))
  BY <1>1, <1>3 DEF Numbered, NextVersion
<1>5. \A row \in table : row.org = new.org /\ row.id = new.id => row.version # new.version
  BY <1>1 DEF Numbered, NextVersion
<1>6. \A row, other \in all :
          row.org = other.org /\ row.id = other.id /\ row.version = other.version => row = other
  BY <1>5 DEF Numbered
<1> QED
  BY <1>1, <1>4, <1>6, FS_AddElement DEF Numbered

\* The latest version is one, and the last one.
LEMMA LatestIsLast ==
    ASSUME NEW table, Numbered(table), NEW org, NEW id, VersionsOf(table, org, id) # {}
    PROVE  /\ LatestOf(VersionsOf(table, org, id)) \in VersionsOf(table, org, id)
           /\ \A row \in VersionsOf(table, org, id) :
                 row.version <= LatestOf(VersionsOf(table, org, id)).version
<1> DEFINE every == VersionsOf(table, org, id)
           top   == Cardinality(every)
           back  == {top - row.version : row \in every}
<1>1. IsFiniteSet(every) /\ top \in Nat /\ \A row \in every : row.version \in Nat /\ row.version <= top
  BY FS_Subset, FS_CardinalityType DEF Numbered, VersionsOf
<1>2. back \in SUBSET Nat /\ back # {}
  BY <1>1
<1>3. PICK m \in back : \A k \in back : m <= k
  BY <1>2, LeastOfNaturals
<1>4. PICK row \in every : m = top - row.version
  BY <1>3
<1>5. ASSUME NEW other \in every
      PROVE  other.version <= row.version
  <2>1. m <= top - other.version
    BY <1>3
  <2> QED
    BY <1>1, <1>4, <2>1
<1> QED
  BY <1>4, <1>5 DEF LatestOf

\* An account is the last registration for the candidate, and so is its source.
IsLatest(org, candidate, account) ==
    /\ account \in accounts /\ account.org = org /\ account.state = "active"
    /\ \A row \in accounts : row.org = org /\ row.id = account.id => row.version <= account.version
    /\ account.upstream = candidate.upstream /\ account.transport = candidate.transport /\ account.inference = candidate.inference
    /\ \E source \in sources :
          /\ source.org = org /\ source.id = account.source
          /\ source.version = account.sourceVersion /\ source.state = "active"
          /\ \A row \in sources : row.org = org /\ row.id = source.id => row.version <= source.version

LEMMA BoundIsLatest ==
    ASSUME Numbered(accounts), Numbered(sources), NEW org, NEW candidate,
           Resolved(org, candidate).state = "bound"
    PROVE  /\ Resolved(org, candidate).candidate = candidate
           /\ IsLatest(org, candidate, Resolved(org, candidate).account)
<1> DEFINE registered == VersionsOf(accounts, org, candidate.id)
           exact      == {row \in registered : row.version = candidate.version}
           one        == CHOOSE row \in exact : TRUE
           account    == CHOOSE row \in registered : row.version = candidate.version
<1>1. /\ AccountReason(org, candidate) = "" /\ SourceReason(org, account) = ""
      /\ Resolved(org, candidate) = [state |-> "bound", account |-> account, candidate |-> candidate]
  BY DEF Resolved, Unbound
<1>2. /\ exact # {} /\ LatestOf(registered) = one /\ one.state = "active"
      /\ one.upstream = candidate.upstream /\ one.transport = candidate.transport /\ one.inference = candidate.inference
  BY <1>1 DEF AccountReason
<1>3. one \in exact /\ account \in exact
  BY <1>2
<1>4. account = one
  BY <1>3 DEF Numbered, VersionsOf
<1>5. account \in accounts /\ account.org = org /\ account.id = candidate.id
  BY <1>3 DEF VersionsOf
<1>6. \A row \in registered : row.version <= account.version
  BY <1>2, <1>3, <1>4, LatestIsLast
<1> DEFINE held  == VersionsOf(sources, org, account.source)
           right == {row \in held : row.version = account.sourceVersion}
           source == CHOOSE row \in right : TRUE
<1>7. right # {} /\ LatestOf(held) = source /\ source.state = "active"
  BY <1>1 DEF SourceReason
<1>8. source \in right
  BY <1>7
<1>9. \A row \in held : row.version <= source.version
  BY <1>7, <1>8, LatestIsLast
<1>10. /\ source \in sources /\ source.org = org /\ source.id = account.source
       /\ source.version = account.sourceVersion
  BY <1>8 DEF VersionsOf
<1>11. \A row \in accounts : row.org = org /\ row.id = account.id => row.version <= account.version
  BY <1>5, <1>6 DEF VersionsOf
<1>12. \A row \in sources : row.org = org /\ row.id = source.id => row.version <= source.version
  BY <1>9, <1>10 DEF VersionsOf
<1>13. IsLatest(org, candidate, account)
  BY <1>2, <1>4, <1>5, <1>7, <1>10, <1>11, <1>12 DEF IsLatest
<1> DEFINE bound == [state |-> "bound", account |-> account, candidate |-> candidate]
<1>14. Resolved(org, candidate) = bound
  BY <1>1
<1>15. bound.account = account /\ bound.candidate = candidate
  OBVIOUS
<1> HIDE DEF bound
<1> QED
  BY <1>13, <1>14, <1>15

AccountsInv ==
    /\ accountClock \in Nat
    /\ Numbered(accounts) /\ Numbered(sources)
    /\ \A row \in accounts \cup sources : row.at \in Nat /\ row.at < accountClock
    /\ sidecars = [attempt \in BoundAttempts |-> sidecars[attempt]]
    /\ \A attempt \in BoundAttempts : sidecars[attempt] # NoSidecar =>
          sidecars[attempt].at \in Nat /\ sidecars[attempt].at < accountClock
    /\ BoundWasCurrent

\* What a sidecar says.
WasCurrent(attempt) == sidecars[attempt].state = "bound" =>
    LET begun == sidecars[attempt]
        account == begun.sidecar.account
        candidate == begun.sidecar.candidate
        Before(table) == {row \in table : row.org = begun.org /\ row.at < begun.at}
    IN  /\ account \in Before(accounts) /\ account.state = "active"
        /\ \A row \in Before(accounts) : row.id = account.id => row.version <= account.version
        /\ account.upstream = candidate.upstream /\ account.transport = candidate.transport /\ account.inference = candidate.inference
        /\ \E source \in Before(sources) :
              /\ source.id = account.source /\ source.version = account.sourceVersion
              /\ source.state = "active"
              /\ \A row \in Before(sources) : row.id = source.id => row.version <= source.version

\* A registration comes after every attempt that has begun.
LEMMA RegistrationComesAfter ==
    ASSUME AccountsInv, accountClock' = accountClock + 1, UNCHANGED sidecars,
           NEW new, new.at = accountClock,
           \/ /\ accounts' = accounts \cup {new} /\ sources' = sources
              /\ Numbered(accounts \cup {new})
           \/ /\ sources' = sources \cup {new} /\ accounts' = accounts
              /\ Numbered(sources \cup {new})
    PROVE  AccountsInv'
<1> USE DEF AccountsInv
<1>1. /\ accountClock' \in Nat /\ Numbered(accounts)' /\ Numbered(sources)'
      /\ \A row \in accounts' \cup sources' : row.at \in Nat /\ row.at < accountClock'
  <2>1. Numbered(accounts') /\ Numbered(sources')
    OBVIOUS
  <2>2. Numbered(accounts)' /\ Numbered(sources)'
    BY <2>1 DEF Numbered, VersionsOf
  <2>3. \A row \in accounts' \cup sources' : row = new \/ row \in accounts \cup sources
    OBVIOUS
  <2> QED
    BY <2>2, <2>3
<1>2. \A attempt \in BoundAttempts : sidecars'[attempt] # NoSidecar =>
          sidecars'[attempt].at \in Nat /\ sidecars'[attempt].at < accountClock'
  OBVIOUS
<1>3. ASSUME NEW attempt \in BoundAttempts
      PROVE  WasCurrent(attempt)'
  <2>1. CASE sidecars[attempt].state # "bound"
    BY <2>1 DEF WasCurrent
  <2>2. CASE sidecars[attempt].state = "bound"
    <3> DEFINE begun == sidecars[attempt]
               Before(table) == {row \in table : row.org = begun.org /\ row.at < begun.at}
    <3>1. begun.at \in Nat /\ begun.at < accountClock
      BY <2>2 DEF NoSidecar
    <3>2. ~(new.at < begun.at)
      BY <3>1
    <3>3. Before(accounts') = Before(accounts) /\ Before(sources') = Before(sources)
      BY <3>2
    <3>4. WasCurrent(attempt)
      BY DEF BoundWasCurrent, WasCurrent
    <3> QED
      BY <3>3, <3>4 DEF WasCurrent
  <2> QED
    BY <2>1, <2>2
<1>4. BoundWasCurrent'
  BY <1>3 DEF BoundWasCurrent, WasCurrent
<1> QED
  BY <1>1, <1>2, <1>4

LEMMA AccountsStep == AccountsInv /\ [AccountsNext]_accountVars => AccountsInv'
<1> SUFFICES ASSUME AccountsInv, [AccountsNext]_accountVars
             PROVE  AccountsInv'
  OBVIOUS
<1>1. CASE UNCHANGED accountVars
  BY <1>1 DEF AccountsInv, accountVars, Numbered, VersionsOf, BoundWasCurrent
<1>2. ASSUME NEW org, NEW id, NEW state, NEW secret, RegisterSource(org, id, state, secret)
      PROVE  AccountsInv'
  <2> DEFINE new == [org |-> org, id |-> id, version |-> NextVersion(sources, org, id),
                     state |-> state, key |-> secret, at |-> accountClock]
  <2>1. /\ accountClock' = accountClock + 1 /\ UNCHANGED sidecars /\ new.at = accountClock
        /\ sources' = sources \cup {new} /\ accounts' = accounts
    BY <1>2 DEF RegisterSource, Tick
  <2>2. new.version = NextVersion(sources, new.org, new.id)
    OBVIOUS
  <2> HIDE DEF new
  <2>3. Numbered(sources \cup {new})
    BY <2>2, RegisteredIsNumbered DEF AccountsInv
  <2> QED
    BY <2>1, <2>3, RegistrationComesAfter
<1>3. ASSUME NEW org, NEW id, NEW state, NEW identity, NEW source,
             RegisterAccount(org, id, state, identity, source)
      PROVE  AccountsInv'
  <2> DEFINE new == [org |-> org, id |-> id, version |-> NextVersion(accounts, org, id),
                     state |-> state, upstream |-> identity.upstream,
                     upstreamVersion |-> identity.upstreamVersion,
                     transport |-> identity.transport, inference |-> identity.inference, source |-> source.id,
                     sourceVersion |-> source.version, key |-> source.key, at |-> accountClock]
  <2>1. /\ accountClock' = accountClock + 1 /\ UNCHANGED sidecars /\ new.at = accountClock
        /\ accounts' = accounts \cup {new} /\ sources' = sources
    BY <1>3 DEF RegisterAccount, Tick
  <2>2. new.version = NextVersion(accounts, new.org, new.id)
    OBVIOUS
  <2> HIDE DEF new
  <2>3. Numbered(accounts \cup {new})
    BY <2>2, RegisteredIsNumbered DEF AccountsInv
  <2> QED
    BY <2>1, <2>3, RegistrationComesAfter
<1>4. ASSUME NEW attempt \in BoundAttempts, NEW org, NEW identity, NEW firstParty,
             NEW configuration, BeginBoundAttempt(attempt, org, identity, firstParty, configuration)
      PROVE  AccountsInv'
  <2> DEFINE candidate == Selected(org, identity, firstParty, configuration)
             result    == Resolved(org, candidate)
             begun     == [org |-> org, at |-> accountClock, sidecar |-> result,
                           state |-> result.state]
  <2> HIDE DEF candidate
  <2>1. /\ accountClock' = accountClock + 1 /\ UNCHANGED <<accounts, sources>>
        /\ sidecars' = [sidecars EXCEPT ![attempt] = begun]
    BY <1>4 DEF BeginBoundAttempt, Tick, candidate
  <2>2. ASSUME NEW other \in BoundAttempts, other # attempt
        PROVE  WasCurrent(other)'
    <3>1. sidecars'[other] = sidecars[other]
      BY <2>1, <2>2 DEF AccountsInv
    <3>2. WasCurrent(other)
      BY DEF AccountsInv, BoundWasCurrent, WasCurrent
    <3> QED
      BY <2>1, <3>1, <3>2 DEF WasCurrent
  <2>3. sidecars'[attempt] = begun
    BY <2>1 DEF AccountsInv
  <2>4. WasCurrent(attempt)'
    <3>1. SUFFICES ASSUME result.state = "bound"
                   PROVE  WasCurrent(attempt)'
      BY <2>3 DEF WasCurrent
    <3>2. result.candidate = candidate /\ IsLatest(org, candidate, result.account)
      BY <3>1, BoundIsLatest DEF AccountsInv
    <3> HIDE DEF result
    <3>3. /\ sidecars'[attempt].org = org /\ sidecars'[attempt].at = accountClock
          /\ sidecars'[attempt].sidecar = result
      BY <2>3
    <3>4. \A row \in accounts \cup sources : row.at < accountClock
      BY DEF AccountsInv
    <3> QED
      BY <2>1, <3>2, <3>3, <3>4 DEF WasCurrent, IsLatest
  <2>5. BoundWasCurrent'
    BY <2>2, <2>4 DEF BoundWasCurrent, WasCurrent
  <2>6. \A other \in BoundAttempts : sidecars'[other] # NoSidecar =>
            sidecars'[other].at \in Nat /\ sidecars'[other].at < accountClock'
    BY <2>1 DEF AccountsInv
  <2>7. Numbered(accounts)' /\ Numbered(sources)'
    BY <2>1 DEF AccountsInv, Numbered, VersionsOf
  <2>8. /\ accountClock' \in Nat
        /\ \A row \in accounts' \cup sources' : row.at \in Nat /\ row.at < accountClock'
        /\ sidecars' = [other \in BoundAttempts |-> sidecars'[other]]
    BY <2>1 DEF AccountsInv
  <2> QED
    BY <2>5, <2>6, <2>7, <2>8 DEF AccountsInv
<1> QED
  BY <1>1, <1>2, <1>3, <1>4 DEF AccountsNext

\* Whatever is registered, and whenever: a bound attempt names the registration that was the last
\* one when it began, for its own upstream and credential.
THEOREM BoundWasCurrentHolds == AccountsSpec => []BoundWasCurrent
<1>1. AccountsInit => AccountsInv
  BY FS_EmptySet DEF AccountsInit, AccountsInv, Numbered, BoundWasCurrent, NoSidecar
<1>2. AccountsInv => BoundWasCurrent
  BY DEF AccountsInv
<1> QED
  BY <1>1, <1>2, AccountsStep, PTL DEF AccountsSpec

(***************************************************************************)
(* Profile snapshots: lists of pairs.                                      *)
(***************************************************************************)

LEMMA PairsHold ==
    ASSUME NEW pairs \in Pairs, NEW i \in DOMAIN pairs
    PROVE  /\ pairs[i] \in Keys \X Nat /\ pairs[i][1] \in Keys /\ pairs[i][2] \in Nat
           /\ pairs[i] = <<pairs[i][1], pairs[i][2]>>
<1>1. pairs[i] \in Keys \X Nat
  BY DEF Pairs
<1> QED
  BY <1>1

\* What is left of a list has none of the keys that were dropped.
LEMMA DropIs ==
    ASSUME NEW pairs \in Pairs, NEW keys
    PROVE  /\ Drop(pairs, keys) \in Pairs /\ Len(Drop(pairs, keys)) <= Len(pairs)
           /\ \A n \in DOMAIN Drop(pairs, keys) :
                 \E i \in DOMAIN pairs : Drop(pairs, keys)[n] = pairs[i] /\ pairs[i][1] \notin keys
<1> DEFINE places == {i \in DOMAIN pairs : KeyOf(pairs[i]) \notin keys}
<1>1. \A i \in places : i \in DOMAIN pairs /\ pairs[i][1] \notin keys
  BY DEF KeyOf
<1>2. places \in SUBSET DOMAIN pairs /\ pairs \in Seq(Keys \X Nat)
  BY DEF Pairs
<1>3. Drop(pairs, keys) = SubsequenceAt(pairs, places)
  BY DEF Drop
<1> HIDE DEF places
<1>4. /\ SubsequenceAt(pairs, places) \in Seq(Keys \X Nat)
      /\ Len(SubsequenceAt(pairs, places)) <= Len(pairs)
      /\ \A n \in DOMAIN SubsequenceAt(pairs, places) :
            \E i \in places : SubsequenceAt(pairs, places)[n] = pairs[i]
  BY <1>2, SubsequenceIs
<1> QED
  BY <1>1, <1>3, <1>4 DEF Pairs

\* The newest pairs are the last ones.
LEMMA NewestIs ==
    ASSUME NEW pairs \in Pairs, NEW n \in Nat \ {0}
    PROVE  /\ Newest(pairs, n) \in Pairs /\ Len(Newest(pairs, n)) <= n
           /\ \A m \in DOMAIN Newest(pairs, n) : \E i \in DOMAIN pairs : Newest(pairs, n)[m] = pairs[i]
           /\ Len(pairs) # 0 => \E m \in DOMAIN Newest(pairs, n) :
                                    Newest(pairs, n)[m] = pairs[Len(pairs)]
<1>1. pairs \in Seq(Keys \X Nat) /\ Len(pairs) \in Nat
  BY DEF Pairs
<1>2. CASE Len(pairs) <= n
  <2>1. Newest(pairs, n) = pairs
    BY <1>2 DEF Newest
  <2>2. Len(pairs) # 0 => Len(pairs) \in DOMAIN pairs
    BY <1>1
  <2> QED
    BY <1>1, <1>2, <2>1, <2>2
<1>3. CASE ~(Len(pairs) <= n)
  <2> DEFINE new == SubSeq(pairs, Len(pairs) - n + 1, Len(pairs))
  <2>1. Newest(pairs, n) = new
    BY <1>3 DEF Newest
  <2>2. /\ new \in Seq(Keys \X Nat) /\ Len(new) = n
        /\ \A m \in 1 .. n : new[m] = pairs[Len(pairs) - n + m] /\ Len(pairs) - n + m \in DOMAIN pairs
    BY <1>1, <1>3
  <2> HIDE DEF new
  <2>3. DOMAIN new = 1 .. n /\ n \in 1 .. n /\ new[n] = pairs[Len(pairs)]
    <3>1. DOMAIN new = 1 .. n /\ n \in 1 .. n
      BY <2>2
    <3>2. new[n] = pairs[Len(pairs) - n + n] /\ Len(pairs) - n + n = Len(pairs)
      BY <1>1, <2>2, <3>1
    <3> QED
      BY <3>1, <3>2
  <2>4. \A m \in DOMAIN new : \E i \in DOMAIN pairs : new[m] = pairs[i]
    BY <2>2, <2>3
  <2>5. \E m \in DOMAIN new : new[m] = pairs[Len(pairs)]
    BY <2>3
  <2>6. new \in Pairs /\ Len(new) <= n
    BY <2>2 DEF Pairs
  <2> QED
    BY <2>1, <2>4, <2>5, <2>6
<1> QED
  BY <1>2, <1>3

LEMMA ValueIs ==
    ASSUME NEW pairs \in Pairs, NEW k, k \in KeysIn(pairs)
    PROVE  k \in Keys /\ \E i \in DOMAIN pairs : pairs[i] = <<k, ValueOf(pairs, k)>> /\ ValueOf(pairs, k) \in Nat
<1> DEFINE i == CHOOSE i \in DOMAIN pairs : KeyOf(pairs[i]) = k
<1>1. i \in DOMAIN pairs /\ pairs[i][1] = k
  BY DEF KeysIn, KeyOf
<1>2. ValueOf(pairs, k) = pairs[i][2]
  BY DEF ValueOf
<1> HIDE DEF i
<1> QED
  BY <1>1, <1>2, PairsHold

(***************************************************************************)
(* Profile snapshots: versions.                                            *)
(***************************************************************************)

\* A list of pairs follows another when each of its pairs is an old one of another key, or has a
\* version nothing had before.
Follow(new, old, keys) ==
    \A n \in DOMAIN new :
       \/ \E i \in DOMAIN old : new[n] = old[i] /\ old[i][1] \notin keys
       \/ new[n][2] > counter /\ new[n][2] <= counter'

Versioned ==
    /\ counter \in Nat /\ versions \in Pairs /\ Len(versions) <= MaxVersions
    /\ \A i \in DOMAIN versions : versions[i][2] <= counter

\* A key becomes the most recently used one.
LEMMA ProfileVersionIs ==
    ASSUME Versioned, NEW k \in Keys, ProfileVersion(k)
    PROVE  /\ Versioned' /\ counter <= counter' /\ Follow(versions', versions, {})
           /\ k \in KeysIn(versions') /\ ValueOf(versions', k) \in 0 .. counter'
<1> DEFINE known == k \in KeysIn(versions)
           v     == IF known THEN Version(k) ELSE counter + 1
           kept  == Drop(versions, {k})
           all   == Append(kept, <<k, v>>)
<1>1. counter' = IF known THEN counter ELSE counter + 1
  BY DEF ProfileVersion
<1>2. versions' = Newest(all, MaxVersions)
  BY DEF ProfileVersion
<1>3. /\ v \in Nat /\ v <= counter'
      /\ known => \E i \in DOMAIN versions : versions[i] = <<k, v>>
      /\ ~known => v > counter
  <2>1. CASE known
    <3>1. PICK i \in DOMAIN versions : versions[i] = <<k, Version(k)>> /\ Version(k) \in Nat
      BY <2>1, ValueIs DEF Version, Versioned
    <3>2. Version(k) <= counter
      BY <3>1 DEF Versioned
    <3> QED
      BY <1>1, <2>1, <3>1, <3>2
  <2>2. CASE ~known
    BY <1>1, <2>2 DEF Versioned
  <2> QED
    BY <2>1, <2>2
<1>4. counter' \in Nat /\ counter <= counter'
  BY <1>1 DEF Versioned
<1> HIDE DEF v
<1>5. kept \in Pairs /\ \A n \in DOMAIN kept : \E i \in DOMAIN versions : kept[n] = versions[i]
  <2>1. versions \in Pairs
    BY DEF Versioned
  <2>2. /\ Drop(versions, {k}) \in Pairs
        /\ \A n \in DOMAIN Drop(versions, {k}) :
              \E i \in DOMAIN versions : Drop(versions, {k})[n] = versions[i]
                                        /\ versions[i][1] \notin {k}
    BY <2>1, DropIs
  <2> QED
    BY <2>2, Zenon
<1> HIDE DEF kept
<1>6. /\ all \in Pairs /\ Len(all) = Len(kept) + 1 /\ Len(kept) \in Nat /\ all[Len(all)] = <<k, v>>
      /\ \A n \in DOMAIN all : all[n] = <<k, v>> \/ \E i \in DOMAIN versions : all[n] = versions[i]
  BY <1>3, <1>5 DEF Pairs
<1> HIDE DEF all
<1>7. /\ versions' \in Pairs /\ Len(versions') <= MaxVersions
      /\ \A m \in DOMAIN versions' : \E i \in DOMAIN all : versions'[m] = all[i]
      /\ \E m \in DOMAIN versions' : versions'[m] = <<k, v>>
  <2>1. MaxVersions \in Nat \ {0} /\ Len(all) # 0
    BY <1>6, ProfileAssumption
  <2>2. /\ Newest(all, MaxVersions) \in Pairs /\ Len(Newest(all, MaxVersions)) <= MaxVersions
        /\ \A m \in DOMAIN Newest(all, MaxVersions) :
              \E i \in DOMAIN all : Newest(all, MaxVersions)[m] = all[i]
        /\ \E m \in DOMAIN Newest(all, MaxVersions) : Newest(all, MaxVersions)[m] = all[Len(all)]
    BY <1>6, <2>1, NewestIs
  <2> QED
    BY <1>2, <1>6, <2>2, Zenon
<1>8. \A n \in DOMAIN versions' : \/ \E i \in DOMAIN versions : versions'[n] = versions[i]
                                  \/ versions'[n] = <<k, v>> /\ v > counter
  BY <1>3, <1>6, <1>7
<1>9. Follow(versions', versions, {})
  BY <1>3, <1>8 DEF Follow
<1>10. \A n \in DOMAIN versions' : versions'[n][2] <= counter'
  <2>1. ASSUME NEW i \in DOMAIN versions
        PROVE  versions[i][2] <= counter'
    <3>1. versions[i][2] \in Nat /\ versions[i][2] <= counter /\ counter \in Nat
      BY PairsHold DEF Versioned
    <3> QED
      BY <1>4, <3>1
  <2> QED
    BY <1>3, <1>8, <2>1
<1>11. k \in KeysIn(versions')
  BY <1>7 DEF KeysIn, KeyOf
<1>12. ValueOf(versions', k) \in 0 .. counter'
  <2>1. PICK i \in DOMAIN versions' : versions'[i] = <<k, ValueOf(versions', k)>>
                                     /\ ValueOf(versions', k) \in Nat
    BY <1>7, <1>11, ValueIs
  <2>2. versions'[i][2] = ValueOf(versions', k)
    BY <2>1
  <2> QED
    BY <1>4, <1>10, <2>1, <2>2
<1> QED
  BY <1>4, <1>7, <1>9, <1>10, <1>11, <1>12 DEF Versioned

\* Every key gets a version of its own, which nothing had before.
LEMMA ReissueIs ==
    ASSUME Versioned, NEW keys \in SUBSET Keys, NEW order \in SetToSeqs(keys), Reissue(keys, order)
    PROVE  Versioned' /\ counter <= counter' /\ Follow(versions', versions, keys)
<1> DEFINE old == Drop(versions, keys)
           new == [i \in DOMAIN order |-> <<order[i], counter + i>>]
           all == old \o new
<1>1. PICK top \in Nat : order \in [1 .. top -> keys]
  <2>1. Cardinality(keys) \in Nat
    BY ProfileAssumption, FS_Subset, FS_CardinalityType
  <2> QED
    BY <2>1 DEF SetToSeqs
<1>2. order \in Seq(Keys) /\ Len(order) = top /\ DOMAIN order = 1 .. top
  BY <1>1
<1>3. /\ counter' = counter + top /\ counter' \in Nat /\ counter <= counter' /\ counter \in Nat
      /\ versions' = Newest(all, MaxVersions)
  BY <1>2 DEF Reissue, Versioned
<1>4. /\ new \in Pairs /\ Len(new) = top
      /\ \A i \in DOMAIN new : new[i][2] > counter /\ new[i][2] <= counter'
  BY <1>2, <1>3 DEF Pairs
<1> HIDE DEF new
<1>5. /\ old \in Pairs
      /\ \A n \in DOMAIN old : \E i \in DOMAIN versions : old[n] = versions[i] /\ versions[i][1] \notin keys
  <2>1. versions \in Pairs
    BY DEF Versioned
  <2> QED
    BY <2>1, DropIs
<1> HIDE DEF old
<1>6. all \in Pairs
  BY <1>4, <1>5 DEF Pairs
<1>7. \A n \in DOMAIN all : (\E i \in DOMAIN old : all[n] = old[i]) \/ \E i \in DOMAIN new : all[n] = new[i]
  <2>1. old \in Seq(Keys \X Nat) /\ new \in Seq(Keys \X Nat)
    BY <1>4, <1>5 DEF Pairs
  <2>2. TAKE n \in DOMAIN all
  <2>3. CASE n <= Len(old)
    <3>1. n \in DOMAIN old /\ all[n] = old[n]
      BY <2>1, <2>2, <2>3
    <3> QED
      BY <3>1
  <2>4. CASE n > Len(old)
    <3>1. n - Len(old) \in DOMAIN new /\ all[n] = new[n - Len(old)]
      BY <2>1, <2>2, <2>4
    <3> QED
      BY <3>1
  <2> QED
    BY <2>1, <2>2, <2>3, <2>4
<1> HIDE DEF all
<1>8. /\ versions' \in Pairs /\ Len(versions') <= MaxVersions
      /\ \A m \in DOMAIN versions' : \E n \in DOMAIN all : versions'[m] = all[n]
  <2>1. MaxVersions \in Nat \ {0}
    BY ProfileAssumption
  <2>2. /\ Newest(all, MaxVersions) \in Pairs /\ Len(Newest(all, MaxVersions)) <= MaxVersions
        /\ \A m \in DOMAIN Newest(all, MaxVersions) :
              \E n \in DOMAIN all : Newest(all, MaxVersions)[m] = all[n]
    BY <1>6, <2>1, NewestIs
  <2> QED
    BY <1>3, <2>2, Zenon
<1>9. \A m \in DOMAIN versions' :
         \/ \E i \in DOMAIN versions : versions'[m] = versions[i] /\ versions[i][1] \notin keys
         \/ versions'[m][2] > counter /\ versions'[m][2] <= counter'
  BY <1>4, <1>5, <1>7, <1>8
<1>10. Follow(versions', versions, keys)
  BY <1>9 DEF Follow
<1>11. \A m \in DOMAIN versions' : versions'[m][2] <= counter'
  <2>1. ASSUME NEW i \in DOMAIN versions
        PROVE  versions[i][2] <= counter'
    <3>1. versions[i][2] \in Nat /\ versions[i][2] <= counter
      BY PairsHold DEF Versioned
    <3> QED
      BY <1>3, <3>1
  <2> QED
    BY <1>9, <2>1
<1> QED
  BY <1>3, <1>8, <1>10, <1>11 DEF Versioned

(***************************************************************************)
(* Profile snapshots: what keeps a stale one out.                          *)
(***************************************************************************)

\* A rebuild that is to be saved lacks announced evidence only if its version is gone.
RebuildIsCurrent ==
    thread.at = "save" => \A i \in DOMAIN versions :
        versions[i] = <<thread.key, thread.version>> => announced.own[thread.key] <= thread.profile

RefreshInv ==
    /\ Versioned
    /\ profiles \in Pairs
    /\ keyEvidence \in [Keys -> Nat] /\ announced.own \in [Keys -> Nat]
    /\ committer \in [Committers -> [at : {"idle", "retire", "queue"}, on : SUBSET Keys,
                                     bore : SUBSET Keys, seen : [Keys -> Nat], todo : SUBSET Keys]]
    /\ thread \in [at : {"none", "loop", "read", "save", "requeue"},
                   key : Keys \cup {NoRefresh}, version : Nat, profile : Nat]
    /\ thread.at \in {"read", "save"} => thread.key \in Keys /\ thread.version <= counter
    /\ \A k \in Keys : announced.own[k] <= keyEvidence[k]
    /\ \A h \in Committers : committer[h].at = "retire" =>
          \A k \in Keys : committer[h].seen[k] <= keyEvidence[k]
    /\ RebuildIsCurrent
    /\ OwnEvidenceIsCurrent

\* New versions never make a rebuild current that was not.
LEMMA RebuildFollows ==
    ASSUME RefreshInv, Versioned', counter <= counter', thread' = thread,
           Follow(versions', versions, {}), announced' = announced
    PROVE  /\ RebuildIsCurrent'
           /\ thread'.at \in {"read", "save"} => thread'.key \in Keys /\ thread'.version <= counter'
<1>1. thread.at \in {"read", "save"} =>
         thread.key \in Keys /\ thread.version <= counter /\ thread.version <= counter'
  BY DEF RefreshInv, Versioned
<1>2. SUFFICES ASSUME thread.at = "save", NEW n \in DOMAIN versions',
                      versions'[n] = <<thread.key, thread.version>>
               PROVE  announced.own[thread.key] <= thread.profile
  BY <1>1 DEF RebuildIsCurrent
<1>3. versions'[n][2] = thread.version /\ thread.version <= counter /\ thread.version \in Nat /\ counter \in Nat
  BY <1>1, <1>2 DEF RefreshInv, Versioned
<1>4. PICK i \in DOMAIN versions : versions'[n] = versions[i]
  BY <1>3 DEF Follow
<1> QED
  BY <1>2, <1>4 DEF RefreshInv, RebuildIsCurrent

LEMMA QueueIs ==
    ASSUME RefreshInv, NEW k \in Keys, Queue(k), announced' = announced
    PROVE  /\ Versioned' /\ RebuildIsCurrent'
           /\ thread' \in [at : {"none", "loop", "read", "save", "requeue"},
                           key : Keys \cup {NoRefresh}, version : Nat, profile : Nat]
           /\ thread'.at \in {"read", "save"} => thread'.key \in Keys /\ thread'.version <= counter'
<1>1. CASE refreshClosed \/ k \in Range(pending) \/ Len(pending) >= MaxPending
  BY <1>1 DEF Queue, RefreshInv, Versioned, RebuildIsCurrent
<1>2. CASE ~(refreshClosed \/ k \in Range(pending) \/ Len(pending) >= MaxPending)
  <2>1. /\ ProfileVersion(k)
        /\ thread' = IF worker THEN thread ELSE [NoTask EXCEPT !.at = "loop"]
    BY <1>2 DEF Queue
  <2>2. Versioned' /\ counter <= counter' /\ Follow(versions', versions, {})
    BY <2>1, ProfileVersionIs DEF RefreshInv
  <2>3. CASE thread' = thread
    BY <2>2, <2>3, RebuildFollows DEF RefreshInv
  <2>4. CASE thread' = [NoTask EXCEPT !.at = "loop"]
    BY <2>2, <2>4 DEF NoTask, RebuildIsCurrent
  <2> QED
    BY <2>1, <2>3, <2>4
<1> QED
  BY <1>1, <1>2

\* Announcing raises no level but that of the keys announced, and none above what was seen.
LEMMA AnnounceIs ==
    ASSUME NEW level \in [Keys -> Nat], NEW seen \in [Keys -> Nat], NEW keys
    PROVE  /\ Announce(level, seen, keys) \in [Keys -> Nat]
           /\ \A k \in Keys : /\ Announce(level, seen, keys)[k] \in {level[k], seen[k]}
                              /\ k \notin keys => Announce(level, seen, keys)[k] = level[k]
  BY DEF Announce

LEMMA RetireCohortKeeps ==
    ASSUME RefreshInv, NEW h \in Committers, RetireCohort(h)
    PROVE  RefreshInv'
<1> DEFINE me   == committer[h]
           keys == CohortKeys(me.on)
           own  == Announce(announced.own, me.seen, me.on)
<1>1. /\ me.at = "retire" /\ me.on \in SUBSET Keys /\ me.seen \in [Keys -> Nat]
      /\ versions \in Pairs /\ profiles \in Pairs /\ counter \in Nat
      /\ announced.own \in [Keys -> Nat] /\ keyEvidence \in [Keys -> Nat]
  BY DEF RetireCohort, RefreshInv, Versioned
<1>2. keys \in SUBSET Keys /\ me.on \subseteq keys
  BY <1>1, ValueIs DEF CohortKeys
<1>3. /\ profiles' = Drop(profiles, keys) /\ announced'.own = own
      /\ committer' = [committer EXCEPT ![h] = [IdleCommitter EXCEPT !.at = "queue", !.todo = keys]]
      /\ keyEvidence' = keyEvidence /\ thread' = thread
  BY DEF RetireCohort
<1>4. PICK order \in SetToSeqs(keys) : Reissue(keys, order)
  BY DEF RetireCohort
<1>5. \A k \in Keys : me.seen[k] <= keyEvidence[k] /\ announced.own[k] <= keyEvidence[k]
  BY <1>1 DEF RefreshInv
<1>6. /\ own \in [Keys -> Nat]
      /\ \A k \in Keys : /\ own[k] \in {announced.own[k], me.seen[k]}
                         /\ k \notin keys => own[k] = announced.own[k]
  BY <1>1, <1>2, AnnounceIs
<1> HIDE DEF keys, own
<1>7. Versioned' /\ counter <= counter' /\ Follow(versions', versions, keys)
  BY <1>2, <1>4, ReissueIs DEF RefreshInv
<1>8. /\ Drop(profiles, keys) \in Pairs
      /\ \A n \in DOMAIN Drop(profiles, keys) :
            \E i \in DOMAIN profiles : Drop(profiles, keys)[n] = profiles[i] /\ profiles[i][1] \notin keys
  BY <1>1, DropIs
<1>9. OwnEvidenceIsCurrent'
  <2>1. ASSUME NEW i \in DOMAIN profiles, profiles[i][1] \notin keys
        PROVE  profiles[i][2] >= own[profiles[i][1]]
    <3>1. profiles[i][1] \in Keys /\ profiles[i][2] >= announced.own[profiles[i][1]]
      BY <1>1, PairsHold DEF RefreshInv, OwnEvidenceIsCurrent
    <3> QED
      BY <1>6, <2>1, <3>1
  <2> QED
    BY <1>3, <1>8, <2>1 DEF OwnEvidenceIsCurrent
<1>10. RebuildIsCurrent'
  <2>1. SUFFICES ASSUME thread.at = "save", NEW n \in DOMAIN versions',
                        versions'[n] = <<thread.key, thread.version>>
                 PROVE  own[thread.key] <= thread.profile
    BY <1>3 DEF RebuildIsCurrent
  <2>2. /\ versions'[n][2] = thread.version /\ versions'[n][1] = thread.key /\ thread.version \in Nat
        /\ thread.version <= counter /\ thread.key \in Keys
    BY <2>1 DEF RefreshInv
  <2>3. PICK i \in DOMAIN versions : versions'[n] = versions[i] /\ versions[i][1] \notin keys
    BY <1>1, <1>7, <2>2 DEF Follow
  <2>4. own[thread.key] = announced.own[thread.key]
    BY <1>6, <2>2, <2>3
  <2> QED
    BY <2>1, <2>3, <2>4 DEF RefreshInv, RebuildIsCurrent
<1>11. \A k \in Keys : own[k] <= keyEvidence[k]
  BY <1>5, <1>6
<1>12. /\ committer' \in [Committers -> [at : {"idle", "retire", "queue"}, on : SUBSET Keys,
                              bore : SUBSET Keys, seen : [Keys -> Nat], todo : SUBSET Keys]]
       /\ \A g \in Committers : committer'[g].at = "retire" =>
             \A k \in Keys : committer'[g].seen[k] <= keyEvidence[k]
  <2>1. [IdleCommitter EXCEPT !.at = "queue", !.todo = keys]
           \in [at : {"idle", "retire", "queue"}, on : SUBSET Keys,
                bore : SUBSET Keys, seen : [Keys -> Nat], todo : SUBSET Keys]
        /\ [IdleCommitter EXCEPT !.at = "queue", !.todo = keys].at # "retire"
    BY <1>2 DEF IdleCommitter, NoKeys
  <2> DEFINE queuing == [IdleCommitter EXCEPT !.at = "queue", !.todo = keys]
  <2> HIDE DEF queuing
  <2> QED
    BY <1>3, <2>1 DEF RefreshInv, queuing
<1>13. /\ thread'.at \in {"read", "save"} => thread'.key \in Keys /\ thread'.version <= counter'
       /\ thread' \in [at : {"none", "loop", "read", "save", "requeue"},
                       key : Keys \cup {NoRefresh}, version : Nat, profile : Nat]
  BY <1>1, <1>3, <1>7 DEF RefreshInv, Versioned
<1> QED
  BY <1>1, <1>3, <1>6, <1>7, <1>8, <1>9, <1>10, <1>11, <1>12, <1>13 DEF RefreshInv

LEMMA CommitKeeps ==
    ASSUME RefreshInv, NEW h \in Committers, Commit(h)
    PROVE  RefreshInv'
<1>1. PICK on \in SUBSET Keys \ {{}}, bore \in SUBSET Keys :
         /\ keyEvidence' = [k \in Keys |-> IF k \in bore THEN keyEvidence[k] + 1 ELSE keyEvidence[k]]
         /\ committer' = [committer EXCEPT ![h] =
               [at |-> "retire", on |-> on, bore |-> bore, seen |-> keyEvidence', todo |-> {}]]
  BY DEF Commit
<1>2. UNCHANGED <<counter, versions, profiles, thread, announced>>
  BY DEF Commit
<1>3. keyEvidence' \in [Keys -> Nat] /\ \A k \in Keys : keyEvidence[k] <= keyEvidence'[k]
  BY <1>1 DEF RefreshInv
<1>4. \A k \in Keys : announced.own[k] <= keyEvidence'[k]
  BY <1>3 DEF RefreshInv
<1>5. \A g \in Committers : committer'[g].at = "retire" =>
         \A k \in Keys : committer'[g].seen[k] <= keyEvidence'[k]
  <2>1. SUFFICES ASSUME NEW g \in Committers, committer'[g].at = "retire", NEW k \in Keys
                 PROVE  committer'[g].seen[k] <= keyEvidence'[k]
    OBVIOUS
  <2>2. CASE g = h
    BY <1>1, <1>3, <2>2 DEF RefreshInv
  <2>3. CASE g # h
    <3>1. committer'[g] = committer[g]
      BY <1>1, <2>3 DEF RefreshInv
    <3>2. committer[g].seen[k] <= keyEvidence[k] /\ committer[g].seen[k] \in Nat /\ keyEvidence[k] \in Nat
      BY <2>1, <3>1 DEF RefreshInv
    <3> QED
      BY <1>3, <3>1, <3>2
  <2> QED
    BY <2>2, <2>3
<1>6. committer' \in [Committers -> [at : {"idle", "retire", "queue"}, on : SUBSET Keys,
                             bore : SUBSET Keys, seen : [Keys -> Nat], todo : SUBSET Keys]]
  BY <1>1, <1>3 DEF RefreshInv
<1>7. RebuildIsCurrent' /\ OwnEvidenceIsCurrent' /\ Versioned'
  BY <1>2 DEF RefreshInv, RebuildIsCurrent, OwnEvidenceIsCurrent, Versioned
<1> QED
  BY <1>2, <1>3, <1>4, <1>5, <1>6, <1>7 DEF RefreshInv

LEMMA QueueNextKeeps ==
    ASSUME RefreshInv, NEW h \in Committers, QueueNext(h)
    PROVE  RefreshInv'
<1>1. PICK k \in committer[h].todo :
         /\ Queue(k)
         /\ committer' = [committer EXCEPT ![h] = IF @.todo = {k} THEN IdleCommitter
                                                  ELSE [committer[h] EXCEPT !.todo = @ \ {k}]]
  BY DEF QueueNext
<1>2. /\ k \in Keys
      /\ UNCHANGED <<keyEvidence, profiles, announced>> /\ committer[h].at = "queue"
  BY DEF QueueNext, RefreshInv
<1>3. OwnEvidenceIsCurrent'
  BY <1>2 DEF RefreshInv, OwnEvidenceIsCurrent
<1>4. /\ committer' \in [Committers -> [at : {"idle", "retire", "queue"}, on : SUBSET Keys,
                             bore : SUBSET Keys, seen : [Keys -> Nat], todo : SUBSET Keys]]
      /\ committer'[h].at # "retire"
      /\ \A g \in Committers \ {h} : committer'[g] = committer[g]
  <2> DEFINE me   == committer[h]
             left == IF me.todo = {k} THEN IdleCommitter ELSE [me EXCEPT !.todo = @ \ {k}]
  <2>1. committer' = [committer EXCEPT ![h] = left]
    BY <1>1
  <2>2. /\ left \in [at : {"idle", "retire", "queue"}, on : SUBSET Keys,
                     bore : SUBSET Keys, seen : [Keys -> Nat], todo : SUBSET Keys]
        /\ left.at # "retire"
    <3>1. me \in [at : {"idle", "retire", "queue"}, on : SUBSET Keys,
                  bore : SUBSET Keys, seen : [Keys -> Nat], todo : SUBSET Keys]
          /\ me.at = "queue"
      BY <1>2 DEF RefreshInv
    <3>2. CASE me.todo = {k}
      BY <3>2 DEF IdleCommitter, NoKeys
    <3>3. CASE me.todo # {k}
      BY <3>1, <3>3
    <3> QED
      BY <3>2, <3>3
  <2> HIDE DEF left
  <2> QED
    BY <2>1, <2>2 DEF RefreshInv
<1>5. \A g \in Committers : committer'[g].at = "retire" =>
         \A l \in Keys : committer'[g].seen[l] <= keyEvidence[l]
  BY <1>4 DEF RefreshInv
<1> QED
  BY <1>1, <1>2, <1>3, <1>4, <1>5, QueueIs DEF RefreshInv

LEMMA SaveKeeps ==
    ASSUME RefreshInv, Save
    PROVE  RefreshInv'
<1> DEFINE kept == Drop(profiles, {thread.key})
           all  == Append(kept, <<thread.key, thread.profile>>)
<1>1. /\ thread.at = "save" /\ thread.key \in Keys /\ thread.version \in Nat /\ thread.profile \in Nat
      /\ versions \in Pairs /\ profiles \in Pairs
  BY DEF RefreshInv, Save, Versioned
<1>2. profiles' \in Pairs /\ OwnEvidenceIsCurrent'
  <2>1. CASE ~Current(thread)
    BY <2>1 DEF Save, SaveProfiles, RefreshInv, OwnEvidenceIsCurrent
  <2>2. CASE Current(thread)
    <3>1. profiles' = Newest(all, MaxProfiles) /\ announced' = announced
      BY <2>2 DEF Save, SaveProfiles
    <3>2. announced.own[thread.key] <= thread.profile
      <4>1. thread.key \in KeysIn(versions) /\ ValueOf(versions, thread.key) = thread.version
        BY <2>2 DEF Current, Version
      <4>2. PICK i \in DOMAIN versions : versions[i] = <<thread.key, thread.version>>
        BY <1>1, <4>1, ValueIs
      <4> QED
        BY <1>1, <4>2 DEF RefreshInv, RebuildIsCurrent
    <3>3. /\ kept \in Pairs
          /\ \A n \in DOMAIN kept : \E i \in DOMAIN profiles : kept[n] = profiles[i]
      <4>1. /\ Drop(profiles, {thread.key}) \in Pairs
            /\ \A n \in DOMAIN Drop(profiles, {thread.key}) :
                  \E i \in DOMAIN profiles : Drop(profiles, {thread.key})[n] = profiles[i]
                                            /\ profiles[i][1] \notin {thread.key}
        BY <1>1, DropIs
      <4> QED
        BY <4>1, Zenon
    <3> HIDE DEF kept
    <3>4. /\ all \in Pairs
          /\ \A n \in DOMAIN all : all[n] = <<thread.key, thread.profile>>
                                   \/ \E i \in DOMAIN profiles : all[n] = profiles[i]
      BY <1>1, <3>3 DEF Pairs
    <3> HIDE DEF all
    <3>5. /\ Newest(all, MaxProfiles) \in Pairs
          /\ \A m \in DOMAIN Newest(all, MaxProfiles) :
                \E n \in DOMAIN all : Newest(all, MaxProfiles)[m] = all[n]
      <4>1. MaxProfiles \in Nat \ {0}
        BY ProfileAssumption
      <4> QED
        BY <3>4, <4>1, NewestIs
    <3>6. \A i \in DOMAIN profiles : profiles[i][2] >= announced.own[profiles[i][1]]
      BY DEF RefreshInv, OwnEvidenceIsCurrent
    <3>7. \A n \in DOMAIN all : all[n][2] >= announced.own[all[n][1]]
      <4>1. TAKE n \in DOMAIN all
      <4>2. CASE all[n] = <<thread.key, thread.profile>>
        <5>1. announced.own[thread.key] \in Nat
          BY <1>1 DEF RefreshInv
        <5> QED
          BY <1>1, <3>2, <4>2, <5>1
      <4>3. CASE \E i \in DOMAIN profiles : all[n] = profiles[i]
        BY <3>6, <4>3
      <4> QED
        BY <3>4, <4>2, <4>3
    <3> QED
      BY <3>1, <3>5, <3>7 DEF OwnEvidenceIsCurrent
  <2> QED
    BY <2>1, <2>2
<1>3. UNCHANGED <<keyEvidence, counter, versions, committer, announced>>
  BY DEF Save
<1>4. /\ thread' \in [at : {"none", "loop", "read", "save", "requeue"},
                      key : Keys \cup {NoRefresh}, version : Nat, profile : Nat]
      /\ thread'.at \in {"loop", "requeue"}
  BY <1>1 DEF RefreshInv, Save, NoTask
<1> QED
  BY <1>2, <1>3, <1>4 DEF RefreshInv, RebuildIsCurrent, Versioned

LEMMA RefreshStep == RefreshInv /\ [ProfileNext]_profileVars => RefreshInv'
<1> SUFFICES ASSUME RefreshInv, [ProfileNext]_profileVars
             PROVE  RefreshInv'
  OBVIOUS
<1>1. CASE UNCHANGED profileVars
  BY <1>1 DEF profileVars, RefreshInv, Versioned, RebuildIsCurrent, OwnEvidenceIsCurrent
<1>2. CASE \E h \in Committers : Commit(h) \/ RetireCohort(h) \/ QueueNext(h)
  BY <1>2, CommitKeeps, RetireCohortKeeps, QueueNextKeeps
<1>3. ASSUME NEW k \in Keys, Want(k)
      PROVE  RefreshInv'
  <2>1. Queue(k) /\ UNCHANGED <<keyEvidence, profiles, committer, announced>>
    BY <1>3 DEF Want
  <2> QED
    BY <2>1, QueueIs DEF RefreshInv, OwnEvidenceIsCurrent
<1>4. ASSUME NEW k \in Keys, Take(k)
      PROVE  RefreshInv'
  <2>1. /\ ProfileVersion(k)
        /\ UNCHANGED <<keyEvidence, profiles, committer, announced>>
        /\ thread' = [at |-> "read", key |-> k, profile |-> 0, version |-> ValueOf(versions', k)]
    BY <1>4 DEF Take
  <2>2. Versioned' /\ counter' \in Nat /\ ValueOf(versions', k) \in 0 .. counter'
    BY <2>1, ProfileVersionIs DEF RefreshInv, Versioned
  <2> QED
    BY <2>1, <2>2 DEF RefreshInv, RebuildIsCurrent, OwnEvidenceIsCurrent
<1>5. CASE SignOff
  BY <1>5 DEF SignOff, NoTask, RefreshInv, Versioned, RebuildIsCurrent, OwnEvidenceIsCurrent
<1>6. CASE Read
  <2>1. UNCHANGED <<keyEvidence, counter, versions, profiles, committer, announced>>
    BY <1>6 DEF Read
  <2>2. CASE thread' = [thread EXCEPT !.at = "save", !.profile = keyEvidence[thread.key]]
    <3>1. /\ thread.key \in Keys /\ thread.version <= counter
          /\ keyEvidence[thread.key] \in Nat /\ announced.own[thread.key] <= keyEvidence[thread.key]
      BY <1>6 DEF Read, RefreshInv
    <3>2. RebuildIsCurrent'
      BY <2>1, <2>2, <3>1 DEF RefreshInv, RebuildIsCurrent
    <3>3. thread' \in [at : {"none", "loop", "read", "save", "requeue"},
                       key : Keys \cup {NoRefresh}, version : Nat, profile : Nat]
          /\ thread'.key \in Keys /\ thread'.version <= counter
      BY <2>2, <3>1 DEF RefreshInv
    <3> QED
      BY <2>1, <3>2, <3>3 DEF RefreshInv, Versioned, OwnEvidenceIsCurrent
  <2>3. CASE thread' = [NoTask EXCEPT !.at = "loop"]
    BY <2>1, <2>3 DEF NoTask, RefreshInv, Versioned, RebuildIsCurrent, OwnEvidenceIsCurrent
  <2> QED
    BY <1>6, <2>2, <2>3 DEF Read
<1>7. CASE Save
  BY <1>7, SaveKeeps
<1>8. CASE Requeue
  <2>1. thread.key \in Keys
    BY <1>8 DEF Requeue, RefreshInv
  <2>2. Versioned'
    BY <1>8, <2>1, ProfileVersionIs DEF Requeue, RefreshInv, Versioned
  <2>3. /\ UNCHANGED <<keyEvidence, profiles, committer, announced>>
        /\ thread' = [NoTask EXCEPT !.at = "loop"]
    BY <1>8 DEF Requeue
  <2> QED
    BY <2>2, <2>3 DEF NoTask, RefreshInv, RebuildIsCurrent, OwnEvidenceIsCurrent
<1>9. CASE CloseRefresh
  BY <1>9 DEF CloseRefresh, RefreshInv, Versioned, RebuildIsCurrent, OwnEvidenceIsCurrent
<1> QED
  BY <1>1, <1>2, <1>3, <1>4, <1>5, <1>6, <1>7, <1>8, <1>9 DEF ProfileNext

\* Whatever the worker had read before, and however versions were forgotten: once the handler
\* that recorded evidence has retired the snapshots of its keys, no profile of them lacks it.
THEOREM OwnEvidenceIsCurrentHolds == ProfileSpec => []OwnEvidenceIsCurrent
<1>1. ProfileInit => RefreshInv
  BY ProfileAssumption DEF ProfileInit, RefreshInv, Versioned, RebuildIsCurrent, OwnEvidenceIsCurrent, NoKeys, NoTask,
         IdleCommitter, Pairs
<1>2. RefreshInv => OwnEvidenceIsCurrent
  BY DEF RefreshInv
<1> QED
  BY <1>1, <1>2, RefreshStep, PTL DEF ProfileSpec

(***************************************************************************)
(* Answer cache: the bytes of its entries.                                 *)
(***************************************************************************)

Weights(entries) == [i \in DOMAIN entries |-> SizeOf[entries[i].by]]

\* No two entries have a key in common.
Unique(entries) ==
    \A i, n \in DOMAIN entries :
        i # n => <<entries[i].job, entries[i].gen>> # <<entries[n].job, entries[n].gen>>

LEMMA EntryIs ==
    ASSUME NEW entries \in Seq(Entry), NEW i \in DOMAIN entries
    PROVE  /\ entries[i] \in Entry
           /\ entries[i].job \in Jobs /\ entries[i].gen \in 0 .. MaxGen /\ entries[i].by \in Requests
           /\ SizeOf[entries[i].by] \in 1 .. MaxBytes /\ SizeOf[entries[i].by] \in Nat
           /\ Weights(entries)[i] = SizeOf[entries[i].by] /\ Weights(entries)[i] \in Nat
<1>1. entries[i] \in Entry
  OBVIOUS
<1>2. entries[i].job \in Jobs /\ entries[i].gen \in 0 .. MaxGen /\ entries[i].by \in Requests
  BY <1>1 DEF Entry
<1>3. SizeOf[entries[i].by] \in 1 .. MaxBytes /\ MaxBytes \in Nat
  BY <1>2, CacheAssumption
<1> QED
  BY <1>1, <1>2, <1>3 DEF Weights

LEMMA PlacesAreFinite ==
    ASSUME NEW S, NEW s \in Seq(S), NEW I \in SUBSET DOMAIN s
    PROVE  IsFiniteSet(I)
<1>1. IsFiniteSet(DOMAIN s)
  BY FS_Interval
<1> QED
  BY <1>1, FS_Subset

LEMMA BytesIsNat ==
    ASSUME NEW entries \in Seq(Entry)
    PROVE  Bytes(entries) \in Nat /\ Bytes(entries) = SumFunctionOnSet(Weights(entries), DOMAIN entries)
<1>1. Bytes(entries) = SumFunctionOnSet(Weights(entries), DOMAIN entries)
  BY DEF Bytes, Weights
<1>2. \A i \in DOMAIN entries : Weights(entries)[i] \in Nat
  BY EntryIs
<1>3. IsFiniteSet(DOMAIN entries)
  BY PlacesAreFinite
<1> QED
  BY <1>1, <1>2, <1>3, SumIsNat

LEMMA BytesOfEmpty == Bytes(<<>>) = 0
<1>1. DOMAIN <<>> = {}
  OBVIOUS
<1> QED
  BY <1>1, SumEmpty DEF Bytes

\* What is left of a list: entries of it, with keys of their own and their own bytes.
LEMMA PartIs ==
    ASSUME NEW entries \in Seq(Entry), NEW I \in SUBSET DOMAIN entries
    PROVE  /\ SubsequenceAt(entries, I) \in Seq(Entry)
           /\ Len(SubsequenceAt(entries, I)) <= Len(entries)
           /\ \A n \in DOMAIN SubsequenceAt(entries, I) : \E i \in I : SubsequenceAt(entries, I)[n] = entries[i]
           /\ Unique(entries) => Unique(SubsequenceAt(entries, I))
           /\ Bytes(SubsequenceAt(entries, I)) = SumFunctionOnSet(Weights(entries), I)
<1> DEFINE part == SubsequenceAt(entries, I)
<1>1. /\ part \in Seq(Entry) /\ Len(part) <= Len(entries)
      /\ \A n \in DOMAIN part : PlaceOf(I, n) \in I /\ part[n] = entries[PlaceOf(I, n)]
      /\ \A n, m \in DOMAIN part : n # m => PlaceOf(I, n) # PlaceOf(I, m)
  <2>1. /\ part \in Seq(Entry) /\ Len(part) = Cardinality(I) /\ Cardinality(I) <= Len(entries)
        /\ \A n \in DOMAIN part : PlaceOf(I, n) \in I /\ part[n] = entries[PlaceOf(I, n)]
        /\ \A n, m \in DOMAIN part : n # m => PlaceOf(I, n) # PlaceOf(I, m)
    BY SubsequenceIs
  <2> QED
    BY <2>1
<1>2. \A i \in I : Weights(entries)[i] \in Nat
  BY EntryIs
<1>3. \A n \in DOMAIN part : Weights(part)[n] = Weights(entries)[PlaceOf(I, n)]
  <2>1. TAKE n \in DOMAIN part
  <2> HIDE DEF part
  <2>2. Weights(part)[n] = SizeOf[part[n].by]
    BY <1>1, <2>1, EntryIs
  <2>3. PlaceOf(I, n) \in DOMAIN entries /\ part[n] = entries[PlaceOf(I, n)]
    BY <1>1, <2>1
  <2>4. Weights(entries)[PlaceOf(I, n)] = SizeOf[entries[PlaceOf(I, n)].by]
    BY <2>3, EntryIs
  <2> QED
    BY <2>2, <2>3, <2>4
<1>4. SumFunctionOnSet(Weights(part), DOMAIN part) = SumFunctionOnSet(Weights(entries), I)
  BY <1>2, <1>3, SumOfSubsequence
<1> HIDE DEF part
<1>5. Bytes(part) = SumFunctionOnSet(Weights(entries), I)
  BY <1>1, <1>4, BytesIsNat
<1>6. Unique(entries) => Unique(part)
  <2>1. SUFFICES ASSUME Unique(entries), NEW i \in DOMAIN part, NEW n \in DOMAIN part, i # n
                 PROVE  <<part[i].job, part[i].gen>> # <<part[n].job, part[n].gen>>
    BY DEF Unique
  <2>2. /\ PlaceOf(I, i) \in DOMAIN entries /\ PlaceOf(I, n) \in DOMAIN entries
        /\ PlaceOf(I, i) # PlaceOf(I, n)
        /\ part[i] = entries[PlaceOf(I, i)] /\ part[n] = entries[PlaceOf(I, n)]
    BY <1>1, <2>1
  <2> QED
    BY <2>1, <2>2 DEF Unique
<1>7. \A n \in DOMAIN part : \E i \in I : part[n] = entries[i]
  BY <1>1
<1> QED
  BY <1>1, <1>5, <1>6, <1>7 DEF part

\* The bytes of a list are those of a part and those of the rest.
LEMMA BytesOfParts ==
    ASSUME NEW entries \in Seq(Entry), NEW I \in SUBSET DOMAIN entries
    PROVE  Bytes(entries) = Bytes(SubsequenceAt(entries, I))
                            + Bytes(SubsequenceAt(entries, DOMAIN entries \ I))
<1> DEFINE rest == DOMAIN entries \ I
<1>1. rest \in SUBSET DOMAIN entries /\ I \cap rest = {} /\ I \cup rest = DOMAIN entries
  OBVIOUS
<1>2. \A i \in I \cup rest : Weights(entries)[i] \in Nat
  BY EntryIs
<1> HIDE DEF rest
<1>3. IsFiniteSet(I) /\ IsFiniteSet(rest)
  BY <1>1, PlacesAreFinite
<1>4. SumFunctionOnSet(Weights(entries), I \cup rest)
         = SumFunctionOnSet(Weights(entries), I) + SumFunctionOnSet(Weights(entries), rest)
  BY <1>1, <1>2, <1>3, SumOfParts
<1>5. /\ Bytes(SubsequenceAt(entries, I)) = SumFunctionOnSet(Weights(entries), I)
      /\ Bytes(SubsequenceAt(entries, rest)) = SumFunctionOnSet(Weights(entries), rest)
  BY <1>1, PartIs
<1>6. Bytes(entries) = SumFunctionOnSet(Weights(entries), I \cup rest)
  BY <1>1, BytesIsNat
<1> QED
  BY <1>4, <1>5, <1>6 DEF rest

\* One entry that goes takes its own bytes.
LEMMA BytesWithoutOne ==
    ASSUME NEW entries \in Seq(Entry), NEW i \in DOMAIN entries
    PROVE  Bytes(entries) = SizeOf[entries[i].by] + Bytes(SubsequenceAt(entries, DOMAIN entries \ {i}))
<1> DEFINE rest == DOMAIN entries \ {i}
<1>1. \A n \in DOMAIN entries : Weights(entries)[n] \in Nat
  BY EntryIs
<1>2. IsFiniteSet(DOMAIN entries)
  BY PlacesAreFinite
<1>3. SumFunctionOnSet(Weights(entries), DOMAIN entries)
         = Weights(entries)[i] + SumFunctionOnSet(Weights(entries), rest)
  BY <1>1, <1>2, SumElement
<1>4. Bytes(SubsequenceAt(entries, rest)) = SumFunctionOnSet(Weights(entries), rest)
  BY PartIs
<1> HIDE DEF rest
<1>5. Bytes(entries) = SumFunctionOnSet(Weights(entries), DOMAIN entries)
      /\ Weights(entries)[i] = SizeOf[entries[i].by]
  BY BytesIsNat, EntryIs
<1> QED
  BY <1>3, <1>4, <1>5 DEF rest

LEMMA BytesOfAppend ==
    ASSUME NEW entries \in Seq(Entry), NEW e \in Entry
    PROVE  /\ Append(entries, e) \in Seq(Entry) /\ Len(Append(entries, e)) = Len(entries) + 1
           /\ \A n \in DOMAIN Append(entries, e) :
                 \/ n \in DOMAIN entries /\ Append(entries, e)[n] = entries[n]
                 \/ n = Len(entries) + 1 /\ Append(entries, e)[n] = e
           /\ Bytes(Append(entries, e)) = Bytes(entries) + SizeOf[e.by]
<1> DEFINE all == Append(entries, e)
           top == Len(entries) + 1
<1>1. /\ all \in Seq(Entry) /\ Len(all) = top /\ all[top] = e /\ Len(entries) \in Nat
      /\ DOMAIN all = DOMAIN entries \cup {top} /\ top \notin DOMAIN entries
      /\ \A n \in DOMAIN entries : all[n] = entries[n]
  OBVIOUS
<1> HIDE DEF all, top
<1>2. top \in DOMAIN all /\ DOMAIN entries \subseteq DOMAIN all
  BY <1>1
<1>3. \A n \in DOMAIN entries \cup {top} : Weights(all)[n] \in Nat
  BY <1>1, EntryIs
<1>4. IsFiniteSet(DOMAIN entries)
  BY PlacesAreFinite
<1>5. SumFunctionOnSet(Weights(all), DOMAIN entries \cup {top})
         = Weights(all)[top] + SumFunctionOnSet(Weights(all), DOMAIN entries)
  BY <1>1, <1>3, <1>4, SumAdded
<1>6. \A n \in DOMAIN entries : Weights(all)[n] = Weights(entries)[n]
  BY <1>1, <1>2 DEF Weights
<1>7. SumFunctionOnSet(Weights(all), DOMAIN entries) = SumFunctionOnSet(Weights(entries), DOMAIN entries)
  BY <1>4, <1>6, SumsAreEqual
<1>8. Weights(all)[top] = SizeOf[e.by] /\ SizeOf[e.by] \in Nat
  BY <1>1, <1>2, EntryIs
<1>9. Bytes(all) = SizeOf[e.by] + Bytes(entries) /\ Bytes(entries) \in Nat
  BY <1>1, <1>5, <1>7, <1>8, BytesIsNat
<1>10. Bytes(all) = Bytes(entries) + SizeOf[e.by]
  BY <1>8, <1>9
<1> QED
  BY <1>1, <1>10 DEF all, top

\* Making room keeps the newest entries, few and small enough for one more.
LEMMA RoomIs ==
    ASSUME NEW entries \in Seq(Entry), NEW r \in Requests
    PROVE  /\ Room(entries, r) \in Seq(Entry) /\ Len(Room(entries, r)) < MaxEntries
           /\ Bytes(Room(entries, r)) + SizeOf[r] <= MaxBytes
           /\ \A n \in DOMAIN Room(entries, r) : \E i \in DOMAIN entries : Room(entries, r)[n] = entries[i]
           /\ Unique(entries) => Unique(Room(entries, r))
<1> DEFINE rest(n) == SubSeq(entries, n + 1, Len(entries))
           fits    == {n \in 0 .. Len(entries) :
                          Len(rest(n)) < MaxEntries /\ Bytes(rest(n)) + SizeOf[r] <= MaxBytes}
           least   == Min(fits)
<1>1. Room(entries, r) = rest(least)
  BY DEF Room
<1>2. SizeOf[r] \in 1 .. MaxBytes /\ MaxEntries \in Nat \ {0} /\ MaxBytes \in Nat
  BY CacheAssumption
<1>3. Len(entries) \in fits
  <2>1. rest(Len(entries)) = <<>> /\ Len(entries) \in Nat
    OBVIOUS
  <2>2. Bytes(rest(Len(entries))) = 0 /\ Len(rest(Len(entries))) = 0
    BY <2>1, BytesOfEmpty
  <2> QED
    BY <1>2, <2>1, <2>2
<1>4. \E m \in fits : \A n \in fits : m <= n
  <2>1. fits \subseteq Nat /\ fits # {}
    BY <1>3
  <2> HIDE DEF fits
  <2> QED
    BY <2>1, LeastOfNaturals
<1>5. least \in fits
  <2> HIDE DEF fits
  <2> QED
    BY <1>4 DEF Min
<1>6. /\ least \in 0 .. Len(entries)
      /\ Len(rest(least)) < MaxEntries /\ Bytes(rest(least)) + SizeOf[r] <= MaxBytes
  BY <1>5
<1> HIDE DEF least
<1>7. /\ rest(least) \in Seq(Entry) /\ DOMAIN rest(least) = 1 .. Len(entries) - least
      /\ \A n \in DOMAIN rest(least) : n + least \in DOMAIN entries /\ rest(least)[n] = entries[n + least]
  BY <1>6
<1>8. Unique(entries) => Unique(rest(least))
  <2>1. SUFFICES ASSUME Unique(entries), NEW i \in DOMAIN rest(least), NEW n \in DOMAIN rest(least), i # n
                 PROVE  <<rest(least)[i].job, rest(least)[i].gen>> # <<rest(least)[n].job, rest(least)[n].gen>>
    BY DEF Unique
  <2>2. i + least # n + least
    BY <1>6, <1>7, <2>1
  <2>3. <<entries[i + least].job, entries[i + least].gen>> # <<entries[n + least].job, entries[n + least].gen>>
    BY <1>7, <2>1, <2>2 DEF Unique
  <2>4. rest(least)[i] = entries[i + least] /\ rest(least)[n] = entries[n + least]
    BY <1>7, <2>1
  <2> QED
    BY <2>3, <2>4
<1> HIDE DEF rest
<1>9. \A n \in DOMAIN rest(least) : \E i \in DOMAIN entries : rest(least)[n] = entries[i]
  BY <1>7
<1> QED
  BY <1>1, <1>6, <1>7, <1>8, <1>9

(***************************************************************************)
(* Answer cache: the invariant.                                            *)
(***************************************************************************)

\* The count is exact and bounded, and close() leaves nothing behind.
Filled ==
    /\ Unique(cache) /\ Len(cache) <= MaxEntries
    /\ size = Bytes(cache) /\ size <= MaxBytes
    /\ cleared => closed /\ cache = <<>>

\* An entry has the generation that its request was prepared in.
Sourced == \A i \in DOMAIN cache : pc[cache[i].by] # "new" /\ asked[cache[i].by] = cache[i].gen

\* So has a hit, and an answer that is being stored.
Hits == \A r \in Requests : pc[r] \in {"reserve", "served"} =>
            found[r] \in Requests /\ pc[found[r]] # "new" /\ asked[found[r]] = key[r]
Stored == \A r \in Requests : pc[r] = "store" => key[r] = asked[r]

CacheInv ==
    /\ CacheTypeOK
    /\ \A j \in Jobs : evictions[j] <= gen[j]
    /\ Filled /\ Sourced /\ Hits /\ Stored
    /\ RetiredAnswerIsNotKept

\* A request keeps the generation it was prepared in.
Steady == \A q \in Requests : pc[q] # "new" => pc'[q] # "new" /\ asked'[q] = asked[q]

\* A step of a handler that leaves the cache alone.
LEMMA HandlerStep ==
    ASSUME CacheInv, UNCHANGED <<gen, evictions, memory>>, Steady,
           \A q \in Requests : pc'[q] \in {"reserve", "served"} =>
               found'[q] \in Requests /\ pc[found'[q]] # "new" /\ asked[found'[q]] = key'[q],
           \A q \in Requests : pc'[q] = "store" => key'[q] = asked'[q]
    PROVE  Filled' /\ Sourced' /\ Hits' /\ Stored' /\ RetiredAnswerIsNotKept'
<1>1. cache' = cache /\ size' = size /\ closed' = closed /\ cleared' = cleared
  BY DEF memory
<1>2. Filled' /\ RetiredAnswerIsNotKept'
  BY <1>1 DEF CacheInv, Filled, Unique, Bytes, RetiredAnswerIsNotKept
<1>3. Sourced'
  <2>1. cache \in Seq(Entry)
    BY DEF CacheInv, CacheTypeOK
  <2>2. \A i \in DOMAIN cache : cache[i].by \in Requests
    BY <2>1, EntryIs
  <2> QED
    BY <1>1, <2>2 DEF CacheInv, Sourced, Steady
<1>4. Hits' /\ Stored'
  BY DEF Hits, Stored, Steady
<1> QED
  BY <1>2, <1>3, <1>4

\* A step that leaves a part of the cache: Sourced and the shape of the list.
LEMMA PartStep ==
    ASSUME CacheInv, Steady, NEW I \in SUBSET DOMAIN cache,
           NEW part, part = SubsequenceAt(cache, I)
    PROVE  /\ part \in Seq(Entry) /\ Unique(part) /\ Len(part) <= MaxEntries
           /\ Bytes(part) \in Nat /\ Bytes(part) <= MaxBytes
           /\ cleared => part = <<>>
           /\ \A n \in DOMAIN part : \E i \in I : part[n] = cache[i]
           /\ \A n \in DOMAIN part : pc'[part[n].by] # "new" /\ asked'[part[n].by] = part[n].gen
<1>1. cache \in Seq(Entry) /\ Unique(cache) /\ Len(cache) <= MaxEntries /\ size <= MaxBytes
      /\ size = Bytes(cache) /\ (cleared => cache = <<>>)
  BY DEF CacheInv, CacheTypeOK, Filled
<1>2. /\ part \in Seq(Entry) /\ Unique(part) /\ Len(part) <= Len(cache)
      /\ \A n \in DOMAIN part : \E i \in I : part[n] = cache[i]
  BY <1>1, PartIs
<1>3. Len(part) \in Nat /\ Len(part) <= MaxEntries /\ MaxEntries \in Nat /\ MaxBytes \in Nat
  BY <1>1, <1>2, CacheAssumption
<1>4. Bytes(part) \in Nat /\ Bytes(part) <= MaxBytes
  <2>1. Bytes(cache) = Bytes(part) + Bytes(SubsequenceAt(cache, DOMAIN cache \ I))
    BY <1>1, BytesOfParts
  <2>2. SubsequenceAt(cache, DOMAIN cache \ I) \in Seq(Entry)
    BY <1>1, PartIs
  <2>3. Bytes(part) \in Nat /\ Bytes(SubsequenceAt(cache, DOMAIN cache \ I)) \in Nat
    BY <1>2, <2>2, BytesIsNat
  <2>4. Bytes(cache) <= MaxBytes
    BY <1>1
  <2> QED
    BY <1>3, <2>1, <2>3, <2>4
<1>5. cleared => part = <<>>
  BY <1>1, <1>2
<1>6. \A n \in DOMAIN part : pc'[part[n].by] # "new" /\ asked'[part[n].by] = part[n].gen
  <2>1. TAKE n \in DOMAIN part
  <2>2. PICK i \in I : part[n] = cache[i]
    BY <1>2
  <2>3. cache[i].by \in Requests /\ pc[cache[i].by] # "new" /\ asked[cache[i].by] = cache[i].gen
    BY <1>1, EntryIs DEF CacheInv, Sourced
  <2> QED
    BY <2>2, <2>3 DEF Steady
<1> QED
  BY <1>2, <1>3, <1>4, <1>5, <1>6

LEMMA EvictWorkKeeps ==
    ASSUME CacheInv, NEW j \in Jobs, EvictWork(j)
    PROVE  CacheInv'
<1> DEFINE places == DOMAIN cache \ PlacesOf(j)
           part   == SubsequenceAt(cache, places)
<1>1. /\ evictions[j] > 0 /\ evictions' = [evictions EXCEPT ![j] = @ - 1]
      /\ cache' = part /\ size' = size - Bytes(SubsequenceAt(cache, PlacesOf(j)))
      /\ UNCHANGED <<gen, active, closed, cleared, handler>>
  BY DEF EvictWork
<1>2. UNCHANGED <<pc, asked, key, found>> /\ Steady
  BY <1>1 DEF handler, Steady
<1>3. places \in SUBSET DOMAIN cache /\ PlacesOf(j) \in SUBSET DOMAIN cache
      /\ cache \in Seq(Entry) /\ size = Bytes(cache)
      /\ \A i \in places : cache[i].job # j
  BY DEF PlacesOf, CacheInv, CacheTypeOK, Filled
<1> HIDE DEF places
<1>4. /\ part \in Seq(Entry) /\ Unique(part) /\ Len(part) <= MaxEntries
      /\ Bytes(part) \in Nat /\ Bytes(part) <= MaxBytes
      /\ cleared => part = <<>>
      /\ \A n \in DOMAIN part : \E i \in places : part[n] = cache[i]
      /\ \A n \in DOMAIN part : pc'[part[n].by] # "new" /\ asked'[part[n].by] = part[n].gen
  BY <1>2, <1>3, PartStep
<1>5. size' = Bytes(part)
  <2>1. Bytes(cache) = Bytes(SubsequenceAt(cache, PlacesOf(j))) + Bytes(part)
    BY <1>3, BytesOfParts DEF places
  <2>2. Bytes(SubsequenceAt(cache, PlacesOf(j))) \in Nat
    BY <1>3, PartIs, BytesIsNat
  <2> QED
    BY <1>1, <1>3, <1>4, <2>1, <2>2
<1> HIDE DEF part
<1>6. Filled' /\ Sourced'
  BY <1>1, <1>4, <1>5 DEF CacheInv, Filled, Sourced
<1>7. RetiredAnswerIsNotKept'
  <2>1. SUFFICES ASSUME NEW k \in Jobs, evictions'[k] = 0, NEW n \in DOMAIN part, part[n].job = k
                 PROVE  part[n].gen = gen[k]
    BY <1>1 DEF RetiredAnswerIsNotKept
  <2>2. PICK i \in places : part[n] = cache[i]
    BY <1>4
  <2>3. k # j
    BY <1>3, <2>1, <2>2
  <2>4. evictions[k] = 0
    BY <1>1, <2>1, <2>3 DEF CacheInv, CacheTypeOK
  <2> QED
    BY <1>3, <2>1, <2>2, <2>4 DEF CacheInv, RetiredAnswerIsNotKept
<1>8. Hits' /\ Stored'
  BY <1>2 DEF CacheInv, Hits, Stored
<1>9. CacheTypeOK' /\ \A k \in Jobs : evictions'[k] <= gen'[k]
  <2>1. /\ evictions \in [Jobs -> 0 .. MaxGen] /\ gen \in [Jobs -> 0 .. MaxGen]
        /\ \A k \in Jobs : evictions[k] <= gen[k]
    BY DEF CacheInv, CacheTypeOK
  <2>2. /\ evictions' \in [Jobs -> 0 .. MaxGen]
        /\ \A k \in Jobs : evictions'[k] <= gen[k]
    BY <1>1, <2>1, CacheAssumption
  <2> QED
    BY <1>1, <1>2, <1>4, <1>5, <2>2 DEF CacheInv, CacheTypeOK
<1> QED
  BY <1>6, <1>7, <1>8, <1>9 DEF CacheInv

LEMMA ExpireKeeps ==
    ASSUME CacheInv, NEW i, Expire(i)
    PROVE  CacheInv'
<1> DEFINE e == [cache[i] EXCEPT !.old = TRUE]
<1>1. /\ i \in DOMAIN cache /\ cache' = [cache EXCEPT ![i] = e]
      /\ UNCHANGED <<gen, active, evictions, size, closed, cleared, handler>>
      /\ cache \in Seq(Entry)
  BY DEF Expire, CacheInv, CacheTypeOK
<1>2. UNCHANGED <<pc, asked, key, found>>
  BY <1>1 DEF handler
<1>3. cache[i] \in Entry
  BY <1>1, EntryIs
<1>4. e \in Entry /\ e.job = cache[i].job /\ e.gen = cache[i].gen /\ e.by = cache[i].by
  BY <1>3 DEF Entry
<1> HIDE DEF e
<1>5. /\ cache' \in Seq(Entry) /\ Len(cache') = Len(cache) /\ DOMAIN cache' = DOMAIN cache
      /\ \A n \in DOMAIN cache : cache'[n].job = cache[n].job /\ cache'[n].gen = cache[n].gen
                                 /\ cache'[n].by = cache[n].by
  BY <1>1, <1>4
<1>6. Bytes(cache') = Bytes(cache)
  <2>1. \A n \in DOMAIN cache : Weights(cache')[n] = Weights(cache)[n]
    BY <1>5 DEF Weights
  <2>2. IsFiniteSet(DOMAIN cache)
    BY <1>1, PlacesAreFinite
  <2>3. SumFunctionOnSet(Weights(cache'), DOMAIN cache) = SumFunctionOnSet(Weights(cache), DOMAIN cache)
    BY <2>1, <2>2, SumsAreEqual
  <2>4. /\ Bytes(cache') = SumFunctionOnSet(Weights(cache'), DOMAIN cache')
        /\ Bytes(cache) = SumFunctionOnSet(Weights(cache), DOMAIN cache)
    BY <1>1, <1>5, BytesIsNat
  <2> QED
    BY <1>5, <2>3, <2>4
<1>7. ~cleared
  BY <1>1 DEF CacheInv, Filled
<1>8. Unique(cache')
  BY <1>5 DEF CacheInv, Filled, Unique
<1>9. Filled'
  BY <1>1, <1>5, <1>6, <1>7, <1>8 DEF CacheInv, Filled
<1>10. Sourced' /\ RetiredAnswerIsNotKept'
  BY <1>1, <1>2, <1>5 DEF CacheInv, Sourced, RetiredAnswerIsNotKept
<1>11. Hits' /\ Stored'
  BY <1>2 DEF CacheInv, Hits, Stored
<1> QED
  BY <1>1, <1>2, <1>5, <1>9, <1>10, <1>11 DEF CacheInv, CacheTypeOK

LEMMA GetKeeps ==
    ASSUME CacheInv, NEW r \in Requests, Get(r)
    PROVE  CacheInv'
<1>1. /\ pc[r] = "get" /\ UNCHANGED <<gen, active, evictions, closed, cleared, asked, key>>
      /\ cache \in Seq(Entry) /\ pc \in [Requests -> PCs] /\ found \in [Requests -> Requests \cup {None}]
      /\ size = Bytes(cache)
  BY DEF Get, CacheInv, CacheTypeOK, Filled
<1>2. CASE /\ Goto(r, "provider") /\ UNCHANGED <<cache, size, found>>
  <2>1. pc' = [pc EXCEPT ![r] = "provider"]
    BY <1>2 DEF Goto
  <2>2. Steady
    BY <1>1, <2>1 DEF Steady
  <2>3. /\ \A q \in Requests : pc'[q] \in {"reserve", "served"} =>
               found'[q] \in Requests /\ pc[found'[q]] # "new" /\ asked[found'[q]] = key'[q]
        /\ \A q \in Requests : pc'[q] = "store" => key'[q] = asked'[q]
    BY <1>1, <1>2, <2>1 DEF CacheInv, Hits, Stored
  <2>4. UNCHANGED <<gen, evictions, memory>>
    BY <1>1, <1>2 DEF memory
  <2>5. Filled' /\ Sourced' /\ Hits' /\ Stored' /\ RetiredAnswerIsNotKept'
    BY <2>2, <2>3, <2>4, HandlerStep
  <2>6. CacheTypeOK'
    BY <1>1, <1>2, <2>1 DEF CacheInv, CacheTypeOK, PCs
  <2> QED
    BY <1>1, <2>5, <2>6 DEF CacheInv
<1>3. ASSUME NEW i \in DOMAIN cache, Match(cache[i], r),
             \/ /\ cache' = Without(r) /\ size' = size - SizeOf[cache[i].by]
                /\ Goto(r, "provider") /\ UNCHANGED found
             \/ /\ cache' = Append(Without(r), cache[i]) /\ UNCHANGED size
                /\ found' = [found EXCEPT ![r] = cache[i].by] /\ Goto(r, "reserve")
      PROVE  CacheInv'
  <2> DEFINE places == DOMAIN cache \ {i}
             part   == SubsequenceAt(cache, places)
             e      == cache[i]
  <2>1. /\ e \in Entry /\ e.by \in Requests /\ SizeOf[e.by] \in Nat
        /\ pc[e.by] # "new" /\ asked[e.by] = e.gen /\ e.gen = key[r] /\ e.job = JobOf[r]
    <3>1. e \in Entry /\ e.by \in Requests /\ SizeOf[e.by] \in Nat
      BY <1>1, <1>3, EntryIs
    <3> QED
      BY <1>3, <3>1 DEF CacheInv, Sourced, Match
  <2>2. Without(r) = part
    <3>1. \A n \in DOMAIN cache : n # i => <<cache[i].job, cache[i].gen>> # <<cache[n].job, cache[n].gen>>
      BY <1>3 DEF CacheInv, Filled, Unique
    <3>2. {n \in DOMAIN cache : ~Match(cache[n], r)} = places
      BY <1>3, <3>1 DEF Match
    <3> QED
      BY <3>2 DEF Without
  <2>3. pc' \in {[pc EXCEPT ![r] = "provider"], [pc EXCEPT ![r] = "reserve"]}
    BY <1>3 DEF Goto
  <2>4. Steady
    BY <1>1, <2>3 DEF Steady
  <2>5. places \in SUBSET DOMAIN cache
    OBVIOUS
  <2>6. Bytes(cache) = SizeOf[e.by] + Bytes(part)
    BY <1>1, <1>3, BytesWithoutOne
  <2> HIDE DEF places
  <2>7. /\ part \in Seq(Entry) /\ Unique(part) /\ Len(part) <= MaxEntries
        /\ Bytes(part) \in Nat /\ Bytes(part) <= MaxBytes
        /\ cleared => part = <<>>
        /\ \A n \in DOMAIN part : \E k \in places : part[n] = cache[k]
        /\ \A n \in DOMAIN part : pc'[part[n].by] # "new" /\ asked'[part[n].by] = part[n].gen
    BY <2>4, <2>5, PartStep
  <2>8. Len(part) + 1 <= MaxEntries
    <3>1. Len(part) = Cardinality(places)
      BY <1>1, <2>5, SubsequenceIs
    <3>2. Cardinality(places) = Cardinality(DOMAIN cache) - 1
      BY <1>1, <1>3, PlacesAreFinite, FS_RemoveElement DEF places
    <3>3. Cardinality(DOMAIN cache) = Len(cache)
      BY <1>1, FS_Interval
    <3>4. Len(cache) <= MaxEntries /\ MaxEntries \in Nat /\ Len(cache) \in Nat
      BY <1>1, CacheAssumption DEF CacheInv, Filled
    <3> QED
      BY <3>1, <3>2, <3>3, <3>4
  <2>9. ~cleared
    BY <1>3 DEF CacheInv, Filled
  <2>10. /\ \A n \in DOMAIN part : \A j \in Jobs : evictions[j] = 0 => (part[n].job = j => part[n].gen = gen[j])
         /\ \A j \in Jobs : evictions[j] = 0 => (e.job = j => e.gen = gen[j])
    BY <1>3, <2>5, <2>7 DEF CacheInv, RetiredAnswerIsNotKept
  <2>11. \A n \in DOMAIN part : <<part[n].job, part[n].gen>> # <<e.job, e.gen>>
    <3>1. \A k \in places : <<cache[k].job, cache[k].gen>> # <<e.job, e.gen>>
      BY <1>3 DEF CacheInv, Filled, Unique, places
    <3> QED
      BY <2>7, <3>1
  <2> HIDE DEF part
  <2>12. CASE /\ cache' = Without(r) /\ size' = size - SizeOf[cache[i].by]
              /\ Goto(r, "provider") /\ UNCHANGED found
    <3>1. cache' = part /\ size' = Bytes(part) /\ found' = found /\ pc' = [pc EXCEPT ![r] = "provider"]
      BY <1>1, <2>1, <2>2, <2>6, <2>7, <2>12 DEF Goto
    <3>2. Filled' /\ Sourced' /\ RetiredAnswerIsNotKept'
      BY <1>1, <2>7, <2>9, <2>10, <3>1 DEF Filled, Sourced, RetiredAnswerIsNotKept
    <3>3. Hits' /\ Stored'
      <4>1. \A q \in Requests : pc'[q] \in {"reserve", "served", "store"} => pc[q] = pc'[q]
        BY <1>1, <3>1
      <4> QED
        BY <1>1, <2>4, <3>1, <4>1 DEF CacheInv, Hits, Stored, Steady
    <3>4. CacheTypeOK'
      BY <1>1, <2>7, <3>1 DEF CacheInv, CacheTypeOK, PCs
    <3> QED
      BY <1>1, <3>2, <3>3, <3>4 DEF CacheInv
  <2>13. CASE /\ cache' = Append(Without(r), cache[i]) /\ UNCHANGED size
              /\ found' = [found EXCEPT ![r] = cache[i].by] /\ Goto(r, "reserve")
    <3> HIDE DEF e
    <3>1. cache' = Append(part, e) /\ size' = size /\ found' = [found EXCEPT ![r] = e.by]
          /\ pc' = [pc EXCEPT ![r] = "reserve"]
      BY <2>2, <2>13 DEF Goto, e
    <3>2. /\ Append(part, e) \in Seq(Entry) /\ Len(Append(part, e)) = Len(part) + 1
          /\ \A n \in DOMAIN Append(part, e) :
                \/ n \in DOMAIN part /\ Append(part, e)[n] = part[n]
                \/ n = Len(part) + 1 /\ Append(part, e)[n] = e
          /\ Bytes(Append(part, e)) = Bytes(part) + SizeOf[e.by]
      BY <2>1, <2>7, BytesOfAppend
    <3>3. Bytes(cache') = size
      BY <1>1, <2>1, <2>6, <2>7, <3>1, <3>2
    <3>4. Unique(cache')
      BY <2>7, <2>11, <3>1, <3>2 DEF Unique
    <3>5. Filled'
      BY <1>1, <2>8, <2>9, <3>1, <3>2, <3>3, <3>4 DEF CacheInv, Filled
    <3>6. pc'[e.by] # "new" /\ asked'[e.by] = e.gen
      BY <2>1, <2>4 DEF Steady
    <3>7. Sourced' /\ RetiredAnswerIsNotKept'
      <4>1. \A n \in DOMAIN cache' : (\E m \in DOMAIN part : cache'[n] = part[m]) \/ cache'[n] = e
        BY <3>1, <3>2
      <4>2. Sourced'
        BY <2>7, <3>6, <4>1 DEF Sourced
      <4>3. \A n \in DOMAIN cache', j \in Jobs :
               evictions[j] = 0 => (cache'[n].job = j => cache'[n].gen = gen[j])
        BY <2>10, <4>1
      <4>4. RetiredAnswerIsNotKept'
        BY <1>1, <4>3 DEF RetiredAnswerIsNotKept
      <4> QED
        BY <4>2, <4>4
    <3>8. Hits' /\ Stored'
      <4>1. \A q \in Requests : pc'[q] \in {"reserve", "served", "store"} /\ q # r =>
                                   pc[q] = pc'[q] /\ found'[q] = found[q]
        BY <1>1, <3>1
      <4>2. pc'[r] = "reserve" /\ found'[r] = e.by
        BY <1>1, <3>1
      <4> QED
        BY <1>1, <2>1, <2>4, <3>6, <4>1, <4>2 DEF CacheInv, Hits, Stored, Steady
    <3>9. CacheTypeOK'
      BY <1>1, <2>1, <3>1, <3>2 DEF CacheInv, CacheTypeOK, PCs
    <3> QED
      BY <1>1, <3>5, <3>7, <3>8, <3>9 DEF CacheInv
  <2> QED
    BY <1>3, <2>12, <2>13
<1> QED
  BY <1>2, <1>3 DEF Get

LEMMA StoreKeeps ==
    ASSUME CacheInv, NEW r \in Requests, Store(r)
    PROVE  CacheInv'
<1> DEFINE places == {i \in DOMAIN cache : ~Match(cache[i], r) /\ ~cache[i].old}
           usable == SubsequenceAt(cache, places)
           kept   == Room(usable, r)
           e      == [job |-> JobOf[r], gen |-> key[r], by |-> r, old |-> FALSE]
<1>1. /\ pc[r] = "store" /\ pc' = [pc EXCEPT ![r] = "done"]
      /\ UNCHANGED <<gen, active, evictions, closed, cleared, asked, key, found>>
      /\ pc \in [Requests -> PCs] /\ cache \in Seq(Entry) /\ size = Bytes(cache) /\ key[r] = asked[r]
  BY DEF Store, Goto, CacheInv, CacheTypeOK, Filled, Stored
<1>2. \/ UNCHANGED <<cache, size>>
      \/ /\ gen[JobOf[r]] = key[r] /\ ~closed
         /\ cache' = Append(kept, e)
         /\ size' = (size - (Bytes(cache) - Bytes(kept))) + SizeOf[r]
  BY DEF Store, Usable
<1>3. Steady
  BY <1>1 DEF Steady
<1>4. CASE UNCHANGED <<cache, size>>
  <2>1. /\ \A q \in Requests : pc'[q] \in {"reserve", "served"} =>
               found'[q] \in Requests /\ pc[found'[q]] # "new" /\ asked[found'[q]] = key'[q]
        /\ \A q \in Requests : pc'[q] = "store" => key'[q] = asked'[q]
    BY <1>1 DEF CacheInv, Hits, Stored
  <2>2. UNCHANGED <<gen, evictions, memory>>
    BY <1>1, <1>4 DEF memory
  <2>3. Filled' /\ Sourced' /\ Hits' /\ Stored' /\ RetiredAnswerIsNotKept'
    BY <1>3, <2>1, <2>2, HandlerStep
  <2>4. CacheTypeOK'
    BY <1>1, <1>4 DEF CacheInv, CacheTypeOK, PCs
  <2> QED
    BY <1>1, <2>3, <2>4 DEF CacheInv
<1>5. CASE /\ gen[JobOf[r]] = key[r] /\ ~closed
           /\ cache' = Append(kept, e)
           /\ size' = (size - (Bytes(cache) - Bytes(kept))) + SizeOf[r]
  <2>1. /\ places \in SUBSET DOMAIN cache
        /\ \A i \in places : <<cache[i].job, cache[i].gen>> # <<JobOf[r], key[r]>>
    BY DEF Match
  <2> HIDE DEF places
  <2>2. /\ usable \in Seq(Entry) /\ Unique(usable)
        /\ \A n \in DOMAIN usable : \E i \in places : usable[n] = cache[i]
        /\ \A n \in DOMAIN usable : pc'[usable[n].by] # "new" /\ asked'[usable[n].by] = usable[n].gen
    BY <1>3, <2>1, PartStep
  <2> HIDE DEF usable
  <2>3. /\ kept \in Seq(Entry) /\ Len(kept) < MaxEntries /\ Bytes(kept) + SizeOf[r] <= MaxBytes
        /\ Unique(kept)
        /\ \A n \in DOMAIN kept : \E i \in DOMAIN usable : kept[n] = usable[i]
    BY <2>2, RoomIs
  <2> HIDE DEF kept
  <2>4. /\ JobOf[r] \in Jobs /\ key[r] \in 0 .. MaxGen /\ r \in Requests
        /\ SizeOf[r] \in 1 .. MaxBytes /\ MaxEntries \in Nat /\ MaxBytes \in Nat
    BY CacheAssumption DEF CacheInv, CacheTypeOK
  <2>5. e \in Entry /\ e.by = r /\ e.job = JobOf[r] /\ e.gen = key[r]
    BY <2>4 DEF Entry
  <2> HIDE DEF e
  <2>6. /\ cache' \in Seq(Entry) /\ Len(cache') = Len(kept) + 1
        /\ \A n \in DOMAIN cache' : \/ n \in DOMAIN kept /\ cache'[n] = kept[n]
                                    \/ n = Len(kept) + 1 /\ cache'[n] = e
        /\ Bytes(cache') = Bytes(kept) + SizeOf[r]
    <3>1. /\ Append(kept, e) \in Seq(Entry) /\ Len(Append(kept, e)) = Len(kept) + 1
          /\ \A n \in DOMAIN Append(kept, e) :
                \/ n \in DOMAIN kept /\ Append(kept, e)[n] = kept[n]
                \/ n = Len(kept) + 1 /\ Append(kept, e)[n] = e
          /\ Bytes(Append(kept, e)) = Bytes(kept) + SizeOf[e.by]
      BY <2>3, <2>5, BytesOfAppend
    <3> DEFINE more == Append(kept, e)
    <3> HIDE DEF more
    <3>2. cache' = more
      BY <1>5 DEF more
    <3>3. \A n \in DOMAIN more : \/ n \in DOMAIN kept /\ more[n] = kept[n]
                                 \/ n = Len(kept) + 1 /\ more[n] = e
      BY <3>1 DEF more
    <3>4. more \in Seq(Entry) /\ Len(more) = Len(kept) + 1 /\ Bytes(more) = Bytes(kept) + SizeOf[r]
      BY <2>5, <3>1 DEF more
    <3> QED
      BY <3>2, <3>3, <3>4, Zenon
  <2>7. Bytes(cache) \in Nat /\ Bytes(kept) \in Nat
    BY <1>1, <2>3, BytesIsNat
  <2>8. size' = Bytes(cache') /\ size' <= MaxBytes /\ size' \in Nat
    BY <1>1, <1>5, <2>3, <2>4, <2>6, <2>7
  <2>9. Unique(cache')
    <3>1. \A n \in DOMAIN kept : <<kept[n].job, kept[n].gen>> # <<e.job, e.gen>>
      BY <2>1, <2>2, <2>3, <2>5
    <3> QED
      BY <2>3, <2>6, <3>1 DEF Unique
  <2>10. Filled'
    <3>1. Len(cache') <= MaxEntries
      BY <2>3, <2>4, <2>6
    <3>2. ~cleared'
      BY <1>1, <1>5 DEF CacheInv, Filled
    <3> QED
      BY <2>8, <2>9, <3>1, <3>2 DEF Filled
  <2>11. Sourced'
    <3>1. pc'[r] # "new" /\ asked'[r] = key[r]
      BY <1>1
    <3>2. \A n \in DOMAIN cache' : (\E i \in DOMAIN usable : cache'[n] = usable[i]) \/ cache'[n] = e
      BY <2>3, <2>6
    <3> QED
      BY <2>2, <2>5, <3>1, <3>2 DEF Sourced
  <2>12. RetiredAnswerIsNotKept'
    <3>1. \A n \in DOMAIN cache' : (\E i \in DOMAIN cache : cache'[n] = cache[i]) \/ cache'[n] = e
      <4>1. \A n \in DOMAIN kept : \E i \in DOMAIN cache : kept[n] = cache[i]
        BY <2>1, <2>2, <2>3
      <4> QED
        BY <2>6, <4>1
    <3>2. \A j \in Jobs : e.job = j => e.gen = gen[j]
      BY <1>5, <2>5
    <3> QED
      BY <1>1, <3>1, <3>2 DEF CacheInv, RetiredAnswerIsNotKept
  <2>13. Hits' /\ Stored'
    <3>1. \A q \in Requests : pc'[q] \in {"reserve", "served", "store"} => pc[q] = pc'[q]
      BY <1>1
    <3> QED
      BY <1>1, <1>3, <3>1 DEF CacheInv, Hits, Stored, Steady
  <2>14. CacheTypeOK'
    BY <1>1, <2>6, <2>8 DEF CacheInv, CacheTypeOK, PCs
  <2> QED
    BY <1>1, <2>10, <2>11, <2>12, <2>13, <2>14 DEF CacheInv
<1> QED
  BY <1>2, <1>4, <1>5

\* The steps of a request that leave the cache alone.
LEMMA RequestKeeps ==
    ASSUME CacheInv, NEW r \in Requests,
           Prepare(r) \/ Identify(r) \/ ReserveHit(r) \/ Answer(r) \/ IdentifyPut(r)
    PROVE  CacheInv'
<1>1. /\ UNCHANGED <<gen, active, evictions, memory, found>>
      /\ \E label \in PCs : pc' = [pc EXCEPT ![r] = label]
      /\ \A q \in Requests \ {r} : asked'[q] = asked[q] /\ key'[q] = key[q] /\ pc'[q] = pc[q]
      /\ pc'[r] # "new" /\ (pc[r] # "new" => asked' = asked)
      /\ asked' \in [Requests -> 0 .. MaxGen] /\ key' \in [Requests -> 0 .. MaxGen]
  <2>1. /\ pc \in [Requests -> PCs] /\ asked \in [Requests -> 0 .. MaxGen]
        /\ key \in [Requests -> 0 .. MaxGen] /\ gen[JobOf[r]] \in 0 .. MaxGen
    BY CacheAssumption DEF CacheInv, CacheTypeOK
  <2>2. CASE Prepare(r)
    BY <2>1, <2>2 DEF Prepare, Goto, PCs
  <2>3. CASE Identify(r)
    BY <2>1, <2>3 DEF Identify, Goto, PCs
  <2>4. CASE ReserveHit(r)
    BY <2>1, <2>4 DEF ReserveHit, Goto, PCs
  <2>5. CASE Answer(r)
    BY <2>1, <2>5 DEF Answer, Goto, PCs
  <2>6. CASE IdentifyPut(r)
    BY <2>1, <2>6 DEF IdentifyPut, Goto, PCs
  <2> QED
    BY <2>2, <2>3, <2>4, <2>5, <2>6
<1>2. /\ pc'[r] \in {"reserve", "served"} => pc[r] = "reserve" /\ key'[r] = key[r] /\ asked' = asked
      /\ pc'[r] = "store" => key'[r] = asked'[r]
  <2>1. /\ pc \in [Requests -> PCs] /\ asked \in [Requests -> 0 .. MaxGen]
        /\ key \in [Requests -> 0 .. MaxGen]
    BY DEF CacheInv, CacheTypeOK
  <2>2. CASE Prepare(r)
    BY <2>1, <2>2 DEF Prepare, Goto
  <2>3. CASE Identify(r)
    BY <2>1, <2>3 DEF Identify, Goto
  <2>4. CASE ReserveHit(r)
    BY <2>1, <2>4 DEF ReserveHit, Goto
  <2>5. CASE Answer(r)
    BY <2>1, <2>5 DEF Answer, Goto
  <2>6. CASE IdentifyPut(r)
    BY <2>1, <2>6 DEF IdentifyPut, Goto
  <2> QED
    BY <2>2, <2>3, <2>4, <2>5, <2>6
<1>3. Steady
  BY <1>1 DEF Steady
<1>4. /\ \A q \in Requests : pc'[q] \in {"reserve", "served"} =>
             found'[q] \in Requests /\ pc[found'[q]] # "new" /\ asked[found'[q]] = key'[q]
      /\ \A q \in Requests : pc'[q] = "store" => key'[q] = asked'[q]
  BY <1>1, <1>2 DEF CacheInv, Hits, Stored
<1>5. Filled' /\ Sourced' /\ Hits' /\ Stored' /\ RetiredAnswerIsNotKept'
  BY <1>1, <1>3, <1>4, HandlerStep
<1>6. CacheTypeOK'
  BY <1>1 DEF memory, CacheInv, CacheTypeOK
<1> QED
  BY <1>1, <1>5, <1>6 DEF CacheInv

LEMMA CacheStep == CacheInv /\ [CacheNext]_cacheVars => CacheInv'
<1> SUFFICES ASSUME CacheInv, [CacheNext]_cacheVars
             PROVE  CacheInv'
  OBVIOUS
<1>1. CASE UNCHANGED cacheVars
  BY <1>1 DEF cacheVars, CacheInv, CacheTypeOK, Filled, Unique, Bytes, Sourced, Hits, Stored,
              RetiredAnswerIsNotKept
<1>2. ASSUME NEW j \in Jobs, Retire(j)
      PROVE  CacheInv'
  <2>1. /\ gen[j] < MaxGen /\ gen' = [gen EXCEPT ![j] = @ + 1]
        /\ active' \in {active, [active EXCEPT ![j] = ~@]}
        /\ evictions' = [evictions EXCEPT ![j] = @ + 1]
        /\ UNCHANGED <<cache, size, closed, cleared, pc, asked, key, found>>
    BY <1>2 DEF Retire, memory, handler
  <2>2. /\ gen \in [Jobs -> 0 .. MaxGen] /\ evictions \in [Jobs -> 0 .. MaxGen] /\ MaxGen \in Nat
        /\ active \in [Jobs -> BOOLEAN] /\ \A k \in Jobs : evictions[k] <= gen[k]
    BY CacheAssumption DEF CacheInv, CacheTypeOK
  <2>3. /\ gen' \in [Jobs -> 0 .. MaxGen] /\ evictions' \in [Jobs -> 0 .. MaxGen]
        /\ \A k \in Jobs : evictions'[k] <= gen'[k]
    BY <2>1, <2>2
  <2>4. active' \in [Jobs -> BOOLEAN]
    BY <2>1, <2>2
  <2>5. RetiredAnswerIsNotKept'
    <3>1. \A k \in Jobs : evictions'[k] = 0 => k # j /\ evictions[k] = 0 /\ gen'[k] = gen[k]
      BY <2>1, <2>2
    <3> QED
      BY <2>1, <3>1 DEF CacheInv, RetiredAnswerIsNotKept
  <2>6. Filled' /\ Sourced' /\ Hits' /\ Stored'
    BY <2>1 DEF CacheInv, Filled, Unique, Bytes, Sourced, Hits, Stored
  <2>7. CacheTypeOK'
    BY <2>1, <2>3, <2>4 DEF CacheInv, CacheTypeOK
  <2> QED
    BY <2>3, <2>5, <2>6, <2>7 DEF CacheInv
<1>3. ASSUME NEW j \in Jobs, ChangeState(j)
      PROVE  CacheInv'
  <2>1. /\ active' = [active EXCEPT ![j] = ~@]
        /\ UNCHANGED <<gen, evictions, cache, size, closed, cleared, pc, asked, key, found>>
    BY <1>3 DEF ChangeState, memory, handler
  <2>2. active' \in [Jobs -> BOOLEAN]
    BY <2>1 DEF CacheInv, CacheTypeOK
  <2>3. Filled' /\ Sourced' /\ Hits' /\ Stored' /\ RetiredAnswerIsNotKept'
    BY <2>1 DEF CacheInv, Filled, Unique, Bytes, Sourced, Hits, Stored, RetiredAnswerIsNotKept
  <2> QED
    BY <2>1, <2>2, <2>3 DEF CacheInv, CacheTypeOK
<1>4. ASSUME NEW j \in Jobs, EvictWork(j)
      PROVE  CacheInv'
  BY <1>4, EvictWorkKeeps
<1>5. ASSUME NEW r \in Requests,
             Prepare(r) \/ Identify(r) \/ Get(r) \/ ReserveHit(r) \/ Answer(r) \/ IdentifyPut(r) \/ Store(r)
      PROVE  CacheInv'
  BY <1>5, RequestKeeps, GetKeeps, StoreKeeps
<1>6. ASSUME NEW i, Expire(i)
      PROVE  CacheInv'
  BY <1>6, ExpireKeeps
<1>7. CASE Close
  <2>1. closed' = TRUE /\ UNCHANGED <<gen, active, evictions, cache, size, cleared, pc, asked, key, found>>
    BY <1>7 DEF Close, handler
  <2>2. Filled' /\ Sourced' /\ Hits' /\ Stored' /\ RetiredAnswerIsNotKept'
    BY <2>1 DEF CacheInv, Filled, Unique, Bytes, Sourced, Hits, Stored, RetiredAnswerIsNotKept
  <2> QED
    BY <2>1, <2>2 DEF CacheInv, CacheTypeOK
<1>8. CASE Clear
  <2>1. /\ cleared' = TRUE /\ cache' = <<>> /\ size' = 0 /\ closed
        /\ UNCHANGED <<gen, active, evictions, closed, pc, asked, key, found>>
    BY <1>8 DEF Clear, handler
  <2>2. DOMAIN cache' = {} /\ Len(cache') = 0 /\ cache' \in Seq(Entry)
    BY <2>1
  <2>3. Bytes(cache') = 0 /\ 0 <= MaxBytes /\ 0 <= MaxEntries
    BY <2>1, BytesOfEmpty, CacheAssumption
  <2>4. Filled' /\ Sourced' /\ RetiredAnswerIsNotKept'
    BY <2>1, <2>2, <2>3 DEF Filled, Unique, Sourced, RetiredAnswerIsNotKept
  <2>5. Hits' /\ Stored'
    BY <2>1 DEF CacheInv, Hits, Stored
  <2> QED
    BY <2>1, <2>2, <2>4, <2>5 DEF CacheInv, CacheTypeOK
<1> QED
  BY <1>1, <1>2, <1>3, <1>4, <1>5, <1>6, <1>7, <1>8 DEF CacheNext

LEMMA CacheStart == CacheInit => CacheInv
<1> SUFFICES ASSUME CacheInit
             PROVE  CacheInv
  OBVIOUS
<1>1. MaxGen \in Nat /\ MaxBytes \in Nat /\ MaxEntries \in Nat
  BY CacheAssumption
<1>2. cache \in Seq(Entry) /\ DOMAIN cache = {} /\ Len(cache) = 0
  BY DEF CacheInit
<1>3. CacheTypeOK
  <2>1. /\ gen \in [Jobs -> 0 .. MaxGen] /\ evictions \in [Jobs -> 0 .. MaxGen]
        /\ asked \in [Requests -> 0 .. MaxGen] /\ key \in [Requests -> 0 .. MaxGen] /\ size \in Nat
    BY <1>1 DEF CacheInit
  <2>2. /\ active \in [Jobs -> BOOLEAN] /\ closed \in BOOLEAN /\ cleared \in BOOLEAN
    BY DEF CacheInit
  <2>3. pc \in [Requests -> PCs] /\ found \in [Requests -> Requests \cup {None}]
    BY DEF CacheInit, PCs
  <2> QED
    BY <1>2, <2>1, <2>2, <2>3 DEF CacheTypeOK
<1>4. Filled
  BY <1>1, <1>2, BytesOfEmpty DEF CacheInit, Filled, Unique
<1> QED
  BY <1>1, <1>2, <1>3, <1>4 DEF CacheInit, CacheInv, Sourced, Hits, Stored, RetiredAnswerIsNotKept

\* Every variable of the answer cache keeps its type, and no more evictions are to come than
\* generations have passed.
THEOREM CacheTyping == CacheSpec => []CacheTypeOK
<1>1. CacheInv => CacheTypeOK
  BY DEF CacheInv
<1> QED
  BY <1>1, CacheStart, CacheStep, PTL DEF CacheSpec

\* A retired answer is neither served nor kept, and the bytes of the entries are counted
\* exactly and bounded, whatever the handlers, the corrections and close() do in between.
THEOREM CacheIsSoundHolds == CacheSpec => []CacheIsSound
<1>1. CacheInv => RetiredAnswerIsNotServed
  BY DEF CacheInv, Hits, RetiredAnswerIsNotServed
<1>2. CacheInv => MemoryIsBounded
  BY DEF CacheInv, Filled, Unique, MemoryIsBounded
<1>3. CacheInv => CacheIsSound
  BY <1>1, <1>2 DEF CacheInv, CacheIsSound
<1> QED
  BY <1>3, CacheStart, CacheStep, PTL DEF CacheSpec

(***************************************************************************)
(* Policy: what the levels say together.                                   *)
(***************************************************************************)

Limits == Nat \cup {NotSet}
NameLists == (SUBSET UNION PolicyLists) \cup {NotSet}

\* A limit is kept by a value that is set and no higher.
Keeps(value, limit) == limit # NotSet => value # NotSet /\ value <= limit

\* What is read of a policy has its type.
IsPolicy(policy) ==
    /\ policy.clients \in NameLists /\ policy.models \in NameLists
    /\ policy.output \in Limits /\ policy.budget \in Limits /\ policy.perActor \in Limits

LEMMA IntersectionIs ==
    ASSUME NEW left \in NameLists, NEW right \in NameLists
    PROVE  /\ Intersection(left, right) \in NameLists
           /\ \A value : Allows(Intersection(left, right), value) => Allows(left, value) /\ Allows(right, value)
<1>1. CASE left = NotSet \/ right = NotSet
  BY <1>1 DEF Intersection, Allows
<1>2. CASE left # NotSet /\ right # NotSet
  <2>1. Intersection(left, right) = left \cap right /\ left \in SUBSET UNION PolicyLists
    <3>1. left \in SUBSET UNION PolicyLists
      BY <1>2 DEF NameLists
    <3> QED
      BY <1>2, <3>1, Zenon DEF Intersection
  <2>2. left \cap right \in SUBSET UNION PolicyLists
    BY <2>1
  <2>3. left \cap right # NotSet
    BY <2>2, PolicyAssumption
  <2> QED
    BY <2>1, <2>2, <2>3 DEF Allows, NameLists
<1> QED
  BY <1>1, <1>2

LEMMA MinimumIs ==
    ASSUME NEW left \in Limits, NEW right \in Limits
    PROVE  /\ Minimum(left, right) \in Limits
           /\ Keeps(Minimum(left, right), left) /\ Keeps(Minimum(left, right), right)
<1>1. NotSet \notin Nat
  BY PolicyAssumption
<1>2. CASE left = NotSet \/ right = NotSet
  BY <1>1, <1>2 DEF Minimum, Keeps, Limits
<1>3. CASE left # NotSet /\ right # NotSet
  <2>1. Minimum(left, right) = Min({left, right}) /\ left \in Nat /\ right \in Nat
    BY <1>3 DEF Minimum, Limits
  <2>2. \E m \in {left, right} : \A n \in {left, right} : m <= n
    BY <2>1
  <2>3. Min({left, right}) \in {left, right} /\ \A n \in {left, right} : Min({left, right}) <= n
    BY <2>2 DEF Min
  <2> QED
    BY <1>1, <2>1, <2>3 DEF Keeps, Limits
<1> QED
  BY <1>2, <1>3

LEMMA KeepsIsTransitive ==
    ASSUME NEW a \in Limits, NEW b \in Limits, NEW c \in Limits, Keeps(a, b), Keeps(b, c)
    PROVE  Keeps(a, c)
  BY PolicyAssumption DEF Keeps, Limits

\* A policy and a narrower one: both are kept by the policy that they make.
Narrows(policy, wider) ==
    /\ \A value : Allows(policy.clients, value) => Allows(wider.clients, value)
    /\ \A value : Allows(policy.models, value) => Allows(wider.models, value)
    /\ Keeps(policy.output, wider.output)

LEMMA OverlaidIs ==
    ASSUME NEW policy, IsPolicy(policy), NEW other, other # NotSet => IsPolicy(other)
    PROVE  /\ IsPolicy(Overlaid(policy, other)) /\ Narrows(Overlaid(policy, other), policy)
           /\ other # NotSet => Narrows(Overlaid(policy, other), other)
<1>1. CASE other = NotSet
  BY <1>1, PolicyAssumption DEF Overlaid, Narrows, IsPolicy, Keeps, Limits
<1>2. CASE other # NotSet
  <2> DEFINE both == Overlaid(policy, other)
  <2>1. /\ both.clients = Intersection(policy.clients, other.clients)
        /\ both.models = Intersection(policy.models, other.models)
        /\ both.output = Minimum(policy.output, other.output)
        /\ both.budget = Minimum(policy.budget, other.budget)
        /\ both.perActor = Minimum(policy.perActor, other.perActor)
    BY <1>2 DEF Overlaid
  <2> HIDE DEF both
  <2>2. /\ both.clients \in NameLists /\ both.models \in NameLists
        /\ \A value : Allows(both.clients, value) => Allows(policy.clients, value) /\ Allows(other.clients, value)
        /\ \A value : Allows(both.models, value) => Allows(policy.models, value) /\ Allows(other.models, value)
    BY <1>2, <2>1, IntersectionIs DEF IsPolicy
  <2>3. /\ both.output \in Limits /\ both.budget \in Limits /\ both.perActor \in Limits
        /\ Keeps(both.output, policy.output) /\ Keeps(both.output, other.output)
    BY <1>2, <2>1, MinimumIs DEF IsPolicy
  <2> QED
    BY <2>2, <2>3 DEF both, IsPolicy, Narrows
<1> QED
  BY <1>1, <1>2

LEMMA NarrowsIsTransitive ==
    ASSUME NEW a, IsPolicy(a), NEW b, IsPolicy(b), NEW c, IsPolicy(c), Narrows(a, b), Narrows(b, c)
    PROVE  Narrows(a, c)
<1>1. Keeps(a.output, c.output)
  BY KeepsIsTransitive DEF IsPolicy, Narrows
<1> QED
  BY <1>1 DEF Narrows

LEMMA LevelIsPolicy ==
    ASSUME NEW d \in PolicyDocuments, NEW policy \in PoliciesOf(d)
    PROVE  IsPolicy(policy)
<1>1. policy.output \in Limits /\ policy.budget \in Limits /\ policy.perActor \in Limits
  BY PolicyAssumption DEF Limits
<1>2. \A list \in {policy.clients, policy.models} : list # NotSet => list \in PolicyLists
  <2> DEFINE listed(doc) == UNION {{level.clients, level.models} : level \in PoliciesOf(doc)}
             everywhere  == UNION {listed(doc) : doc \in PolicyDocuments}
  <2>1. PolicyLists = everywhere \ {NotSet}
    BY DEF PolicyLists
  <2>2. {policy.clients, policy.models} \subseteq listed(d)
    OBVIOUS
  <2> HIDE DEF listed
  <2>3. listed(d) \subseteq everywhere
    OBVIOUS
  <2> HIDE DEF everywhere
  <2> QED
    BY <2>1, <2>2, <2>3
<1>3. \A list \in {policy.clients, policy.models} : list \in NameLists
  BY <1>2 DEF NameLists
<1> QED
  BY <1>1, <1>3 DEF IsPolicy

\* The policy that applies to an employee grants nothing that a level does not.
LEMMA EffectiveIs ==
    ASSUME NEW d \in PolicyDocuments, NEW e \in Employees
    PROVE  /\ IsPolicy(Effective(d, e))
           /\ \A level \in PolicyLevels(d, e) : IsPolicy(level) /\ Narrows(Effective(d, e), level)
<1> DEFINE wide == Overlaid(d.organization, d.team)
           all  == Overlaid(wide, d.actors[e])
<1>1. /\ d.organization # NotSet /\ IsPolicy(d.organization)
      /\ d.team # NotSet => IsPolicy(d.team)
      /\ d.actors[e] # NotSet => IsPolicy(d.actors[e])
  <2>1. d.organization # NotSet
    BY PolicyAssumption
  <2> QED
    BY <2>1, LevelIsPolicy DEF PoliciesOf
<1>2. /\ IsPolicy(wide) /\ Narrows(wide, d.organization)
      /\ d.team # NotSet => Narrows(wide, d.team)
  BY <1>1, OverlaidIs
<1> HIDE DEF wide
<1>3. /\ IsPolicy(all) /\ Narrows(all, wide)
      /\ d.actors[e] # NotSet => Narrows(all, d.actors[e])
  BY <1>1, <1>2, OverlaidIs
<1>4. Effective(d, e) = all
  BY DEF Effective, wide
<1> HIDE DEF all
<1>5. Narrows(all, d.organization) /\ (d.team # NotSet => Narrows(all, d.team))
  BY <1>1, <1>2, <1>3, NarrowsIsTransitive
<1> QED
  BY <1>1, <1>3, <1>4, <1>5 DEF PolicyLevels

(***************************************************************************)
(* Policy: decisions.                                                      *)
(***************************************************************************)

\* The employee's policy allows the decision, and its output is within that policy's and the model's limit.
Allowed(e, ask, decision) ==
    LET policy == Effective(document, e)
    IN  /\ decision.alias \in DOMAIN PolicyRoutes /\ decision.output \in Limits
        /\ Serves(decision.alias, ask.protocol)
        /\ Allows(policy.clients, ask.client) /\ Allows(policy.models, decision.alias)
        /\ Keeps(decision.output, policy.output)
        /\ Keeps(decision.output, document.modelLimits[decision.alias])

LEMMA EvaluatedIsAllowed ==
    ASSUME document \in PolicyDocuments, NEW e \in Employees, NEW ask, Evaluated(e, ask) # Denied
    PROVE  Allowed(e, ask, Evaluated(e, ask))
<1> DEFINE policy == Effective(document, e)
           alias  == ResolvedAlias(policy, ask)
           limit  == document.modelLimits[alias]
<1>1. /\ Allows(policy.clients, ask.client) /\ alias # NotSet
      /\ Evaluated(e, ask) = Decision(alias, Minimum(policy.output, limit))
  BY DEF Evaluated
<1>2. Serves(alias, ask.protocol) /\ Allows(policy.models, alias)
  BY <1>1 DEF ResolvedAlias
<1>3. IsPolicy(policy)
  BY EffectiveIs
<1> HIDE DEF policy, alias
<1>4. alias \in DOMAIN PolicyRoutes /\ limit \in Limits
  BY <1>2, PolicyAssumption DEF Serves, Limits
<1>5. /\ Minimum(policy.output, limit) \in Limits
      /\ Keeps(Minimum(policy.output, limit), policy.output) /\ Keeps(Minimum(policy.output, limit), limit)
  BY <1>3, <1>4, MinimumIs DEF IsPolicy
<1> QED
  BY <1>1, <1>2, <1>4, <1>5 DEF Allowed, Decision, policy

\* So does a failover from a decision that was allowed.
LEMMA FailoverIsAllowed ==
    ASSUME document \in PolicyDocuments, NEW e \in Employees, NEW ask, NEW decision,
           Allowed(e, ask, decision), OperationalFailover(e, decision) # Denied
    PROVE  Allowed(e, ask, OperationalFailover(e, decision))
<1> DEFINE alternate == PolicyRoutes[decision.alias].failover
           limit     == document.modelLimits[alternate]
           output    == Minimum(decision.output, limit)
<1>1. /\ alternate # NotSet /\ PolicyRoutes[alternate].protocol = PolicyRoutes[decision.alias].protocol
      /\ Allows(Effective(document, e).models, alternate)
      /\ OperationalFailover(e, decision) = Decision(alternate, output)
  BY DEF OperationalFailover
<1>2. /\ decision.alias \in DOMAIN PolicyRoutes /\ decision.output \in Limits
      /\ PolicyRoutes[decision.alias].protocol = ask.protocol
      /\ Keeps(decision.output, Effective(document, e).output)
  BY DEF Allowed, Serves
<1>3. alternate \in DOMAIN PolicyRoutes
  BY <1>1, <1>2, PolicyAssumption
<1> HIDE DEF alternate
<1>4. limit \in Limits
  BY <1>3, PolicyAssumption DEF Limits
<1>5. output \in Limits /\ Keeps(output, decision.output) /\ Keeps(output, limit)
  BY <1>2, <1>4, MinimumIs
<1>6. Keeps(output, Effective(document, e).output)
  <2>1. Effective(document, e).output \in Limits
    BY EffectiveIs DEF IsPolicy
  <2> QED
    BY <1>2, <1>5, <2>1, KeepsIsTransitive
<1>7. Allows(Effective(document, e).clients, ask.client)
  BY DEF Allowed
<1> HIDE DEF output
<1> QED
  BY <1>1, <1>2, <1>3, <1>5, <1>6, <1>7 DEF Allowed, Decision, Serves

Requested ==
    [at : {"new", "decided", "reserved", "released", "failed over", "ended"}, by : Employees \cup {NotSet},
     ask : PolicyAsks \cup {NotSet}, decision : [alias : DOMAIN PolicyRoutes \cup {NotSet}, output : Limits]]

PolicyTypes ==
    /\ document \in PolicyDocuments /\ spent \in [Employees -> Nat]
    /\ requests \in [PolicyRequests -> Requested]

\* A request that goes on was decided for an employee, and whatever was decided is allowed.
Decided ==
    /\ \A r \in PolicyRequests : requests[r].at \in {"decided", "reserved", "released", "failed over"} =>
          requests[r].by \in Employees /\ requests[r].decision # Denied
    /\ \A r \in PolicyRequests : requests[r].decision # Denied =>
          requests[r].by \in Employees /\ Allowed(requests[r].by, requests[r].ask, requests[r].decision)

LEMMA AllowedByEveryLevel == PolicyTypes /\ Decided => EveryLevelAllows
<1> SUFFICES ASSUME PolicyTypes, Decided, NEW r \in PolicyRequests, requests[r].decision # Denied
             PROVE  LET request == requests[r]
                    IN  /\ Serves(request.decision.alias, request.ask.protocol)
                        /\ \A policy \in PolicyLevels(document, request.by) :
                              /\ Allows(policy.clients, request.ask.client)
                              /\ Allows(policy.models, request.decision.alias)
                              /\ policy.output # NotSet => request.decision.output # NotSet
                                                           /\ request.decision.output <= policy.output
                        /\ LET limit == document.modelLimits[request.decision.alias]
                           IN  limit # NotSet => request.decision.output # NotSet
                                                 /\ request.decision.output <= limit
  BY DEF EveryLevelAllows
<1> DEFINE e        == requests[r].by
           decision == requests[r].decision
           ask      == requests[r].ask
<1>1. e \in Employees /\ Allowed(e, ask, decision) /\ document \in PolicyDocuments
  BY DEF Decided, PolicyTypes
<1> HIDE DEF e, decision, ask
<1>2. ASSUME NEW policy \in PolicyLevels(document, e)
      PROVE  /\ Allows(policy.clients, ask.client) /\ Allows(policy.models, decision.alias)
             /\ Keeps(decision.output, policy.output)
  <2>1. /\ IsPolicy(Effective(document, e)) /\ IsPolicy(policy) /\ Narrows(Effective(document, e), policy)
    BY <1>1, <1>2, EffectiveIs
  <2>2. Allows(policy.clients, ask.client) /\ Allows(policy.models, decision.alias)
    BY <1>1, <2>1 DEF Allowed, Narrows
  <2>3. Keeps(decision.output, policy.output)
    BY <1>1, <2>1, KeepsIsTransitive DEF Allowed, Narrows, IsPolicy
  <2> QED
    BY <2>2, <2>3
<1>3. Serves(decision.alias, ask.protocol) /\ Keeps(decision.output, document.modelLimits[decision.alias])
  BY <1>1 DEF Allowed
<1> QED
  BY <1>2, <1>3 DEF Keeps, e, decision, ask

(***************************************************************************)
(* Policy: what is spent and held.                                         *)
(***************************************************************************)

\* A request that is held has a route, and with it a price.
Served(request) == request.at \in InHold => request.decision.alias \in DOMAIN PolicyRoutes

LEMMA HoldIs == \A request, employees : Served(request) => Hold(request, employees) \in Nat
  BY PolicyAssumption DEF Served, Hold

LEMMA HeldAreServed == PolicyTypes /\ Decided => \A r \in PolicyRequests : Served(requests[r])
  BY DEF Decided, Served, Allowed, InHold

LEMMA HeldIs ==
    ASSUME PolicyTypes, Decided, NEW employees
    PROVE  HeldBy(employees) \in Nat
<1> DEFINE hold == [r \in PolicyRequests |-> Hold(requests[r], employees)]
<1>1. \A r \in PolicyRequests : hold[r] \in Nat
  BY HoldIs, HeldAreServed
<1> HIDE DEF hold
<1>2. SumFunctionOnSet(hold, PolicyRequests) \in Nat
  BY <1>1, PolicyAssumption, SumIsNat
<1> QED
  BY <1>2 DEF HeldBy, hold

LEMMA SpentIs ==
    ASSUME PolicyTypes, NEW employees \in SUBSET Employees
    PROVE  /\ IsFiniteSet(employees) /\ SpentBy(employees) \in Nat
           /\ \A e \in employees : employees = {e} => SpentBy(employees) = spent[e]
<1>1. IsFiniteSet(employees) /\ \A e \in employees : spent[e] \in Nat
  BY PolicyAssumption, FS_Subset DEF PolicyTypes
<1>2. SpentBy(employees) \in Nat
  BY <1>1, SumIsNat DEF SpentBy
<1>3. ASSUME NEW e \in employees, employees = {e}
      PROVE  SpentBy(employees) = spent[e]
  <2>1. SumFunctionOnSet(spent, employees) = spent[e] + SumFunctionOnSet(spent, employees \ {e})
    BY <1>1, SumElement
  <2>2. employees \ {e} = {} /\ SumFunctionOnSet(spent, {}) = 0 /\ spent[e] \in Nat
    BY <1>1, <1>3, SumEmpty
  <2> QED
    BY <2>1, <2>2 DEF SpentBy
<1> QED
  BY <1>1, <1>2, <1>3

\* The limits of the levels, each over the employees it counts.
Within(employees, limit) == limit # NotSet => SpentBy(employees) + HeldBy(employees) <= limit

EveryLimit ==
    \A e \in Employees :
        /\ \A policy \in {document.organization, document.team} \ {NotSet} : Within(Employees, policy.budget)
        /\ document.actors[e] # NotSet => Within({e}, document.actors[e].budget)
        /\ \A policy \in PolicyLevels(document, e) : Within({e}, policy.perActor)

LEMMA EveryLimitIs == PolicyTypes => (EveryLimit <=> EveryLimitIsReserved)
<1> SUFFICES ASSUME PolicyTypes
             PROVE  EveryLimit <=> EveryLimitIsReserved
  OBVIOUS
<1>1. \A e \in Employees : SpentBy({e}) = spent[e]
  BY SpentIs
<1> QED
  BY <1>1 DEF EveryLimit, EveryLimitIsReserved, Within

PolicyInv == PolicyTypes /\ Decided /\ EveryLimit

\* An employee's own limit is no higher than any that makes it up.
LEMMA ActorLimitIs ==
    ASSUME PolicyTypes, NEW e \in Employees, NEW limit \in Nat,
           \/ \E policy \in PolicyLevels(document, e) : policy.perActor = limit
           \/ document.actors[e] # NotSet /\ document.actors[e].budget = limit
    PROVE  ActorLimit(e) \in Nat /\ ActorLimit(e) <= limit
<1> DEFINE limits == ({policy.perActor : policy \in PolicyLevels(document, e)}
                      \cup {policy.budget : policy \in {document.actors[e]} \ {NotSet}}) \ {NotSet}
<1>1. ActorLimit(e) = IF limits = {} THEN NotSet ELSE Min(limits)
  BY DEF ActorLimit
<1>2. PolicyLevels(document, e) \subseteq PoliciesOf(document) /\ document \in PolicyDocuments
  BY DEF PolicyLevels, PoliciesOf, PolicyTypes
<1>3. \A policy \in PoliciesOf(document) : policy.perActor \in Limits /\ policy.budget \in Limits
  BY <1>2, LevelIsPolicy DEF IsPolicy
<1>4. \A policy \in {document.actors[e]} \ {NotSet} : policy \in PoliciesOf(document)
  BY DEF PoliciesOf
<1>5. limits \in SUBSET Nat
  BY <1>2, <1>3, <1>4 DEF Limits
<1>6. limit \in limits
  BY PolicyAssumption
<1> HIDE DEF limits
<1>7. PICK least \in limits : \A n \in limits : least <= n
  BY <1>5, <1>6, LeastOfNaturals
<1>8. Min(limits) \in limits /\ \A n \in limits : Min(limits) <= n
  BY <1>7 DEF Min
<1> QED
  BY <1>1, <1>5, <1>6, <1>8

\* No more is spent and held: the limits go on being kept.
LEMMA NoMoreIsKept ==
    ASSUME PolicyTypes, Decided, EveryLimit, document' = document,
           \A S \in SUBSET Employees : SpentBy(S)' \in Nat /\ HeldBy(S)' \in Nat
                                       /\ SpentBy(S)' + HeldBy(S)' <= SpentBy(S) + HeldBy(S)
    PROVE  EveryLimit'
<1>1. \A S \in SUBSET Employees : \A limit \in Limits : Within(S, limit) => Within(S, limit)'
  <2> SUFFICES ASSUME NEW S \in SUBSET Employees, NEW limit \in Limits, Within(S, limit), limit # NotSet
               PROVE  SpentBy(S)' + HeldBy(S)' <= limit
    BY DEF Within
  <2> QED
    BY SpentIs, HeldIs DEF Within, Limits
<1>2. \A policy \in PoliciesOf(document) : policy.budget \in Limits /\ policy.perActor \in Limits
  BY LevelIsPolicy DEF IsPolicy, PolicyTypes
<1> QED
  BY <1>1, <1>2 DEF EveryLimit, PolicyLevels, PoliciesOf

\* What is held after a step of one request: all that changes is its own hold.
LEMMA HeldAfter ==
    ASSUME PolicyTypes, Decided, NEW S, NEW r \in PolicyRequests,
           \A q \in PolicyRequests \ {r} : requests'[q] = requests[q], Served(requests'[r])
    PROVE  /\ HeldBy(S) \in Nat /\ HeldBy(S)' \in Nat
           /\ Hold(requests[r], S) \in Nat /\ Hold(requests'[r], S) \in Nat
           /\ HeldBy(S)' + Hold(requests[r], S) = HeldBy(S) + Hold(requests'[r], S)
<1> DEFINE before == [q \in PolicyRequests |-> Hold(requests[q], S)]
           after  == [q \in PolicyRequests |-> Hold(requests'[q], S)]
           rest   == PolicyRequests \ {r}
<1>1. HeldBy(S) = SumFunctionOnSet(before, PolicyRequests) /\ HeldBy(S)' = SumFunctionOnSet(after, PolicyRequests)
  BY DEF HeldBy
<1>2. before[r] = Hold(requests[r], S) /\ after[r] = Hold(requests'[r], S)
  OBVIOUS
<1>3. \A q \in PolicyRequests : Served(requests[q]) /\ Served(requests'[q])
  BY HeldAreServed
<1>4. /\ \A q \in PolicyRequests : before[q] \in Nat /\ after[q] \in Nat
      /\ \A q \in rest : before[q] = after[q]
  BY <1>3, HoldIs
<1>5. IsFiniteSet(PolicyRequests) /\ IsFiniteSet(rest)
  BY PolicyAssumption, FS_Subset
<1> HIDE DEF before, after
<1>6. /\ SumFunctionOnSet(before, PolicyRequests) = before[r] + SumFunctionOnSet(before, rest)
      /\ SumFunctionOnSet(after, PolicyRequests) = after[r] + SumFunctionOnSet(after, rest)
  BY <1>4, <1>5, SumElement
<1>7. SumFunctionOnSet(before, rest) = SumFunctionOnSet(after, rest)
  BY <1>4, <1>5, SumsAreEqual
<1>8. SumFunctionOnSet(before, rest) \in Nat
  BY <1>4, <1>5, SumIsNat
<1> QED
  BY <1>1, <1>2, <1>4, <1>6, <1>7, <1>8

LEMMA SpentAfter ==
    ASSUME PolicyTypes, NEW S \in SUBSET Employees, NEW by \in Employees, NEW charge \in Nat,
           spent' = [spent EXCEPT ![by] = @ + charge]
    PROVE  SpentBy(S)' = SpentBy(S) + IF by \in S THEN charge ELSE 0
<1>1. IsFiniteSet(S) /\ IsFiniteSet(S \ {by})
  BY SpentIs, FS_Subset
<1>2. /\ \A e \in S : spent[e] \in Nat /\ spent'[e] \in Nat
      /\ \A e \in S \ {by} : spent'[e] = spent[e]
      /\ spent'[by] = spent[by] + charge /\ spent[by] \in Nat
  BY DEF PolicyTypes
<1>3. SpentBy(S) = SumFunctionOnSet(spent, S) /\ SpentBy(S)' = SumFunctionOnSet(spent', S)
  BY DEF SpentBy
<1>4. SumFunctionOnSet(spent', S \ {by}) = SumFunctionOnSet(spent, S \ {by})
  BY <1>1, <1>2, SumsAreEqual, ZenonT(60)
<1>5. CASE by \in S
  <2>1. SumFunctionOnSet(spent, S) = spent[by] + SumFunctionOnSet(spent, S \ {by})
    BY <1>1, <1>2, <1>5, SumElement
  <2>2. SumFunctionOnSet(spent', S) = spent'[by] + SumFunctionOnSet(spent', S \ {by})
    <3> DEFINE later == spent'
    <3>1. \A y \in S : later[y] \in Nat
      BY <1>2
    <3> HIDE DEF later
    <3>2. SumFunctionOnSet(later, S) = later[by] + SumFunctionOnSet(later, S \ {by})
      BY <1>1, <1>5, <3>1, SumElement
    <3> QED
      BY <3>2 DEF later
  <2>3. SumFunctionOnSet(spent, S \ {by}) \in Nat
    BY <1>1, <1>2, SumIsNat
  <2> QED
    BY <1>2, <1>3, <1>4, <1>5, <2>1, <2>2, <2>3
<1>6. CASE by \notin S
  <2>1. S \ {by} = S
    BY <1>6
  <2> QED
    BY <1>3, <1>4, <1>6, <2>1, SpentIs
<1> QED
  BY <1>5, <1>6

\* Every step: what keeps the types, the decisions and the limits.
LEMMA EvaluateKeepsPolicy ==
    ASSUME PolicyInv, NEW r \in PolicyRequests, NEW e \in Employees, NEW ask \in PolicyAsks, Evaluate(r, e, ask)
    PROVE  PolicyInv'
<1> DEFINE decision == Evaluated(e, ask)
<1>1. /\ requests[r].at = "new" /\ UNCHANGED <<document, spent>>
      /\ requests' = [requests EXCEPT ![r] =
            [at |-> IF decision = Denied THEN "ended" ELSE "decided", by |-> e, ask |-> ask, decision |-> decision]]
  BY DEF Evaluate
<1>2. document \in PolicyDocuments /\ requests \in [PolicyRequests -> Requested]
  BY DEF PolicyInv, PolicyTypes
<1>3. decision # Denied => Allowed(e, ask, decision)
  BY <1>2, EvaluatedIsAllowed
<1>4. decision \in [alias : DOMAIN PolicyRoutes \cup {NotSet}, output : Limits]
  <2>1. CASE decision = Denied
    BY <2>1 DEF Denied, Decision, Limits
  <2>2. CASE decision # Denied
    <3>1. \E alias, output : decision = Decision(alias, output)
      BY <2>2 DEF Evaluated
    <3> QED
      BY <1>3, <2>2, <3>1 DEF Allowed, Decision
  <2> QED
    BY <2>1, <2>2
<1> HIDE DEF decision
<1>5. /\ \A q \in PolicyRequests \ {r} : requests'[q] = requests[q]
      /\ requests'[r] = [at |-> IF decision = Denied THEN "ended" ELSE "decided",
                         by |-> e, ask |-> ask, decision |-> decision]
  BY <1>1, <1>2
<1> DEFINE at == IF decision = Denied THEN "ended" ELSE "decided"
<1>a. at \in {"ended", "decided"} /\ (at = "decided" => decision # Denied)
  OBVIOUS
<1>b. requests'[r] = [at |-> at, by |-> e, ask |-> ask, decision |-> decision]
  BY <1>5
<1> HIDE DEF at
<1>c. /\ requests'[r].at = at /\ requests'[r].by = e
      /\ requests'[r].ask = ask /\ requests'[r].decision = decision
  BY <1>b
<1>d. \A q \in PolicyRequests \ {r} : requests'[q] = requests[q]
  BY <1>5
<1>6. PolicyTypes'
  <2>1. requests'[r] \in Requested
    <3>1. at \in {"new", "decided", "reserved", "released", "failed over", "ended"}
      BY <1>a
    <3>2. [at |-> at, by |-> e, ask |-> ask, decision |-> decision] \in Requested
      BY <1>4, <3>1 DEF Requested
    <3> QED
      BY <1>b, <3>2, Zenon
  <2> QED
    BY <1>1, <1>2, <2>1 DEF PolicyInv, PolicyTypes
<1>7. Decided'
  <2>1. ASSUME NEW q \in PolicyRequests, requests'[q].decision # Denied
        PROVE  requests'[q].by \in Employees
               /\ Allowed(requests'[q].by, requests'[q].ask, requests'[q].decision)
    BY <1>3, <1>c, <1>d, <2>1 DEF PolicyInv, Decided
  <2>2. ASSUME NEW q \in PolicyRequests, requests'[q].at \in {"decided", "reserved", "released", "failed over"}
        PROVE  requests'[q].by \in Employees /\ requests'[q].decision # Denied
    BY <1>a, <1>c, <1>d, <2>2 DEF PolicyInv, Decided
  <2> QED
    BY <1>1, <2>1, <2>2 DEF Decided, Allowed
<1>8. EveryLimit'
  <2>1. \A S \in SUBSET Employees : HeldBy(S)' \in Nat /\ HeldBy(S)' = HeldBy(S)
    <3>1. requests'[r].at \notin InHold /\ requests[r].at \notin InHold
      BY <1>1, <1>a, <1>c DEF InHold
    <3>2. Served(requests'[r]) /\ \A S : Hold(requests[r], S) = 0 /\ Hold(requests'[r], S) = 0
      BY <3>1 DEF Served, Hold
    <3> QED
      BY <1>d, <3>2, HeldAfter DEF PolicyInv
  <2>2. \A S \in SUBSET Employees : SpentBy(S)' = SpentBy(S) /\ SpentBy(S)' \in Nat
    BY <1>1, SpentIs DEF SpentBy, PolicyInv
  <2> QED
    BY <1>1, <2>1, <2>2, NoMoreIsKept DEF PolicyInv
<1> QED
  BY <1>6, <1>7, <1>8 DEF PolicyInv

\* A limit that a further hold fits is kept with it.
LEMMA FitsKeeps ==
    ASSUME PolicyTypes, Decided, NEW S \in SUBSET Employees, NEW limit \in Limits, NEW hold \in Nat,
           FitsScope([of |-> S, limit |-> limit], hold)
    PROVE  limit # NotSet => SpentBy(S) + (HeldBy(S) + hold) <= limit
<1>1. SpentBy(S) \in Nat /\ HeldBy(S) \in Nat
  BY SpentIs, HeldIs
<1>2. limit # NotSet => SpentBy(S) + HeldBy(S) + hold <= limit
  BY DEF FitsScope
<1> QED
  BY <1>1, <1>2 DEF Limits

\* A reservation, the first one or the alternate's, that is made only when all scopes fit it.
Reserves(r, at) ==
    /\ requests[r].at \in {"decided", "released"} /\ at \in {"reserved", "failed over", "ended"}
    /\ at # "ended" => Fits(r)
    /\ requests' = [requests EXCEPT ![r].at = at]
    /\ UNCHANGED <<document, spent>>

LEMMA ReserveKeepsLimits ==
    ASSUME PolicyInv, NEW r \in PolicyRequests, NEW at, Reserves(r, at)
    PROVE  EveryLimit'
<1> DEFINE by   == requests[r].by
           hold == PolicyHolds[requests[r].decision.alias]
<1>1. /\ requests[r].at \in {"decided", "released"} /\ by \in Employees /\ UNCHANGED <<document, spent>>
      /\ requests' = [requests EXCEPT ![r].at = at]
  BY DEF Reserves, PolicyInv, Decided
<1>2. requests \in [PolicyRequests -> Requested] /\ document \in PolicyDocuments
  BY DEF PolicyInv, PolicyTypes
<1>3. at \in {"reserved", "failed over", "ended"} /\ (at # "ended" => Fits(r))
  BY DEF Reserves
<1>4. /\ \A q \in PolicyRequests \ {r} : requests'[q] = requests[q]
      /\ requests'[r].at = at /\ requests'[r].by = by /\ requests'[r].decision = requests[r].decision
  BY <1>1, <1>2 DEF Requested
<1>5. \A S : Hold(requests[r], S) = 0
  BY <1>1 DEF InHold, Hold
<1>6. \A S \in SUBSET Employees : SpentBy(S)' = SpentBy(S) /\ SpentBy(S) \in Nat
  BY <1>1, SpentIs DEF SpentBy, PolicyInv
<1>9. requests[r].decision.alias \in DOMAIN PolicyRoutes /\ hold \in Nat
  <2>1. requests[r].decision.alias \in DOMAIN PolicyRoutes
    BY <1>1 DEF PolicyInv, Decided, Allowed
  <2> QED
    BY <2>1, PolicyAssumption
<1>10. Served(requests'[r])
  BY <1>4, <1>9 DEF Served
<1> HIDE DEF hold
<1>7. CASE at = "ended"
  <2>1. \A S : Hold(requests'[r], S) = 0
    BY <1>4, <1>7 DEF InHold, Hold
  <2>2. \A S \in SUBSET Employees : HeldBy(S)' \in Nat /\ HeldBy(S)' = HeldBy(S)
    BY <1>4, <1>5, <1>10, <2>1, HeldAfter DEF PolicyInv
  <2> QED
    BY <1>1, <1>6, <2>2, NoMoreIsKept DEF PolicyInv
<1>8. CASE at # "ended"
  <2>1. \A S : Hold(requests'[r], S) = IF by \in S THEN hold ELSE 0
    BY <1>3, <1>4, <1>8 DEF InHold, Hold, hold
  <2>2. \A S \in SUBSET Employees : by \in S => HeldBy(S)' = HeldBy(S) + hold
    BY <1>4, <1>5, <1>10, <2>1, HeldAfter DEF PolicyInv
  <2>3. \A S \in SUBSET Employees : by \notin S => HeldBy(S)' = HeldBy(S)
    BY <1>4, <1>5, <1>10, <2>1, HeldAfter DEF PolicyInv
  <2>4. \A policy \in PoliciesOf(document) : policy.budget \in Limits /\ policy.perActor \in Limits
    BY <1>2, LevelIsPolicy DEF IsPolicy
  <2>5. \A scope \in BudgetScopes(by) : FitsScope(scope, hold)
    BY <1>3, <1>8 DEF Fits, hold
  <2>6. ASSUME NEW policy \in {document.organization, document.team} \ {NotSet}
        PROVE  Within(Employees, policy.budget)'
    <3>1. policy \in PoliciesOf(document)
      BY DEF PoliciesOf
    <3>2. [of |-> Employees, limit |-> policy.budget] \in BudgetScopes(by)
      BY DEF BudgetScopes
    <3>3. policy.budget # NotSet => SpentBy(Employees) + (HeldBy(Employees) + hold) <= policy.budget
      BY <1>9, <2>4, <2>5, <3>1, <3>2, FitsKeeps DEF PolicyInv
    <3> QED
      BY <1>1, <1>6, <2>2, <3>3 DEF Within
  <2>7. ASSUME NEW e \in Employees, NEW limit \in Nat,
               \/ \E policy \in PolicyLevels(document, e) : policy.perActor = limit
               \/ document.actors[e] # NotSet /\ document.actors[e].budget = limit
        PROVE  Within({e}, limit)'
    <3>1. CASE e = by
      <4>1. ActorLimit(by) \in Nat /\ ActorLimit(by) <= limit
        BY <2>7, <3>1, ActorLimitIs DEF PolicyInv
      <4>2. [of |-> {by}, limit |-> ActorLimit(by)] \in BudgetScopes(by)
        BY DEF BudgetScopes
      <4>3. SpentBy({by}) + (HeldBy({by}) + hold) <= ActorLimit(by)
        BY <1>1, <1>9, <2>5, <4>1, <4>2, FitsKeeps, PolicyAssumption DEF PolicyInv, Limits
      <4>4. SpentBy({by}) \in Nat /\ HeldBy({by}) \in Nat /\ hold \in Nat
        BY <1>1, <1>6, <1>9, HeldIs DEF PolicyInv
      <4> HIDE DEF by
      <4> QED
        BY <1>1, <1>6, <2>2, <3>1, <4>1, <4>3, <4>4 DEF Within
    <3>2. CASE e # by
      <4>1. Within({e}, limit)
        <5>1. /\ document.actors[e] # NotSet => Within({e}, document.actors[e].budget)
              /\ \A policy \in PolicyLevels(document, e) : Within({e}, policy.perActor)
          BY DEF PolicyInv, EveryLimit
        <5>2. CASE \E policy \in PolicyLevels(document, e) : policy.perActor = limit
          BY <5>1, <5>2
        <5>3. CASE document.actors[e] # NotSet /\ document.actors[e].budget = limit
          BY <5>1, <5>3
        <5> QED
          BY <2>7, <5>2, <5>3
      <4> QED
        BY <1>6, <2>3, <3>2, <4>1 DEF Within
    <3> QED
      BY <3>1, <3>2
  <2>8. ASSUME NEW e \in Employees, NEW policy \in PolicyLevels(document, e)
        PROVE  Within({e}, policy.perActor)'
    <3>1. policy.perActor \in Limits
      BY <2>4 DEF PolicyLevels, PoliciesOf
    <3> QED
      BY <1>1, <2>7, <3>1 DEF Limits, Within
  <2>9. ASSUME NEW e \in Employees, document.actors[e] # NotSet
        PROVE  Within({e}, document.actors[e].budget)'
    <3>1. document.actors[e].budget \in Limits
      BY <2>4, <2>9 DEF PoliciesOf
    <3> QED
      BY <1>1, <2>7, <2>9, <3>1 DEF Limits, Within
  <2> QED
    BY <1>1, <2>6, <2>8, <2>9 DEF EveryLimit, PolicyLevels
<1> QED
  BY <1>3, <1>7, <1>8

LEMMA ReserveKeepsPolicy ==
    ASSUME PolicyInv, NEW r \in PolicyRequests, NEW at, Reserves(r, at)
    PROVE  PolicyInv'
<1>1. /\ requests[r].at \in {"decided", "released"} /\ UNCHANGED <<document, spent>>
      /\ requests' = [requests EXCEPT ![r].at = at]
  BY DEF Reserves
<1>2. at \in {"reserved", "failed over", "ended"}
  BY DEF Reserves
<1>3. requests \in [PolicyRequests -> Requested]
  BY DEF PolicyInv, PolicyTypes
<1>4. /\ \A q \in PolicyRequests \ {r} : requests'[q] = requests[q]
      /\ requests'[r] = [requests[r] EXCEPT !.at = at] /\ requests[r] \in Requested
  BY <1>1, <1>3
<1>5. /\ requests'[r].at = at /\ requests'[r].by = requests[r].by
      /\ requests'[r].ask = requests[r].ask /\ requests'[r].decision = requests[r].decision
      /\ requests'[r] \in Requested
  BY <1>2, <1>4 DEF Requested
<1>6. PolicyTypes'
  BY <1>1, <1>3, <1>5 DEF PolicyInv, PolicyTypes
<1>7. Decided'
  <2>1. ASSUME NEW q \in PolicyRequests, requests'[q].decision # Denied
        PROVE  requests'[q].by \in Employees
               /\ Allowed(requests'[q].by, requests'[q].ask, requests'[q].decision)
    BY <1>4, <1>5, <2>1 DEF PolicyInv, Decided
  <2>2. ASSUME NEW q \in PolicyRequests, requests'[q].at \in {"decided", "reserved", "released", "failed over"}
        PROVE  requests'[q].by \in Employees /\ requests'[q].decision # Denied
    <3>1. requests[r].by \in Employees /\ requests[r].decision # Denied
      BY <1>1 DEF PolicyInv, Decided
    <3>2. CASE q = r
      BY <1>5, <3>1, <3>2
    <3>3. CASE q # r
      BY <1>4, <2>2, <3>3 DEF PolicyInv, Decided
    <3> QED
      BY <3>2, <3>3
  <2> QED
    BY <1>1, <2>1, <2>2 DEF Decided, Allowed
<1> QED
  BY <1>6, <1>7, ReserveKeepsLimits DEF PolicyInv

LEMMA BeginKeepsPolicy ==
    ASSUME PolicyInv, NEW r \in PolicyRequests, BeginAttempt(r) \/ BeginAlternate(r)
    PROVE  PolicyInv'
<1>1. CASE BeginAttempt(r)
  <2>1. Reserves(r, IF Fits(r) THEN "reserved" ELSE "ended")
    BY <1>1 DEF BeginAttempt, Reserves
  <2> QED
    BY <2>1, ReserveKeepsPolicy
<1>2. CASE BeginAlternate(r)
  <2>1. Reserves(r, IF Fits(r) THEN "failed over" ELSE "ended")
    BY <1>2 DEF BeginAlternate, Reserves
  <2> QED
    BY <2>1, ReserveKeepsPolicy
<1> QED
  BY <1>1, <1>2

LEMMA FailOverKeepsPolicy ==
    ASSUME PolicyInv, NEW r \in PolicyRequests, FailOver(r)
    PROVE  PolicyInv'
<1> DEFINE e         == requests[r].by
           alternate == OperationalFailover(e, requests[r].decision)
<1>1. /\ requests[r].at = "reserved" /\ alternate # Denied /\ UNCHANGED <<document, spent>>
      /\ requests' = [requests EXCEPT ![r].at = "released", ![r].decision = alternate]
  BY DEF FailOver
<1>2. requests \in [PolicyRequests -> Requested] /\ document \in PolicyDocuments
  BY DEF PolicyInv, PolicyTypes
<1>3. e \in Employees /\ Allowed(e, requests[r].ask, requests[r].decision)
  BY <1>1 DEF PolicyInv, Decided
<1>4. Allowed(e, requests[r].ask, alternate)
  BY <1>1, <1>2, <1>3, FailoverIsAllowed
<1>5. alternate \in [alias : DOMAIN PolicyRoutes \cup {NotSet}, output : Limits]
  <2>1. \E alias, output : alternate = Decision(alias, output)
    BY <1>1 DEF OperationalFailover
  <2> QED
    BY <1>4, <2>1 DEF Allowed, Decision
<1> HIDE DEF alternate
<1>6. /\ \A q \in PolicyRequests \ {r} : requests'[q] = requests[q]
      /\ requests'[r] = [requests[r] EXCEPT !.at = "released", !.decision = alternate]
      /\ requests[r] \in Requested
  BY <1>1, <1>2
<1>7. /\ requests'[r].at = "released" /\ requests'[r].by = e
      /\ requests'[r].ask = requests[r].ask /\ requests'[r].decision = alternate
      /\ requests'[r] \in Requested
  BY <1>5, <1>6 DEF Requested
<1>8. PolicyTypes'
  BY <1>1, <1>2, <1>7 DEF PolicyInv, PolicyTypes
<1>9. Decided'
  <2>1. ASSUME NEW q \in PolicyRequests, requests'[q].decision # Denied
        PROVE  requests'[q].by \in Employees
               /\ Allowed(requests'[q].by, requests'[q].ask, requests'[q].decision)
    BY <1>3, <1>4, <1>6, <1>7, <2>1 DEF PolicyInv, Decided
  <2>2. ASSUME NEW q \in PolicyRequests, requests'[q].at \in {"decided", "reserved", "released", "failed over"}
        PROVE  requests'[q].by \in Employees /\ requests'[q].decision # Denied
    BY <1>1, <1>3, <1>6, <1>7, <2>2 DEF PolicyInv, Decided
  <2> QED
    BY <1>1, <2>1, <2>2 DEF Decided, Allowed
<1>10. EveryLimit'
  <2>1. Served(requests'[r]) /\ \A S : Hold(requests'[r], S) = 0
    BY <1>7 DEF Served, Hold, InHold
  <2>2. \A S \in SUBSET Employees : HeldBy(S)' \in Nat /\ HeldBy(S)' <= HeldBy(S)
    BY <1>6, <2>1, HeldAfter DEF PolicyInv
  <2>3. \A S \in SUBSET Employees : SpentBy(S)' = SpentBy(S) /\ SpentBy(S) \in Nat
    BY <1>1, SpentIs DEF SpentBy, PolicyInv
  <2>4. \A S \in SUBSET Employees : HeldBy(S) \in Nat
    BY HeldIs DEF PolicyInv
  <2>5. \A S \in SUBSET Employees : SpentBy(S)' \in Nat /\ HeldBy(S)' \in Nat
                                     /\ SpentBy(S)' + HeldBy(S)' <= SpentBy(S) + HeldBy(S)
    BY <2>2, <2>3, <2>4
  <2> QED
    BY <1>1, <2>5, NoMoreIsKept DEF PolicyInv
<1> QED
  BY <1>8, <1>9, <1>10 DEF PolicyInv

LEMMA SettleKeepsPolicy ==
    ASSUME PolicyInv, NEW r \in PolicyRequests, NEW charge, SettleRequest(r, charge)
    PROVE  PolicyInv'
<1> DEFINE by   == requests[r].by
           hold == PolicyHolds[requests[r].decision.alias]
<1>1. /\ requests[r].at \in InHold /\ document' = document /\ charge \in {0, hold}
      /\ requests' = [requests EXCEPT ![r].at = "ended"]
      /\ spent' = [spent EXCEPT ![by] = @ + charge]
  BY DEF SettleRequest
<1>2. requests \in [PolicyRequests -> Requested] /\ spent \in [Employees -> Nat]
  BY DEF PolicyInv, PolicyTypes
<1>3. by \in Employees /\ charge \in Nat /\ charge <= hold /\ hold \in Nat
  <2>1. by \in Employees
    BY <1>1 DEF PolicyInv, Decided, InHold
  <2>2. requests[r].decision.alias \in DOMAIN PolicyRoutes
    BY <1>1 DEF PolicyInv, Decided, Allowed, InHold
  <2> QED
    BY <1>1, <2>1, <2>2, PolicyAssumption
<1>4. /\ \A q \in PolicyRequests \ {r} : requests'[q] = requests[q]
      /\ requests'[r] = [requests[r] EXCEPT !.at = "ended"] /\ requests[r] \in Requested
  BY <1>1, <1>2
<1>5. /\ requests'[r].at = "ended" /\ requests'[r].by = by
      /\ requests'[r].ask = requests[r].ask /\ requests'[r].decision = requests[r].decision
      /\ requests'[r] \in Requested
  BY <1>4 DEF Requested
<1> HIDE DEF by, hold
<1>6. PolicyTypes'
  <2>1. spent' \in [Employees -> Nat]
    BY <1>1, <1>2, <1>3
  <2> QED
    BY <1>1, <1>2, <1>5, <2>1 DEF PolicyInv, PolicyTypes
<1>7. Decided'
  <2>1. ASSUME NEW q \in PolicyRequests, requests'[q].decision # Denied
        PROVE  requests'[q].by \in Employees
               /\ Allowed(requests'[q].by, requests'[q].ask, requests'[q].decision)
    BY <1>4, <1>5, <2>1 DEF PolicyInv, Decided, by
  <2>2. ASSUME NEW q \in PolicyRequests, requests'[q].at \in {"decided", "reserved", "released", "failed over"}
        PROVE  requests'[q].by \in Employees /\ requests'[q].decision # Denied
    BY <1>4, <1>5, <2>2 DEF PolicyInv, Decided
  <2> QED
    BY <1>1, <2>1, <2>2 DEF Decided, Allowed
<1>8. EveryLimit'
  <2>1. ASSUME NEW S \in SUBSET Employees
        PROVE  SpentBy(S)' \in Nat /\ HeldBy(S)' \in Nat /\ SpentBy(S)' + HeldBy(S)' <= SpentBy(S) + HeldBy(S)
    <3>1. SpentBy(S) \in Nat /\ HeldBy(S) \in Nat
      BY SpentIs, HeldIs DEF PolicyInv
    <3>2. SpentBy(S)' = SpentBy(S) + IF by \in S THEN charge ELSE 0
      BY <1>1, <1>3, SpentAfter DEF PolicyInv
    <3>3. Served(requests'[r]) /\ Hold(requests'[r], S) = 0
      BY <1>5 DEF Served, Hold, InHold
    <3>4. Hold(requests[r], S) = IF by \in S THEN hold ELSE 0
      BY <1>1 DEF Hold, by, hold
    <3>5. HeldBy(S)' \in Nat /\ HeldBy(S)' + Hold(requests[r], S) = HeldBy(S)
      BY <1>4, <3>1, <3>3, HeldAfter DEF PolicyInv
    <3> QED
      BY <1>3, <3>1, <3>2, <3>4, <3>5
  <2> QED
    BY <1>1, <2>1, NoMoreIsKept DEF PolicyInv
<1> QED
  BY <1>6, <1>7, <1>8 DEF PolicyInv

LEMMA PolicyStep == PolicyInv /\ [PolicyNext]_policyVars => PolicyInv'
<1> SUFFICES ASSUME PolicyInv, [PolicyNext]_policyVars
             PROVE  PolicyInv'
  OBVIOUS
<1>1. CASE PolicyNext
  <2>1. PICK r \in PolicyRequests :
           \/ \E e \in Employees : \E ask \in PolicyAsks : Evaluate(r, e, ask)
           \/ BeginAttempt(r) \/ FailOver(r) \/ BeginAlternate(r)
           \/ \E charge \in {0} \cup Range(PolicyHolds) : SettleRequest(r, charge)
    BY <1>1 DEF PolicyNext
  <2> QED
    BY <2>1, EvaluateKeepsPolicy, BeginKeepsPolicy, FailOverKeepsPolicy, SettleKeepsPolicy
<1>2. CASE UNCHANGED policyVars
  <2>1. PolicyTypes' /\ Decided'
    BY <1>2 DEF policyVars, PolicyInv, PolicyTypes, Decided, Allowed
  <2>2. \A S \in SUBSET Employees : SpentBy(S)' = SpentBy(S) /\ HeldBy(S)' = HeldBy(S)
    BY <1>2 DEF policyVars, SpentBy, HeldBy
  <2>3. \A S \in SUBSET Employees : SpentBy(S) \in Nat /\ HeldBy(S) \in Nat
    BY SpentIs, HeldIs DEF PolicyInv
  <2>4. \A S \in SUBSET Employees : SpentBy(S)' \in Nat /\ HeldBy(S)' \in Nat
                                     /\ SpentBy(S)' + HeldBy(S)' <= SpentBy(S) + HeldBy(S)
    BY <2>2, <2>3
  <2>5. EveryLimit'
    BY <1>2, <2>4, NoMoreIsKept DEF policyVars, PolicyInv
  <2> QED
    BY <2>1, <2>5 DEF PolicyInv
<1> QED
  BY <1>1, <1>2

\* Nothing but nothing adds up to nothing.
LEMMA SumOfNothing ==
    ASSUME NEW f, NEW S, IsFiniteSet(S), \A x \in S : f[x] = 0
    PROVE  SumFunctionOnSet(f, S) = 0
<1> DEFINE Good == {U \in SUBSET S : SumFunctionOnSet(f, U) = 0}
<1>1. {} \in Good
  BY SumEmpty
<1>2. ASSUME NEW U \in SUBSET S, U # {}, \A x \in U : U \ {x} \in Good
      PROVE  U \in Good
  <2>1. PICK x \in U : TRUE
    BY <1>2
  <2>2. IsFiniteSet(U) /\ \A y \in U : f[y] \in Nat
    BY <1>2, FS_Subset
  <2>3. SumFunctionOnSet(f, U) = f[x] + SumFunctionOnSet(f, U \ {x})
    BY <2>2, SumElement
  <2> QED
    BY <1>2, <2>3
<1> HIDE DEF Good
<1>3. SUBSET S \subseteq Good
  BY <1>1, <1>2, FiniteSubsetInduction
<1> QED
  BY <1>3 DEF Good

LEMMA PolicyStarts == PolicyInit => PolicyInv
<1> SUFFICES ASSUME PolicyInit
             PROVE  PolicyInv
  OBVIOUS
<1>1. /\ document \in PolicyDocuments
      /\ \A r \in PolicyRequests : requests[r] = [at |-> "new", by |-> NotSet, ask |-> NotSet, decision |-> Denied]
      /\ requests = [r \in PolicyRequests |-> [at |-> "new", by |-> NotSet, ask |-> NotSet, decision |-> Denied]]
      /\ spent = [e \in Employees |-> 0]
  BY DEF PolicyInit, UsableDocuments
<1>2. PolicyTypes
  BY <1>1 DEF PolicyTypes, Requested, Denied, Decision, Limits
<1>3. Decided
  BY <1>1 DEF Decided
<1>4. EveryLimit
  <2>1. \A S \in SUBSET Employees : SpentBy(S) = 0
    <3> SUFFICES ASSUME NEW S \in SUBSET Employees
                 PROVE  SumFunctionOnSet(spent, S) = 0
      BY DEF SpentBy
    <3>1. IsFiniteSet(S) /\ \A e \in S : spent[e] = 0
      BY <1>1, PolicyAssumption, FS_Subset
    <3> QED
      BY <3>1, SumOfNothing
  <2>2. \A S \in SUBSET Employees : HeldBy(S) = 0
    <3> SUFFICES ASSUME NEW S \in SUBSET Employees
                 PROVE  HeldBy(S) = 0
      OBVIOUS
    <3> DEFINE hold == [r \in PolicyRequests |-> Hold(requests[r], S)]
    <3>1. IsFiniteSet(PolicyRequests) /\ \A r \in PolicyRequests : hold[r] = 0
      BY <1>1, PolicyAssumption DEF Hold, InHold
    <3> HIDE DEF hold
    <3>2. SumFunctionOnSet(hold, PolicyRequests) = 0
      BY <3>1, SumOfNothing
    <3> QED
      BY <3>2 DEF HeldBy, hold
  <2>3. \A S \in SUBSET Employees : \A limit \in Limits : Within(S, limit)
    BY <2>1, <2>2 DEF Within, Limits
  <2>4. \A policy \in PoliciesOf(document) : policy.budget \in Limits /\ policy.perActor \in Limits
    BY <1>1, LevelIsPolicy DEF IsPolicy
  <2> QED
    BY <2>3, <2>4 DEF EveryLimit, PolicyLevels, PoliciesOf
<1> QED
  BY <1>2, <1>3, <1>4 DEF PolicyInv

\* Whatever the policies, and however requests are interleaved, what is decided is allowed by every
\* level, and requests together never spend and hold more than a limit (PolicyEngine.evaluate,
\* operational_failover and budget_scopes in policy.py, begin_attempt in store.py).
THEOREM PolicyIsSoundHolds == PolicySpec => []PolicyIsSound
<1>1. PolicyInv => PolicyIsSound
  BY AllowedByEveryLevel, EveryLimitIs DEF PolicyInv, PolicyIsSound
<1> QED
  BY <1>1, PolicyStarts, PolicyStep, PTL DEF PolicySpec

(***************************************************************************)
(* The lifetime of a gateway: for any processes and requests, however they *)
(* overlap, drain and are killed, an attempt whose handler still runs is   *)
(* never marked unknown, and a draining process reports no readiness.      *)
(*                                                                         *)
(* The first is a matter of the owner lock of the work ledger: a process   *)
(* keeps it for as long as a thread of its handles a request, and opens    *)
(* the ledger only after it has it.                                        *)
(***************************************************************************)

Owning == {"owning", "ledger", "bound", "serving", "joining", "closed"}

\* From the lock on, to the end, a process is the owner; its handlers run while it serves or joins them.
OwnerRuns ==
    /\ \A g \in Gateways : gateways[g].phase \in Owning => ledgerOwner = g
    /\ \A x \in Exchanges : Handled(x) => /\ exchanges[x].by \in Gateways
                                          /\ gateways[exchanges[x].by].phase \in {"serving", "joining"}

LifetimeInv == LifetimeTypeOK /\ OwnerRuns

\* A step of one process leaves the others where they are.
LEMMA PhaseIs ==
    ASSUME LifetimeTypeOK, NEW g \in Gateways,
           NEW phase \in {"down", "opened", "owning", "ledger", "bound", "serving", "joining", "closed"}, Phase(g, phase)
    PROVE  /\ gateways' \in [Gateways -> [phase : {"down", "opened", "owning", "ledger", "bound", "serving",
                                                   "joining", "closed"}, accepting : BOOLEAN]]
           /\ gateways'[g].phase = phase /\ \A h \in Gateways \ {g} : gateways'[h] = gateways[h]
BY DEF LifetimeTypeOK, Phase

LEMMA StartingKeeps ==
    ASSUME LifetimeInv, NEW g \in Gateways,
           OpenStore(g) \/ OwnLedger(g) \/ OpenLedger(g) \/ Listen(g) \/ BeginServing(g) \/ FailToStart(g)
    PROVE  LifetimeInv'
<1>1. CASE OpenStore(g)
  <2>1. Phase(g, "opened") /\ gateways[g].phase = "down"
    BY <1>1 DEF OpenStore
  <2>2. LifetimeTypeOK'
    BY <1>1, <2>1, PhaseIs DEF LifetimeInv, LifetimeTypeOK, OpenStore
  <2>3. OwnerRuns'
    BY <1>1, <2>1, PhaseIs DEF LifetimeInv, OwnerRuns, OpenStore, Owning, Handled
  <2> QED
    BY <2>2, <2>3 DEF LifetimeInv
<1>2. CASE OwnLedger(g)
  <2>1. Phase(g, "owning") /\ gateways[g].phase = "opened" /\ ledgerOwner = NoGateway /\ ledgerOwner' = g
    BY <1>2 DEF OwnLedger
  <2>2. LifetimeTypeOK'
    BY <1>2, <2>1, PhaseIs DEF LifetimeInv, LifetimeTypeOK, OwnLedger
  <2>3. \A h \in Gateways \ {g} : gateways[h].phase \notin Owning
    BY <2>1, LifetimeAssumption DEF LifetimeInv, OwnerRuns
  <2>4. OwnerRuns'
    BY <1>2, <2>1, <2>3, PhaseIs DEF LifetimeInv, OwnerRuns, OwnLedger, Handled
  <2> QED
    BY <2>2, <2>4 DEF LifetimeInv
<1>3. CASE OpenLedger(g)
  <2>1. Phase(g, "ledger") /\ gateways[g].phase = "owning"
    BY <1>3 DEF OpenLedger
  <2>2. LifetimeTypeOK'
    BY <1>3, <2>1, PhaseIs DEF LifetimeInv, LifetimeTypeOK, OpenLedger
  <2>3. OwnerRuns'
    BY <1>3, <2>1, PhaseIs DEF LifetimeInv, OwnerRuns, OpenLedger, Owning, Handled
  <2> QED
    BY <2>2, <2>3 DEF LifetimeInv
<1>4. CASE Listen(g)
  <2>1. Phase(g, "bound") /\ gateways[g].phase = "ledger"
    BY <1>4 DEF Listen
  <2>2. LifetimeTypeOK'
    BY <1>4, <2>1, PhaseIs DEF LifetimeInv, LifetimeTypeOK, Listen
  <2>3. OwnerRuns'
    BY <1>4, <2>1, PhaseIs DEF LifetimeInv, OwnerRuns, Listen, Owning, Handled
  <2> QED
    BY <2>2, <2>3 DEF LifetimeInv
<1>5. CASE BeginServing(g)
  <2>1. /\ gateways' = [gateways EXCEPT ![g] = [phase |-> "serving", accepting |-> TRUE]]
        /\ gateways[g].phase = "bound"
    BY <1>5 DEF BeginServing
  <2>2. LifetimeTypeOK'
    BY <1>5, <2>1 DEF LifetimeInv, LifetimeTypeOK, BeginServing
  <2>3. gateways'[g].phase = "serving" /\ \A h \in Gateways \ {g} : gateways'[h] = gateways[h]
    BY <2>1 DEF LifetimeInv, LifetimeTypeOK
  <2>4. OwnerRuns'
    BY <1>5, <2>1, <2>3 DEF LifetimeInv, OwnerRuns, BeginServing, Owning, Handled
  <2> QED
    BY <2>2, <2>4 DEF LifetimeInv
<1>6. CASE FailToStart(g)
  <2>1. /\ gateways' = [gateways EXCEPT ![g] = Down] /\ gateways[g].phase \in {"opened", "owning", "ledger"}
        /\ ledgerOwner' = IF ledgerOwner = g THEN NoGateway ELSE ledgerOwner
    BY <1>6 DEF FailToStart, RemovedFrom
  <2>2. LifetimeTypeOK'
    BY <1>6, <2>1 DEF LifetimeInv, LifetimeTypeOK, FailToStart, Down
  <2>3. gateways'[g].phase = "down" /\ \A h \in Gateways \ {g} : gateways'[h] = gateways[h]
    BY <2>1 DEF LifetimeInv, LifetimeTypeOK, Down
  <2>4. OwnerRuns'
    BY <1>6, <2>1, <2>3 DEF LifetimeInv, OwnerRuns, FailToStart, Owning, Handled
  <2> QED
    BY <2>2, <2>4 DEF LifetimeInv
<1> QED
  BY <1>1, <1>2, <1>3, <1>4, <1>5, <1>6

LEMMA AnswerIs ==
    ASSUME LifetimeTypeOK, NEW x \in Exchanges, NEW at \in {"unsent", "arrived", "admitted", "relaying", "ended"},
           NEW response \in {"none", "error", "started", "complete"},
           exchanges' = [exchanges EXCEPT ![x].at = at, ![x].response = response]
    PROVE  exchanges' \in [Exchanges -> [at : {"unsent", "arrived", "admitted", "relaying", "ended"},
                                         by : Gateways \cup {NoGateway},
                                         response : {"none", "error", "started", "complete"}]]
<1> DEFINE Exchange == [at : {"unsent", "arrived", "admitted", "relaying", "ended"},
                        by : Gateways \cup {NoGateway}, response : {"none", "error", "started", "complete"}]
           half == [exchanges[x] EXCEPT !.at = at]
           new == [half EXCEPT !.response = response]
<1>1. exchanges \in [Exchanges -> Exchange] /\ half \in Exchange
  BY DEF LifetimeTypeOK
<1>2. new \in Exchange
  <2> HIDE DEF half
  <2> QED
    BY <1>1
<1>3. exchanges' = [exchanges EXCEPT ![x] = new]
  OBVIOUS
<1> HIDE DEF Exchange, half, new
<1>4. exchanges' \in [Exchanges -> Exchange]
  BY <1>1, <1>2, <1>3
<1> QED
  BY <1>4 DEF Exchange

\* An exchange keeps its process.
LEMMA ExchangeKeeps ==
    ASSUME LifetimeInv, NEW x \in Exchanges,
           Admit(x) \/ StartResponse(x) \/ SettleExchange(x) \/ FailExchange(x)
    PROVE  LifetimeInv'
<1>1. LifetimeTypeOK'
  <2>1. CASE Admit(x)
    BY <2>1 DEF LifetimeInv, LifetimeTypeOK, Admit
  <2>2. ASSUME NEW at \in {"relaying", "ended"}, NEW response \in {"none", "error", "started", "complete"},
               exchanges' = [exchanges EXCEPT ![x].at = at, ![x].response = response],
               rows' \in [Exchanges -> {"none", "pending", "settled", "unknown"}],
               UNCHANGED <<gateways, probes, ledgerOwner, portOwner, storage>>
        PROVE  LifetimeTypeOK'
    <3>1. exchanges' \in [Exchanges -> [at : {"unsent", "arrived", "admitted", "relaying", "ended"},
                                       by : Gateways \cup {NoGateway},
                                       response : {"none", "error", "started", "complete"}]]
      BY <2>2, AnswerIs DEF LifetimeInv
    <3> QED
      BY <2>2, <3>1 DEF LifetimeInv, LifetimeTypeOK
  <2>3. /\ exchanges[x].response \in {"none", "error", "started", "complete"}
        /\ rows \in [Exchanges -> {"none", "pending", "settled", "unknown"}]
    BY DEF LifetimeInv, LifetimeTypeOK
  <2>4. CASE StartResponse(x)
    BY <2>2, <2>3, <2>4 DEF StartResponse
  <2>5. CASE SettleExchange(x)
    <3>1. PICK response \in {"error", "complete"} :
             exchanges' = [exchanges EXCEPT ![x].at = "ended", ![x].response = response]
      BY <2>5 DEF SettleExchange
    <3>2. /\ rows' \in [Exchanges -> {"none", "pending", "settled", "unknown"}]
          /\ UNCHANGED <<gateways, probes, ledgerOwner, portOwner, storage>>
      BY <2>3, <2>5 DEF SettleExchange
    <3> QED
      BY <2>2, <3>1, <3>2
  <2>6. CASE FailExchange(x)
    <3>1. PICK response \in {"error", exchanges[x].response} :
             exchanges' = [exchanges EXCEPT ![x].at = "ended", ![x].response = response]
      BY <2>6 DEF FailExchange
    <3>2. rows' = rows /\ UNCHANGED <<gateways, probes, ledgerOwner, portOwner, storage>>
      BY <2>6 DEF FailExchange
    <3> QED
      BY <2>2, <2>3, <3>1, <3>2
  <2> QED
    BY <2>1, <2>4, <2>5, <2>6
<1>2. /\ UNCHANGED <<gateways, ledgerOwner>> /\ Handled(x)
      /\ exchanges'[x].by = exchanges[x].by /\ \A y \in Exchanges \ {x} : exchanges'[y] = exchanges[y]
  BY DEF LifetimeInv, LifetimeTypeOK, Admit, StartResponse, SettleExchange, FailExchange, Handled
<1>3. OwnerRuns'
  BY <1>2 DEF LifetimeInv, OwnerRuns, Handled
<1> QED
  BY <1>1, <1>3 DEF LifetimeInv

LEMMA ServingKeeps ==
    ASSUME LifetimeInv, NEW g \in Gateways,
           \/ \E x \in Exchanges : Arrive(g, x)
           \/ AskReady(g) \/ VerifyDependencies(g) \/ ReportReady(g)
    PROVE  LifetimeInv'
<1>1. ASSUME NEW x \in Exchanges, Arrive(g, x)
      PROVE  LifetimeInv'
  <2>1. LifetimeTypeOK'
    BY <1>1 DEF LifetimeInv, LifetimeTypeOK, Arrive
  <2>2. /\ UNCHANGED <<gateways, ledgerOwner>> /\ gateways[g].phase = "serving"
        /\ exchanges'[x].by = g /\ \A y \in Exchanges \ {x} : exchanges'[y] = exchanges[y]
    BY <1>1 DEF LifetimeInv, LifetimeTypeOK, Arrive
  <2>3. OwnerRuns'
    BY <2>2 DEF LifetimeInv, OwnerRuns, Handled
  <2> QED
    BY <2>1, <2>3 DEF LifetimeInv
<1>2. CASE AskReady(g) \/ VerifyDependencies(g) \/ ReportReady(g)
  <2>1. LifetimeTypeOK'
    BY <1>2 DEF LifetimeInv, LifetimeTypeOK, AskReady, VerifyDependencies, ReportReady
  <2>2. OwnerRuns'
    BY <1>2 DEF LifetimeInv, OwnerRuns, Handled, AskReady, VerifyDependencies, ReportReady
  <2> QED
    BY <2>1, <2>2 DEF LifetimeInv
<1> QED
  BY <1>1, <1>2

LEMMA StoppingKeeps ==
    ASSUME LifetimeInv, NEW g \in Gateways,
           BeginDrain(g) \/ CloseListener(g) \/ CloseRuntime(g) \/ ReleaseLedger(g) \/ KillGateway(g)
    PROVE  LifetimeInv'
<1>1. CASE BeginDrain(g)
  <2>1. LifetimeTypeOK'
    BY <1>1 DEF LifetimeInv, LifetimeTypeOK, BeginDrain
  <2>2. \A h \in Gateways : gateways'[h].phase = gateways[h].phase
    BY <1>1 DEF LifetimeInv, LifetimeTypeOK, BeginDrain
  <2>3. OwnerRuns'
    BY <1>1, <2>2 DEF LifetimeInv, OwnerRuns, Handled, BeginDrain
  <2> QED
    BY <2>1, <2>3 DEF LifetimeInv
<1>2. CASE CloseListener(g)
  <2>1. Phase(g, "joining") /\ gateways[g].phase = "serving"
    BY <1>2 DEF CloseListener
  <2>2. LifetimeTypeOK'
    BY <1>2, <2>1, PhaseIs DEF LifetimeInv, LifetimeTypeOK, CloseListener
  <2>3. OwnerRuns'
    BY <1>2, <2>1, PhaseIs DEF LifetimeInv, OwnerRuns, CloseListener, Owning, Handled
  <2> QED
    BY <2>2, <2>3 DEF LifetimeInv
<1>3. CASE CloseRuntime(g)
  <2>1. /\ Phase(g, "closed") /\ gateways[g].phase = "joining"
        /\ \A x \in Exchanges : Handled(x) => exchanges[x].by # g
    BY <1>3 DEF CloseRuntime, HandlersEnded, HandledBy
  <2>2. LifetimeTypeOK'
    BY <1>3, <2>1, PhaseIs DEF LifetimeInv, LifetimeTypeOK, CloseRuntime
  <2>3. OwnerRuns'
    BY <1>3, <2>1, PhaseIs DEF LifetimeInv, OwnerRuns, CloseRuntime, Owning, Handled
  <2> QED
    BY <2>2, <2>3 DEF LifetimeInv
<1>4. CASE ReleaseLedger(g)
  <2>1. /\ gateways' = [gateways EXCEPT ![g] = Down] /\ gateways[g].phase = "closed"
        /\ ledgerOwner' = NoGateway
    BY <1>4 DEF ReleaseLedger
  <2>2. LifetimeTypeOK'
    BY <1>4, <2>1 DEF LifetimeInv, LifetimeTypeOK, ReleaseLedger, Down
  <2>3. gateways'[g].phase = "down" /\ \A h \in Gateways \ {g} : gateways'[h] = gateways[h]
    BY <2>1 DEF LifetimeInv, LifetimeTypeOK, Down
  <2>4. \A h \in Gateways \ {g} : gateways[h].phase \notin Owning
    BY <2>1 DEF LifetimeInv, OwnerRuns, Owning
  <2>5. OwnerRuns'
    BY <1>4, <2>1, <2>3, <2>4 DEF LifetimeInv, OwnerRuns, ReleaseLedger, Owning, Handled
  <2> QED
    BY <2>2, <2>5 DEF LifetimeInv
<1>5. CASE KillGateway(g)
  <2>1. /\ gateways' = [gateways EXCEPT ![g] = Down]
        /\ ledgerOwner' = IF ledgerOwner = g THEN NoGateway ELSE ledgerOwner
        /\ portOwner' = IF portOwner = g THEN NoGateway ELSE portOwner
        /\ probes' = [probes EXCEPT ![g] = "none"] /\ UNCHANGED <<rows, storage>>
    BY <1>5 DEF KillGateway, RemovedFrom
  <2>2. \A x \in Exchanges :
           exchanges'[x] = IF Handled(x) /\ exchanges[x].by = g THEN [exchanges[x] EXCEPT !.at = "ended"]
                           ELSE exchanges[x]
    BY <1>5 DEF KillGateway, HandledBy
  <2>3. \A x \in Exchanges : /\ exchanges'[x] \in [at : {"unsent", "arrived", "admitted", "relaying", "ended"},
                                    by : Gateways \cup {NoGateway},
                                    response : {"none", "error", "started", "complete"}]
                             /\ exchanges'[x].by = exchanges[x].by
                             /\ Handled(x)' => Handled(x) /\ exchanges[x].by # g
    <3> TAKE x \in Exchanges
    <3>1. CASE Handled(x) /\ exchanges[x].by = g
      <4>1. exchanges'[x] = [exchanges[x] EXCEPT !.at = "ended"]
        BY <2>2, <3>1
      <4> QED
        BY <4>1 DEF LifetimeInv, LifetimeTypeOK, Handled
    <3>2. CASE ~(Handled(x) /\ exchanges[x].by = g)
      <4>1. exchanges'[x] = exchanges[x]
        BY <2>2, <3>2
      <4> QED
        BY <3>2, <4>1 DEF LifetimeInv, LifetimeTypeOK, Handled
    <3> QED
      BY <3>1, <3>2
  <2>4. exchanges' \in [Exchanges -> [at : {"unsent", "arrived", "admitted", "relaying", "ended"},
                                    by : Gateways \cup {NoGateway},
                                    response : {"none", "error", "started", "complete"}]]
    BY <1>5, <2>3 DEF KillGateway
  <2>5. LifetimeTypeOK'
    BY <2>1, <2>4 DEF LifetimeInv, LifetimeTypeOK, Down
  <2>6. gateways'[g].phase = "down" /\ \A h \in Gateways \ {g} : gateways'[h] = gateways[h]
    BY <2>1 DEF LifetimeInv, LifetimeTypeOK, Down
  <2>7. OwnerRuns'
    BY <2>1, <2>3, <2>6 DEF LifetimeInv, OwnerRuns, Owning
  <2> QED
    BY <2>5, <2>7 DEF LifetimeInv
<1> QED
  BY <1>1, <1>2, <1>3, <1>4, <1>5

LEMMA LifetimeStarts == LifetimeInit => LifetimeInv
<1> SUFFICES ASSUME LifetimeInit PROVE LifetimeInv
  OBVIOUS
<1>1. LifetimeTypeOK
  BY DEF LifetimeInit, LifetimeTypeOK, Down, Unsent
<1>2. OwnerRuns
  BY DEF LifetimeInit, OwnerRuns, Down, Unsent, Owning, Handled
<1> QED
  BY <1>1, <1>2 DEF LifetimeInv

LEMMA LifetimeGoesOn == LifetimeInv /\ [LifetimeNext]_lifetimeVars => LifetimeInv'
<1> SUFFICES ASSUME LifetimeInv, [LifetimeNext]_lifetimeVars PROVE LifetimeInv'
  OBVIOUS
<1>1. CASE StorageChanges \/ UNCHANGED lifetimeVars
  <2>1. LifetimeTypeOK'
    BY <1>1 DEF StorageChanges, lifetimeVars, LifetimeInv, LifetimeTypeOK
  <2>2. OwnerRuns'
    BY <1>1 DEF StorageChanges, lifetimeVars, LifetimeInv, OwnerRuns, Handled
  <2> QED
    BY <2>1, <2>2 DEF LifetimeInv
<1> QED
  BY <1>1, StartingKeeps, ServingKeeps, StoppingKeeps, ExchangeKeeps DEF LifetimeNext

\* Only a start marks a row unknown, and whoever starts has the lock, so that no handler is left.
LEMMA MarksNoLiveAttempt ==
    ASSUME LifetimeInv, LifetimeNext, NEW x \in Exchanges, rows[x] = "pending", rows'[x] = "unknown"
    PROVE  ~Handled(x)
<1>1. \A y \in Exchanges : Admit(y) => rows'[x] \in {rows[x], "pending"}
  BY DEF Admit, LifetimeInv, LifetimeTypeOK
<1>2. \A y \in Exchanges : SettleExchange(y) => rows'[x] \in {rows[x], "settled"}
  BY DEF SettleExchange, LifetimeInv, LifetimeTypeOK
<1>3. PICK g \in Gateways : OpenLedger(g)
  BY <1>1, <1>2 DEF LifetimeNext, OpenStore, OwnLedger, Listen, BeginServing, FailToStart, Arrive, AskReady,
     VerifyDependencies, ReportReady, BeginDrain, CloseListener, CloseRuntime, ReleaseLedger, KillGateway,
     StartResponse, FailExchange, StorageChanges
<1>4. gateways[g].phase = "owning"
  BY <1>3 DEF OpenLedger
<1> QED
  BY <1>4 DEF LifetimeInv, OwnerRuns, Owning

\* The marker is read again after the dependencies are verified.
LEMMA ReportsAsItAccepts ==
    ASSUME LifetimeInv, LifetimeNext, NEW g \in Gateways, probes'[g] = "ready", probes[g] # "ready"
    PROVE  gateways[g].accepting
<1>1. \A h \in Gateways : AskReady(h) \/ VerifyDependencies(h) => probes'[g] # "ready"
  BY DEF AskReady, VerifyDependencies, LifetimeInv, LifetimeTypeOK
<1>2. \A h \in Gateways : KillGateway(h) => probes'[g] # "ready"
  BY DEF KillGateway, LifetimeInv, LifetimeTypeOK
<1>3. PICK h \in Gateways : ReportReady(h)
  BY <1>1, <1>2 DEF LifetimeNext, OpenStore, OwnLedger, OpenLedger, Listen, BeginServing, FailToStart, Arrive,
     BeginDrain, CloseListener, CloseRuntime, ReleaseLedger, Admit, StartResponse, SettleExchange, FailExchange,
     StorageChanges
<1> QED
  BY <1>3 DEF ReportReady, LifetimeInv, LifetimeTypeOK

\* A gateway that stops, crashes or starts anew marks no attempt unknown whose handler still runs,
\* in whatever process (work_gateway.py opens the ledger only under the owner lock, which server_close
\* lets go after it has joined the handlers), and none reports that it is ready once it drains.
THEOREM LifetimeIsSoundHolds == LifetimeSpec => LifetimeIsSound
<1>1. LifetimeInv /\ [LifetimeNext]_lifetimeVars =>
          [\A x \in Exchanges : rows[x] = "pending" /\ rows'[x] = "unknown" => ~Handled(x)]_lifetimeVars
  BY MarksNoLiveAttempt
<1>2. LifetimeInv /\ [LifetimeNext]_lifetimeVars =>
          [\A g \in Gateways : probes'[g] = "ready" /\ probes[g] # "ready" => gateways[g].accepting]_lifetimeVars
  BY ReportsAsItAccepts
<1> QED
  BY <1>1, <1>2, LifetimeStarts, LifetimeGoesOn, PTL
     DEF LifetimeSpec, LifetimeIsSound, LiveAttemptStaysPending, NeverReadyWhileDraining

(***************************************************************************)
(* Finance evidence.                                                       *)
(***************************************************************************)
\* A native value that is known is the charge it is compared with.
AsCharged(values, name, charge) == name \in DOMAIN values => values[name] = charge

\* What the native evidence knows of the counters an estimate prices is what was charged.
ChargesAgree ==
    /\ AsCharged(answer.native.values, "input", answer.charged.input)
    /\ AsCharged(answer.native.values, "read", answer.charged.read)
    /\ AsCharged(answer.native.values, "output", answer.charged.output)
    /\ answer.protocol = "anthropic" => AsCharged(answer.native.values, "write", answer.charged.write)

\* What is known is a count of the evidence.  A Chat Completion keeps no native evidence.
\* Anthropic's output was seen only when it is known, or is more than any count of the evidence.
AreStored(values) == \A name \in DOMAIN values : values[name] \in 0 .. MaxCount

OutputIsKnown(charged, values) ==
    charged.outputSeen => "output" \in DOMAIN values \/ charged.output > MaxCount

EvidenceKept ==
    /\ answer.protocol \in Protocols /\ answer.events \in Nat
    /\ AreStored(answer.native.values)
    /\ answer.protocol = "openai" => answer.charged.write = 0
    /\ answer.chat => answer.protocol = "openai" /\ DOMAIN answer.native.values = {}
    /\ answer.protocol = "anthropic" =>
          /\ OutputIsKnown(answer.charged, answer.native.values)
          /\ answer.events = 0 => ~answer.charged.outputSeen

FinanceEvidenceInv == ChargesAgree /\ EvidenceKept /\ FinanceEvidenceIsSound

-----------------------------------------------------------------------------
\* A report: an object with counts, or none.
IsUsageReport(report) ==
    /\ report.object => report.present
    /\ \A name \in DOMAIN report.counts : report.counts[name] \in Nat \cup {Malformed}

LEMMA ObserveCharges ==
    ASSUME NEW native, NEW report, IsUsageReport(report), NEW names, NEW name \in names,
           NEW before, AsCharged(native.values, name, before)
    PROVE  AsCharged(Observe(native, report, names).values, name, Latest(report, name, before))
<1>1. CASE ~report.present
  BY <1>1 DEF Observe, Latest, Counted, IsUsageReport
<1>2. CASE report.present /\ ~report.object
  BY <1>2 DEF Observe, Invalid, Latest, Counted, AsCharged
<1>3. CASE report.present /\ report.object
  <2> DEFINE given == names \cap DOMAIN report.counts
             good == {x \in given : report.counts[x] \in 0 .. MaxCount}
             values == [x \in (DOMAIN native.values \ given) \cup good |->
                          IF x \in good THEN report.counts[x] ELSE native.values[x]]
  <2>1. Observe(native, report, names).values = values
    BY <1>3 DEF Observe, Observed
  <2>2. AsCharged(values, name, Latest(report, name, before))
    BY <1>3 DEF AsCharged, Latest, Counted, Malformed
  <2> QED BY <2>1, <2>2
<1> QED BY <1>1, <1>2, <1>3

LEMMA ObserveLeaves ==
    ASSUME NEW native, NEW report, NEW names, NEW name, name \notin names,
           NEW before, AsCharged(native.values, name, before)
    PROVE  AsCharged(Observe(native, report, names).values, name, before)
<1>1. CASE ~report.present
  BY <1>1 DEF Observe
<1>2. CASE report.present /\ ~report.object
  BY <1>2 DEF Observe, Invalid, AsCharged
<1>3. CASE report.present /\ report.object
  BY <1>3 DEF Observe, Observed, AsCharged
<1> QED BY <1>1, <1>2, <1>3

LEMMA ObserveKnows ==
    ASSUME NEW native, NEW report, IsUsageReport(report), NEW names, NEW name \in names,
           Counted(report, name)
    PROVE  name \in DOMAIN Observe(native, report, names).values \/ report.counts[name] > MaxCount
<1>1. report.counts[name] \in Nat /\ report.present /\ report.object /\ name \in DOMAIN report.counts
  BY DEF Counted, IsUsageReport
<1>2. report.counts[name] \in 0 .. MaxCount \/ report.counts[name] > MaxCount
  BY <1>1, EvidenceBoundsAssumption
<1> QED BY <1>1, <1>2 DEF Observe, Observed

LEMMA ObserveStores ==
    ASSUME NEW native, NEW report, NEW names, AreStored(native.values)
    PROVE  AreStored(Observe(native, report, names).values)
<1>1. CASE ~report.present
  BY <1>1 DEF Observe
<1>2. CASE report.present /\ ~report.object
  BY <1>2 DEF Observe, Invalid
<1>3. CASE report.present /\ report.object
  BY <1>3 DEF Observe, Observed, AreStored
<1> QED BY <1>1, <1>2, <1>3

LEMMA ObserveRetains ==
    ASSUME NEW native, NEW report, NEW names, NEW name, name \notin names,
           name \in DOMAIN native.values
    PROVE  name \in DOMAIN Observe(native, report, names).values
<1>1. CASE ~report.present
  BY <1>1 DEF Observe
<1>2. CASE report.present /\ ~report.object
  BY <1>2 DEF Observe, Invalid
<1>3. CASE report.present /\ report.object
  BY <1>3 DEF Observe, Observed
<1> QED BY <1>1, <1>2, <1>3

LEMMA ReportsAreReal ==
    ASSUME NEW report \in Reports.openai \cup Reports.anthropic \cup NoObjects
    PROVE  IsUsageReport(report)
<1>1. CASE report \in NoObjects
  <2>1. report.counts = <<>> /\ ~report.object
    BY <1>1 DEF NoObjects, NoReport, NotAnObject, NullReport
  <2> QED BY <2>1 DEF IsUsageReport
<1>2. CASE report \in Reports.openai \cup Reports.anthropic
  BY <1>2, ReportsAssumption DEF IsUsageReport
<1> QED BY <1>1, <1>2

\* Normalization takes values away and adds sums; it changes no counter.
LEMMA NormalizedKeeps ==
    ASSUME NEW protocol \in Protocols, NEW values, NEW x \in TotalParts,
           x \in DOMAIN Normalized(protocol, values)
    PROVE  x \in DOMAIN values /\ Normalized(protocol, values)[x] = values[x]
<1>1. CASE protocol = "openai"
  BY <1>1 DEF Normalized, WithoutCount, Restrict
<1>2. CASE protocol = "anthropic"
  <2> DEFINE kept == WithoutCount(values, SplitFaults(values))
             total == Summed(kept, TotalParts, "total")
  <2>1. x # "total" /\ x # "tools"
    BY DEF TotalParts
  <2>2. Normalized(protocol, values) = Summed(total, {"search", "fetch"}, "tools")
    BY <1>2 DEF Normalized
  <2>3. x \in DOMAIN total /\ Summed(total, {"search", "fetch"}, "tools")[x] = total[x]
    <3> HIDE DEF total
    <3> QED BY <2>1, <2>2 DEF Summed
  <2>4. x \in DOMAIN kept /\ total[x] = kept[x]
    <3> HIDE DEF kept
    <3> QED BY <2>1, <2>3 DEF Summed
  <2>5. x \in DOMAIN values /\ kept[x] = values[x]
    BY <2>4 DEF WithoutCount, Restrict
  <2> QED BY <2>2, <2>3, <2>4, <2>5
<1> QED BY <1>1, <1>2 DEF Protocols

LEMMA OutputIsNormalized ==
    ASSUME NEW values, "output" \in DOMAIN values
    PROVE  "output" \in DOMAIN Normalized("anthropic", values)
<1> DEFINE kept == WithoutCount(values, SplitFaults(values))
           total == Summed(kept, TotalParts, "total")
<1>1. "output" \notin SplitFaults(values)
  BY DEF SplitFaults
<1>2. "output" \in DOMAIN kept
  BY <1>1 DEF WithoutCount, Restrict
<1>3. "output" \in DOMAIN total
  <2> HIDE DEF kept
  <2> QED BY <1>2 DEF Summed
<1>4. "output" \in DOMAIN Summed(total, {"search", "fetch"}, "tools")
  <2> HIDE DEF total
  <2> QED BY <1>3 DEF Summed
<1> QED BY <1>4 DEF Normalized

-----------------------------------------------------------------------------
\* The charges of a report agree with what is observed of it, when they agreed before.
LEMMA ReceiveKeeps ==
    ASSUME NEW charged, NEW native, NEW said, FinanceEvidenceInv, Receiving,
           Receive(charged, native, said),
           AsCharged(native.values, "input", charged.input),
           AsCharged(native.values, "read", charged.read),
           AsCharged(native.values, "output", charged.output),
           answer.protocol = "anthropic" => AsCharged(native.values, "write", charged.write),
           answer.chat => DOMAIN native.values = {},
           AreStored(native.values), answer.protocol = "openai" => charged.write = 0,
           answer.protocol = "anthropic" => OutputIsKnown(charged, native.values)
    PROVE  FinanceEvidenceInv'
<1>1. /\ answer'.protocol = answer.protocol /\ answer'.chat = answer.chat
      /\ answer'.events = answer.events + 1 /\ answer'.charged = charged /\ answer'.native = native
      /\ settled' = settled
  BY DEF Receive
<1>2. answer'.events \in Nat /\ answer'.events # 0
  BY <1>1 DEF FinanceEvidenceInv, EvidenceKept
<1>3. ChargesAgree'
  BY <1>1 DEF ChargesAgree
<1>4. EvidenceKept'
  BY <1>1, <1>2 DEF FinanceEvidenceInv, EvidenceKept, OutputIsKnown
<1>5. settled.state = "open"
  BY DEF Receiving, NotSettled
<1>6. FinanceEvidenceIsSound'
  BY <1>1, <1>5 DEF FinanceEvidenceIsSound, EveryAnswerSettles, ChargedAsReported
<1> QED BY <1>3, <1>4, <1>6 DEF FinanceEvidenceInv

LEMMA OpenAiObjectKeeps ==
    ASSUME FinanceEvidenceInv, NEW report, IsUsageReport(report), NEW state,
           OpenAiObject(state, report)
    PROVE  FinanceEvidenceInv'
<1> DEFINE native == IF Contradicts(state) THEN Invalid(answer.native) ELSE answer.native
           seen == IF answer.chat THEN native ELSE Observe(native, report, Fields.openai)
           said == [terminal |-> Terminated(state),
                    completed |-> answer.said.completed \/ (answer.stream /\ state = "completed"),
                    chatValid |-> IF report.present /\ ~report.null THEN ReadsComplete(report)
                                 ELSE answer.said.chatValid]
           charged == ChargeOpenAi(answer.charged, report)
<1>1. Receiving /\ answer.protocol = "openai" /\ Receive(charged, seen, said)
  BY DEF OpenAiObject
<1>2. native.values = answer.native.values
  BY DEF Invalid
<1>3. /\ charged.input = Latest(report, "input", answer.charged.input)
      /\ charged.read = Latest(report, "read", answer.charged.read)
      /\ charged.output = Latest(report, "output", answer.charged.output)
      /\ charged.write = answer.charged.write
  <2>4. PICK reasoning : reasoning = Latest(report, "reasoning", answer.charged.reasoning)
    OBVIOUS
  <2> DEFINE half == [ChargeInput(answer.charged, report) EXCEPT !.write = answer.charged.write,
                                                                 !.reasoning = reasoning]
  <2>1. /\ half.input = Latest(report, "input", answer.charged.input) /\ half.output = answer.charged.output
        /\ half.read = Latest(report, "read", answer.charged.read) /\ half.write = answer.charged.write
    <3>1. PICK input, read, write, inputSeen :
             /\ input = Latest(report, "input", answer.charged.input)
             /\ read = Latest(report, "read", answer.charged.read)
             /\ ChargeInput(answer.charged, report) =
                  [input |-> input, output |-> answer.charged.output, read |-> read, write |-> write,
                   reasoning |-> answer.charged.reasoning, inputSeen |-> inputSeen,
                   outputSeen |-> answer.charged.outputSeen]
      BY DEF ChargeInput
    <3> QED BY <3>1
  <2>2. charged = ChargeOutput(half, report)
    BY <2>4 DEF ChargeOpenAi
  <2> HIDE DEF half, charged
  <2>3. /\ charged.input = half.input /\ charged.read = half.read /\ charged.write = half.write
        /\ charged.output = Latest(report, "output", half.output)
    BY <2>2 DEF ChargeOutput
  <2> QED BY <2>1, <2>3
<1>4. answer.chat => DOMAIN seen.values = {}
  BY <1>2 DEF FinanceEvidenceInv, EvidenceKept
<1>9. AreStored(seen.values) /\ charged.write = 0
  <2>1. AreStored(native.values) /\ answer.charged.write = 0
    BY <1>1, <1>2 DEF FinanceEvidenceInv, EvidenceKept
  <2> HIDE DEF native
  <2> QED BY <1>3, <2>1, ObserveStores
<1>5. /\ AsCharged(native.values, "input", answer.charged.input)
      /\ AsCharged(native.values, "read", answer.charged.read)
      /\ AsCharged(native.values, "output", answer.charged.output)
  BY <1>2 DEF FinanceEvidenceInv, ChargesAgree
<1> HIDE DEF native
<1>6. "input" \in Fields.openai /\ "read" \in Fields.openai /\ "output" \in Fields.openai
  BY DEF Fields
<1>7. ~answer.chat => /\ AsCharged(seen.values, "input", charged.input)
                      /\ AsCharged(seen.values, "read", charged.read)
                      /\ AsCharged(seen.values, "output", charged.output)
  BY <1>3, <1>5, <1>6, ObserveCharges
<1>8. /\ AsCharged(seen.values, "input", charged.input)
      /\ AsCharged(seen.values, "read", charged.read)
      /\ AsCharged(seen.values, "output", charged.output)
  BY <1>4, <1>7 DEF AsCharged
<1> HIDE DEF seen, charged, said
<1> QED BY <1>1, <1>4, <1>8, <1>9, ReceiveKeeps

\* What every message of an Anthropic answer starts from.
LEMMA AnthropicIsNoChat ==
    ASSUME FinanceEvidenceInv, answer.protocol = "anthropic"
    PROVE  /\ ~answer.chat
           /\ AsCharged(answer.native.values, "input", answer.charged.input)
           /\ AsCharged(answer.native.values, "read", answer.charged.read)
           /\ AsCharged(answer.native.values, "output", answer.charged.output)
           /\ AsCharged(answer.native.values, "write", answer.charged.write)
           /\ AreStored(answer.native.values) /\ OutputIsKnown(answer.charged, answer.native.values)
           /\ answer.events = 0 => ~answer.charged.outputSeen
BY DEF FinanceEvidenceInv, ChargesAgree, EvidenceKept

LEMMA MessageStartKeeps ==
    ASSUME FinanceEvidenceInv, NEW report, IsUsageReport(report), MessageStart(report)
    PROVE  FinanceEvidenceInv'
<1> DEFINE names == Fields.anthropic \ OutputFields
           seen == Observe(answer.native, report, names)
           charged == ChargeInput(answer.charged, report)
<1>1. Receiving /\ answer.protocol = "anthropic" /\ Receive(charged, seen, answer.said)
  BY DEF MessageStart
<1>2. /\ charged.input = Latest(report, "input", answer.charged.input)
      /\ charged.read = Latest(report, "read", answer.charged.read)
      /\ charged.write = Latest(report, "write", answer.charged.write)
      /\ charged.output = answer.charged.output /\ charged.outputSeen = answer.charged.outputSeen
  BY DEF ChargeInput
<1>3. "input" \in names /\ "read" \in names /\ "write" \in names /\ "output" \notin names
  BY DEF Fields, OutputFields
<1> HIDE DEF names, charged
<1>4. /\ AsCharged(seen.values, "input", charged.input) /\ AsCharged(seen.values, "read", charged.read)
      /\ AsCharged(seen.values, "write", charged.write)
  BY <1>1, <1>2, <1>3, AnthropicIsNoChat, ObserveCharges
<1>5. AsCharged(seen.values, "output", charged.output)
  BY <1>1, <1>2, <1>3, AnthropicIsNoChat, ObserveLeaves
<1>6. AreStored(seen.values) /\ OutputIsKnown(charged, seen.values)
  BY <1>1, <1>2, <1>3, AnthropicIsNoChat, ObserveRetains, ObserveStores DEF OutputIsKnown
<1> HIDE DEF seen
<1> QED BY <1>1, <1>4, <1>5, <1>6, AnthropicIsNoChat, ReceiveKeeps

LEMMA MessageObjectKeeps ==
    ASSUME FinanceEvidenceInv, NEW report, IsUsageReport(report), MessageObject(report)
    PROVE  FinanceEvidenceInv'
<1> DEFINE names == Fields.anthropic
           seen == Observe(answer.native, report, names)
           charged == ChargeOutput(ChargeInput(answer.charged, report), report)
<1>1. Receiving /\ answer.protocol = "anthropic" /\ Receive(charged, seen, answer.said)
  BY DEF MessageObject
<1>2. /\ charged.input = Latest(report, "input", answer.charged.input)
      /\ charged.read = Latest(report, "read", answer.charged.read)
      /\ charged.write = Latest(report, "write", answer.charged.write)
      /\ charged.output = Latest(report, "output", answer.charged.output)
      /\ charged.outputSeen = (answer.charged.outputSeen \/ Counted(report, "output"))
  BY DEF ChargeInput, ChargeOutput
<1>3. "input" \in names /\ "read" \in names /\ "write" \in names /\ "output" \in names
  BY DEF Fields
<1> HIDE DEF names, charged
<1>4. /\ AsCharged(seen.values, "input", charged.input) /\ AsCharged(seen.values, "read", charged.read)
      /\ AsCharged(seen.values, "write", charged.write)
      /\ AsCharged(seen.values, "output", charged.output)
  BY <1>1, <1>2, <1>3, AnthropicIsNoChat, ObserveCharges
<1>5. ~answer.charged.outputSeen
  BY <1>1, AnthropicIsNoChat DEF MessageObject
<1>6. AreStored(seen.values) /\ OutputIsKnown(charged, seen.values)
  <2>1. AreStored(seen.values)
    BY <1>1, AnthropicIsNoChat, ObserveStores
  <2>2. ASSUME charged.outputSeen
        PROVE  "output" \in DOMAIN seen.values \/ charged.output > MaxCount
    <3>1. Counted(report, "output") /\ charged.output = report.counts["output"]
      BY <1>2, <1>5, <2>2 DEF Latest
    <3> HIDE DEF seen
    <3> QED BY <1>3, <3>1, ObserveKnows DEF seen
  <2> QED BY <2>1, <2>2 DEF OutputIsKnown
<1> HIDE DEF seen
<1> QED BY <1>1, <1>4, <1>6, AnthropicIsNoChat, ReceiveKeeps

\* A delta without a count of the output leaves none: neither in the charge nor in the evidence.
LEMMA MessageDeltaKeeps ==
    ASSUME FinanceEvidenceInv, NEW report, IsUsageReport(report), MessageDelta(report)
    PROVE  FinanceEvidenceInv'
<1> DEFINE names == OutputFields \cup {"tier"}
           emptied == [values |-> WithoutCount(answer.native.values, OutputFields),
                       invalid |-> answer.native.invalid]
           seen == ObserveDelta(answer.native, report)
           charged == ChargeOutput(WithoutOutput(answer.charged), report)
<1>1. Receiving /\ answer.protocol = "anthropic" /\ Receive(charged, seen, answer.said)
  BY DEF MessageDelta
<1>2. /\ charged.input = answer.charged.input /\ charged.read = answer.charged.read
      /\ charged.write = answer.charged.write
      /\ charged.output = Latest(report, "output", 0)
      /\ charged.outputSeen => Counted(report, "output")
  BY DEF WithoutOutput, ChargeOutput
<1>3. /\ "input" \notin names /\ "read" \notin names /\ "write" \notin names /\ "output" \in names
      /\ "input" \notin OutputFields /\ "read" \notin OutputFields /\ "write" \notin OutputFields
      /\ "output" \in OutputFields
  BY DEF OutputFields
<1>4. /\ AsCharged(emptied.values, "input", charged.input) /\ AsCharged(emptied.values, "read", charged.read)
      /\ AsCharged(emptied.values, "write", charged.write)
      /\ "output" \notin DOMAIN emptied.values /\ AreStored(emptied.values)
  <2> HIDE DEF charged, names
  <2> QED BY <1>1, <1>2, <1>3, AnthropicIsNoChat DEF AsCharged, WithoutCount, Restrict, AreStored
<1>5. seen = IF ~report.present THEN Invalid(emptied) ELSE Observe(emptied, report, names)
  BY DEF ObserveDelta
<1> HIDE DEF names, charged, emptied, seen
<1>6. CASE ~report.present
  <2>1. seen.values = emptied.values
    BY <1>5, <1>6 DEF Invalid
  <2>2. ~charged.outputSeen
    BY <1>2, <1>6 DEF Counted, IsUsageReport
  <2> QED BY <1>1, <1>4, <2>1, <2>2, AnthropicIsNoChat, ReceiveKeeps DEF AsCharged, OutputIsKnown
<1>7. CASE report.present
  <2>1. seen = Observe(emptied, report, names)
    BY <1>5, <1>7
  <2>2. /\ AsCharged(seen.values, "input", charged.input) /\ AsCharged(seen.values, "read", charged.read)
        /\ AsCharged(seen.values, "write", charged.write)
    BY <1>3, <1>4, <2>1, ObserveLeaves
  <2>3. AsCharged(emptied.values, "output", 0)
    BY <1>4 DEF AsCharged
  <2>4. AsCharged(seen.values, "output", charged.output)
    BY <1>2, <1>3, <2>1, <2>3, ObserveCharges
  <2>5. OutputIsKnown(charged, seen.values)
    <3>1. ASSUME charged.outputSeen
          PROVE  "output" \in DOMAIN seen.values \/ charged.output > MaxCount
      <4>1. Counted(report, "output") /\ charged.output = report.counts["output"]
        BY <1>2, <3>1 DEF Latest
      <4> QED BY <1>3, <2>1, <4>1, ObserveKnows
    <3> QED BY <3>1 DEF OutputIsKnown
  <2>6. AreStored(seen.values)
    BY <1>4, <2>1, ObserveStores
  <2> QED BY <1>1, <2>2, <2>4, <2>5, <2>6, AnthropicIsNoChat, ReceiveKeeps
<1> QED BY <1>6, <1>7

\* A marker and unreadable data charge nothing.
LEMMA NothingIsCharged ==
    ASSUME FinanceEvidenceInv, CompletionMarker \/ Unreadable
    PROVE  FinanceEvidenceInv'
<1>1. PICK native, said : /\ Receiving /\ Receive(answer.charged, native, said)
                          /\ native.values = answer.native.values
  BY DEF CompletionMarker, Unreadable, Invalid
<1>2. /\ AsCharged(native.values, "input", answer.charged.input)
      /\ AsCharged(native.values, "read", answer.charged.read)
      /\ AsCharged(native.values, "output", answer.charged.output)
      /\ answer.protocol = "anthropic" => AsCharged(native.values, "write", answer.charged.write)
      /\ answer.chat => DOMAIN native.values = {}
      /\ AreStored(native.values) /\ (answer.protocol = "openai" => answer.charged.write = 0)
      /\ answer.protocol = "anthropic" => OutputIsKnown(answer.charged, native.values)
  BY <1>1 DEF FinanceEvidenceInv, ChargesAgree, EvidenceKept
<1> QED BY <1>1, <1>2, ReceiveKeeps

-----------------------------------------------------------------------------
\* What is observed of an answer is an observation: complete, partial or absent.
LEMMA ObservationIsOne ==
    ASSUME NEW protocol, NEW native
    PROVE  LET seen == Observation(protocol, native)
           IN  /\ IsObservation(protocol, seen)
               /\ seen.reason \in {"none", "provider_usage_invalid", "provider_usage_absent",
                                   "provider_usage_incomplete"}
               /\ seen.state \in {"absent", "partial", "complete"}
               /\ seen.state = "absent" => DOMAIN native.values = {} /\ DOMAIN seen.counts = {}
               /\ seen.state # "absent" => seen.counts = Normalized(protocol, native.values)
<1> DEFINE wrong == IntrinsicallyInvalid(protocol, native.values)
           required == Required[protocol] \subseteq DOMAIN native.values
           normal == Normalized(protocol, native.values)
           seen == Observation(protocol, native)
<1>1. CASE DOMAIN native.values = {}
  <2>1. PICK reason \in {"provider_usage_invalid", "provider_usage_absent"} : seen = Absent(reason)
    BY <1>1 DEF Observation
  <2>2. seen = [state |-> "absent", reason |-> reason, values |-> <<>>, counts |-> <<>>]
    BY <2>1 DEF Absent
  <2> HIDE DEF seen
  <2>3. DOMAIN seen.values = {} /\ DOMAIN seen.counts = {}
    BY <2>2
  <2>4. IsObservation(protocol, seen)
    BY <2>2, <2>3 DEF IsObservation
  <2> USE DEF seen
  <2> QED BY <1>1, <2>2, <2>3, <2>4
<1>2. CASE DOMAIN native.values # {} /\ required /\ ~native.invalid /\ ~wrong
  <2>1. seen = [state |-> "complete", reason |-> "none", values |-> native.values, counts |-> normal]
    BY <1>2 DEF Observation
  <2> HIDE DEF seen
  <2>2. IsObservation(protocol, seen)
    BY <1>2, <2>1 DEF IsObservation
  <2> USE DEF seen
  <2> QED BY <2>1, <2>2
<1>3. CASE DOMAIN native.values # {} /\ (native.invalid \/ wrong)
  <2>1. seen = [state |-> "partial", reason |-> "provider_usage_invalid", values |-> native.values,
                counts |-> normal]
    BY <1>3 DEF Observation
  <2> HIDE DEF seen
  <2>2. IsObservation(protocol, seen)
    BY <1>3, <2>1 DEF IsObservation
  <2> USE DEF seen
  <2> QED BY <2>1, <2>2
<1>4. CASE DOMAIN native.values # {} /\ ~required /\ ~native.invalid /\ ~wrong
  <2>1. seen = [state |-> "partial", reason |-> "provider_usage_incomplete", values |-> native.values,
                counts |-> normal]
    BY <1>4 DEF Observation
  <2> HIDE DEF seen
  <2>2. IsObservation(protocol, seen)
    BY <1>4, <2>1 DEF IsObservation
  <2> USE DEF seen
  <2> QED BY <2>1, <2>2
<1> QED BY <1>1, <1>2, <1>3, <1>4

\* An estimate prices counters that are all known; the name of a missing one is another.
LEMMA EstimateIsPriced ==
    ASSUME NEW protocol \in Protocols, NEW seen
    PROVE  LET estimate == Estimate(protocol, seen)
           IN  /\ estimate.reason \in {"missing_native_usage", "invalid_native_usage",
                                       "estimate_outside_precision", "estimated"}
               /\ estimate.reason = "estimated" =>
                     /\ Priced(protocol, seen) = "estimated" /\ TotalParts \subseteq DOMAIN seen.counts
                     /\ ~(estimate.amount > MaxCount)
<1> DEFINE estimate == Estimate(protocol, seen)
           amount == Price(PlainInput(protocol, seen.counts["input"], seen.counts["read"], seen.counts["write"]),
                           seen.counts["read"], seen.counts["write"], seen.counts["output"])
<1>1. PICK reason : reason = Priced(protocol, seen)
  OBVIOUS
<1>2. /\ reason \in {"missing_native_usage", "invalid_native_usage", "estimated"}
      /\ reason = "estimated" => TotalParts \subseteq DOMAIN seen.counts
  BY <1>1 DEF Priced, Knows
<1>3. estimate = IF reason # "estimated" THEN [reason |-> reason, amount |-> 0]
                 ELSE IF amount > MaxCount THEN [reason |-> "estimate_outside_precision", amount |-> 0]
                 ELSE [reason |-> reason, amount |-> amount]
  BY <1>1 DEF Estimate
<1> HIDE DEF amount, estimate
<1>4. /\ estimate.reason \in {"missing_native_usage", "invalid_native_usage",
                              "estimate_outside_precision", "estimated"}
      /\ estimate.reason = "estimated" => reason = "estimated" /\ ~(estimate.amount > MaxCount)
  BY <1>2, <1>3
<1> USE DEF estimate
<1> QED BY <1>1, <1>2, <1>4

LEMMA ConcludeUnknownIsSound ==
    ASSUME FinanceEvidenceInv, NEW seen, IsObservation(answer.protocol, seen),
           seen.state # "complete", UNCHANGED answer,
           Conclude([state |-> "outcome_unknown", usage |-> FALSE, seen |-> seen,
                     estimate |-> [reason |-> "attempt_outcome_unknown", amount |-> 0]], NoUsage, 0)
    PROVE  FinanceEvidenceInv'
<1> DEFINE evidence == [state |-> "outcome_unknown", usage |-> FALSE, seen |-> seen,
                        estimate |-> [reason |-> "attempt_outcome_unknown", amount |-> 0]]
<1>1. IsEvidence(answer.protocol, evidence)
  BY DEF IsEvidence
<1>2. settled'.state = "outcome_unknown"
  <2>1. ~TooLarge(NoUsage, 0)
    BY EvidenceBoundsAssumption DEF TooLarge, NoUsage
  <2> QED BY <1>1, <2>1 DEF Conclude
<1>3. FinanceEvidenceIsSound'
  BY <1>2 DEF FinanceEvidenceIsSound, EveryAnswerSettles, ChargedAsReported
<1>4. ChargesAgree' /\ EvidenceKept'
  BY DEF FinanceEvidenceInv, ChargesAgree, EvidenceKept
<1> QED BY <1>3, <1>4 DEF FinanceEvidenceInv

LEMMA UnknownIsObserved ==
    ASSUME NEW protocol, NEW native,
           NEW reason \in {"provider_transport_ambiguous", "provider_stream_interrupted", "stale_pending"}
    PROVE  LET seen == UnknownObservation(Observation(protocol, native), reason)
           IN  IsObservation(protocol, seen) /\ seen.state # "complete"
<1>1. PICK before : before = Observation(protocol, native)
  OBVIOUS
<1>2. /\ IsObservation(protocol, before) /\ before.state \in {"absent", "partial", "complete"}
  BY <1>1, ObservationIsOne
<1>3. CASE before.state = "absent"
  <2>1. UnknownObservation(before, reason) = Absent(reason)
    BY <1>3 DEF UnknownObservation
  <2>2. IsObservation(protocol, Absent(reason)) /\ Absent(reason).state # "complete"
    BY DEF Absent, IsObservation
  <2> QED BY <1>1, <2>1, <2>2
<1>4. CASE before.state # "absent"
  <2>1. PICK state, why, values, counts :
           before = [state |-> state, reason |-> why, values |-> values, counts |-> counts]
    BY <1>1 DEF Observation, Absent
  <2>2. UnknownObservation(before, reason) =
           [state |-> "partial", reason |-> reason, values |-> values, counts |-> counts]
    BY <1>4, <2>1 DEF UnknownObservation
  <2>3. DOMAIN values # {} /\ counts = Normalized(protocol, values)
    BY <1>2, <1>4, <2>1 DEF IsObservation
  <2>4. PICK seen : seen = UnknownObservation(before, reason)
    OBVIOUS
  <2>5. IsObservation(protocol, seen) /\ seen.state # "complete"
    BY <2>2, <2>3, <2>4 DEF IsObservation
  <2> QED BY <1>1, <2>4, <2>5
<1> QED BY <1>3, <1>4

\* An attempt whose outcome is known is charged what its evidence says.
LEMMA ConcludeKnownIsSound ==
    ASSUME FinanceEvidenceInv, NEW state \in {"succeeded", "failed", "rate_limited"},
           state = "succeeded" => EvidenceComplete, UNCHANGED answer, ConcludeKnown(state)
    PROVE  FinanceEvidenceInv'
<1> DEFINE evidence == [state |-> state, usage |-> TRUE, seen |-> Seen,
                        estimate |-> Estimate(answer.protocol, Seen)]
           charged == answer.charged
           cost == IF evidence.estimate.reason = "estimated" THEN evidence.estimate.amount ELSE ChargedCost
           values == answer.native.values
           counts == Seen.counts
<1>1. answer.protocol \in Protocols
  BY DEF FinanceEvidenceInv, EvidenceKept
<1>2. /\ IsObservation(answer.protocol, Seen)
      /\ Seen.reason \in {"none", "provider_usage_invalid", "provider_usage_absent",
                          "provider_usage_incomplete"}
      /\ Seen.state = "absent" => DOMAIN values = {} /\ DOMAIN counts = {}
      /\ Seen.state # "absent" => counts = Normalized(answer.protocol, values)
  BY ObservationIsOne DEF Seen
<1>3. /\ evidence.estimate.reason \in {"missing_native_usage", "invalid_native_usage",
                                       "estimate_outside_precision", "estimated"}
      /\ evidence.estimate.reason = "estimated" =>
            /\ Priced(answer.protocol, Seen) = "estimated" /\ TotalParts \subseteq DOMAIN counts
            /\ ~(evidence.estimate.amount > MaxCount)
  BY <1>1, EstimateIsPriced
<1>4. IsEvidence(answer.protocol, evidence)
  <2>1. PICK seen, estimate : seen = Seen /\ estimate = Estimate(answer.protocol, Seen)
    OBVIOUS
  <2>2. evidence = [state |-> state, usage |-> TRUE, seen |-> seen, estimate |-> estimate]
    BY <2>1
  <2> HIDE DEF evidence
  <2> QED BY <1>2, <1>3, <2>1, <2>2 DEF IsEvidence, UnknownReasons
<1> DEFINE outcome == IF TooLarge(charged, cost) THEN "pending" ELSE state
<1>5. settled' = [state |-> outcome, evidence |-> evidence, charged |-> charged, cost |-> cost]
  BY <1>4 DEF Conclude, ConcludeKnown
<1>17. evidence.state = state
  OBVIOUS
<1>6. \A x \in TotalParts : x \in DOMAIN counts => x \in DOMAIN values /\ counts[x] = values[x]
  BY <1>1, <1>2, NormalizedKeeps
<1>7. ("output" \in DOMAIN values /\ answer.protocol = "anthropic") => "output" \in DOMAIN counts
  BY <1>2, OutputIsNormalized
<1>8. evidence.seen = Seen
  OBVIOUS
<1> HIDE DEF evidence, cost, counts, values, outcome
<1>9. /\ settled'.state = outcome /\ settled'.evidence = evidence /\ settled'.charged = charged
      /\ settled'.cost = cost
  BY <1>5
<1>10. "input" \in TotalParts /\ "read" \in TotalParts /\ "write" \in TotalParts /\ "output" \in TotalParts
  BY DEF TotalParts
<1>11. /\ AsCharged(values, "input", charged.input) /\ AsCharged(values, "read", charged.read)
       /\ AsCharged(values, "output", charged.output)
       /\ answer.protocol = "anthropic" => AsCharged(values, "write", charged.write)
  BY DEF values, FinanceEvidenceInv, ChargesAgree
<1>12. evidence.estimate.reason = "estimated" =>
          /\ charged.input = counts["input"] /\ charged.output = counts["output"]
          /\ charged.read = counts["read"]
          /\ answer.protocol = "anthropic" => charged.write = counts["write"]
          /\ cost = evidence.estimate.amount
  BY <1>3, <1>6, <1>10, <1>11 DEF AsCharged, cost
<1>18. outcome \in {state, "pending"} /\ (outcome = "pending" <=> TooLarge(charged, cost))
  BY DEF outcome
<1>13. (answer.protocol = "anthropic" /\ outcome = "succeeded") =>
          "output" \in DOMAIN counts /\ charged.output = counts["output"]
  <2>1. (answer.protocol = "anthropic" /\ outcome = "succeeded") => "output" \in DOMAIN values
    <3>1. outcome = "succeeded" => state = "succeeded" /\ ~(charged.output > MaxCount)
      BY <1>18 DEF TooLarge
    <3> QED BY <3>1 DEF EvidenceComplete, FinanceEvidenceInv, EvidenceKept, OutputIsKnown, values
  <2> QED BY <1>6, <1>7, <1>10, <1>11, <2>1 DEF AsCharged
<1>14. ChargedAsReported'
  <2>1. settled'.evidence.seen.counts = counts
    BY <1>8, <1>9 DEF counts
  <2> QED BY <1>9, <1>12, <1>13, <2>1 DEF ChargedAsReported
<1>15. EveryAnswerSettles'
  <2>1. ASSUME evidence.estimate.reason = "estimated", TooLarge(charged, cost)
        PROVE  charged.reasoning > MaxCount
    <3>1. /\ "input" \in DOMAIN values /\ "read" \in DOMAIN values
          /\ "write" \in DOMAIN values /\ "output" \in DOMAIN values
      BY <1>3, <1>6, <1>10, <2>1
    <3>2. AreStored(values) /\ (answer.protocol = "openai" => charged.write = 0)
      BY DEF FinanceEvidenceInv, EvidenceKept, values
    <3>3. /\ charged.input \in 0 .. MaxCount /\ charged.read \in 0 .. MaxCount
          /\ charged.output \in 0 .. MaxCount
      BY <1>11, <3>1, <3>2 DEF AsCharged, AreStored
    <3>4. charged.write \in 0 .. MaxCount
      BY <1>1, <1>11, <3>1, <3>2, EvidenceBoundsAssumption DEF AsCharged, AreStored, Protocols
    <3>5. ~(cost > MaxCount)
      BY <1>3, <1>12, <2>1
    <3> HIDE DEF charged
    <3> QED BY <2>1, <3>3, <3>4, <3>5, EvidenceBoundsAssumption DEF TooLarge
  <2>2. answer'.protocol = answer.protocol
    OBVIOUS
  <2>3. IsEvidence(answer.protocol, evidence) /\ evidence.state # "outcome_unknown"
    BY <1>4, <1>17
  <2> QED BY <1>9, <1>18, <2>1, <2>2, <2>3 DEF EveryAnswerSettles
<1>16. ChargesAgree' /\ EvidenceKept'
  BY DEF FinanceEvidenceInv, ChargesAgree, EvidenceKept
<1> QED BY <1>14, <1>15, <1>16 DEF FinanceEvidenceInv, FinanceEvidenceIsSound

LEMMA EndAnswerKeeps ==
    ASSUME FinanceEvidenceInv, NEW status, NEW downstreamOk, EndAnswer(status, downstreamOk)
    PROVE  FinanceEvidenceInv'
<1>1. UNCHANGED answer
  BY DEF EndAnswer
<1>2. CASE ConcludeKnown("failed") \/ ConcludeKnown("rate_limited")
           \/ (EvidenceComplete /\ ConcludeKnown("succeeded"))
  BY <1>1, <1>2, ConcludeKnownIsSound
<1>3. CASE \E reason \in {"provider_transport_ambiguous", "provider_stream_interrupted"} :
              ConcludeUnknown(reason)
  <2>1. PICK reason \in {"provider_transport_ambiguous", "provider_stream_interrupted"} :
           ConcludeUnknown(reason)
    BY <1>3
  <2>2. PICK seen : seen = UnknownObservation(Seen, reason)
    OBVIOUS
  <2>3. IsObservation(answer.protocol, seen) /\ seen.state # "complete"
    BY <2>2, UnknownIsObserved DEF Seen
  <2>4. Conclude([state |-> "outcome_unknown", usage |-> FALSE, seen |-> seen,
                  estimate |-> [reason |-> "attempt_outcome_unknown", amount |-> 0]], NoUsage, 0)
    BY <2>1, <2>2 DEF ConcludeUnknown
  <2> QED BY <1>1, <2>3, <2>4, ConcludeUnknownIsSound
<1> QED BY <1>2, <1>3 DEF EndAnswer

LEMMA SweepStaleKeeps ==
    ASSUME FinanceEvidenceInv, SweepStale
    PROVE  FinanceEvidenceInv'
<1>1. PICK seen : seen = Absent("stale_pending")
  OBVIOUS
<1>2. IsObservation(answer.protocol, seen) /\ seen.state # "complete"
  BY <1>1 DEF Absent, IsObservation
<1> QED BY <1>1, <1>2, ConcludeUnknownIsSound DEF SweepStale

LEMMA FinanceEvidenceStarts ==
    ASSUME FinanceEvidenceInit
    PROVE  FinanceEvidenceInv
<1>1. PICK protocol \in Protocols, stream \in BOOLEAN, chat \in BOOLEAN :
         (chat => protocol = "openai") /\ answer = NewAnswer(protocol, stream, chat)
  BY DEF FinanceEvidenceInit
<1>2. /\ answer.protocol = protocol /\ answer.chat = chat /\ answer.events = 0
      /\ answer.charged.outputSeen = FALSE /\ answer.native.values = <<>> /\ answer.charged.write = 0
  BY <1>1 DEF NewAnswer, NoUsage
<1>3. DOMAIN answer.native.values = {}
  BY <1>2
<1>4. ChargesAgree
  BY <1>3 DEF ChargesAgree, AsCharged
<1>5. EvidenceKept
  BY <1>1, <1>2, <1>3 DEF EvidenceKept, AreStored, OutputIsKnown
<1>6. settled.state = "open"
  BY DEF FinanceEvidenceInit, NotSettled
<1> QED BY <1>4, <1>5, <1>6 DEF FinanceEvidenceInv, FinanceEvidenceIsSound, EveryAnswerSettles, ChargedAsReported

LEMMA FinanceEvidenceKeeps ==
    ASSUME FinanceEvidenceInv, [FinanceEvidenceNext]_financeEvidenceVars
    PROVE  FinanceEvidenceInv'
<1>1. CASE \E report \in Reports.openai \cup NoObjects,
              state \in {"none", "completed", "failed", "incomplete"} : OpenAiObject(state, report)
  BY <1>1, ReportsAreReal, OpenAiObjectKeeps
<1>2. CASE \E report \in Reports.anthropic \cup NoObjects :
              MessageStart(report) \/ MessageDelta(report) \/ MessageObject(report)
  BY <1>2, ReportsAreReal, MessageStartKeeps, MessageDeltaKeeps, MessageObjectKeeps
<1>3. CASE CompletionMarker \/ Unreadable
  BY <1>3, NothingIsCharged
<1>4. CASE SweepStale
  BY <1>4, SweepStaleKeeps
<1>5. CASE \E status \in {200, 429, 500}, downstreamOk \in BOOLEAN : EndAnswer(status, downstreamOk)
  BY <1>5, EndAnswerKeeps
<1>6. CASE UNCHANGED financeEvidenceVars
  BY <1>6 DEF financeEvidenceVars, FinanceEvidenceInv, FinanceEvidenceIsSound, EveryAnswerSettles,
              ChargedAsReported, ChargesAgree, EvidenceKept
<1> QED BY <1>1, <1>2, <1>3, <1>4, <1>5, <1>6 DEF FinanceEvidenceNext

\* Whatever a provider reports, in whatever order, and however its answer ends, the evidence made of
\* the answer is accepted by its validator (store.py _append_finance_attempt_evidence_in_connection),
\* and the counters and the cost of the usage row are those of that evidence.  An attempt stays
\* pending after its answer only for a count or a cost that no row holds (_record_in_connection).
THEOREM FinanceEvidenceIsSoundHolds == FinanceEvidenceSpec => []FinanceEvidenceIsSound
<1>1. FinanceEvidenceInv => FinanceEvidenceIsSound
  BY DEF FinanceEvidenceInv
<1> QED BY <1>1, FinanceEvidenceStarts, FinanceEvidenceKeeps, PTL DEF FinanceEvidenceSpec

(***************************************************************************)
(* The schema of the gateway's file: for any gateways of any versions that *)
(* open, upgrade, fail at and write one file, it opens again and loses no  *)
(* audit entry.                                                            *)
(*                                                                         *)
(* What is committed is always a file of one version: a version is read    *)
(* before the lock is taken, and the row that the transaction inserts first*)
(* is there already when another gateway has come past that version.       *)
(***************************************************************************)

\* What a migration makes and its shape check asks for; and the triggers of the entries table.
Makes(v) == Migrations[v].adds \cup Migrations[v].own
TriggerNames == {"entries_kept", "attempt_source", "collection_source", "account_source", "linear_source", "linear_pages",
                 "association_source"}

\* What a migration makes is there after it, and a rebuild puts back the triggers of all versions before.
LEMMA MigrationsAre ==
    /\ Migrations[1] = EvidenceColumnsMigration
    /\ Migrations[2] = ReservationColumnsMigration
    /\ Migrations[3] = RequestAttemptsMigration
    /\ Migrations[4] = AuditEntriesMigration
    /\ Migrations[5] = RegistryMigration
    /\ Migrations[6] = AttributionMigration
    /\ Migrations[7] = OutcomesMigration
    /\ Migrations[8] = FinanceMigration
    /\ Migrations[9] = BudgetsMigration
    /\ Migrations[10] = ReliabilityMigration
    /\ Migrations[11] = FinanceAttemptsMigration
    /\ Migrations[12] = FinanceCollectionsMigration
    /\ Migrations[13] = AccountBindingsMigration
    /\ Migrations[14] = LinearMigration
    /\ Migrations[15] = LinearSnapshotsMigration
    /\ Migrations[16] = AssociationsMigration
    /\ Migrations[17] = ScorecardsMigration
    /\ Migrations[18] = RoleViewsMigration
    /\ Migrations[19] = RecommendationsMigration
    /\ Migrations[20] = TranslatedMetricsMigration
BY DEF Migrations

\* The version whose migration makes a trigger of the entries table.
IsMadeBy(t, v) ==
    \/ t = "entries_kept" /\ v = 4
    \/ t = "attempt_source" /\ v = 11
    \/ t = "collection_source" /\ v = 12
    \/ t = "account_source" /\ v = 13
    \/ t = "linear_source" /\ v = 14
    \/ t = "linear_pages" /\ v = 15
    \/ t = "association_source" /\ v = 16

\* A migration makes its objects and one trigger at most; a rebuild puts back those made so far.
IsMigration(v) ==
    /\ v \notin 11..16 => Migrations[v].drops = {}
    /\ \A t \in Makes(v) \cap TriggerNames : IsMadeBy(t, v)
    /\ v \in 11..16 => \A w \in 1..v : \A t \in TriggerNames : IsMadeBy(t, w) => t \in Migrations[v].putsBack
    /\ Migrations[v].putsBack \subseteq TriggerNames
    /\ Makes(v) \subseteq Migrations[v].adds \cup Migrations[v].putsBack

LEMMA PlainOne ==
    ASSUME NEW v \in SchemaVersions \ 11..16, NEW objects, Migrations[v] = Migration(objects),
           objects \cap TriggerNames = {}
    PROVE  IsMigration(v)
<1>1. /\ Migrations[v].adds = objects /\ Migrations[v].own = {}
      /\ Migrations[v].putsBack = {} /\ Migrations[v].drops = {}
  BY DEF Migration
<1>2. Makes(v) = objects
  BY <1>1 DEF Makes
<1> QED BY <1>1, <1>2 DEF IsMigration

LEMMA RebuildOne ==
    ASSUME NEW v \in 11..16, NEW object, NEW drops, NEW putsBack, NEW own,
           Migrations[v] = Rebuild(object, drops, putsBack, {own}), object \notin TriggerNames, IsMadeBy(own, v),
           own \in putsBack, putsBack \subseteq TriggerNames,
           \A w \in 1..v : \A t \in TriggerNames : IsMadeBy(t, w) => t \in {"entries_kept"} \cup putsBack
    PROVE  IsMigration(v)
<1>1. /\ Migrations[v].adds = {object} /\ Migrations[v].own = {own}
      /\ Migrations[v].putsBack = {"entries_kept"} \cup putsBack
  BY DEF Rebuild
<1>2. Makes(v) = {object, own}
  BY <1>1 DEF Makes
<1>3. "entries_kept" \in TriggerNames
  BY DEF TriggerNames
<1> QED BY <1>1, <1>2, <1>3 DEF IsMigration

LEMMA PlainOnes == \A v \in SchemaVersions \ ({4} \cup 11..16) : IsMigration(v)
<1>1. IsMigration(1)
  BY PlainOne, MigrationsAre DEF EvidenceColumnsMigration, TriggerNames, SchemaVersions
<1>2. IsMigration(2)
  BY PlainOne, MigrationsAre DEF ReservationColumnsMigration, TriggerNames, SchemaVersions
<1>3. IsMigration(3)
  BY PlainOne, MigrationsAre DEF RequestAttemptsMigration, TriggerNames, SchemaVersions
<1>4. IsMigration(5)
  BY PlainOne, MigrationsAre DEF RegistryMigration, TriggerNames, SchemaVersions
<1>5. IsMigration(6)
  BY PlainOne, MigrationsAre DEF AttributionMigration, TriggerNames, SchemaVersions
<1>6. IsMigration(7)
  BY PlainOne, MigrationsAre DEF OutcomesMigration, TriggerNames, SchemaVersions
<1>7. IsMigration(8)
  BY PlainOne, MigrationsAre DEF FinanceMigration, TriggerNames, SchemaVersions
<1>8. IsMigration(9)
  BY PlainOne, MigrationsAre DEF BudgetsMigration, TriggerNames, SchemaVersions
<1>9. IsMigration(10)
  BY PlainOne, MigrationsAre DEF ReliabilityMigration, TriggerNames, SchemaVersions
<1>10. IsMigration(17)
  BY PlainOne, MigrationsAre DEF ScorecardsMigration, TriggerNames, SchemaVersions
<1>11. IsMigration(18)
  BY PlainOne, MigrationsAre DEF RoleViewsMigration, TriggerNames, SchemaVersions
<1>12. IsMigration(19)
  BY PlainOne, MigrationsAre DEF RecommendationsMigration, TriggerNames, SchemaVersions
<1>13. IsMigration(20)
  BY PlainOne, MigrationsAre DEF TranslatedMetricsMigration, TriggerNames, SchemaVersions
<1> QED BY <1>1, <1>2, <1>3, <1>4, <1>5, <1>6, <1>7, <1>8, <1>9, <1>10, <1>11, <1>12, <1>13 DEF SchemaVersions

LEMMA AuditOne == IsMigration(4)
<1>1. /\ Migrations[4].adds = {"audit_chain", "entries_kept"} /\ Migrations[4].own = {"entries_kept"}
      /\ Migrations[4].putsBack = {} /\ Migrations[4].drops = {}
  BY MigrationsAre DEF AuditEntriesMigration, Migration
<1>2. Makes(4) = {"audit_chain", "entries_kept"}
  BY <1>1 DEF Makes
<1>3. \A t \in Makes(4) \cap TriggerNames : IsMadeBy(t, 4)
  BY <1>2 DEF IsMadeBy, TriggerNames
<1> QED BY <1>1, <1>2, <1>3 DEF IsMigration

LEMMA Rebuilds == \A v \in 11..16 : IsMigration(v)
<1>1. IsMigration(11)
  <2> DEFINE putsBack == {"attempt_source"}
  <2>1. Migrations[11] = Rebuild("finance_attempts", {},
                                 putsBack, {"attempt_source"})
    BY MigrationsAre DEF FinanceAttemptsMigration
  <2>2. "attempt_source" \in putsBack /\ IsMadeBy("attempt_source", 11) /\ putsBack \subseteq TriggerNames /\ "finance_attempts" \notin TriggerNames
    BY DEF IsMadeBy, TriggerNames
  <2>3. \A w \in 1..11 : \A t \in TriggerNames : IsMadeBy(t, w) => t \in {"entries_kept"} \cup putsBack
    BY DEF IsMadeBy
  <2> HIDE DEF putsBack
  <2> QED BY <2>1, <2>2, <2>3, RebuildOne
<1>2. IsMigration(12)
  <2> DEFINE putsBack == {"attempt_source", "collection_source"}
  <2>1. Migrations[12] = Rebuild("collections", {"attempt_source"},
                                 putsBack, {"collection_source"})
    BY MigrationsAre DEF FinanceCollectionsMigration
  <2>2. "collection_source" \in putsBack /\ IsMadeBy("collection_source", 12) /\ putsBack \subseteq TriggerNames /\ "collections" \notin TriggerNames
    BY DEF IsMadeBy, TriggerNames
  <2>3. \A w \in 1..12 : \A t \in TriggerNames : IsMadeBy(t, w) => t \in {"entries_kept"} \cup putsBack
    BY DEF IsMadeBy
  <2> HIDE DEF putsBack
  <2> QED BY <2>1, <2>2, <2>3, RebuildOne
<1>3. IsMigration(13)
  <2> DEFINE putsBack == {"attempt_source", "collection_source", "account_source"}
  <2>1. Migrations[13] = Rebuild("account_bindings", {"attempt_source", "collection_source"},
                                 putsBack, {"account_source"})
    BY MigrationsAre DEF AccountBindingsMigration
  <2>2. "account_source" \in putsBack /\ IsMadeBy("account_source", 13) /\ putsBack \subseteq TriggerNames /\ "account_bindings" \notin TriggerNames
    BY DEF IsMadeBy, TriggerNames
  <2>3. \A w \in 1..13 : \A t \in TriggerNames : IsMadeBy(t, w) => t \in {"entries_kept"} \cup putsBack
    BY DEF IsMadeBy
  <2> HIDE DEF putsBack
  <2> QED BY <2>1, <2>2, <2>3, RebuildOne
<1>4. IsMigration(14)
  <2> DEFINE putsBack == {"attempt_source", "collection_source", "account_source", "linear_source"}
  <2>1. Migrations[14] = Rebuild("linear", {"attempt_source", "collection_source", "account_source"},
                                 putsBack, {"linear_source"})
    BY MigrationsAre DEF LinearMigration
  <2>2. "linear_source" \in putsBack /\ IsMadeBy("linear_source", 14) /\ putsBack \subseteq TriggerNames /\ "linear" \notin TriggerNames
    BY DEF IsMadeBy, TriggerNames
  <2>3. \A w \in 1..14 : \A t \in TriggerNames : IsMadeBy(t, w) => t \in {"entries_kept"} \cup putsBack
    BY DEF IsMadeBy
  <2> HIDE DEF putsBack
  <2> QED BY <2>1, <2>2, <2>3, RebuildOne
<1>5. IsMigration(15)
  <2> DEFINE putsBack == {"attempt_source", "collection_source", "account_source", "linear_source", "linear_pages"}
  <2>1. Migrations[15] = Rebuild("linear_snapshots", {"attempt_source", "collection_source", "account_source", "linear_source"},
                                 putsBack, {"linear_pages"})
    BY MigrationsAre DEF LinearSnapshotsMigration
  <2>2. "linear_pages" \in putsBack /\ IsMadeBy("linear_pages", 15) /\ putsBack \subseteq TriggerNames /\ "linear_snapshots" \notin TriggerNames
    BY DEF IsMadeBy, TriggerNames
  <2>3. \A w \in 1..15 : \A t \in TriggerNames : IsMadeBy(t, w) => t \in {"entries_kept"} \cup putsBack
    BY DEF IsMadeBy
  <2> HIDE DEF putsBack
  <2> QED BY <2>1, <2>2, <2>3, RebuildOne
<1>6. IsMigration(16)
  <2> DEFINE putsBack == {"attempt_source", "collection_source", "account_source", "linear_source", "linear_pages", "association_source"}
  <2>1. Migrations[16] = Rebuild("associations", {"attempt_source", "collection_source", "account_source", "linear_source"},
                                 putsBack, {"association_source"})
    BY MigrationsAre DEF AssociationsMigration
  <2>2. "association_source" \in putsBack /\ IsMadeBy("association_source", 16) /\ putsBack \subseteq TriggerNames /\ "associations" \notin TriggerNames
    BY DEF IsMadeBy, TriggerNames
  <2>3. \A w \in 1..16 : \A t \in TriggerNames : IsMadeBy(t, w) => t \in {"entries_kept"} \cup putsBack
    BY DEF IsMadeBy
  <2> HIDE DEF putsBack
  <2> QED BY <2>1, <2>2, <2>3, RebuildOne
<1> QED BY <1>1, <1>2, <1>3, <1>4, <1>5, <1>6

LEMMA EachIsAMigration == \A v \in SchemaVersions : IsMigration(v)
BY PlainOnes, AuditOne, Rebuilds DEF SchemaVersions

\* A rebuild puts back every trigger that a version before it made.
LEMMA RebuildPutsBack ==
    ASSUME NEW v \in SchemaVersions, NEW w \in 1..v, Migrations[v].drops # {}
    PROVE  Makes(w) \cap EntryTriggers \subseteq Migrations[v].putsBack
<1>1. v \in 11..16 /\ w \in SchemaVersions /\ w <= v
  BY EachIsAMigration DEF IsMigration, SchemaVersions
<1>2. EntryTriggers \subseteq TriggerNames
  <2>1. \A u \in SchemaVersions : Migrations[u].putsBack \subseteq TriggerNames
    BY EachIsAMigration DEF IsMigration
  <2> QED BY <2>1 DEF EntryTriggers
<1>3. \A t \in Makes(w) \cap TriggerNames : IsMadeBy(t, w)
  BY <1>1, EachIsAMigration DEF IsMigration
<1>4. \A t \in TriggerNames : IsMadeBy(t, w) => t \in Migrations[v].putsBack
  BY <1>1, EachIsAMigration DEF IsMigration
<1> QED BY <1>2, <1>3, <1>4

-----------------------------------------------------------------------------
\* A file of version v - 1 is one of version v once it is migrated.
Reaches(objects, v) == \A w \in 1..v : Makes(w) \subseteq objects

LEMMA MigratedReaches ==
    ASSUME NEW objects, NEW v \in SchemaVersions, Reaches(objects, v - 1)
    PROVE  Reaches(MigratedObjects(objects, v), v)
<1> SUFFICES ASSUME NEW w \in 1..v PROVE Makes(w) \subseteq MigratedObjects(objects, v)
  BY DEF Reaches
<1>1. CASE w = v
  BY <1>1, EachIsAMigration DEF IsMigration, MigratedObjects
<1>2. CASE w # v
  <2>1. w \in 1..(v - 1)
    BY <1>2 DEF SchemaVersions
  <2>2. Makes(w) \subseteq objects
    BY <2>1 DEF Reaches
  <2>3. CASE Migrations[v].drops = {}
    BY <2>2, <2>3 DEF MigratedObjects
  <2>4. CASE Migrations[v].drops # {}
    <3>1. Makes(w) \cap EntryTriggers \subseteq Migrations[v].putsBack
      BY <2>4, RebuildPutsBack
    <3> QED BY <2>2, <2>4, <3>1 DEF MigratedObjects
  <2> QED BY <2>3, <2>4
<1> QED BY <1>1, <1>2

\* The recursive function of the releases before, up to each version.
Grows(g, n) ==
    /\ g = [m \in 0..20 |-> g[m]] /\ g[0] = {}
    /\ \A m \in 1..n : g[m] = MigratedObjects(g[m - 1], m)

LEMMA ObjectsGrow == Grows(ObjectsAt, 20)
<1> DEFINE Done == {n \in Nat : n <= 20 => \E g : Grows(g, n)}
           Whole(g) == g = [n \in 0..20 |-> IF n = 0 THEN {} ELSE MigratedObjects(g[n - 1], n)]
<1>1. 0 \in Done
  <2> DEFINE g == [m \in 0..20 |-> {}]
  <2>1. Grows(g, 0)
    BY DEF Grows
  <2> QED BY <2>1
<1>2. ASSUME NEW n \in Nat, n \in Done PROVE n + 1 \in Done
  <2> SUFFICES ASSUME n + 1 <= 20 PROVE \E g : Grows(g, n + 1)
    OBVIOUS
  <2>1. PICK g : Grows(g, n)
    BY <1>2
  <2> DEFINE more == MigratedObjects(g[n], n + 1)
             h == [m \in 0..20 |-> IF m = n + 1 THEN more ELSE g[m]]
  <2> HIDE DEF more
  <2>2. h[0] = {} /\ h = [m \in 0..20 |-> h[m]]
    BY <2>1 DEF Grows
  <2>3. ASSUME NEW m \in 1..(n + 1) PROVE h[m] = MigratedObjects(h[m - 1], m)
    <3>1. h[m - 1] = g[m - 1]
      OBVIOUS
    <3>2. CASE m = n + 1
      <4>1. h[m] = more /\ h[m - 1] = g[n]
        BY <3>1, <3>2
      <4> QED BY <3>2, <4>1 DEF more
    <3>3. CASE m # n + 1
      <4>1. h[m] = g[m] /\ m \in 1..n
        BY <3>3
      <4> QED BY <2>1, <3>1, <4>1 DEF Grows
    <3> QED BY <3>2, <3>3
  <2> HIDE DEF h
  <2> QED BY <2>2, <2>3 DEF Grows
<1>3. 20 \in Done
  <2> HIDE DEF Done
  <2> QED BY <1>1, <1>2, NaturalsBySets
<1>4. PICK g : Grows(g, 20)
  BY <1>3
<1>5. Whole(g)
  <2>1. \A n \in 0..20 : g[n] = IF n = 0 THEN {} ELSE MigratedObjects(g[n - 1], n)
    BY <1>4 DEF Grows
  <2> QED BY <1>4, <2>1 DEF Grows
<1>6. ObjectsAt = CHOOSE f : Whole(f)
  BY DEF ObjectsAt
<1> HIDE DEF Whole
<1>7. Whole(ObjectsAt)
  BY <1>5, <1>6
<1>8. ObjectsAt = [n \in 0..20 |-> IF n = 0 THEN {} ELSE MigratedObjects(ObjectsAt[n - 1], n)]
  BY <1>7 DEF Whole
<1> QED BY <1>8 DEF Grows

\* The objects there are.
MigrationObjects == UNION {Migrations[v].adds \cup Migrations[v].putsBack : v \in SchemaVersions}
BootstrapObjects == UNION {Bootstrapped[i] : i \in DOMAIN Bootstrapped}
SchemaObjects == MigrationObjects \cup CoreTables \cup BootstrapObjects

LEMMA MigratedAreObjects ==
    ASSUME NEW objects \in SUBSET SchemaObjects, NEW v \in SchemaVersions
    PROVE  MigratedObjects(objects, v) \subseteq SchemaObjects
<1>1. Migrations[v].adds \subseteq SchemaObjects /\ Migrations[v].putsBack \subseteq SchemaObjects
  <2>1. Migrations[v].adds \cup Migrations[v].putsBack \in
          {Migrations[w].adds \cup Migrations[w].putsBack : w \in SchemaVersions}
    OBVIOUS
  <2> QED BY <2>1 DEF SchemaObjects, MigrationObjects
<1>2. MigratedObjects(objects, v) \subseteq objects \cup Migrations[v].adds \cup Migrations[v].putsBack
  BY DEF MigratedObjects
<1> QED BY <1>1, <1>2

LEMMA FirstFilesReach == \A n \in 0..20 : Reaches(ObjectsAt[n], n) /\ ObjectsAt[n] \subseteq SchemaObjects
<1> DEFINE Done == {n \in Nat : n <= 20 => Reaches(ObjectsAt[n], n) /\ ObjectsAt[n] \subseteq SchemaObjects}
<1>1. 0 \in Done
  <2>1. ObjectsAt[0] = {}
    BY ObjectsGrow DEF Grows
  <2> QED BY <2>1 DEF Reaches
<1>2. ASSUME NEW n \in Nat, n \in Done PROVE n + 1 \in Done
  <2> SUFFICES ASSUME n + 1 <= 20
               PROVE  Reaches(ObjectsAt[n + 1], n + 1) /\ ObjectsAt[n + 1] \subseteq SchemaObjects
    OBVIOUS
  <2> DEFINE v == n + 1
             objects == ObjectsAt[n]
  <2>1. v \in SchemaVersions /\ v - 1 = n /\ v \in 1..20
    BY DEF SchemaVersions
  <2>2. Reaches(objects, v - 1) /\ objects \subseteq SchemaObjects
    BY <1>2, <2>1
  <2>3. ObjectsAt[v] = MigratedObjects(objects, v)
    BY <2>1, ObjectsGrow DEF Grows
  <2> HIDE DEF v, objects
  <2>4. Reaches(MigratedObjects(objects, v), v)
    BY <2>1, <2>2, MigratedReaches
  <2>5. MigratedObjects(objects, v) \subseteq SchemaObjects
    BY <2>1, <2>2, MigratedAreObjects
  <2> QED BY <2>3, <2>4, <2>5 DEF v
<1>3. Nat \subseteq Done
  <2> HIDE DEF Done
  <2> QED BY <1>1, <1>2, NaturalsBySets
<1> QED BY <1>3

(* The invariant: what is committed is a file of one version, and each     *)
(* opener knows a version that the file has had.                           *)

LedgerAt(n) == [v \in SchemaVersions |-> IF v <= n THEN "applied" ELSE "absent"]
LedgerApplying(n) ==
    [v \in SchemaVersions |-> IF v < n THEN "applied" ELSE IF v = n THEN "applying" ELSE "absent"]

StoreFiles == [ledger : [SchemaVersions -> {"absent", "applying", "applied"}], objects : SUBSET SchemaObjects,
               entries : SUBSET Nat]
OpenerStates == [stage : {"closed", "bootstrap", "check", "upgrade", "upgrading", "open"}, file : StoreFiles]

IsOfVersion(file, n) == file.ledger = LedgerAt(n) /\ Reaches(file.objects, n)

\* Inside a transaction the versions before one are applied, or all that there are to apply.
IsBetween(file, last) ==
    \/ \E v \in 1..last : file.ledger = LedgerApplying(v) /\ Reaches(file.objects, v - 1)
    \/ IsOfVersion(file, last)

\* What an opener knows of a file of version n; nobody appends an entry under a transaction.
KnowsFile(state, last, n, entries) ==
    /\ state.stage \in {"bootstrap", "check", "upgrade"} => \E m \in 0..n : state.file.ledger = LedgerAt(m)
    /\ state.stage = "upgrade" => TopVersion(state.file.ledger) < last
    /\ state.stage = "open" => last <= n
    /\ state.stage = "upgrading" => n < last /\ IsBetween(state.file, last) /\ state.file.entries = entries

OneUpgrades == \A p, q \in Openers : opener[p].stage = "upgrading" /\ opener[q].stage = "upgrading" => p = q

UpgradeInv ==
    /\ disk \in StoreFiles /\ opener \in [Openers -> OpenerStates] /\ IsFiniteSet(disk.entries)
    /\ OneUpgrades
    /\ \E n \in 0..20 :
         IsOfVersion(disk, n) /\ \A p \in Openers : KnowsFile(opener[p], SchemaOf[p], n, disk.entries)

LEMMA TopIs ==
    ASSUME NEW n \in 0..20, NEW ledger, \A v \in SchemaVersions : ledger[v] # "absent" <=> v <= n
    PROVE  TopVersion(ledger) = n
<1> DEFINE S == {0} \cup {v \in SchemaVersions : ledger[v] # "absent"}
<1>1. n \in S /\ \A v \in S : v <= n /\ v \in Nat
  BY DEF SchemaVersions
<1> HIDE DEF S
<1>2. \A m \in S : (\A v \in S : m >= v) => m = n
  BY <1>1
<1>3. Max(S) \in S /\ \A v \in S : Max(S) >= v
  BY <1>1 DEF Max
<1>4. Max(S) = n
  BY <1>2, <1>3
<1> QED BY <1>4 DEF TopVersion, S

LEMMA TopOfLedgers ==
    /\ \A n \in 0..20 : TopVersion(LedgerAt(n)) = n
    /\ \A n \in 1..20 : TopVersion(LedgerApplying(n)) = n
<1>1. ASSUME NEW n \in 0..20 PROVE TopVersion(LedgerAt(n)) = n
  <2> DEFINE ledger == LedgerAt(n)
  <2>1. \A v \in SchemaVersions : ledger[v] # "absent" <=> v <= n
    BY DEF LedgerAt
  <2> HIDE DEF ledger
  <2>2. TopVersion(ledger) = n
    BY <2>1, TopIs
  <2> QED BY <2>2 DEF ledger
<1>2. ASSUME NEW n \in 1..20 PROVE TopVersion(LedgerApplying(n)) = n
  <2> DEFINE ledger == LedgerApplying(n)
  <2>1. \A v \in SchemaVersions : ledger[v] # "absent" <=> v <= n
    BY DEF LedgerApplying, SchemaVersions
  <2> HIDE DEF ledger
  <2>2. TopVersion(ledger) = n
    BY <2>1, TopIs
  <2> QED BY <2>2 DEF ledger
<1> QED BY <1>1, <1>2

LEMMA RowsOfLedgers ==
    /\ \A n \in 1..20 : [LedgerAt(n - 1) EXCEPT ![n] = "applying"] = LedgerApplying(n)
    /\ \A n \in 1..20 : [LedgerApplying(n) EXCEPT ![n] = "applied"] = LedgerAt(n)
<1>1. ASSUME NEW n \in 1..20 PROVE [LedgerAt(n - 1) EXCEPT ![n] = "applying"] = LedgerApplying(n)
  <2>1. \A v \in SchemaVersions : [LedgerAt(n - 1) EXCEPT ![n] = "applying"][v] = LedgerApplying(n)[v]
    BY DEF LedgerAt, LedgerApplying, SchemaVersions
  <2>2. DOMAIN LedgerAt(n - 1) = SchemaVersions
    BY DEF LedgerAt
  <2> DEFINE before == LedgerAt(n - 1)
  <2>3. [before EXCEPT ![n] = "applying"] = [v \in SchemaVersions |-> [before EXCEPT ![n] = "applying"][v]]
    BY <2>2
  <2> QED BY <2>1, <2>3 DEF LedgerApplying
<1>2. ASSUME NEW n \in 1..20 PROVE [LedgerApplying(n) EXCEPT ![n] = "applied"] = LedgerAt(n)
  <2>1. \A v \in SchemaVersions : [LedgerApplying(n) EXCEPT ![n] = "applied"][v] = LedgerAt(n)[v]
    BY DEF LedgerAt, LedgerApplying, SchemaVersions
  <2>2. DOMAIN LedgerApplying(n) = SchemaVersions
    BY DEF LedgerApplying
  <2> DEFINE before == LedgerApplying(n)
  <2>3. [before EXCEPT ![n] = "applied"] = [v \in SchemaVersions |-> [before EXCEPT ![n] = "applied"][v]]
    BY <2>2
  <2> QED BY <2>1, <2>3 DEF LedgerAt
<1> QED BY <1>1, <1>2

LEMMA RowIs ==
    ASSUME NEW file \in StoreFiles, NEW v \in SchemaVersions, NEW state \in {"absent", "applying", "applied"}
    PROVE  /\ WithRow(file, v, state) \in StoreFiles
           /\ WithRow(file, v, state).ledger = [file.ledger EXCEPT ![v] = state]
           /\ WithRow(file, v, state).objects = file.objects /\ WithRow(file, v, state).entries = file.entries
BY DEF WithRow, StoreFiles

LEMMA MigratedIs ==
    ASSUME NEW file \in StoreFiles, NEW v \in SchemaVersions
    PROVE  /\ Migrated(file, v) \in StoreFiles
           /\ Migrated(file, v).objects = MigratedObjects(file.objects, v)
           /\ Migrated(file, v).ledger = file.ledger /\ Migrated(file, v).entries = file.entries
<1>1. MigratedObjects(file.objects, v) \in SUBSET SchemaObjects
  BY MigratedAreObjects DEF StoreFiles
<1> QED BY <1>1 DEF Migrated, StoreFiles

LEMMA NoFileIs == NoFile \in StoreFiles
<1>1. NoLedger \in [SchemaVersions -> {"absent", "applying", "applied"}]
  BY DEF NoLedger
<1> QED BY <1>1 DEF NoFile, StoreFiles

LEMMA CoreIsKnown == CoreTables \subseteq SchemaObjects
BY DEF SchemaObjects

LEMMA UpgradeStarts == UpgradeInit => UpgradeInv
<1> SUFFICES ASSUME UpgradeInit PROVE UpgradeInv
  OBVIOUS
<1>1. PICK n \in FirstVersions, old \in BeforeLedger :
         disk = [ledger |-> [v \in SchemaVersions |-> IF v <= n THEN "applied" ELSE "absent"],
                 objects |-> IF n = 0 THEN old ELSE CoreTables \cup ObjectsAt[n], entries |-> {}]
  BY DEF UpgradeInit
<1>2. n \in 0..20
  BY UpgradeAssumption
<1> DEFINE objects == IF n = 0 THEN old ELSE CoreTables \cup ObjectsAt[n]
           ledger == LedgerAt(n)
<1>3. objects \subseteq SchemaObjects /\ Reaches(objects, n)
  <2>1. CASE n = 0
    <3>1. objects = {} \/ objects = CoreTables
      BY <2>1 DEF BeforeLedger
    <3> QED BY <2>1, <3>1, CoreIsKnown DEF Reaches
  <2>2. CASE n # 0
    <3>1. ObjectsAt[n] \subseteq SchemaObjects /\ Reaches(ObjectsAt[n], n)
      BY <1>2, FirstFilesReach
    <3>2. objects = CoreTables \cup ObjectsAt[n]
      BY <2>2
    <3> QED BY <3>1, <3>2, CoreIsKnown DEF Reaches
  <2> QED BY <2>1, <2>2
<1>4. ledger \in [SchemaVersions -> {"absent", "applying", "applied"}]
  BY DEF LedgerAt
<1>5. disk = [ledger |-> ledger, objects |-> objects, entries |-> {}]
  BY <1>1 DEF LedgerAt
<1> HIDE DEF ledger, objects
<1>6. disk \in StoreFiles /\ disk.ledger = ledger /\ disk.objects = objects /\ disk.entries = {}
  BY <1>3, <1>4, <1>5 DEF StoreFiles
<1>7. IsFiniteSet(disk.entries)
  BY <1>6, FS_EmptySet
<1>8. opener \in [Openers -> OpenerStates] /\ \A p \in Openers : opener[p].stage = "closed"
  BY NoFileIs DEF UpgradeInit, OpenerStates
<1>9. IsOfVersion(disk, n)
  BY <1>3, <1>6 DEF IsOfVersion, ledger
<1> QED BY <1>2, <1>6, <1>7, <1>8, <1>9 DEF UpgradeInv, OneUpgrades, KnowsFile

-----------------------------------------------------------------------------
(* One opener steps: the file keeps its version or gets a later one, and   *)
(* neither that nor an entry comes under the transaction of another.       *)

LEMMA LaterKnows ==
    ASSUME NEW state \in OpenerStates, NEW last, NEW n \in 0..20, NEW k \in 0..20, NEW before, NEW after,
           KnowsFile(state, last, n, before), n <= k, last \in 1..20,
           state.stage = "upgrading" => n = k /\ before = after
    PROVE  KnowsFile(state, last, k, after)
BY DEF KnowsFile, OpenerStates

LEMMA OpenerSteps ==
    ASSUME UpgradeInv, NEW p \in Openers, NEW state \in OpenerStates, NEW file \in StoreFiles,
           NEW n \in 0..20, NEW k \in 0..20, n <= k,
           \A q \in Openers : KnowsFile(opener[q], SchemaOf[q], n, disk.entries),
           opener' = [opener EXCEPT ![p] = state], disk' = file,
           IsFiniteSet(file.entries), IsOfVersion(file, k), KnowsFile(state, SchemaOf[p], k, file.entries),
           state.stage = "upgrading" => opener[p].stage = "upgrading" \/ FileIsFree(p),
           k # n \/ file.entries # disk.entries => FileIsFree(p)
    PROVE  UpgradeInv'
<1>1. opener \in [Openers -> OpenerStates] /\ OneUpgrades
  BY DEF UpgradeInv
<1>2. opener' \in [Openers -> OpenerStates]
  BY <1>1
<1>3. \A q \in Openers : opener'[q] = IF q = p THEN state ELSE opener[q]
  BY <1>1
<1>4. OneUpgrades'
  <2>1. ASSUME NEW q \in Openers, NEW r \in Openers, q # r, opener'[q].stage = "upgrading",
               opener'[r].stage = "upgrading"
        PROVE  FALSE
    <3>1. \A s \in Openers \ {p} : opener'[s] = opener[s]
      BY <1>3
    <3>2. CASE q # p /\ r # p
      BY <1>1, <2>1, <3>1, <3>2 DEF OneUpgrades
    <3>3. ASSUME NEW s \in Openers \ {p}, opener[s].stage = "upgrading", state.stage = "upgrading" PROVE FALSE
      BY <1>1, <3>3 DEF OneUpgrades, FileIsFree
    <3> QED BY <1>3, <2>1, <3>1, <3>2, <3>3
  <2> QED BY <2>1 DEF OneUpgrades
<1>5. ASSUME NEW q \in Openers PROVE KnowsFile(opener'[q], SchemaOf[q], k, file.entries)
  <2>1. CASE q = p
    BY <1>3, <2>1
  <2>2. CASE q # p
    <3> DEFINE other == opener[q]
               last == SchemaOf[q]
               before == disk.entries
               after == file.entries
    <3>1. other \in OpenerStates /\ last \in 1..20
      BY <1>1, UpgradeAssumption
    <3>2. KnowsFile(other, last, n, before)
      OBVIOUS
    <3>3. other.stage = "upgrading" => n = k /\ before = after
      BY <2>2 DEF FileIsFree
    <3>4. opener'[q] = other
      BY <1>3, <2>2
    <3> HIDE DEF other, last, before, after
    <3>5. KnowsFile(other, last, k, after)
      BY <3>1, <3>2, <3>3, LaterKnows
    <3> QED BY <3>4, <3>5 DEF last, after
  <2> QED BY <2>1, <2>2
<1>6. /\ disk' \in StoreFiles /\ IsFiniteSet(disk'.entries) /\ IsOfVersion(disk', k)
      /\ \A q \in Openers : KnowsFile(opener'[q], SchemaOf[q], k, disk'.entries)
  BY <1>5
<1> QED BY <1>2, <1>4, <1>6 DEF UpgradeInv

\* The file stays as it is: what the opener learns is a fact about its version.
LEMMA OnlyLearns ==
    ASSUME UpgradeInv, NEW p \in Openers, NEW n \in 0..20, NEW state \in OpenerStates, UNCHANGED disk,
           IsOfVersion(disk, n), \A q \in Openers : KnowsFile(opener[q], SchemaOf[q], n, disk.entries),
           opener' = [opener EXCEPT ![p] = state], KnowsFile(state, SchemaOf[p], n, disk.entries),
           state.stage = "upgrading" => opener[p].stage = "upgrading" \/ FileIsFree(p)
    PROVE  UpgradeInv'
<1>1. disk \in StoreFiles /\ IsFiniteSet(disk.entries) /\ disk' = disk /\ n <= n
  BY DEF UpgradeInv
<1> QED BY <1>1, OpenerSteps

\* An opener closes the file.
LEMMA ClosesFile == ASSUME UpgradeInv, NEW p \in Openers, CloseFile(p), UNCHANGED disk PROVE UpgradeInv'
<1>1. PICK n \in 0..20 : IsOfVersion(disk, n) /\ \A q \in Openers : KnowsFile(opener[q], SchemaOf[q], n, disk.entries)
  BY DEF UpgradeInv
<1> DEFINE state == [stage |-> "closed", file |-> NoFile]
<1>2. state \in OpenerStates /\ state.stage = "closed"
  BY NoFileIs DEF OpenerStates
<1>3. opener' = [opener EXCEPT ![p] = state]
  BY DEF CloseFile
<1> HIDE DEF state
<1>5. KnowsFile(state, SchemaOf[p], n, disk.entries)
  BY <1>2 DEF KnowsFile
<1> QED BY <1>1, <1>2, <1>3, <1>5, OnlyLearns

LEMMA ReadLedgerKeeps == ASSUME UpgradeInv, NEW p \in Openers, ReadLedger(p) PROVE UpgradeInv'
<1>1. PICK n \in 0..20 : IsOfVersion(disk, n) /\ \A q \in Openers : KnowsFile(opener[q], SchemaOf[q], n, disk.entries)
  BY DEF UpgradeInv
<1> DEFINE state == [stage |-> IF disk.ledger = NoLedger THEN "bootstrap" ELSE "check", file |-> disk]
<1>2. state \in OpenerStates /\ state.stage \in {"bootstrap", "check"} /\ state.file = disk
  BY DEF UpgradeInv, OpenerStates
<1>3. opener' = [opener EXCEPT ![p] = state] /\ UNCHANGED disk
  BY DEF ReadLedger
<1> HIDE DEF state
<1>4. \E m \in 0..n : state.file.ledger = LedgerAt(m)
  BY <1>1, <1>2 DEF IsOfVersion
<1>5. KnowsFile(state, SchemaOf[p], n, disk.entries)
  BY <1>2, <1>4 DEF KnowsFile
<1> QED BY <1>1, <1>2, <1>3, <1>5, OnlyLearns

LEMMA BootstrapKeeps == ASSUME UpgradeInv, NEW p \in Openers, Bootstrap(p) PROVE UpgradeInv'
<1>1. PICK n \in 0..20 : IsOfVersion(disk, n) /\ \A q \in Openers : KnowsFile(opener[q], SchemaOf[q], n, disk.entries)
  BY DEF UpgradeInv
<1>2. PICK i \in DOMAIN Bootstrapped : disk' = [disk EXCEPT !.objects = @ \cup Bootstrapped[i]]
  BY DEF Bootstrap
<1> DEFINE state == opener[p]
           file == [disk EXCEPT !.objects = @ \cup Bootstrapped[i]]
<1>3. Bootstrapped[i] \subseteq SchemaObjects
  <2>1. Bootstrapped[i] \subseteq BootstrapObjects
    BY DEF BootstrapObjects
  <2> QED BY <2>1 DEF SchemaObjects
<1>4. disk \in StoreFiles /\ IsFiniteSet(disk.entries) /\ opener \in [Openers -> OpenerStates]
  BY DEF UpgradeInv
<1>5. /\ file \in StoreFiles /\ file.ledger = disk.ledger /\ file.entries = disk.entries
      /\ file.objects = disk.objects \cup Bootstrapped[i]
  BY <1>3, <1>4 DEF StoreFiles
<1>6. state \in OpenerStates /\ state.stage = "bootstrap" /\ opener' = [opener EXCEPT ![p] = state]
  BY <1>4 DEF Bootstrap
<1>7. disk' = file /\ n <= n
  BY <1>2
<1>8. KnowsFile(state, SchemaOf[p], n, disk.entries)
  BY <1>1
<1> HIDE DEF state, file
<1>9. IsOfVersion(file, n)
  BY <1>1, <1>5 DEF IsOfVersion, Reaches
<1>10. KnowsFile(state, SchemaOf[p], n, file.entries)
  BY <1>5, <1>8
<1>11. IsFiniteSet(file.entries)
  BY <1>4, <1>5
<1> QED BY <1>1, <1>5, <1>6, <1>7, <1>9, <1>10, <1>11, OpenerSteps

\* One opener goes to another stage and knows the file as before.
LEMMA StageIs ==
    ASSUME NEW p \in Openers, opener \in [Openers -> OpenerStates],
           NEW stage \in {"closed", "bootstrap", "check", "upgrade", "upgrading", "open"}, ToStage(p, stage)
    PROVE  \E state \in OpenerStates :
             /\ opener' = [opener EXCEPT ![p] = state]
             /\ state.stage = stage /\ state.file = opener[p].file
<1> DEFINE state == [opener[p] EXCEPT !.stage = stage]
<1>1. state \in OpenerStates /\ state.stage = stage /\ state.file = opener[p].file
  BY DEF OpenerStates
<1>2. opener' = [opener EXCEPT ![p] = state]
  BY DEF ToStage
<1> HIDE DEF state
<1> QED BY <1>1, <1>2

LEMMA BootstrapEndKeeps == ASSUME UpgradeInv, NEW p \in Openers, BootstrapEnds(p) PROVE UpgradeInv'
<1>1. PICK n \in 0..20 : IsOfVersion(disk, n) /\ \A q \in Openers : KnowsFile(opener[q], SchemaOf[q], n, disk.entries)
  BY DEF UpgradeInv
<1>2. opener[p].stage = "bootstrap" /\ ToStage(p, "check") /\ UNCHANGED disk
  BY DEF BootstrapEnds
<1>3. PICK state \in OpenerStates :
         opener' = [opener EXCEPT ![p] = state] /\ state.stage = "check" /\ state.file = opener[p].file
  BY <1>2, StageIs DEF UpgradeInv
<1>4. KnowsFile(state, SchemaOf[p], n, disk.entries)
  <2>1. \E m \in 0..n : state.file.ledger = LedgerAt(m)
    BY <1>1, <1>2, <1>3 DEF KnowsFile
  <2> QED BY <1>3, <2>1 DEF KnowsFile
<1> QED BY <1>1, <1>2, <1>3, <1>4, OnlyLearns

LEMMA CheckShapeKeeps == ASSUME UpgradeInv, NEW p \in Openers, CheckShape(p) PROVE UpgradeInv'
<1>1. PICK n \in 0..20 : IsOfVersion(disk, n) /\ \A q \in Openers : KnowsFile(opener[q], SchemaOf[q], n, disk.entries)
  BY DEF UpgradeInv
<1>2. opener[p].stage = "check" /\ UNCHANGED disk
  BY DEF CheckShape
<1>3. PICK m \in 0..n : opener[p].file.ledger = LedgerAt(m)
  BY <1>1, <1>2 DEF KnowsFile
<1> DEFINE top == TopVersion(opener[p].file.ledger)
<1>4. top = m
  BY <1>3, TopOfLedgers
<1>5. \/ top < SchemaOf[p] /\ ToStage(p, "upgrade")
      \/ top = SchemaOf[p] /\ opener' = [opener EXCEPT ![p] = [stage |-> "open", file |-> NoFile]]
      \/ CloseFile(p)
  <2> HIDE DEF top
  <2>1. CASE Accepts(p, opener[p].file.ledger) /\ HasShape(disk, top)
    <3>1. top <= SchemaOf[p]
      BY <2>1 DEF Accepts, top
    <3>2. SchemaOf[p] \in Nat /\ top \in Nat
      BY <1>4, UpgradeAssumption
    <3>3. IF top < SchemaOf[p] THEN ToStage(p, "upgrade")
          ELSE opener' = [opener EXCEPT ![p] = [stage |-> "open", file |-> NoFile]]
      BY <2>1 DEF CheckShape, top
    <3>4. top < SchemaOf[p] \/ top = SchemaOf[p]
      BY <3>1, <3>2
    <3> QED BY <3>2, <3>3, <3>4
  <2>2. CASE ~(Accepts(p, opener[p].file.ledger) /\ HasShape(disk, top))
    BY <2>2 DEF CheckShape, top
  <2> QED BY <2>1, <2>2
<1>6. CASE top < SchemaOf[p] /\ ToStage(p, "upgrade")
  <2>1. PICK state \in OpenerStates :
           opener' = [opener EXCEPT ![p] = state] /\ state.stage = "upgrade" /\ state.file = opener[p].file
    BY <1>6, StageIs DEF UpgradeInv
  <2>2. TopVersion(state.file.ledger) < SchemaOf[p]
    BY <1>6, <2>1
  <2>3. \E l \in 0..n : state.file.ledger = LedgerAt(l)
    BY <1>3, <2>1
  <2>4. KnowsFile(state, SchemaOf[p], n, disk.entries)
    BY <2>1, <2>2, <2>3 DEF KnowsFile
  <2> QED BY <1>1, <1>2, <2>1, <2>4, OnlyLearns
<1>7. CASE top = SchemaOf[p] /\ opener' = [opener EXCEPT ![p] = [stage |-> "open", file |-> NoFile]]
  <2> DEFINE state == [stage |-> "open", file |-> NoFile]
  <2>1. state \in OpenerStates /\ state.stage = "open"
    BY NoFileIs DEF OpenerStates
  <2>2. opener' = [opener EXCEPT ![p] = state]
    BY <1>7
  <2>3. SchemaOf[p] <= n
    BY <1>4, <1>7
  <2> HIDE DEF state
  <2>4. KnowsFile(state, SchemaOf[p], n, disk.entries)
    BY <2>1, <2>3 DEF KnowsFile
  <2> QED BY <1>1, <1>2, <2>1, <2>2, <2>4, OnlyLearns
<1>8. CASE CloseFile(p)
  BY <1>2, <1>8, ClosesFile
<1> QED BY <1>5, <1>6, <1>7, <1>8

\* The transaction opens only on the version the opener has read: a later one has the row it inserts.
LEMMA BeginUpgradeKeeps == ASSUME UpgradeInv, NEW p \in Openers, BeginUpgrade(p) PROVE UpgradeInv'
<1>1. PICK n \in 0..20 : IsOfVersion(disk, n) /\ \A q \in Openers : KnowsFile(opener[q], SchemaOf[q], n, disk.entries)
  BY DEF UpgradeInv
<1>2. opener[p].stage = "upgrade" /\ FileIsFree(p) /\ UNCHANGED disk
  BY DEF BeginUpgrade
<1>3. PICK m \in 0..n : opener[p].file.ledger = LedgerAt(m)
  BY <1>1, <1>2 DEF KnowsFile
<1>4. TopVersion(opener[p].file.ledger) = m
  BY <1>3, TopOfLedgers
<1>5. m < SchemaOf[p] /\ SchemaOf[p] \in 1..20
  <2>1. TopVersion(opener[p].file.ledger) < SchemaOf[p]
    BY <1>1, <1>2 DEF KnowsFile
  <2> QED BY <1>4, <2>1, UpgradeAssumption
<1> DEFINE v == m + 1
<1>6. v \in 1..20 /\ v \in SchemaVersions
  BY <1>5 DEF SchemaVersions
<1>7. CASE disk.ledger[v] = "absent"
  <2>1. m = n
    <3>1. disk.ledger = LedgerAt(n)
      BY <1>1 DEF IsOfVersion
    <3>2. ~(v <= n)
      BY <1>6, <1>7, <3>1 DEF LedgerAt
    <3> QED BY <3>2
  <2> DEFINE row == WithRow(disk, v, "applying")
             state == [stage |-> "upgrading", file |-> row]
  <2>2. disk \in StoreFiles
    BY DEF UpgradeInv
  <2>3. /\ row \in StoreFiles /\ row.ledger = [disk.ledger EXCEPT ![v] = "applying"]
        /\ row.objects = disk.objects /\ row.entries = disk.entries
    BY <1>6, <2>2, RowIs
  <2>4. opener' = [opener EXCEPT ![p] = state]
    BY <1>4, <1>7 DEF BeginUpgrade
  <2> HIDE DEF row
  <2>5. state \in OpenerStates /\ state.stage = "upgrading" /\ state.file = row
    BY <2>3 DEF OpenerStates
  <2> HIDE DEF state
  <2>6. row.ledger = LedgerApplying(v)
    <3>1. disk.ledger = LedgerAt(v - 1)
      BY <1>1, <2>1 DEF IsOfVersion
    <3> HIDE DEF v
    <3> QED BY <1>6, <2>3, <3>1, RowsOfLedgers
  <2>7. Reaches(row.objects, v - 1)
    <3>1. v - 1 = n
      BY <2>1
    <3>2. Reaches(disk.objects, n)
      BY <1>1 DEF IsOfVersion
    <3> QED BY <2>3, <3>1, <3>2
  <2>8. v \in 1..SchemaOf[p] /\ n < SchemaOf[p]
    BY <1>5, <2>1
  <2> HIDE DEF v
  <2>9. IsBetween(state.file, SchemaOf[p])
    BY <2>5, <2>6, <2>7, <2>8 DEF IsBetween
  <2>10. KnowsFile(state, SchemaOf[p], n, disk.entries)
    BY <2>3, <2>5, <2>8, <2>9 DEF KnowsFile
  <2> QED BY <1>1, <1>2, <2>4, <2>5, <2>10, OnlyLearns
<1>8. CASE disk.ledger[v] # "absent"
  <2>1. CloseFile(p)
    BY <1>4, <1>8 DEF BeginUpgrade
  <2> QED BY <1>2, <2>1, ClosesFile
<1> QED BY <1>7, <1>8

LEMMA ApplyVersionKeeps == ASSUME UpgradeInv, NEW p \in Openers, ApplyVersion(p) PROVE UpgradeInv'
<1>1. PICK n \in 0..20 : IsOfVersion(disk, n) /\ \A q \in Openers : KnowsFile(opener[q], SchemaOf[q], n, disk.entries)
  BY DEF UpgradeInv
<1> DEFINE file == opener[p].file
           last == SchemaOf[p]
           top == TopVersion(file.ledger)
<1>2. /\ opener[p].stage = "upgrading" /\ file.ledger[top] = "applying" /\ UNCHANGED disk
  BY DEF ApplyVersion
<1>3. last \in 1..20 /\ file \in StoreFiles /\ opener \in [Openers -> OpenerStates]
  BY UpgradeAssumption DEF UpgradeInv, OpenerStates
<1>4. n < last /\ IsBetween(file, last) /\ file.entries = disk.entries
  BY <1>1, <1>2 DEF KnowsFile
<1>5. PICK v \in 1..last : file.ledger = LedgerApplying(v) /\ Reaches(file.objects, v - 1)
  <2>1. ~IsOfVersion(file, last)
    <3>1. ASSUME IsOfVersion(file, last) PROVE FALSE
      <4>1. file.ledger = LedgerAt(last)
        BY <3>1 DEF IsOfVersion
      <4>2. top = last
        BY <1>3, <4>1, TopOfLedgers
      <4> HIDE DEF top, last, file
      <4> QED BY <1>2, <1>3, <4>1, <4>2 DEF LedgerAt, SchemaVersions
    <3> QED BY <3>1
  <2> QED BY <1>4, <2>1 DEF IsBetween
<1>6. v \in 1..20 /\ v \in SchemaVersions /\ top = v
  <2>1. v \in 1..20
    BY <1>3, <1>5
  <2> QED BY <1>5, <2>1, TopOfLedgers DEF SchemaVersions
<1>7. CASE ~CanMigrate(file, top)
  <2>1. CloseFile(p)
    BY <1>7 DEF ApplyVersion
  <2> QED BY <1>2, <2>1, ClosesFile
<1>8. CASE CanMigrate(file, top)
  <2> DEFINE moved == Migrated(file, v)
             done == WithRow(moved, v, "applied")
             more == WithRow(done, v + 1, "applying")
             next == IF v < last THEN more ELSE done
             state == [opener[p] EXCEPT !.file = next]
  <2>1. opener' = [opener EXCEPT ![p].file = next]
    BY <1>2, <1>6, <1>8 DEF ApplyVersion
  <2>2. opener' = [opener EXCEPT ![p] = state]
    BY <2>1
  <2> HIDE DEF file
  <2>3. /\ moved \in StoreFiles /\ moved.objects = MigratedObjects(file.objects, v)
        /\ moved.ledger = file.ledger /\ moved.entries = file.entries
    BY <1>3, <1>6, MigratedIs
  <2> HIDE DEF moved
  <2>4. /\ done \in StoreFiles /\ done.ledger = [file.ledger EXCEPT ![v] = "applied"]
        /\ done.objects = moved.objects /\ done.entries = file.entries
    <3>1. done = WithRow(moved, v, "applied") /\ moved \in StoreFiles /\ v \in SchemaVersions
      BY <1>6, <2>3
    <3> HIDE DEF done
    <3>2. /\ done \in StoreFiles /\ done.ledger = [moved.ledger EXCEPT ![v] = "applied"]
          /\ done.objects = moved.objects /\ done.entries = moved.entries
      BY <3>1, RowIs
    <3> QED BY <2>3, <3>2
  <2> HIDE DEF done
  <2>5. done.ledger = LedgerAt(v)
    BY <1>5, <1>6, <2>4, RowsOfLedgers
  <2>6. Reaches(done.objects, v)
    BY <1>5, <1>6, <2>3, <2>4, MigratedReaches
  <2>7. next \in StoreFiles /\ IsBetween(next, last) /\ next.entries = file.entries
    <3>1. CASE v < last
      <4> DEFINE w == v + 1
      <4>1. w \in 1..20 /\ w \in SchemaVersions /\ w \in 1..last /\ w - 1 = v
        BY <1>3, <1>5, <3>1 DEF SchemaVersions
      <4> HIDE DEF w
      <4>2. more = WithRow(done, w, "applying")
        BY DEF w
      <4>3. /\ more \in StoreFiles /\ more.ledger = [done.ledger EXCEPT ![w] = "applying"]
            /\ more.objects = done.objects /\ more.entries = done.entries
        <5>1. done \in StoreFiles /\ w \in SchemaVersions
          BY <2>4, <4>1
        <5> HIDE DEF more
        <5> QED BY <4>2, <5>1, RowIs
      <4> HIDE DEF more
      <4>4. more.ledger = LedgerApplying(w)
        BY <2>5, <4>1, <4>3, RowsOfLedgers
      <4>5. Reaches(more.objects, w - 1)
        BY <2>6, <4>1, <4>3
      <4>6. IsBetween(more, last)
        BY <4>1, <4>4, <4>5 DEF IsBetween
      <4> QED BY <2>4, <3>1, <4>3, <4>6
    <3>2. CASE ~(v < last)
      <4>1. v = last
        BY <1>3, <1>5, <3>2
      <4> HIDE DEF last
      <4>2. IsBetween(done, last)
        BY <2>5, <2>6, <4>1 DEF IsBetween, IsOfVersion
      <4> QED BY <2>4, <3>2, <4>2
    <3> QED BY <3>1, <3>2
  <2> HIDE DEF next
  <2>8. state \in OpenerStates /\ state.stage = "upgrading" /\ state.file = next
    BY <1>2, <1>3, <2>7 DEF OpenerStates
  <2> HIDE DEF state
  <2>9. KnowsFile(state, SchemaOf[p], n, disk.entries)
    BY <1>4, <2>7, <2>8 DEF KnowsFile
  <2> QED BY <1>1, <1>2, <2>2, <2>8, <2>9, OnlyLearns
<1> QED BY <1>7, <1>8

LEMMA CommitUpgradeKeeps ==
    ASSUME UpgradeInv, NEW p \in Openers, CommitUpgrade(p) PROVE UpgradeInv' /\ disk'.entries = disk.entries
<1>1. PICK n \in 0..20 : IsOfVersion(disk, n) /\ \A q \in Openers : KnowsFile(opener[q], SchemaOf[q], n, disk.entries)
  BY DEF UpgradeInv
<1> DEFINE file == opener[p].file
           last == SchemaOf[p]
           state == [stage |-> "open", file |-> NoFile]
<1>2. opener[p].stage = "upgrading" /\ file.ledger[last] = "applied" /\ disk' = file
  BY DEF CommitUpgrade
<1>3. last \in 1..20 /\ file \in StoreFiles /\ IsFiniteSet(disk.entries)
  BY UpgradeAssumption DEF UpgradeInv, OpenerStates
<1>4. n < last /\ IsBetween(file, last) /\ file.entries = disk.entries
  BY <1>1, <1>2 DEF KnowsFile
<1>5. IsOfVersion(file, last)
  <2>1. ASSUME NEW v \in 1..last, file.ledger = LedgerApplying(v) PROVE FALSE
    <3> HIDE DEF file, last
    <3> QED BY <1>2, <1>3, <2>1 DEF LedgerApplying, SchemaVersions
  <2> QED BY <1>4, <2>1 DEF IsBetween
<1>6. FileIsFree(p)
  BY <1>2 DEF FileIsFree, UpgradeInv, OneUpgrades
<1>7. opener' = [opener EXCEPT ![p] = state]
  BY DEF CommitUpgrade
<1>8. state \in OpenerStates /\ state.stage = "open"
  BY NoFileIs DEF OpenerStates
<1>9. n <= last /\ last \in 0..20 /\ IsFiniteSet(file.entries) /\ last <= last
  BY <1>3, <1>4
<1> HIDE DEF state
<1>10. KnowsFile(state, SchemaOf[p], last, file.entries)
  BY <1>8, <1>9 DEF KnowsFile
<1> HIDE DEF file, last
<1>11. UpgradeInv'
  BY <1>1, <1>2, <1>3, <1>5, <1>6, <1>7, <1>8, <1>9, <1>10, OpenerSteps
<1> QED BY <1>2, <1>4, <1>11

LEMMA AppendEntryRowKeeps ==
    ASSUME UpgradeInv, NEW p \in Openers, AppendEntryRow(p) PROVE UpgradeInv' /\ disk.entries \subseteq disk'.entries
<1>1. PICK n \in 0..20 : IsOfVersion(disk, n) /\ \A q \in Openers : KnowsFile(opener[q], SchemaOf[q], n, disk.entries)
  BY DEF UpgradeInv
<1> DEFINE new == Cardinality(disk.entries) + 1
           file == [disk EXCEPT !.entries = @ \cup {new}]
           state == opener[p]
<1>2. opener[p].stage = "open" /\ FileIsFree(p) /\ disk' = file /\ UNCHANGED opener
  BY DEF AppendEntryRow
<1>3. disk \in StoreFiles /\ IsFiniteSet(disk.entries) /\ opener \in [Openers -> OpenerStates]
  BY DEF UpgradeInv
<1>4. new \in Nat
  BY <1>3, FS_CardinalityType
<1> HIDE DEF new
<1>5. /\ file \in StoreFiles /\ file.ledger = disk.ledger /\ file.objects = disk.objects
      /\ file.entries = disk.entries \cup {new}
  BY <1>3, <1>4 DEF StoreFiles
<1>6. state \in OpenerStates /\ state.stage = "open" /\ opener' = [opener EXCEPT ![p] = state]
  BY <1>2, <1>3
<1>7. KnowsFile(state, SchemaOf[p], n, disk.entries)
  BY <1>1
<1> HIDE DEF state, file
<1>8. IsFiniteSet(file.entries) /\ n <= n
  BY <1>3, <1>5, FS_AddElement
<1>9. IsOfVersion(file, n)
  BY <1>1, <1>5 DEF IsOfVersion
<1>10. KnowsFile(state, SchemaOf[p], n, file.entries)
  BY <1>6, <1>7 DEF KnowsFile
<1>11. UpgradeInv'
  BY <1>1, <1>2, <1>5, <1>6, <1>8, <1>9, <1>10, OpenerSteps
<1> QED BY <1>2, <1>5, <1>11

LEMMA UpgradeStepsKeep ==
    UpgradeInv /\ [UpgradeNext]_upgradeVars => UpgradeInv' /\ [disk.entries \subseteq disk'.entries]_upgradeVars
<1> SUFFICES ASSUME UpgradeInv, [UpgradeNext]_upgradeVars
             PROVE  UpgradeInv' /\ (disk.entries \subseteq disk'.entries)
  OBVIOUS
<1>1. CASE UNCHANGED upgradeVars
  BY <1>1, Zenon DEF upgradeVars, UpgradeInv, OneUpgrades
<1>2. ASSUME NEW p \in Openers, ReadLedger(p) PROVE UpgradeInv' /\ UNCHANGED disk
  BY <1>2, ReadLedgerKeeps DEF ReadLedger
<1>3. ASSUME NEW p \in Openers, Bootstrap(p) PROVE UpgradeInv' /\ disk'.entries = disk.entries
  <2>1. disk'.entries = disk.entries
    BY <1>3 DEF Bootstrap, UpgradeInv, StoreFiles
  <2> QED BY <1>3, <2>1, BootstrapKeeps
<1>4. ASSUME NEW p \in Openers, BootstrapEnds(p) PROVE UpgradeInv' /\ UNCHANGED disk
  BY <1>4, BootstrapEndKeeps DEF BootstrapEnds
<1>5. ASSUME NEW p \in Openers, CheckShape(p) PROVE UpgradeInv' /\ UNCHANGED disk
  BY <1>5, CheckShapeKeeps DEF CheckShape
<1>6. ASSUME NEW p \in Openers, BeginUpgrade(p) PROVE UpgradeInv' /\ UNCHANGED disk
  BY <1>6, BeginUpgradeKeeps DEF BeginUpgrade
<1>7. ASSUME NEW p \in Openers, ApplyVersion(p) PROVE UpgradeInv' /\ UNCHANGED disk
  BY <1>7, ApplyVersionKeeps DEF ApplyVersion
<1>8. ASSUME NEW p \in Openers, AbandonFile(p) PROVE UpgradeInv' /\ UNCHANGED disk
  BY <1>8, ClosesFile DEF AbandonFile
<1> QED BY <1>1, <1>2, <1>3, <1>4, <1>5, <1>6, <1>7, <1>8, CommitUpgradeKeeps, AppendEntryRowKeeps DEF UpgradeNext

\* A file of one version opens again, and an open gateway has what it relies on.
LEMMA VersionOpens == UpgradeInv => StoreOpensAgain
<1> SUFFICES ASSUME UpgradeInv PROVE StoreOpensAgain
  OBVIOUS
<1>1. PICK n \in 0..20 : IsOfVersion(disk, n) /\ \A q \in Openers : KnowsFile(opener[q], SchemaOf[q], n, disk.entries)
  BY DEF UpgradeInv
<1>2. disk.ledger = LedgerAt(n) /\ TopVersion(disk.ledger) = n
  BY <1>1, TopOfLedgers DEF IsOfVersion
<1>3. IsWhole(disk.ledger)
  <2>1. \A v \in SchemaVersions : LedgerAt(n)[v] # "applying" /\ (v <= n => LedgerAt(n)[v] = "applied")
    BY DEF LedgerAt
  <2> QED BY <1>2, <2>1 DEF IsWhole, SchemaVersions
<1>4. HasShape(disk, TopVersion(disk.ledger))
  BY <1>1, <1>2 DEF IsOfVersion, Reaches, HasShape, Makes
<1>5. ASSUME NEW p \in Openers, opener[p].stage = "open" PROVE IsReady(p) \/ TopVersion(disk.ledger) > SchemaOf[p]
  <2>1. SchemaOf[p] <= n /\ SchemaOf[p] \in 1..20
    BY <1>1, <1>5, UpgradeAssumption DEF KnowsFile
  <2>2. CASE SchemaOf[p] = n
    <3>1. \A v \in 1..SchemaOf[p] : disk.ledger[v] = "applied"
      BY <1>2, <2>1, <2>2 DEF LedgerAt, SchemaVersions
    <3>2. Accepts(p, disk.ledger)
      BY <1>2, <1>3, <2>1, <2>2 DEF Accepts
    <3> QED BY <1>4, <3>1, <3>2 DEF IsReady
  <2>3. CASE SchemaOf[p] # n
    BY <1>2, <2>1, <2>3
  <2> QED BY <2>2, <2>3
<1> QED BY <1>3, <1>4, <1>5 DEF StoreOpensAgain

\* Gateways of different versions open, upgrade, fail at and write one file, in every order: the
\* file opens again, whoever is open has every version it relies on, and no audit entry is lost to
\* a migration that rebuilds the entries table.
THEOREM UpgradeIsSoundHolds == UpgradeSpec => UpgradeIsSound
<1>1. UpgradeInv /\ [UpgradeNext]_upgradeVars => UpgradeInv'
  BY UpgradeStepsKeep
<1>2. UpgradeInv /\ [UpgradeNext]_upgradeVars => [disk.entries \subseteq disk'.entries]_upgradeVars
  BY UpgradeStepsKeep
<1> QED BY <1>1, <1>2, UpgradeStarts, VersionOpens, PTL DEF UpgradeSpec, UpgradeIsSound, EntriesSurvive

(***************************************************************************)
(* The benchmark: what a report says was answered by the process and under *)
(* the facts that the report names.                                        *)
(***************************************************************************)

SampleRows == [status : {"passed", "failed", "error"}, by : Nat, under : Nat]
BenchmarkFacts == [Aliases -> Nat]

\* What completed was answered by the process that was bound, under the facts that were bound.
RowIsBound(row, bound, fact) == IsCompleted(row) => row.by = bound /\ row.under = fact
RowsAreBound(observed, bound, facts) ==
    /\ observed \in [Aliases -> Seq(SampleRows)]
    /\ \A alias \in Aliases : \A i \in DOMAIN observed[alias] : RowIsBound(observed[alias][i], bound, facts[alias])

IsReport(report) ==
    /\ report.stamp \in Nat /\ report.stamp # 0
    /\ RowsAreBound(report.observed, report.bound, report.facts)
    /\ \A alias \in Aliases : Len(report.observed[alias]) = SampleCount

RouterIs == routerRun.generation \in Nat /\ routerRun.facts \in BenchmarkFacts
RunIsBound ==
    benchmark.at = "running" =>
        /\ benchmark.bound \in Nat /\ benchmark.bound <= routerRun.generation
        /\ benchmark.bound = routerRun.generation => benchmark.facts = routerRun.facts
        /\ RowsAreBound(benchmark.observed, benchmark.bound, benchmark.facts)
ReportIsLast == benchmark.at = "ended" => IsReport(benchmark.report) /\ benchmark.report.stamp = benchmarks

\* A file and what was read of it are reports or nothing, and of one benchmark they are the same.
FilesAre ==
    /\ scorecard = NoScorecard \/ IsReport(scorecard)
    /\ cached = NoScorecard \/ IsReport(cached)
    /\ scorecard.stamp = cached.stamp => cached = scorecard
StampsAre ==
    /\ {scorecard.stamp, cached.stamp} \subseteq 0..benchmarks
    /\ benchmark.at # "idle" => scorecard.stamp < benchmarks /\ cached.stamp < benchmarks

BenchmarkInv ==
    /\ benchmarks \in Nat /\ benchmark.at \in {"idle", "running", "ended"}
    /\ RouterIs /\ RunIsBound /\ ReportIsLast /\ FilesAre /\ StampsAre

LEMMA BenchmarkStarts == BenchmarkInit => BenchmarkInv
BY DEF BenchmarkInit, BenchmarkInv, RouterIs, RunIsBound, ReportIsLast, FilesAre, StampsAre, NoBenchmark, NoScorecard,
   BenchmarkFacts

LEMMA StampOfNone == NoScorecard.stamp = 0
BY DEF NoScorecard

LEMMA BeginKeeps ==
    ASSUME BenchmarkInv, StartBenchmark
    PROVE  BenchmarkInv'
<1> USE DEF BenchmarkInv
<1> DEFINE nothing == [alias \in Aliases |-> <<>>]
<1>1. /\ benchmark' = [at |-> "running", bound |-> routerRun.generation, facts |-> routerRun.facts,
                       stopped |-> FALSE, failures |-> 0, observed |-> nothing]
      /\ benchmarks' = benchmarks + 1 /\ UNCHANGED <<routerRun, scorecard, cached>>
  BY DEF StartBenchmark, Binding
<1>2. RowsAreBound(nothing, routerRun.generation, routerRun.facts)
  BY EmptySeq DEF RowsAreBound
<1> HIDE DEF nothing
<1>3. /\ benchmark'.at = "running" /\ benchmark'.bound = routerRun.generation /\ benchmark'.facts = routerRun.facts
      /\ benchmark'.observed = nothing
  BY <1>1
<1>4. RunIsBound'
  BY <1>1, <1>2, <1>3 DEF RunIsBound, RouterIs
<1>5. RouterIs' /\ FilesAre' /\ ReportIsLast'
  BY <1>1, <1>3 DEF RouterIs, FilesAre, ReportIsLast, NoScorecard
<1>6. StampsAre'
  BY <1>1 DEF StampsAre
<1> QED BY <1>1, <1>3, <1>4, <1>5, <1>6

\* The reply of another process completes nothing; that of the same one is of its facts.
LEMMA SampleIsBound ==
    ASSUME BenchmarkInv, benchmark.at = "running", NEW reply, Measuring \in Aliases
    PROVE  /\ SampleOf(reply) \in SampleRows
           /\ RowIsBound(SampleOf(reply), benchmark.bound, benchmark.facts[Measuring])
           /\ NotCompleted \in SampleRows /\ RowIsBound(NotCompleted, benchmark.bound, benchmark.facts[Measuring])
<1> DEFINE alias == Measuring
<1>1. NotCompleted \in SampleRows /\ NotCompleted.status = "error"
  BY DEF NotCompleted, SampleRows
<1>2. RowIsBound(NotCompleted, benchmark.bound, benchmark.facts[Measuring])
  BY <1>1 DEF RowIsBound, IsCompleted
<1>3. CASE reply \in {"passed", "failed"} /\ ExecutionMatches
  <2> HIDE DEF alias
  <2> DEFINE row == [status |-> reply, by |-> routerRun.generation, under |-> routerRun.facts[alias]]
  <2>1. routerRun.facts[alias] \in Nat /\ routerRun.generation \in Nat
    BY DEF BenchmarkInv, RouterIs, BenchmarkFacts, alias
  <2>2. row \in SampleRows /\ row.by = routerRun.generation /\ row.under = routerRun.facts[alias]
    BY <1>3, <2>1 DEF SampleRows
  <2>3. routerRun.generation = benchmark.bound /\ routerRun.facts = benchmark.facts
    BY <1>3 DEF ExecutionMatches, BenchmarkInv, RunIsBound
  <2>4. SampleOf(reply) = row
    BY <1>3 DEF SampleOf, BenchmarkFingerprint, alias
  <2> HIDE DEF row
  <2>5. RowIsBound(row, benchmark.bound, benchmark.facts[alias])
    BY <2>2, <2>3 DEF RowIsBound
  <2> QED BY <1>1, <1>2, <2>2, <2>4, <2>5 DEF alias
<1>4. CASE ~(reply \in {"passed", "failed"} /\ ExecutionMatches)
  <2>1. SampleOf(reply) = NotCompleted
    BY <1>4 DEF SampleOf
  <2> QED BY <1>1, <1>2, <2>1
<1> QED BY <1>3, <1>4

LEMMA RowsGrow ==
    ASSUME NEW observed, NEW bound, NEW facts, RowsAreBound(observed, bound, facts), NEW alias \in Aliases,
           NEW row \in SampleRows, RowIsBound(row, bound, facts[alias])
    PROVE  RowsAreBound([observed EXCEPT ![alias] = Append(@, row)], bound, facts)
<1> DEFINE sampled == observed[alias]
           more == Append(sampled, row)
           grown == [observed EXCEPT ![alias] = more]
<1>1. sampled \in Seq(SampleRows)
  BY DEF RowsAreBound
<1>2. /\ more \in Seq(SampleRows) /\ DOMAIN more = 1..(Len(sampled) + 1)
      /\ \A i \in 1..Len(sampled) : more[i] = sampled[i]
      /\ more[Len(sampled) + 1] = row
  <2>1. more \in Seq(SampleRows) /\ Len(more) = Len(sampled) + 1
    BY <1>1, AppendProperties
  <2>2. DOMAIN more = 1..Len(more)
    BY <2>1, LenProperties
  <2> QED BY <1>1, <2>1, <2>2, AppendProperties
<1>3. DOMAIN sampled = 1..Len(sampled) /\ Len(sampled) \in Nat
  BY <1>1, LenProperties
<1>4. \A i \in DOMAIN more : RowIsBound(more[i], bound, facts[alias])
  <2> SUFFICES ASSUME NEW i \in DOMAIN more PROVE RowIsBound(more[i], bound, facts[alias])
    OBVIOUS
  <2> HIDE DEF more, sampled
  <2>1. CASE i = Len(sampled) + 1
    BY <1>2, <2>1
  <2>2. CASE i # Len(sampled) + 1
    <3>1. i \in 1..Len(sampled)
      BY <1>2, <1>3, <2>2
    <3>2. RowIsBound(sampled[i], bound, facts[alias])
      BY <1>3, <3>1 DEF RowsAreBound, sampled
    <3> QED BY <1>2, <3>1, <3>2
  <2> QED BY <2>1, <2>2
<1> HIDE DEF more
<1>5. /\ grown \in [Aliases -> Seq(SampleRows)] /\ grown[alias] = more
      /\ \A other \in Aliases \ {alias} : grown[other] = observed[other]
  BY <1>2 DEF RowsAreBound
<1> HIDE DEF grown
<1>6. \A other \in Aliases : \A i \in DOMAIN grown[other] : RowIsBound(grown[other][i], bound, facts[other])
  <2> SUFFICES ASSUME NEW other \in Aliases
               PROVE  \A i \in DOMAIN grown[other] : RowIsBound(grown[other][i], bound, facts[other])
    OBVIOUS
  <2>1. CASE other = alias
    BY <1>4, <1>5, <2>1
  <2>2. CASE other # alias
    BY <1>5, <2>2 DEF RowsAreBound
  <2> QED BY <2>1, <2>2
<1> QED BY <1>5, <1>6 DEF RowsAreBound, grown, more

LEMMA RunKeeps ==
    ASSUME BenchmarkInv, NEW reply, RunCase(reply)
    PROVE  BenchmarkInv'
<1> USE DEF BenchmarkInv
<1>1. PICK row \in {NotCompleted, SampleOf(reply)} :
         benchmark' = [at |-> "running", bound |-> benchmark.bound, facts |-> benchmark.facts,
                       stopped |-> benchmark'.stopped, failures |-> benchmark'.failures,
                       observed |-> [benchmark.observed EXCEPT ![Measuring] = Append(@, row)]]
  BY DEF RunCase
<1> DEFINE observed == [benchmark.observed EXCEPT ![Measuring] = Append(@, row)]
<1>2. benchmark.at = "running" /\ UNCHANGED <<routerRun, scorecard, cached, benchmarks>>
  BY DEF RunCase
<1>3. RowsAreBound(benchmark.observed, benchmark.bound, benchmark.facts)
  BY <1>2 DEF RunIsBound
<1>4. RowsAreBound(observed, benchmark.bound, benchmark.facts)
  <2>1. CASE Measuring \in Aliases
    <3>1. row \in SampleRows /\ RowIsBound(row, benchmark.bound, benchmark.facts[Measuring])
      BY <1>1, <1>2, <2>1, SampleIsBound
    <3> DEFINE alias == Measuring
               before == benchmark.observed
               bound == benchmark.bound
               facts == benchmark.facts
    <3>2. alias \in Aliases /\ RowsAreBound(before, bound, facts) /\ RowIsBound(row, bound, facts[alias])
      BY <1>3, <2>1, <3>1
    <3> HIDE DEF alias, before, bound, facts
    <3>3. RowsAreBound([before EXCEPT ![alias] = Append(@, row)], bound, facts)
      BY <3>1, <3>2, RowsGrow
    <3> QED BY <3>3 DEF alias, before, bound, facts
  <2>2. CASE Measuring \notin Aliases
    <3>1. observed = benchmark.observed
      BY <1>3, <2>2 DEF RowsAreBound
    <3> QED BY <1>3, <3>1
  <2> QED BY <2>1, <2>2
<1> HIDE DEF observed
<1>5. /\ benchmark'.at = "running" /\ benchmark'.bound = benchmark.bound /\ benchmark'.facts = benchmark.facts
      /\ benchmark'.observed = observed
  BY <1>1 DEF observed
<1>6. RunIsBound'
  BY <1>2, <1>4, <1>5 DEF RunIsBound
<1>7. RouterIs' /\ FilesAre' /\ ReportIsLast' /\ StampsAre'
  BY <1>2, <1>5 DEF RouterIs, FilesAre, ReportIsLast, StampsAre, NoScorecard
<1> QED BY <1>2, <1>5, <1>6, <1>7

LEMMA WriteKeeps ==
    ASSUME BenchmarkInv, WriteScorecard
    PROVE  BenchmarkInv'
<1> USE DEF BenchmarkInv
<1> DEFINE report == [stamp |-> benchmarks, recorded |-> wallClock, facts |-> benchmark.facts,
                      bound |-> benchmark.bound, observed |-> benchmark.observed]
<1>1. /\ benchmark.at = "running" /\ \A alias \in Aliases : Len(benchmark.observed[alias]) = SampleCount
      /\ benchmark' = [at |-> "ended", report |-> report]
      /\ UNCHANGED <<routerRun, scorecard, cached, benchmarks>>
  BY DEF WriteScorecard
<1>2. RowsAreBound(benchmark.observed, benchmark.bound, benchmark.facts)
  BY <1>1 DEF RunIsBound
<1>3. /\ report.stamp = benchmarks /\ report.observed = benchmark.observed /\ report.bound = benchmark.bound
      /\ report.facts = benchmark.facts
  OBVIOUS
<1> HIDE DEF report
<1>4. benchmarks # 0
  BY <1>1 DEF StampsAre
<1>5. IsReport(report)
  BY <1>1, <1>2, <1>3, <1>4 DEF IsReport
<1>6. benchmark'.at = "ended" /\ benchmark'.report = report
  BY <1>1
<1>7. ReportIsLast' /\ RunIsBound'
  BY <1>1, <1>3, <1>5, <1>6 DEF ReportIsLast, RunIsBound
<1>8. RouterIs' /\ FilesAre' /\ StampsAre'
  BY <1>1, <1>6 DEF RouterIs, FilesAre, StampsAre, NoScorecard
<1> QED BY <1>1, <1>6, <1>7, <1>8

LEMMA PlaceKeeps ==
    ASSUME BenchmarkInv, PlaceScorecard
    PROVE  BenchmarkInv'
<1> USE DEF BenchmarkInv
<1>1. /\ benchmark.at = "ended" /\ scorecard' = benchmark.report /\ benchmark'.at = "idle"
      /\ UNCHANGED <<routerRun, cached, benchmarks>>
  BY DEF PlaceScorecard, NoBenchmark
<1>2. IsReport(scorecard') /\ scorecard'.stamp = benchmarks
  BY <1>1 DEF ReportIsLast
<1>3. cached.stamp < benchmarks /\ cached.stamp \in Nat
  BY <1>1 DEF StampsAre
<1>4. FilesAre'
  BY <1>1, <1>2, <1>3 DEF FilesAre, NoScorecard
<1>5. StampsAre' /\ RouterIs' /\ RunIsBound' /\ ReportIsLast'
  BY <1>1, <1>2, <1>3 DEF StampsAre, RouterIs, RunIsBound, ReportIsLast
<1> QED BY <1>1, <1>4, <1>5

LEMMA RemoveKeeps ==
    ASSUME BenchmarkInv, RemoveScorecard
    PROVE  BenchmarkInv'
<1> USE DEF BenchmarkInv
<1>1. scorecard' = NoScorecard /\ UNCHANGED <<routerRun, benchmark, cached, benchmarks>>
  BY DEF RemoveScorecard
<1>2. scorecard'.stamp = 0
  BY <1>1, StampOfNone
<1>3. FilesAre'
  <2>1. cached' = NoScorecard \/ IsReport(cached')
    BY <1>1 DEF FilesAre
  <2>2. cached'.stamp = 0 => cached' = NoScorecard
    BY <2>1 DEF IsReport
  <2> QED BY <1>1, <1>2, <2>1, <2>2 DEF FilesAre, NoScorecard
<1>4. StampsAre' /\ RouterIs' /\ RunIsBound' /\ ReportIsLast'
  BY <1>1, <1>2 DEF StampsAre, RouterIs, RunIsBound, ReportIsLast
<1> QED BY <1>1, <1>3, <1>4

LEMMA RestartKeeps ==
    ASSUME BenchmarkInv, NEW facts \in BenchmarkFacts, NEW uses, RestartRouter(facts, uses)
    PROVE  BenchmarkInv'
<1> USE DEF BenchmarkInv
<1>1. /\ routerRun'.generation = routerRun.generation + 1 /\ routerRun'.facts = facts
      /\ cached' = NoScorecard /\ UNCHANGED <<benchmark, scorecard, benchmarks>>
  BY DEF RestartRouter
<1>2. cached'.stamp = 0
  BY <1>1, StampOfNone
<1>3. RouterIs' /\ RunIsBound' /\ ReportIsLast'
  BY <1>1 DEF RouterIs, RunIsBound, ReportIsLast
<1>4. FilesAre'
  <2>1. scorecard' = NoScorecard \/ IsReport(scorecard')
    BY <1>1 DEF FilesAre
  <2>2. scorecard'.stamp = 0 => scorecard' = NoScorecard
    BY <2>1 DEF IsReport
  <2> QED BY <1>1, <1>2, <2>1, <2>2 DEF FilesAre, NoScorecard
<1>5. StampsAre'
  BY <1>1, <1>2 DEF StampsAre
<1> QED BY <1>1, <1>3, <1>4, <1>5

\* Whatever was read before, a choice is made by the scorecard in place.
LEMMA RereadIsInPlace == BenchmarkInv => Reread = scorecard
BY DEF BenchmarkInv, FilesAre, Reread

LEMMA ChooseKeeps ==
    ASSUME BenchmarkInv, Choose
    PROVE  BenchmarkInv'
<1>1. cached' = scorecard /\ UNCHANGED <<routerRun, benchmark, scorecard, benchmarks>>
  BY RereadIsInPlace DEF Choose
<1>2. RouterIs' /\ RunIsBound' /\ ReportIsLast' /\ FilesAre' /\ StampsAre'
  BY <1>1 DEF BenchmarkInv, RouterIs, RunIsBound, ReportIsLast, FilesAre, StampsAre, NoScorecard
<1> QED BY <1>1, <1>2 DEF BenchmarkInv

LEMMA BenchmarkKeeps == BenchmarkInv /\ [BenchmarkNext]_benchmarkVars => BenchmarkInv'
<1> SUFFICES ASSUME BenchmarkInv, [BenchmarkNext]_benchmarkVars PROVE BenchmarkInv'
  OBVIOUS
<1>1. CASE StartBenchmark \/ WriteScorecard \/ PlaceScorecard \/ RemoveScorecard \/ Choose
  BY <1>1, BeginKeeps, WriteKeeps, PlaceKeeps, RemoveKeeps, ChooseKeeps
<1>2. ASSUME NEW reply \in BenchmarkAnswers, RunCase(reply) PROVE BenchmarkInv'
  BY <1>2, RunKeeps
<1>3. CASE ConfigureRouting
  <2>1. routerRun.facts \in BenchmarkFacts
    BY DEF BenchmarkInv, RouterIs
  <2>2. RestartRouter(routerRun.facts, TRUE)
    BY <1>3 DEF ConfigureRouting
  <2> DEFINE facts == routerRun.facts
  <2>3. facts \in BenchmarkFacts /\ RestartRouter(facts, TRUE)
    BY <2>1, <2>2
  <2> HIDE DEF facts
  <2> QED BY <2>3, RestartKeeps
<1>4. ASSUME NEW alias \in Aliases, ChangeRoute(alias) PROVE BenchmarkInv'
  <2> DEFINE facts == [routerRun.facts EXCEPT ![alias] = @ + 1]
             uses == routerRun.uses
  <2>1. facts \in BenchmarkFacts
    BY DEF BenchmarkInv, RouterIs, BenchmarkFacts
  <2>2. RestartRouter(facts, uses)
    BY <1>4 DEF ChangeRoute
  <2> HIDE DEF facts, uses
  <2> QED BY <2>1, <2>2, RestartKeeps
<1>5. CASE PassTime \/ UNCHANGED benchmarkVars
  <2>1. UNCHANGED <<routerRun, benchmark, scorecard, cached, benchmarks>>
    BY <1>5 DEF PassTime, benchmarkVars
  <2> QED BY <2>1 DEF BenchmarkInv, RouterIs, RunIsBound, ReportIsLast, FilesAre, StampsAre, NoScorecard
<1> QED BY <1>1, <1>2, <1>3, <1>4, <1>5 DEF BenchmarkNext

LEMMA ReportMeetsItsTarget ==
    ASSUME NEW report, IsReport(report), NEW alias \in Aliases, TargetMet(report.observed[alias]),
           NEW i \in HeldOut(report.observed[alias])
    PROVE  /\ report.observed[alias][i].by = report.bound
           /\ report.observed[alias][i].under = report.facts[alias]
<1>1. IsCompleted(report.observed[alias][i]) /\ i \in DOMAIN report.observed[alias]
  BY DEF TargetMet, HeldOut
<1>2. RowIsBound(report.observed[alias][i], report.bound, report.facts[alias])
  BY <1>1 DEF IsReport, RowsAreBound
<1> QED BY <1>1, <1>2 DEF RowIsBound

LEMMA OneProcessMeets == BenchmarkInv => TargetIsMetByOneProcess
<1> SUFFICES ASSUME BenchmarkInv, scorecard # NoScorecard, NEW alias \in Aliases, TargetMet(scorecard.observed[alias])
             PROVE  /\ Len(scorecard.observed[alias]) = SampleCount
                    /\ \A i \in HeldOut(scorecard.observed[alias]) :
                         /\ scorecard.observed[alias][i].by = scorecard.bound
                         /\ scorecard.observed[alias][i].under = scorecard.facts[alias]
  BY DEF TargetIsMetByOneProcess
<1>1. IsReport(scorecard)
  BY DEF BenchmarkInv, FilesAre
<1>2. Len(scorecard.observed[alias]) = SampleCount
  BY <1>1 DEF IsReport
<1> DEFINE report == scorecard
<1>3. IsReport(report) /\ TargetMet(report.observed[alias])
  BY <1>1
<1> HIDE DEF report
<1>4. \A i \in HeldOut(report.observed[alias]) :
         report.observed[alias][i].by = report.bound /\ report.observed[alias][i].under = report.facts[alias]
  BY <1>3, ReportMeetsItsTarget
<1> QED BY <1>2, <1>4 DEF report

ChoiceIsMeasured ==
    choice' # NoAlias =>
        /\ scorecard # NoScorecard /\ IsCurrent(scorecard)
        /\ TargetMet(scorecard.observed[choice'])
        /\ \A i \in HeldOut(scorecard.observed[choice']) :
              scorecard.observed[choice'][i].under = routerRun.facts[choice']

LEMMA ChoicesAreMeasured == BenchmarkInv /\ [BenchmarkNext]_benchmarkVars => [ChoiceIsMeasured]_benchmarkVars
<1> SUFFICES ASSUME BenchmarkInv, BenchmarkNext, choice' # NoAlias PROVE ChoiceIsMeasured
  BY DEF ChoiceIsMeasured
<1>1. Choose
  BY DEF BenchmarkNext, StartBenchmark, WriteScorecard, PlaceScorecard, RemoveScorecard, ConfigureRouting, RestartRouter,
     RunCase, ChangeRoute, PassTime
<1>2. Reread = scorecard
  BY RereadIsInPlace
<1>3. scorecard # NoScorecard /\ IsCurrent(scorecard) /\ choice' \in StillMeasured(scorecard)
  BY <1>1, <1>2 DEF Choose
<1>4. PICK alias \in Aliases : alias = choice'
  BY <1>3 DEF StillMeasured
<1>5. scorecard.facts[alias] = routerRun.facts[alias] /\ TargetMet(scorecard.observed[alias])
  BY <1>3, <1>4 DEF StillMeasured, BenchmarkFingerprint
<1>6. \A i \in HeldOut(scorecard.observed[alias]) : scorecard.observed[alias][i].under = scorecard.facts[alias]
  BY <1>3, <1>5, OneProcessMeets DEF TargetIsMetByOneProcess
<1> QED BY <1>3, <1>4, <1>5, <1>6 DEF ChoiceIsMeasured

\* model_benchmark.run and scorecard_routing.choose: a scorecard says that a route met its target only by the answers of
\* the one process it names, and a route is preferred only by the scorecard in place, while it is current, for the facts
\* the route has now.
THEOREM BenchmarkIsSoundHolds == BenchmarkSpec => BenchmarkIsSound
<1>1. BenchmarkInv => TargetIsMetByOneProcess
  BY OneProcessMeets
<1>2. BenchmarkInv /\ [BenchmarkNext]_benchmarkVars => [ChoiceIsMeasured]_benchmarkVars
  BY ChoicesAreMeasured
<1> QED
  BY BenchmarkStarts, BenchmarkKeeps, <1>1, <1>2, PTL
  DEF BenchmarkSpec, BenchmarkIsSound, ChosenAsMeasured, ChoiceIsMeasured
===============================================================================
