----------------------------- MODULE FinanceAccounts -----------------------------
(***************************************************************************)
(* Which provider account an attempt is charged to.  Operators register    *)
(* versions of account bindings, each tied to one version of a finance     *)
(* source, and configure which binding an organization's upstream uses.    *)
(* The route that a request takes selects a candidate from the             *)
(* configuration; the transaction that begins the attempt holds it against *)
(* what is registered then, and stores one sidecar: bound, or unbound with *)
(* the reason.  Registrations have no writer in the gateway: they come     *)
(* from outside, through the triggers of their table.                      *)
(***************************************************************************)
EXTENDS Naturals, FiniteSets, FiniteSetsExt

CONSTANTS
    BindingOrgs,      \* organizations
    AccountIds,       \* account bindings
    SourceIds,        \* finance sources
    Identities,       \* what upstreams say of themselves; reasons (strings) where they say nothing
    Configurations,   \* sets of configured bindings
    BoundAttempts,    \* attempts that begin
    MaxAccountCommits \* bound: registrations and attempts together

ASSUME AccountsAssumption == MaxAccountCommits \in Nat

VARIABLES
    accounts,     \* registered versions of account bindings
    sources,      \* registered versions of finance sources
    sidecars,     \* per attempt, its sidecar
    accountClock  \* commits so far

accountVars == <<accounts, sources, sidecars, accountClock>>

NoSidecar == [state |-> "none"]
VersionsOf(table, org, id) == {row \in table : row.org = org /\ row.id = id}
LatestOf(rows) == CHOOSE row \in rows : \A other \in rows : other.version <= row.version

-----------------------------------------------------------------------------
(* select_finance_account: for the organization and the configured origin. *)

\* A configured binding whose other members are malformed keeps its place in the ambiguity.
Selected(org, identity, firstParty, configuration) ==
    LET matches == {entry \in configuration : entry.org = org /\ entry.upstream = identity.upstream}
    IN  IF identity.reason # "" THEN identity
        ELSE IF ~firstParty THEN [identity EXCEPT !.reason = "unsupported_transport"]
        ELSE IF configuration = {} THEN [identity EXCEPT !.reason = "not_configured"]
        ELSE IF Cardinality(matches) > 1 THEN [identity EXCEPT !.reason = "binding_ambiguous"]
        ELSE IF matches = {} THEN [identity EXCEPT !.reason = "binding_missing"]
        ELSE LET entry == CHOOSE entry \in matches : TRUE
             IN  IF ~entry.valid THEN [identity EXCEPT !.reason = "binding_invalid"]
                 ELSE [identity EXCEPT !.id = entry.id, !.version = entry.version]

(* _resolve_event: the candidate against what is registered.               *)

\* The first reason, in the order of the code, that the account gives against the candidate.
AccountReason(org, candidate) ==
    LET versions == VersionsOf(accounts, org, candidate.id)
        exact == {row \in versions : row.version = candidate.version}
        row == CHOOSE row \in exact : TRUE
    IN  CASE versions = {} -> "binding_missing"
          [] versions # {} /\ exact = {} -> "binding_version_stale"
          [] exact # {} /\ LatestOf(versions) # row -> "binding_version_stale"
          [] exact # {} /\ LatestOf(versions) = row ->
               IF row.state # "active" THEN "binding_revoked"
               ELSE IF row.upstream # candidate.upstream \/ row.upstreamVersion # candidate.upstreamVersion
                    THEN "upstream_reference_mismatch"
               ELSE IF row.transport # candidate.transport THEN "unsupported_transport"
               ELSE IF row.inference # candidate.inference THEN "inference_reference_mismatch"
               ELSE ""

\* Mistake: the source is looked up by the version it was registered with, and by nothing else.
SourceReason_OfItsVersion(org, account) ==
    LET exact == {row \in VersionsOf(sources, org, account.source) : row.version = account.sourceVersion}
    IN  IF exact = {} THEN "source_binding_missing"
        ELSE IF (CHOOSE row \in exact : TRUE).state # "active" THEN "source_binding_revoked" ELSE ""

SourceReason(org, account) ==
    LET versions == VersionsOf(sources, org, account.source)
        exact == {row \in versions : row.version = account.sourceVersion}
        row == CHOOSE row \in exact : TRUE
    IN  IF exact = {} THEN "source_binding_missing"
        ELSE IF LatestOf(versions) # row THEN "source_binding_version_stale"
        ELSE IF row.state # "active" THEN "source_binding_revoked"
        ELSE IF row.key # account.key THEN "fingerprint_key_version_mismatch"
        ELSE ""

Unbound(reason) == [state |-> "unbound", reason |-> reason]

Resolved(org, candidate) ==
    LET account == CHOOSE row \in VersionsOf(accounts, org, candidate.id) : row.version = candidate.version
    IN  IF candidate.reason # "" THEN Unbound(candidate.reason)
        ELSE IF AccountReason(org, candidate) # "" THEN Unbound(AccountReason(org, candidate))
        ELSE IF SourceReason(org, account) # "" THEN Unbound(SourceReason(org, account))
        ELSE [state |-> "bound", account |-> account, candidate |-> candidate]

-----------------------------------------------------------------------------
AccountsInit ==
    /\ accounts = {} /\ sources = {}
    /\ sidecars = [attempt \in BoundAttempts |-> NoSidecar]
    /\ accountClock = 0

Tick == accountClock < MaxAccountCommits /\ accountClock' = accountClock + 1

\* A version follows the one before it, and the first is active.
NextVersion(table, org, id) == Cardinality(VersionsOf(table, org, id)) + 1

RegisterSource(org, id, state, key) ==
    /\ Tick /\ (NextVersion(sources, org, id) = 1 => state = "active")
    /\ sources' = sources \cup
         {[org |-> org, id |-> id, version |-> NextVersion(sources, org, id), state |-> state,
           key |-> key, at |-> accountClock]}
    /\ UNCHANGED <<accounts, sidecars>>

\* The trigger asks for a source version that says the same as the registration.
RegisterAccount(org, id, state, identity, source) ==
    LET version == NextVersion(accounts, org, id)
    IN  /\ Tick /\ source.org = org /\ source \in sources /\ (version = 1 => state = "active")
        /\ accounts' = accounts \cup
             {[org |-> org, id |-> id, version |-> version, state |-> state,
               upstream |-> identity.upstream, upstreamVersion |-> identity.upstreamVersion,
               transport |-> identity.transport, inference |-> identity.inference, source |-> source.id,
               sourceVersion |-> source.version, key |-> source.key, at |-> accountClock]}
        /\ UNCHANGED <<sources, sidecars>>

\* The candidate is selected before the transaction, and resolved in it.
BeginBoundAttempt(attempt, org, identity, firstParty, configuration) ==
    /\ Tick /\ sidecars[attempt] = NoSidecar
    /\ sidecars' = [sidecars EXCEPT ![attempt] =
         [org |-> org, at |-> accountClock,
          sidecar |-> Resolved(org, Selected(org, identity, firstParty, configuration)),
          state |-> Resolved(org, Selected(org, identity, firstParty, configuration)).state]]
    /\ UNCHANGED <<accounts, sources>>

AccountsNext ==
    \/ \E org \in BindingOrgs, id \in SourceIds, state \in {"active", "revoked"}, key \in 1..2 :
          RegisterSource(org, id, state, key)
    \/ \E org \in BindingOrgs, id \in AccountIds, state \in {"active", "revoked"},
          identity \in Identities, source \in sources :
          identity.reason = "" /\ RegisterAccount(org, id, state, identity, source)
    \/ \E attempt \in BoundAttempts, org \in BindingOrgs, identity \in Identities,
          firstParty \in BOOLEAN, configuration \in Configurations :
          BeginBoundAttempt(attempt, org, identity, firstParty, configuration)

AccountsSpec == AccountsInit /\ [][AccountsNext]_accountVars

-----------------------------------------------------------------------------
AccountsTypeOK ==
    /\ accountClock \in 0..MaxAccountCommits
    /\ \A row \in accounts \cup sources : row.state \in {"active", "revoked"} /\ row.at < accountClock
    /\ \A attempt \in BoundAttempts : sidecars[attempt].state \in {"none", "bound", "unbound"}

\* A bound attempt names the registration of its own organization that was the last one when it
\* began, for the very upstream, transport and credential it is sent with, tied to a source that
\* was the last one and active then; whatever is registered afterwards, it names that registration
\* still.
BoundWasCurrent ==
    \A attempt \in BoundAttempts : sidecars[attempt].state = "bound" =>
       LET begun == sidecars[attempt]
           account == begun.sidecar.account
           candidate == begun.sidecar.candidate
           Before(table) == {row \in table : row.org = begun.org /\ row.at < begun.at}
       IN  /\ account \in Before(accounts) /\ account.state = "active"
           /\ \A row \in Before(accounts) : row.id = account.id => row.version <= account.version
           /\ account.upstream = candidate.upstream /\ account.transport = candidate.transport
           /\ account.inference = candidate.inference
           /\ \E source \in Before(sources) :
                 /\ source.id = account.source /\ source.version = account.sourceVersion
                 /\ source.state = "active"
                 /\ \A row \in Before(sources) : row.id = source.id => row.version <= source.version

================================================================================
