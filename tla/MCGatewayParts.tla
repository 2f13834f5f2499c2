---------------------------- MODULE MCGatewayParts ----------------------------
(***************************************************************************)
(* Twelve parts of a gateway that share no state in these models.  Each   *)
(* is explored alone, while the others stand still in one of their initial *)
(* states, so that the states add up and do not multiply.                  *)
(***************************************************************************)
EXTENDS FinanceCollection, AuditChain, EvidenceTables, SchemaUpgrade, FinanceEvidence,
        FinanceAccounts, PolicyDecisions, GatewayLifetime, AnchorArtifacts, ModelBenchmark,
        AnswerCache, ProfileRefresh, TLC

CONSTANT Parts \* the parts that are explored

VARIABLE part  \* the one that is

\* Finance collection: pages with a cursor, an empty page, a record that two
\* buckets hold, one twice in a bucket, accounts of ours and of others, and an
\* amount beyond the digits kept.
Item(name, coefficient, exponent, account) ==
    [key |-> name, extra |-> FALSE, account |-> account, counts |-> 1,
     coefficient |-> coefficient, exponent |-> exponent]
Bucket(slot, items) == [slot |-> slot, records |-> items]
Answered(buckets, more, cursor) == [data |-> buckets, more |-> more, cursor |-> cursor]
MCPageAnswers ==
    LET good  == Item("k1", 120, -1, "none")
        ours  == Item("k2", 7, -2, "ours")
        other == Item("k2", 5, 1, "other")
        whole == Item("k2", 7, 0, "none")
    IN  {Answered(<<Bucket(1, <<good>>)>>, TRUE, "x"),
         Answered(<<>>, TRUE, "y"),
         Answered(<<Bucket(2, <<good, ours>>)>>, FALSE, NoCursor),
         Answered(<<Bucket(2, <<good, good>>)>>, FALSE, NoCursor),
         Answered(<<Bucket(1, <<>>), Bucket(2, <<other>>)>>, FALSE, NoCursor),
         Answered(<<Bucket(1, <<good>>), Bucket(2, <<whole>>)>>, FALSE, NoCursor)}
MCQueryOf ==
    LET query(provider, kind, origin) ==
            [provider |-> provider, kind |-> kind, origin |-> origin,
             start |-> 2, end |-> 6, width |-> 2, pageSize |-> 1]
    IN  [c \in Collections |->
            CASE c = "f1" -> query("openai", "cost", "authenticated_api")
              [] c = "f2" -> query("openai", "usage", "authenticated_api")
              [] c = "f3" -> query("anthropic", "cost", "customer_file")]

\* Evidence tables: the families whose triggers are all the code relies on.
MCFamilies ==
    {{FinanceAuditEvents}, {RateCards}, {CollectionAttempts}, {CollectionEvents}, {Snapshots},
     {BucketCoverage}, {UsageObservations}, {CostObservations}, {SourceBindings, AccountBindings},
     {AccountBindings, AttemptBindings}, {QueryAuditEvents}, {FinanceAttemptEvidence},
     {MetricsV1, MetricsV2}, {FailoverEvents}, {LinearBindings}, {LinearReceipts},
     {LinearContexts, SnapshotContexts}, {LinearRetentions, SnapshotRetentions},
     {SnapshotReceipts}, {BudgetBindings}}
MCIdleFamily == {FinanceAuditEvents}

\* Schema upgrades: programs of schema 13, 16 and 20 on files of four ages.
MCSchemaOf == "old" :> 13 @@ "mid" :> 16 @@ "new" :> 20
MCFirstVersions == {0, 10, 14, 16}

\* Finance evidence: reports that agree, that do not, that are malformed, and that no row holds.
Report(counts) == [present |-> TRUE, object |-> TRUE, null |-> FALSE, counts |-> counts]
Prompt(input, read, write) == "input" :> input @@ "read" :> read @@ "write" :> write
Completion(output) == "output" :> output
MCReports ==
    [openai |->
        {Report(Prompt(3, 1, 1) @@ Completion(1) @@ "total" :> 4),
         Report(Prompt(2, 1, 2) @@ Completion(0) @@ "total" :> 2),
         Report(Prompt(2, 1, 1) @@ Completion(1) @@ "total" :> 2),
         Report("input" :> 1 @@ "read" :> 2 @@ Completion(1)),
         Report(Completion(Malformed) @@ "tier" :> 0),
         Report("tier" :> Malformed),
         Report(Prompt(10, 1, 1) @@ Completion(1)),
         Report(Prompt(3, 1, 1) @@ Completion(1) @@ "total" :> 4 @@ "reasoning" :> 10),
         Report(Prompt(9, 0, 9) @@ Completion(9) @@ "total" :> Malformed)},
     anthropic |->
        {Report(Prompt(2, 1, 2) @@ "5m" :> 1 @@ "1h" :> 1 @@ Completion(1)),
         Report(Prompt(1, 0, 1) @@ "5m" :> 2),
         Report(Prompt(1, 0, 2) @@ "5m" :> 2 @@ "1h" :> 1 @@ Completion(2)),
         Report(Prompt(9, 9, 1) @@ Completion(2)),
         Report(Completion(2) @@ "search" :> 9 @@ "fetch" :> 9),
         Report(Completion(1) @@ "thinking" :> 1),
         Report(Completion(Malformed)),
         Report(Completion(10)),
         Report("input" :> Malformed @@ "tier" :> 0)}]
MCHalfRates == [input |-> 1, read |-> 0, write |-> 1, output |-> 3]

\* Finance accounts: one binding in two versions, a second one, an invalid one.
Identity(credential, transport, reason) ==
    [reason |-> reason, upstream |-> "u1", upstreamVersion |-> 1, transport |-> transport,
     inference |-> credential, id |-> "", version |-> 0]
MCIdentities == {Identity("k1", "t1", ""), Identity("k2", "t1", ""), Identity("k1", "t2", ""),
                 Identity("k1", "t1", "not_configured")}
Configured(id, version, valid) ==
    [org |-> "o1", upstream |-> "u1", id |-> id, version |-> version, valid |-> valid]
MCConfigurations ==
    {{}, {Configured("b1", 1, TRUE)}, {Configured("b1", 2, TRUE)},
     {Configured("b1", 1, TRUE), Configured("b2", 1, TRUE)}, {Configured("b1", 1, FALSE)}}

\* Policy: four routes with failovers; what an organization, a team and an
\* employee say, each open or narrow.
MCPolicyRoutes ==
    LET route(protocol, failover, destination) ==
            [protocol |-> protocol, failover |-> failover, destination |-> destination]
    IN  "small" :> route("openai", "large", "d1") @@ "large" :> route("openai", NotSet, "d1")
     @@ "other" :> route("anthropic", "claude", "d2") @@ "claude" :> route("anthropic", "other", "d3")
MCPolicyHolds == [a \in DOMAIN MCPolicyRoutes |-> IF a = "small" THEN 1 ELSE 2]
Open == [clients |-> NotSet, models |-> NotSet, fallback |-> NotSet,
         fallbacks |-> "openai" :> NotSet @@ "anthropic" :> NotSet,
         output |-> NotSet, budget |-> NotSet, perActor |-> NotSet]
OrganizationPolicies ==
    {Open} \cup {[Open EXCEPT !.models = {"small", "other"}, !.output = 4, !.budget = budget,
                   !.perActor = perActor, !.fallback = "other"] :
                     budget \in {NotSet, 4}, perActor \in {NotSet, 2}}
TeamPolicies ==
    {NotSet} \cup {[Open EXCEPT !.clients = {"codex"}, !.models = models, !.output = 2,
                     !.fallbacks["openai"] = "small", !.budget = 2] :
                       models \in {NotSet, {"small", "large"}}}
EmployeePolicies ==
    {NotSet, [Open EXCEPT !.models = {"large", "small"}, !.budget = 2],
     [Open EXCEPT !.fallback = "large", !.perActor = 2, !.output = 3]}
MCPolicyDocuments ==
    {[organization |-> organization, team |-> team,
      actors |-> [e \in Employees |-> IF e = "e1" THEN own ELSE NotSet],
      modelLimits |-> [a \in DOMAIN MCPolicyRoutes |-> IF a = "large" THEN 3 ELSE NotSet]] :
        organization \in OrganizationPolicies, team \in TeamPolicies, own \in EmployeePolicies}
MCPolicyAsks ==
    [client : {"codex", "claude-code"}, protocol : {"openai", "anthropic"},
     model : {"small", "large", "claude"}]

\* Anchors: two bodies under one event id, and an event of another organization.
Exportable(id, organization, body) == [id |-> id, organization |-> organization, body |-> body]
MCAnchorEvents == {Exportable("e1", "oA", 1), Exportable("e1", "oA", 2), Exportable("e2", "oA", 1),
                   Exportable("e3", "oB", 1)}

\* Benchmark: two models on two held-out cases.
MCBenchmarkModels == <<"m1", "m2">>
MCBenchmarkCases == <<"held_out", "held_out">>

\* Answer cache: two requests of one job and one of another, of 1 or 2 bytes.
MCJobOf == [r \in Requests |-> IF r = "r3" THEN "j2" ELSE "j1"]
MCSizeOf == [r \in Requests |-> IF r = "r1" THEN 1 ELSE 2]

\* Measured profiles that are forgotten: two keys of two cohorts, room for one.
MCCohortOf == "k1" :> "coding" @@ "k3" :> "review"

\* The variables of the parts, in groups, so that each step can name the rest.
Ledgers   == <<collectionVars, auditVars, evidenceVars, upgradeVars>>
Providers == <<financeEvidenceVars, accountVars, policyVars, lifetimeVars>>
Services  == <<anchorVars, benchmarkVars, cacheVars, profileVars>>

\* A part that is not explored has one initial state only.
StandStill ==
    /\ part # "tables" => family = MCIdleFamily
    /\ part # "upgrade" => disk.objects = {}
    /\ part # "usage" => answer = NewAnswer("openai", FALSE, FALSE)
    /\ part # "policy" =>
          document = CHOOSE d \in UsableDocuments : d.organization = Open /\ d.team = NotSet
                                                   /\ d.actors["e1"] = NotSet

PartsInit ==
    /\ part \in Parts
    /\ CollectionInit
    /\ AuditInit
    /\ EvidenceInit
    /\ UpgradeInit
    /\ FinanceEvidenceInit
    /\ AccountsInit
    /\ PolicyInit
    /\ LifetimeInit
    /\ AnchorInit
    /\ BenchmarkInit
    /\ CacheInit
    /\ ProfileInit
    /\ StandStill

PartsNext ==
    /\ UNCHANGED part
    /\ \/ part = "collection" /\ CollectionNext
          /\ UNCHANGED <<auditVars, evidenceVars, upgradeVars, Providers, Services>>
       \/ part = "audit" /\ AuditNext
          /\ UNCHANGED <<collectionVars, evidenceVars, upgradeVars, Providers, Services>>
       \/ part = "tables" /\ EvidenceNext
          /\ UNCHANGED <<collectionVars, auditVars, upgradeVars, Providers, Services>>
       \/ part = "upgrade" /\ UpgradeNext
          /\ UNCHANGED <<collectionVars, auditVars, evidenceVars, Providers, Services>>
       \/ part = "usage" /\ FinanceEvidenceNext
          /\ UNCHANGED <<accountVars, policyVars, lifetimeVars, Ledgers, Services>>
       \/ part = "accounts" /\ AccountsNext
          /\ UNCHANGED <<financeEvidenceVars, policyVars, lifetimeVars, Ledgers, Services>>
       \/ part = "policy" /\ PolicyNext
          /\ UNCHANGED <<financeEvidenceVars, accountVars, lifetimeVars, Ledgers, Services>>
       \/ part = "lifetime" /\ LifetimeNext
          /\ UNCHANGED <<financeEvidenceVars, accountVars, policyVars, Ledgers, Services>>
       \/ part = "anchors" /\ AnchorNext
          /\ UNCHANGED <<benchmarkVars, cacheVars, profileVars, Ledgers, Providers>>
       \/ part = "benchmark" /\ BenchmarkNext
          /\ UNCHANGED <<anchorVars, cacheVars, profileVars, Ledgers, Providers>>
       \/ part = "cache" /\ CacheNext
          /\ UNCHANGED <<anchorVars, benchmarkVars, profileVars, Ledgers, Providers>>
       \/ part = "profiles" /\ ProfileNext
          /\ UNCHANGED <<anchorVars, benchmarkVars, cacheVars, Ledgers, Providers>>

PartsVars == <<part, Ledgers, Providers, Services>>

PartsSpec == PartsInit /\ [][PartsNext]_PartsVars

\* What the part that is explored stores, counts and remembers has its type.
PartsTypeOK ==
    CASE part = "collection" -> CollectionTypeOK
      [] part = "audit" -> AuditTypeOK
      [] part = "tables" -> EvidenceTypeOK
      [] part = "upgrade" -> UpgradeTypeOK
      [] part = "usage" -> FinanceEvidenceTypeOK
      [] part = "accounts" -> AccountsTypeOK
      [] part = "policy" -> PolicyTypeOK
      [] part = "lifetime" -> LifetimeTypeOK
      [] part = "anchors" -> AnchorTypeOK
      [] part = "benchmark" -> BenchmarkTypeOK
      [] part = "cache" -> CacheTypeOK
      [] part = "profiles" -> ProfileTypeOK

===============================================================================
