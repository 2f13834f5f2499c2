------------------------------- MODULE WorkRoutes -------------------------------
(***************************************************************************)
(* How a route is chosen for the jobs of one cohort (one organization,     *)
(* repository, task type and completion condition).  Every request of a    *)
(* job names a baseline route that policy approves.  The runtime keeps to  *)
(* it unless what the jobs of the cohort have cost and how they ended      *)
(* speaks for another one; and, for a small share of the jobs and of the   *)
(* money of a month, it sends a job to an approved route that has not been *)
(* measured enough yet.  Choice and allocation are one transaction; the    *)
(* reservation that follows is another.  What the jobs of the cohort say   *)
(* is read beforehand, and kept: a choice is made on what was read then,   *)
(* while attempts end and jobs are observed.                               *)
(***************************************************************************)
EXTENDS Integers, FiniteSets, FiniteSetsExt, Sequences, Functions

CONSTANTS
    RouteJobs,           \* jobs of the cohort
    RouteAliases,        \* configured routes
    BaselineAlias,       \* the route policy approves first
    ExplorationAliases,  \* exploration_aliases of the configuration
    ToolAliases,         \* tool_capable_aliases of the configuration
    MinimumSamples, ExplorationRate, ExplorationCap,
    QuoteOf,             \* per route, what a request may cost at most
    LatencyOf,           \* per route, what a request takes
    RoutePlans,          \* plans the workspace may have: [budget, objective, explore]
    NoBudget,            \* the budget of a plan without one
    RouteRequests,       \* shapes of requests: "plain", "tools"
    TryOutcomes,         \* how attempts end: [state, timed]
    JobStatuses,         \* what is observed of jobs
    Reconfigured,        \* the routes whose configuration changes
    RouteMonths,         \* months
    MaxTries,            \* bound: attempts of a job, and choices before each
    MaxGenerations,      \* bound: configurations of a route
    MaxReads             \* bound: profiles that are being made or at hand

ASSUME WorkRoutesAssumption ==
    /\ BaselineAlias \in RouteAliases
    /\ ExplorationAliases \subseteq RouteAliases /\ ToolAliases \subseteq RouteAliases
    /\ MinimumSamples \in Nat \ {0} /\ ExplorationRate \in 1..20 /\ ExplorationCap \in Nat \ {0}
    /\ IsFiniteSet(RouteJobs) /\ \A alias \in RouteAliases : QuoteOf[alias] \in Nat
    /\ \A outcome \in TryOutcomes : outcome.state \in {"succeeded", "failed", "unknown"} /\ outcome.timed \in BOOLEAN
    /\ RouteMonths \in Nat /\ MaxTries \in Nat /\ MaxGenerations \in Nat
    /\ MaxReads \in Nat

VARIABLES
    routeJobs,     \* per job, its state and what was observed of its work
    tries,         \* per job, its attempts in order
    explorations,  \* the allocations: [job, alias, quote, month]
    generations,   \* per route, the generation of its fingerprint
    selections,    \* per job, the route last chosen for it, and why
    routePlan,     \* the workspace plan (WorkLedger has its changes)
    routeMonth,
    reads,         \* batches of rows that profiles are being made of: [shape, jobs, tries]
    snapshots      \* batches that the profiles at hand were made of, one of a shape at most

profileVars == <<reads, snapshots>>
routeVars == <<routeJobs, tries, explorations, generations, selections, routePlan, routeMonth, profileVars>>

AllTries == UNION {{[job |-> job, at |-> i] : i \in DOMAIN tries[job]} : job \in RouteJobs}
TryOf(which) == tries[which.job][which.at]

\* What an attempt holds of the budget, as _budget_plans_for_work adds it up.
Held(try) == IF try.state = "denied" THEN 0
             ELSE IF try.state \in {"pending", "unknown"} THEN QuoteOf[try.alias] ELSE try.cost

TriesOfMonth == {which \in AllTries : TryOf(which).month = routeMonth}
Remaining == routePlan.budget - SumFunctionOnSet([which \in TriesOfMonth |-> Held(TryOf(which))], TriesOfMonth)
Affordable(quote) == routePlan.budget = NoBudget \/ quote <= Remaining

-----------------------------------------------------------------------------
(* _profiles: what the cohort's jobs say of a route.                       *)

\* Mistake: the evidence of a route outlives its configuration.
Fingerprint_Alias(try) == [alias |-> try.alias, generation |-> generations[try.alias]]

Fingerprint(try) == [alias |-> try.alias, generation |-> try.generation]

\* A job is a sample of a route when all it ran ran there, in this shape, at a known cost.
Episode(job, batch) ==
    LET ran == {batch.tries[job][i] : i \in DOMAIN batch.tries[job]}
    IN  [usable |-> /\ ran # {} /\ batch.jobs[job].state # "unknown"
                    /\ \A try \in ran : try.state \in {"succeeded", "failed"} /\ try.shape = batch.shape
                    /\ Cardinality({Fingerprint(try) : try \in ran}) = 1
                    /\ batch.jobs[job].statuses # {},
         route |-> {Fingerprint(try) : try \in ran},
         completed |-> batch.jobs[job].state = "completed" /\ "completed" \in batch.jobs[job].statuses,
         rework |-> batch.jobs[job].statuses \cap {"corrected", "reopened"} # {},
         timed |-> \A try \in ran : try.timed,
         cost |-> SumFunctionOnSet([i \in DOMAIN batch.tries[job] |-> batch.tries[job][i].cost], DOMAIN batch.tries[job])]

Samples(alias, batch) ==
    {job \in RouteJobs : Episode(job, batch).usable
        /\ Episode(job, batch).route = {[alias |-> alias, generation |-> generations[alias]]}}

Profile(alias, batch) ==
    LET jobs == Samples(alias, batch)
    IN  [samples |-> Cardinality(jobs),
         completed |-> Cardinality({job \in jobs : Episode(job, batch).completed}),
         rework |-> Cardinality({job \in jobs : Episode(job, batch).rework}),
         timed |-> Cardinality({job \in jobs : Episode(job, batch).timed}),
         cost |-> SumFunctionOnSet([job \in jobs |-> Episode(job, batch).cost], jobs)]

Measured(alias, batch) == Profile(alias, batch).samples >= MinimumSamples

\* _snapshot_profiles: the profiles for a shape of requests, if there are any.
AtHand(shape) == {batch \in snapshots : batch.shape = shape}

-----------------------------------------------------------------------------
(* _explore: a job that has not run yet may try a route not measured yet.  *)

ExploredIn(month) == {row \in explorations : row.month = month}
QuotesOf(allocations) == SumFunctionOnSet([row \in allocations |-> row.quote], allocations)
AdmittedIn(month) == {job \in RouteJobs : \E i \in DOMAIN tries[job] :
                        tries[job][i].month = month /\ tries[job][i].state # "denied"}

\* The exploration rate in a hundred of so many jobs, rounded up.
Share(jobs) == (jobs * ExplorationRate + 99) \div 100

\* Mistake: an allocation counts once its job has run.
WithinAllowance_Run(quote) ==
    LET ran == {row \in ExploredIn(routeMonth) : tries[row.job] # <<>>}
    IN  /\ (Cardinality(ran) + 1) <= Share(Max({Cardinality(AdmittedIn(routeMonth)), Cardinality(ran)}))
        /\ quote <= ExplorationCap - QuotesOf(ran)

WithinAllowance(quote) ==
    LET count == Cardinality(ExploredIn(routeMonth))
    IN  /\ count + 1 <= Share(Max({Cardinality(AdmittedIn(routeMonth)), count}))
        /\ quote <= ExplorationCap - QuotesOf(ExploredIn(routeMonth))

MayExplore(job, request) ==
    /\ routePlan.explore /\ request = "plain"
    /\ routeJobs[job].state = "active" /\ tries[job] = <<>>

Prior(job) == {row \in explorations : row.job = job}

Alternatives(quoted, eligible, batch) ==
    {alias \in ExplorationAliases \cap eligible \cap quoted :
        /\ alias # BaselineAlias /\ ~Measured(alias, batch)
        /\ WithinAllowance(QuoteOf[alias]) /\ Affordable(QuoteOf[alias])}

\* Of the routes that may be explored, the least measured, then the cheapest.
Explorable(quoted, eligible, batch) ==
    LET open == Alternatives(quoted, eligible, batch)
        Before(a, b) == LET m == Profile(a, batch).samples n == Profile(b, batch).samples
                        IN  m < n \/ (m = n /\ QuoteOf[a] < QuoteOf[b])
    IN  IF ~Measured(BaselineAlias, batch) THEN {}
        ELSE {alias \in open : \A other \in open : ~Before(other, alias)}

-----------------------------------------------------------------------------
(* choose_route: among the measured routes that fit the budget.            *)

Eligible(request) == IF request = "tools" THEN RouteAliases \cap ToolAliases ELSE RouteAliases

NotWorse(profile, baseline) ==
    /\ profile.completed * baseline.samples >= baseline.completed * profile.samples
    /\ profile.rework * baseline.samples <= baseline.rework * profile.samples

Qualified(quoted, batch) ==
    {alias \in Eligible(batch.shape) \cap quoted :
        LET profile == Profile(alias, batch)
        IN  /\ Affordable(QuoteOf[alias]) /\ Measured(alias, batch)
            /\ routePlan.objective # "quality" => NotWorse(profile, Profile(BaselineAlias, batch))
            /\ routePlan.objective = "speed" => profile.timed = profile.samples}

\* Means over the jobs of two profiles, compared crosswise.
Less(x, p, y, q) == x * q.samples < y * p.samples
Same(x, p, y, q) == x * q.samples = y * p.samples

\* A route with a job that was not timed counts as slower than any other.
Latency(alias, profile) ==
    IF profile.timed = profile.samples THEN LatencyOf[alias]
    ELSE Max({LatencyOf[other] : other \in RouteAliases}) + 1

\* Which of two candidates, each a route and its profile, comes before the other.
Preferred(candidate, other) ==
    LET p == candidate.profile
        q == other.profile
        Kept == candidate.alias = BaselineAlias
        Cost(tied) == Less(p.cost, p, q.cost, q) \/ (Same(p.cost, p, q.cost, q) /\ tied)
        Time(tied) == \/ Latency(candidate.alias, p) < Latency(other.alias, q)
                      \/ (Latency(candidate.alias, p) = Latency(other.alias, q) /\ tied)
        Rework(tied) == Less(p.rework, p, q.rework, q) \/ (Same(p.rework, p, q.rework, q) /\ tied)
    IN  CASE routePlan.objective = "cost" -> Cost(Time(Kept))
          [] routePlan.objective = "speed" -> Time(Cost(Kept))
          [] routePlan.objective = "quality" ->
               \/ Less(q.completed, q, p.completed, p)
               \/ (Same(q.completed, q, p.completed, p) /\ Rework(Cost(Time(Kept))))

\* For want of profiles or of evidence, or of a route that could take the request otherwise.
Baseline == {[alias |-> BaselineAlias, reason |-> "baseline"]}

\* What is chosen on the profiles at hand.
OnEvidence(quoted, batch) ==
    LET qualified == Qualified(quoted, batch)
        candidates == {[alias |-> alias, profile |-> Profile(alias, batch)] : alias \in qualified}
    IN  IF ~Measured(BaselineAlias, batch) \/ qualified = {}
        THEN Baseline
        ELSE {[alias |-> best.alias, reason |-> "evidence"] :
                best \in {candidate \in candidates : \A other \in candidates : ~Preferred(other, candidate)}}

NotChosen == [alias |-> BaselineAlias, reason |-> "none"]
Exploring(alias) == {[alias |-> alias, reason |-> "exploration"]}

Select(job, chosen, allocated) ==
    /\ selections' = [selections EXCEPT ![job] = chosen]
    /\ explorations' = explorations \cup allocated
    /\ UNCHANGED <<routeJobs, tries, generations, routePlan, routeMonth, profileVars>>

\* quoted: the routes a bound of the cost is known for.  What fits the budget and the allowance is
\* what is so now; what is known of the routes is what was so when their profiles were read.
ChooseRoute(job, quoted, request) ==
    LET eligible == Eligible(request)
        again == {row \in Prior(job) : row.alias \in eligible \cap ExplorationAliases \cap quoted}
        fresh == UNION {Explorable(quoted, eligible, batch) : batch \in AtHand(request)}
        evident == UNION {OnEvidence(quoted, batch) : batch \in AtHand(request)}
    IN  Len(tries[job]) < MaxTries /\
        IF request = "tools" /\ BaselineAlias \notin ToolAliases
        THEN \E chosen \in Baseline : Select(job, chosen, {})
        ELSE IF MayExplore(job, request) /\ quoted # {} /\ Prior(job) # {} /\ again # {}
        THEN \E row \in again : \E chosen \in Exploring(row.alias) : Select(job, chosen, {})
        ELSE IF MayExplore(job, request) /\ quoted # {} /\ Prior(job) = {} /\ fresh # {}
        THEN \E alias \in fresh : \E chosen \in Exploring(alias) : Select(job, chosen,
               {[job |-> job, alias |-> alias, quote |-> QuoteOf[alias], month |-> routeMonth]})
        ELSE \E chosen \in IF AtHand(request) = {} THEN Baseline ELSE evident :
               Select(job, chosen, {})

-----------------------------------------------------------------------------
(* _drain_profiles: the rows of the cohort are read in a transaction, and  *)
(* what was made of them is kept when that is done.  ProfileRefresh has    *)
(* the queue and the versions, and so which of what was read is kept and   *)
(* what is retired when; here any of it may be, or stay.                   *)

ReadProfiles(shape) ==
    /\ Cardinality(reads) + Cardinality(snapshots) < MaxReads
    /\ reads' = reads \cup {[shape |-> shape, jobs |-> routeJobs, tries |-> tries]}
    /\ UNCHANGED <<routeJobs, tries, explorations, generations, selections, routePlan, routeMonth, snapshots>>

\* _save_profiles: unless evidence of the cohort was committed since and its version with it.
SaveProfiles(batch) ==
    /\ reads' = reads \ {batch}
    /\ snapshots' \in {(snapshots \ AtHand(batch.shape)) \cup {batch}, snapshots}
    /\ UNCHANGED <<routeJobs, tries, explorations, generations, selections, routePlan, routeMonth>>

\* Retired after an answer or an observation was committed, thirty seconds old, or one too many.
RetireProfiles(batch) ==
    /\ snapshots' = snapshots \ {batch}
    /\ UNCHANGED <<routeJobs, tries, explorations, generations, selections, routePlan, routeMonth, reads>>

-----------------------------------------------------------------------------
(* The rest of a job's life: WorkLedger has it in full.                    *)

RoutesInit ==
    /\ routeJobs = [job \in RouteJobs |-> [state |-> "active", statuses |-> {}]]
    /\ tries = [job \in RouteJobs |-> <<>>]
    /\ explorations = {}
    /\ generations = [alias \in RouteAliases |-> 1]
    /\ selections = [job \in RouteJobs |-> NotChosen]
    /\ routePlan \in RoutePlans
    /\ routeMonth = 0
    /\ reads = {} /\ snapshots = {}

\* The reservation for the chosen route: over the budget it is recorded as denied and pauses the job.
ReserveChosen(job, request) ==
    LET alias == selections[job].alias
        denied == ~Affordable(QuoteOf[alias])
        try == [alias |-> alias, generation |-> generations[alias], shape |-> request, cost |-> 0,
                state |-> IF denied THEN "denied" ELSE "pending", timed |-> FALSE, month |-> routeMonth]
    IN  /\ routeJobs[job].state = "active" /\ selections[job].reason # "none"
        /\ Len(tries[job]) < MaxTries
        /\ tries' = [tries EXCEPT ![job] = Append(@, try)]
        /\ routeJobs' = IF denied THEN [routeJobs EXCEPT ![job].state = "paused"] ELSE routeJobs
        /\ selections' = [selections EXCEPT ![job] = NotChosen]
        /\ UNCHANGED <<explorations, generations, routePlan, routeMonth, profileVars>>

Ended(try, outcome) ==
    [try EXCEPT !.state = outcome.state, !.cost = QuoteOf[try.alias], !.timed = outcome.timed]

\* Mistake: an answer that is told of again settles its attempt once more.
SettleTry_Again(job, i, outcome) ==
    /\ tries[job][i].state # "denied"
    /\ tries' = [tries EXCEPT ![job] = [tries[job] EXCEPT ![i] = Ended(tries[job][i], outcome)]]
    /\ UNCHANGED <<routeJobs, explorations, generations, selections, routePlan, routeMonth, profileVars>>

SettleTry(job, i, outcome) ==
    /\ tries[job][i].state = "pending"
    /\ tries' = [tries EXCEPT ![job] = [tries[job] EXCEPT ![i] = Ended(tries[job][i], outcome)]]
    /\ UNCHANGED <<routeJobs, explorations, generations, selections, routePlan, routeMonth, profileVars>>

ObserveJob(job, status) ==
    /\ status \notin routeJobs[job].statuses
    /\ routeJobs' = [routeJobs EXCEPT ![job] =
         [state |-> IF status = "completed" THEN "completed"
                    ELSE IF routeJobs[job].state = "paused" THEN "paused" ELSE "active",
          statuses |-> @.statuses \cup {status}]]
    /\ UNCHANGED <<tries, explorations, generations, selections, routePlan, routeMonth, profileVars>>

\* The gateway is started again with another destination or price for the route: the requests that
\* were under way are gone, and so are the profiles.
Reconfigure(alias) ==
    /\ generations[alias] < MaxGenerations
    /\ generations' = [generations EXCEPT ![alias] = @ + 1]
    /\ selections' = [job \in RouteJobs |-> NotChosen]
    /\ reads' = {} /\ snapshots' = {}
    /\ UNCHANGED <<routeJobs, tries, explorations, routePlan, routeMonth>>

NextMonth ==
    /\ routeMonth + 1 < RouteMonths /\ routeMonth' = routeMonth + 1
    /\ UNCHANGED <<routeJobs, tries, explorations, generations, selections, routePlan, profileVars>>

RoutesNext ==
    \/ \E job \in RouteJobs, quoted \in {{}, {BaselineAlias}, RouteAliases},
          request \in RouteRequests : ChooseRoute(job, quoted, request)
    \/ \E shape \in RouteRequests : ReadProfiles(shape)
    \/ \E batch \in reads : SaveProfiles(batch)
    \/ \E batch \in snapshots : RetireProfiles(batch)
    \/ \E job \in RouteJobs, request \in RouteRequests : ReserveChosen(job, request)
    \/ \E job \in RouteJobs : \E i \in DOMAIN tries[job], outcome \in TryOutcomes : SettleTry(job, i, outcome)
    \/ \E job \in RouteJobs, status \in JobStatuses : ObserveJob(job, status)
    \/ \E alias \in Reconfigured : Reconfigure(alias)
    \/ NextMonth

RoutesSpec == RoutesInit /\ [][RoutesNext]_routeVars

-----------------------------------------------------------------------------
RoutesTypeOK ==
    /\ \A job \in RouteJobs : /\ routeJobs[job].state \in {"active", "completed", "paused"}
                              /\ Len(tries[job]) <= MaxTries
                              /\ selections[job].alias \in RouteAliases
    /\ \A row \in explorations : row.alias \in ExplorationAliases /\ row.month <= routeMonth
    /\ generations \in [RouteAliases -> 1..MaxGenerations]
    /\ \A batch, other \in snapshots : batch.shape = other.shape => batch = other

\* In no month are more jobs sent to try a route than the configured share of the jobs admitted in
\* that month, nor more money set aside for it than the cap, however the choices of several jobs,
\* their reservations and the turn of the month follow one another; and a job tries one route.
AllowanceIsKept ==
    /\ \A month \in 0..routeMonth :
         /\ 100 * (Cardinality(ExploredIn(month)) - 1) < Cardinality(AdmittedIn(month)) * ExplorationRate
         /\ QuotesOf(ExploredIn(month)) <= ExplorationCap
    /\ \A row, other \in explorations : row.job = other.job => row = other

\* The jobs that, when the rows were read, had run on a route alone, as it is configured now, and
\* those of them that were completed.
OnlyOn(name, batch) ==
    {job \in RouteJobs : batch.tries[job] # <<>>
       /\ \A i \in DOMAIN batch.tries[job] :
             /\ batch.tries[job][i].alias = name /\ batch.tries[job][i].generation = generations[name]
             /\ batch.tries[job][i].state \in {"succeeded", "failed"}}
DoneOn(name, batch) == {job \in OnlyOn(name, batch) : "completed" \in batch.jobs[job].statuses}

HasEvidence(alias, batch) ==
    /\ Cardinality(OnlyOn(alias, batch)) >= MinimumSamples
    /\ Cardinality(OnlyOn(BaselineAlias, batch)) >= MinimumSamples
    /\ (routePlan.objective # "quality" /\ DoneOn(alias, batch) = {}) =>
          \E job \in OnlyOn(BaselineAlias, batch) : batch.jobs[job].state # "completed"

\* A route other than the baseline is chosen on evidence only if, when the profiles at hand were
\* read, enough jobs had run nowhere else, with the route configured as it is now, all of them
\* accounted for, at least one of them completed if the baseline's were: what was measured of an
\* earlier configuration never speaks for this one.  Since then a job may have gone on elsewhere.
EvidenceIsOfThisRoute ==
    [][\A job \in RouteJobs :
         (selections'[job].reason = "evidence" /\ selections'[job] # selections[job])
         => \E batch \in snapshots : HasEvidence(selections'[job].alias, batch)]_routeVars

\* However old the profiles at hand are, what they count has not been undone since: the attempts that
\* had ended are as they were, and what was observed of the jobs has been.
EvidenceStands ==
    \A batch \in snapshots, job \in RouteJobs :
       /\ \A i \in DOMAIN batch.tries[job] :
             /\ i \in DOMAIN tries[job]
             /\ batch.tries[job][i].state \in {"succeeded", "failed"} => tries[job][i] = batch.tries[job][i]
       /\ batch.jobs[job].statuses \subseteq routeJobs[job].statuses

\* Exploration stays within its allowance, and a route chosen on evidence has evidence of its own,
\* which stands.
RoutesAreSound == [](AllowanceIsKept /\ EvidenceStands) /\ EvidenceIsOfThisRoute

================================================================================
