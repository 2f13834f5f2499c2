------------------------------- MODULE ModelBenchmark -------------------------------
(***************************************************************************)
(* A benchmark of local models by the user's own tasks, run through the    *)
(* router, and the preference its scorecard gives to routes afterwards     *)
(* (hormuz/model_benchmark.py, scorecard_routing.py).  The router can be   *)
(* restarted, with other facts of a route, at any point of a benchmark and *)
(* between it and a choice; a scorecard file can be replaced or removed.   *)
(*                                                                         *)
(* All cases are of one workload; latencies and costs, which order routes  *)
(* that pass equally, are left out, and so is the reading of documents.    *)
(***************************************************************************)
EXTENDS Naturals, Sequences, FiniteSets, FiniteSetsExt, SequencesExt

CONSTANTS
    BenchmarkModels,    \* the routes' aliases in the order they are measured
    BenchmarkCases,     \* the suite: its cases' partitions, in order
    Repeats,
    MinCases,
    MinPasses,          \* how many of the held-out observations must pass
    BenchmarkAnswers,   \* what becomes of a request, of {"passed", "failed", "error", "capacity", "late"}
    ScorecardLife,
    MaxBenchmarks, MaxRestarts, MaxScorecardTime,
    NoAlias

ASSUME BenchmarkAssumption ==
    /\ {MinCases, MinPasses, Repeats} \subseteq Nat \ {0}
    /\ {ScorecardLife, MaxBenchmarks, MaxRestarts, MaxScorecardTime} \subseteq Nat

VARIABLES
    routerRun,  \* the router's process: its generation, its routes' facts, whether it uses a scorecard
    benchmark,  \* the benchmark: where it stands, what it bound, and what it observed
    scorecard,  \* the file the router is configured to read
    cached,     \* what the router last read of it
    wallClock,
    choice,     \* what the last step chose
    benchmarks  \* how many were started

benchmarkVars == <<routerRun, benchmark, scorecard, cached, wallClock, choice, benchmarks>>

Aliases == ToSet(BenchmarkModels)

\* What is measured of a route, in order: each case, as often as it is repeated.
SampleCount == Len(BenchmarkCases) * Repeats
PartitionOf(i) == BenchmarkCases[((i - 1) \div Repeats) + 1]
IsHeldOut(i) == PartitionOf(i) = "held_out"

NoScorecard == [stamp |-> 0]
NoBenchmark == [at |-> "idle"]

-----------------------------------------------------------------------------
\* The facts of a route that a scorecard is bound to.
BenchmarkFingerprint(alias) == routerRun.facts[alias]

\* The process that a benchmark is bound to: the router's answer, of the same facts, names it.
Binding == [bound |-> routerRun.generation, facts |-> routerRun.facts]

\* The route that is measured: the first with fewer observations than samples.
Measuring == BenchmarkModels[SelectInSeq(BenchmarkModels, LAMBDA alias : Len(benchmark.observed[alias]) < SampleCount)]

\* Mistake: the answers of any process of the router are counted.
ExecutionMatches_AnyProcess == TRUE

\* The answer names the process that answered; it is the one that was bound at the start.
ExecutionMatches == routerRun.generation = benchmark.bound

NotCompleted == [status |-> "error", by |-> 0, under |-> 0]

\* An answer is completed when nothing about it failed; it passes by its checks.
SampleOf(answer) ==
    IF answer \in {"passed", "failed"} /\ ExecutionMatches
    THEN [status |-> answer, by |-> routerRun.generation, under |-> BenchmarkFingerprint(Measuring)]
    ELSE NotCompleted

IsCompleted(row) == row.status # "error"

\* Why the rest is not run: the deadline, a capacity rejection, or a third failure in a row.
StoppedBy(answer, failures) == answer \in {"late", "capacity"} \/ failures >= 3

HeldOut(rows) == {i \in DOMAIN rows : IsHeldOut(i)}

\* Whether the held-out cases of a route meet the target.
TargetMet(rows) ==
    /\ HeldOut(rows) # {}
    /\ \A i \in HeldOut(rows) : IsCompleted(rows[i])
    /\ Cardinality({(i - 1) \div Repeats : i \in HeldOut(rows)}) >= MinCases
    /\ Cardinality({i \in HeldOut(rows) : rows[i].status = "passed"}) >= MinPasses

Passes(rows) == Cardinality({i \in HeldOut(rows) : rows[i].status = "passed"})

IsCurrent(report) == report.recorded <= wallClock /\ wallClock < report.recorded + ScorecardLife

\* Mistake: a scorecard that was read once is not read again.
Reread_Never == IF cached = NoScorecard THEN scorecard ELSE cached

\* The file is read again when it is another one, or has changed, since it was read.
Reread == IF scorecard.stamp # cached.stamp THEN scorecard ELSE cached

StillMeasured(report) ==
    {alias \in Aliases : report.facts[alias] = BenchmarkFingerprint(alias) /\ TargetMet(report.observed[alias])}

-----------------------------------------------------------------------------
BenchmarkInit ==
    /\ routerRun = [generation |-> 1, facts |-> [alias \in Aliases |-> 1], uses |-> FALSE]
    /\ benchmark = NoBenchmark /\ scorecard = NoScorecard /\ cached = NoScorecard
    /\ wallClock = 0 /\ choice = NoAlias /\ benchmarks = 0

\* The configuration is read, and the router says that it runs on the same.
StartBenchmark ==
    /\ benchmark.at # "running" /\ benchmarks < MaxBenchmarks
    /\ benchmark' = [at |-> "running", bound |-> Binding.bound, facts |-> Binding.facts,
                     stopped |-> FALSE, failures |-> 0, observed |-> [alias \in Aliases |-> <<>>]]
    /\ benchmarks' = benchmarks + 1
    /\ choice' = NoAlias
    /\ UNCHANGED <<routerRun, scorecard, cached, wallClock>>

\* One case: nothing is sent once the benchmark has stopped.
RunCase(answer) ==
    LET stopped == benchmark.stopped \/ answer = "late"
        row == IF stopped THEN NotCompleted ELSE SampleOf(answer)
        failures == IF row.status = "error" THEN benchmark.failures + 1 ELSE 0
    IN  /\ benchmark.at = "running" /\ \E alias \in Aliases : Len(benchmark.observed[alias]) < SampleCount
        /\ benchmark' = [at |-> "running", bound |-> benchmark.bound, facts |-> benchmark.facts,
                         stopped |-> benchmark.stopped \/ StoppedBy(answer, failures), failures |-> Min({failures, 3}),
                         observed |-> [benchmark.observed EXCEPT ![Measuring] = Append(@, row)]]
        /\ choice' = NoAlias
        /\ UNCHANGED <<routerRun, scorecard, cached, wallClock, benchmarks>>

\* The scorecard is derived, validated and written to a new file.
WriteScorecard ==
    /\ benchmark.at = "running" /\ \A alias \in Aliases : Len(benchmark.observed[alias]) = SampleCount
    /\ benchmark' = [at |-> "ended",
                     report |-> [stamp |-> benchmarks, recorded |-> wallClock, facts |-> benchmark.facts,
                                 bound |-> benchmark.bound, observed |-> benchmark.observed]]
    /\ choice' = NoAlias
    /\ UNCHANGED <<routerRun, scorecard, cached, wallClock, benchmarks>>

\* The user moves it to where the router reads it, and may remove it.
PlaceScorecard ==
    /\ benchmark.at = "ended"
    /\ scorecard' = benchmark.report /\ benchmark' = NoBenchmark
    /\ choice' = NoAlias
    /\ UNCHANGED <<routerRun, cached, wallClock, benchmarks>>

RemoveScorecard ==
    /\ scorecard # NoScorecard /\ scorecard' = NoScorecard
    /\ choice' = NoAlias
    /\ UNCHANGED <<routerRun, benchmark, cached, wallClock, benchmarks>>

RestartRouter(facts, uses) ==
    /\ routerRun.generation <= MaxRestarts
    /\ routerRun' = [generation |-> routerRun.generation + 1, facts |-> facts, uses |-> uses]
    /\ cached' = NoScorecard
    /\ choice' = NoAlias
    /\ UNCHANGED <<benchmark, scorecard, wallClock, benchmarks>>

\* A configuration that names a current scorecard is written; the restart uses it.
ConfigureRouting ==
    /\ scorecard # NoScorecard /\ IsCurrent(scorecard) /\ ~routerRun.uses
    /\ RestartRouter(routerRun.facts, TRUE)

ChangeRoute(alias) == RestartRouter([routerRun.facts EXCEPT ![alias] = @ + 1], routerRun.uses)

\* A request of the workload: the best of the routes whose measurements still apply.
Choose ==
    /\ routerRun.uses /\ scorecard # NoScorecard
    /\ cached' = Reread
    /\ IF ~IsCurrent(Reread) \/ StillMeasured(Reread) = {} THEN choice' = NoAlias
       ELSE LET best == Max({Passes(Reread.observed[alias]) : alias \in StillMeasured(Reread)})
            IN  \E alias \in StillMeasured(Reread) : Passes(Reread.observed[alias]) = best /\ choice' = alias
    /\ UNCHANGED <<routerRun, benchmark, scorecard, wallClock, benchmarks>>

PassTime ==
    /\ wallClock < MaxScorecardTime /\ wallClock' = wallClock + 1
    /\ choice' = NoAlias
    /\ UNCHANGED <<routerRun, benchmark, scorecard, cached, benchmarks>>

BenchmarkNext ==
    \/ StartBenchmark \/ WriteScorecard \/ PlaceScorecard \/ RemoveScorecard \/ ConfigureRouting
    \/ \E answer \in BenchmarkAnswers : RunCase(answer)
    \/ \E alias \in Aliases : ChangeRoute(alias)
    \/ Choose \/ PassTime

BenchmarkSpec == BenchmarkInit /\ [][BenchmarkNext]_benchmarkVars

-----------------------------------------------------------------------------
\* The types of the variables.
BenchmarkTypeOK ==
    /\ routerRun.generation \in 1..(MaxRestarts + 1) /\ DOMAIN routerRun.facts = Aliases
    /\ benchmark.at \in {"idle", "running", "ended"}
    /\ {scorecard.stamp, cached.stamp} \subseteq 0..benchmarks
    /\ choice \in Aliases \cup {NoAlias} /\ wallClock \in 0..MaxScorecardTime

\* A scorecard says that a route meets its target only when one process of the router answered
\* every held-out case, under the facts the scorecard names: a restart or a stop in the middle
\* leaves a scorecard that proves nothing of the rest.
TargetIsMetByOneProcess ==
    scorecard # NoScorecard =>
        \A alias \in Aliases : TargetMet(scorecard.observed[alias]) =>
            /\ Len(scorecard.observed[alias]) = SampleCount
            /\ \A i \in HeldOut(scorecard.observed[alias]) :
                  LET row == scorecard.observed[alias][i]
                  IN  row.by = scorecard.bound /\ row.under = scorecard.facts[alias]

\* A request is given a preferred route only by the scorecard that is in place, while it is
\* current, and for a route that met its target with the facts it has now, whatever was read,
\* replaced, restarted or expired since.
ChosenAsMeasured ==
    [][choice' # NoAlias =>
        /\ scorecard # NoScorecard /\ IsCurrent(scorecard)
        /\ TargetMet(scorecard.observed[choice'])
        /\ \A i \in HeldOut(scorecard.observed[choice']) :
              scorecard.observed[choice'][i].under = routerRun.facts[choice']]_benchmarkVars

\* A scorecard is the work of one router process, and a model is chosen as it was measured.
BenchmarkIsSound == []TargetIsMetByOneProcess /\ ChosenAsMeasured

====
