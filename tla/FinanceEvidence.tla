----------------------------- MODULE FinanceEvidence -----------------------------
(***************************************************************************)
(* What a provider's answer says of its usage, and what the gateway makes  *)
(* of it: the counters it charges by, the native evidence it keeps, the    *)
(* estimate at the configured rates, and the terminal evidence of the      *)
(* attempt, which a validator checks once more before it is stored.  The   *)
(* answer is one JSON object or a stream of events; usage may be absent,   *)
(* partial, malformed, repeated or contradictory, and the answer may break *)
(* off anywhere.  A count is any number, or Malformed: the charge takes    *)
(* every number, the evidence and the columns of a row only those up to    *)
(* MaxCount.                                                               *)
(* Attempts of releases that kept no rate-card binding are left out.        *)
(***************************************************************************)
EXTENDS Integers, FiniteSets, Functions

CONSTANTS
    Reports,        \* per protocol: usage objects a provider sends
    HalfRates,      \* per counter: configured price of a token, in half micro-units
    MaxCount,       \* the largest integer of a row, and the largest count of the evidence
    MaxUsageEvents  \* bound: events of one answer

ASSUME EvidenceBoundsAssumption == MaxCount \in Nat /\ MaxUsageEvents \in Nat

\* What is sent as a usage object is one; whether there is any is the answer's choice.
Malformed == -1
ASSUME ReportsAssumption ==
    \A report \in Reports.openai \cup Reports.anthropic :
        /\ report.present /\ report.object
        /\ \A name \in DOMAIN report.counts : report.counts[name] \in Nat \cup {Malformed}

VARIABLES
    answer,    \* the parser: counters that are charged, native values, what the answer said of its end
    settled    \* how the attempt ended, and with which evidence

financeEvidenceVars == <<answer, settled>>

Protocols == {"openai", "anthropic"}
NoReport == [present |-> FALSE, object |-> FALSE, null |-> FALSE, counts |-> <<>>]
NotAnObject == [present |-> TRUE, object |-> FALSE, null |-> FALSE, counts |-> <<>>]
NullReport == [present |-> TRUE, object |-> FALSE, null |-> TRUE, counts |-> <<>>]
NoObjects == {NoReport, NotAnObject, NullReport}

Fields == [openai |-> {"input", "read", "write", "output", "reasoning", "total", "tier"},
           anthropic |-> {"input", "read", "write", "5m", "1h", "output", "thinking", "search",
                          "fetch", "tier"}]
OutputFields == {"output", "thinking", "search", "fetch"}
Required == [openai |-> {"input", "output", "total"}, anthropic |-> {"input", "output"}]
UnknownReasons == {"stale_pending", "provider_transport_ambiguous", "provider_stream_interrupted"}

-----------------------------------------------------------------------------
(* The native values and what they are normalized to.  A value that is not *)
(* known is not in the domain.                                             *)

Knows(values, names) == names \subseteq DOMAIN values
WithoutCount(values, names) == Restrict(values, DOMAIN values \ names)
SumOf(values, names) == FoldFunctionOnSet(LAMBDA x, y : x + y, 0, values, names)

OpenAiFaults(values) ==
    (IF Knows(values, {"total", "input", "output"}) /\ values["total"] # values["input"] + values["output"]
     THEN {"total"} ELSE {})
      \cup {name \in {"read", "write"} : Knows(values, {name, "input"}) /\ values[name] > values["input"]}

SplitFaults(values) ==
    IF ~Knows(values, {"write"}) THEN {}
    ELSE IF Knows(values, {"5m", "1h"})
         THEN IF values["5m"] + values["1h"] # values["write"] THEN {"5m", "1h"} ELSE {}
         ELSE {name \in {"5m", "1h"} \cap DOMAIN values : values[name] > values["write"]}

TotalParts == {"input", "read", "write", "output"}
Overflows(values, names) == Knows(values, names) /\ SumOf(values, names) > MaxCount
Summed(values, names, name) ==
    IF Knows(values, names) /\ ~Overflows(values, names)
    THEN [x \in DOMAIN values \cup {name} |->
            IF x \in DOMAIN values THEN values[x] ELSE SumOf(values, names)]
    ELSE values

Normalized(protocol, values) ==
    IF protocol = "openai" THEN WithoutCount(values, OpenAiFaults(values))
    ELSE Summed(Summed(WithoutCount(values, SplitFaults(values)), TotalParts, "total"),
                {"search", "fetch"}, "tools")

IntrinsicallyInvalid(protocol, values) ==
    IF protocol = "openai" THEN OpenAiFaults(values) # {}
    ELSE \/ SplitFaults(values) # {}
         \/ Overflows(values, TotalParts) \/ Overflows(values, {"search", "fetch"})

-----------------------------------------------------------------------------
(* NativeUsageAccumulator.                                                 *)

Invalid(native) == [values |-> native.values, invalid |-> TRUE]

Observed(native, report, names) ==
    LET given == names \cap DOMAIN report.counts
        good == {name \in given : report.counts[name] \in 0 .. MaxCount}
    IN  [values |-> [name \in (DOMAIN native.values \ given) \cup good |->
                       IF name \in good THEN report.counts[name] ELSE native.values[name]],
         invalid |-> native.invalid \/ good # given]

Observe(native, report, names) ==
    IF ~report.present THEN native
    ELSE IF ~report.object THEN Invalid(native)
    ELSE Observed(native, report, names)

\* The last cumulative output of a stream replaces what was reported before it.
ObserveDelta(native, report) ==
    LET cleared == [values |-> WithoutCount(native.values, OutputFields), invalid |-> native.invalid]
    IN  IF ~report.present THEN Invalid(cleared)
        ELSE Observe(cleared, report, OutputFields \cup {"tier"})

Absent(reason) == [state |-> "absent", reason |-> reason, values |-> <<>>, counts |-> <<>>]

Observation(protocol, native) ==
    LET invalid == native.invalid \/ IntrinsicallyInvalid(protocol, native.values)
        complete == Required[protocol] \subseteq DOMAIN native.values /\ ~invalid
    IN  IF DOMAIN native.values = {}
        THEN Absent(IF native.invalid THEN "provider_usage_invalid" ELSE "provider_usage_absent")
        ELSE [state |-> IF complete THEN "complete" ELSE "partial",
              reason |-> IF complete THEN "none"
                         ELSE IF invalid THEN "provider_usage_invalid" ELSE "provider_usage_incomplete",
              values |-> native.values, counts |-> Normalized(protocol, native.values)]

\* Mistake: the evidence of an attempt with an unknown outcome stays complete.
UnknownObservation_Complete(observation, reason) ==
    IF observation.state = "absent" THEN Absent(reason)
    ELSE [observation EXCEPT !.reason = IF observation.state = "complete" THEN "none" ELSE reason]

UnknownObservation(observation, reason) ==
    IF observation.state = "absent" THEN Absent(reason)
    ELSE [observation EXCEPT !.state = "partial", !.reason = reason]

\* What the type NativeUsageObservation admits.
IsObservation(protocol, seen) ==
    LET required == Required[protocol] \subseteq DOMAIN seen.values
        invalid == IntrinsicallyInvalid(protocol, seen.values)
    IN  /\ (seen.state = "complete") <=> (seen.reason = "none")
        /\ seen.state = "partial" => seen.reason # "provider_usage_absent"
        /\ seen.state = "absent" => /\ seen.reason # "provider_usage_incomplete"
                                    /\ DOMAIN seen.values = {} /\ DOMAIN seen.counts = {}
        /\ seen.state # "absent" => /\ DOMAIN seen.values # {}
                                    /\ seen.counts = Normalized(protocol, seen.values)
        /\ seen.state = "complete" => required /\ ~invalid
        /\ seen.reason = "provider_usage_incomplete" => ~required /\ ~invalid

-----------------------------------------------------------------------------
(* The estimate at the configured rates.                                   *)

Priced(protocol, seen) ==
    IF ~Knows(seen.counts, TotalParts) THEN "missing_native_usage"
    ELSE IF protocol = "openai" /\ seen.counts["read"] + seen.counts["write"] > seen.counts["input"]
         THEN "invalid_native_usage"
    ELSE "estimated"

\* One rounding, to even, of an exact number of half micro-units.
HalfEven(n) == IF n % 4 = 3 THEN (n + 1) \div 2 ELSE n \div 2

Price(input, read, write, output) ==
    HalfEven(input * HalfRates.input + read * HalfRates.read + write * HalfRates.write
             + output * HalfRates.output)

\* OpenAI's input includes what was read from and written to the cache.
PlainInput(protocol, input, read, write) ==
    IF protocol = "anthropic" THEN input ELSE IF read + write > input THEN 0 ELSE input - read - write

Estimate(protocol, seen) ==
    LET counts == seen.counts
        amount == Price(PlainInput(protocol, counts["input"], counts["read"], counts["write"]),
                        counts["read"], counts["write"], counts["output"])
        reason == Priced(protocol, seen)
    IN  IF reason # "estimated" THEN [reason |-> reason, amount |-> 0]
        ELSE IF amount > MaxCount THEN [reason |-> "estimate_outside_precision", amount |-> 0]
        ELSE [reason |-> reason, amount |-> amount]

IsEvidence(protocol, evidence) ==
    /\ evidence.state \in {"succeeded", "failed", "rate_limited", "outcome_unknown"}
    /\ (evidence.state = "outcome_unknown") <=> ~evidence.usage
    /\ IsObservation(protocol, evidence.seen)
    /\ evidence.seen.reason \in UnknownReasons => evidence.state = "outcome_unknown"
    /\ evidence.estimate.reason = "estimated" => Priced(protocol, evidence.seen) = "estimated"
    /\ evidence.state = "outcome_unknown" => evidence.seen.state # "complete"
    /\ (evidence.state = "outcome_unknown") <=> (evidence.estimate.reason = "attempt_outcome_unknown")

-----------------------------------------------------------------------------
(* ResponseUsageParser.  "charged" holds the counters of the usage row.    *)

NoUsage == [input |-> 0, output |-> 0, read |-> 0, write |-> 0, reasoning |-> 0,
            inputSeen |-> FALSE, outputSeen |-> FALSE]
NewAnswer(protocol, stream, chat) ==
    [protocol |-> protocol, stream |-> stream, chat |-> chat, events |-> 0,
     charged |-> NoUsage, native |-> [values |-> <<>>, invalid |-> FALSE],
     said |-> [terminal |-> "none", completed |-> FALSE, chatValid |-> FALSE]]
NotSettled == [state |-> "open"]

FinanceEvidenceInit ==
    /\ \E protocol \in Protocols, stream, chat \in BOOLEAN :
          (chat => protocol = "openai") /\ answer = NewAnswer(protocol, stream, chat)
    /\ settled = NotSettled

Counted(report, name) == report.object /\ name \in DOMAIN report.counts /\ report.counts[name] # Malformed
Latest(report, name, before) == IF Counted(report, name) THEN report.counts[name] ELSE before

\* Counters keep their last well-formed value, however large it is.
ChargeInput(charged, report) ==
    [input |-> Latest(report, "input", charged.input), output |-> charged.output,
     read |-> Latest(report, "read", charged.read), write |-> Latest(report, "write", charged.write),
     reasoning |-> charged.reasoning,
     inputSeen |-> charged.inputSeen \/ Counted(report, "input"), outputSeen |-> charged.outputSeen]
ChargeOutput(charged, report) ==
    [input |-> charged.input, output |-> Latest(report, "output", charged.output),
     read |-> charged.read, write |-> charged.write, reasoning |-> charged.reasoning,
     inputSeen |-> charged.inputSeen, outputSeen |-> charged.outputSeen \/ Counted(report, "output")]

\* OpenAI's counters leave out what was written to the cache.
ChargeOpenAi(charged, report) ==
    ChargeOutput([ChargeInput(charged, report) EXCEPT !.write = charged.write,
                                                      !.reasoning = Latest(report, "reasoning", charged.reasoning)],
                 report)

Receiving == settled = NotSettled /\ answer.events < MaxUsageEvents
Receive(charged, native, said) ==
    /\ answer' = [protocol |-> answer.protocol, stream |-> answer.stream, chat |-> answer.chat,
                  events |-> answer.events + 1, charged |-> charged, native |-> native, said |-> said]
    /\ UNCHANGED settled

\* Two different terminal states of one answer: it failed, and its evidence is not whole.
Ends(state) == state \in {"completed", "failed", "incomplete"}
Contradicts(state) == Ends(state) /\ answer.said.terminal \notin {"none", state}
Terminated(state) ==
    IF Contradicts(state) THEN "failed" ELSE IF Ends(state) THEN state ELSE answer.said.terminal

\* The usage of a Chat Completion is checked in itself, unless it is null, and is not kept as
\* native evidence.
ReadsComplete(report) ==
    LET native == Observe([values |-> <<>>, invalid |-> FALSE], report, Fields.openai \ {"tier"})
    IN  Observation("openai", native).state = "complete"

\* An event of a Responses stream, or the Responses object itself.
OpenAiObject(state, report) ==
    LET native == IF Contradicts(state) THEN Invalid(answer.native) ELSE answer.native
    IN  /\ Receiving /\ answer.protocol = "openai" /\ (answer.stream \/ answer.events = 0)
        /\ Receive(ChargeOpenAi(answer.charged, report),
                   IF answer.chat THEN native ELSE Observe(native, report, Fields.openai),
                   [terminal |-> Terminated(state),
                    completed |-> answer.said.completed \/ (answer.stream /\ state = "completed"),
                    chatValid |-> IF report.present /\ ~report.null THEN ReadsComplete(report)
                                 ELSE answer.said.chatValid])

MessageStart(report) ==
    /\ Receiving /\ answer.protocol = "anthropic" /\ answer.stream
    /\ Receive(ChargeInput(answer.charged, report),
               Observe(answer.native, report, Fields.anthropic \ OutputFields), answer.said)

\* Mistake: a delta without a count leaves the count of an earlier one in force.
MessageDelta_Inheriting(report) ==
    /\ Receiving /\ answer.protocol = "anthropic" /\ answer.stream
    /\ Receive(ChargeOutput(answer.charged, report), ObserveDelta(answer.native, report), answer.said)

WithoutOutput(charged) ==
    [input |-> charged.input, output |-> 0, read |-> charged.read, write |-> charged.write,
     reasoning |-> charged.reasoning, inputSeen |-> charged.inputSeen, outputSeen |-> FALSE]
MessageDelta(report) ==
    /\ Receiving /\ answer.protocol = "anthropic" /\ answer.stream
    /\ Receive(ChargeOutput(WithoutOutput(answer.charged), report),
               ObserveDelta(answer.native, report), answer.said)

\* message_stop, the event line of a completed response, and [DONE].
CompletionMarker ==
    /\ Receiving /\ answer.stream
    /\ Receive(answer.charged, answer.native, [answer.said EXCEPT !.completed = TRUE])

MessageObject(report) ==
    /\ Receiving /\ answer.protocol = "anthropic" /\ ~answer.stream /\ answer.events = 0
    /\ Receive(ChargeOutput(ChargeInput(answer.charged, report), report),
               Observe(answer.native, report, Fields.anthropic), answer.said)

\* Data that is no JSON, or names a member twice.
Unreadable ==
    /\ Receiving /\ (answer.stream \/ answer.events = 0)
    /\ Receive(answer.charged, Invalid(answer.native), answer.said)

-----------------------------------------------------------------------------
(* The end of the answer, with the HTTP status and whether the client got  *)
(* all of it.  One transaction stores the usage row, which holds no        *)
(* integer over MaxCount, the event that settles the attempt, and the      *)
(* evidence, if its validator accepts it.  It is rolled back when either   *)
(* fails: the handler ends, and the attempt stays pending until a sweep.   *)

Seen == Observation(answer.protocol, answer.native)
EvidenceComplete ==
    answer.charged.inputSeen /\ answer.charged.outputSeen /\ (answer.chat => answer.said.chatValid)

TooLarge(charged, cost) ==
    \E amount \in {charged.input, charged.output, charged.read, charged.write, charged.reasoning, cost} :
        amount > MaxCount

Conclude(evidence, charged, cost) ==
    settled' = [state |-> IF TooLarge(charged, cost) \/ ~IsEvidence(answer.protocol, evidence)
                          THEN "pending" ELSE evidence.state,
                evidence |-> evidence, charged |-> charged, cost |-> cost]

ConcludeUnknown(reason) ==
    Conclude([state |-> "outcome_unknown", usage |-> FALSE, seen |-> UnknownObservation(Seen, reason),
              estimate |-> [reason |-> "attempt_outcome_unknown", amount |-> 0]], NoUsage, 0)

\* The price of the charged counters, for an attempt without an estimate.
ChargedCost ==
    LET charged == answer.charged
    IN  Price(PlainInput(answer.protocol, charged.input, charged.read, charged.write),
              charged.read, charged.write, charged.output)

ConcludeKnown(state) ==
    LET estimate == Estimate(answer.protocol, Seen)
    IN  Conclude([state |-> state, usage |-> TRUE, seen |-> Seen, estimate |-> estimate],
                 answer.charged, IF estimate.reason = "estimated" THEN estimate.amount ELSE ChargedCost)

EndAnswer(status, downstreamOk) ==
    LET failed == answer.said.terminal \in {"failed", "incomplete"}
        accountable == status = 200 /\ (downstreamOk \/ answer.said.completed \/ failed)
    IN  /\ settled = NotSettled
        /\ CASE accountable /\ failed -> ConcludeKnown("failed")
             [] accountable /\ ~failed /\ EvidenceComplete -> ConcludeKnown("succeeded")
             [] accountable /\ ~failed /\ ~EvidenceComplete -> ConcludeUnknown("provider_transport_ambiguous")
             [] ~accountable /\ status = 429 -> ConcludeKnown("rate_limited")
             [] ~accountable /\ status = 200 -> ConcludeUnknown("provider_stream_interrupted")
             [] OTHER -> ConcludeKnown("failed")
        /\ UNCHANGED answer

\* An attempt whose handler or gateway went away is swept with no observation of its answer.
SweepStale ==
    /\ settled.state \in {"open", "pending"}
    /\ Conclude([state |-> "outcome_unknown", usage |-> FALSE, seen |-> Absent("stale_pending"),
                 estimate |-> [reason |-> "attempt_outcome_unknown", amount |-> 0]], NoUsage, 0)
    /\ UNCHANGED answer

FinanceEvidenceNext ==
    \/ \E report \in Reports.openai \cup NoObjects,
          state \in {"none", "completed", "failed", "incomplete"} : OpenAiObject(state, report)
    \/ \E report \in Reports.anthropic \cup NoObjects :
          MessageStart(report) \/ MessageDelta(report) \/ MessageObject(report)
    \/ CompletionMarker \/ Unreadable \/ SweepStale
    \/ \E status \in {200, 429, 500}, downstreamOk \in BOOLEAN : EndAnswer(status, downstreamOk)

FinanceEvidenceSpec == FinanceEvidenceInit /\ [][FinanceEvidenceNext]_financeEvidenceVars

-----------------------------------------------------------------------------
FinanceEvidenceTypeOK ==
    /\ answer.protocol \in Protocols /\ answer.events \in 0..MaxUsageEvents
    /\ DOMAIN answer.native.values \subseteq Fields[answer.protocol]
    /\ \A name \in DOMAIN answer.native.values : answer.native.values[name] \in 0..MaxCount
    /\ settled.state \in {"open", "pending", "succeeded", "failed", "rate_limited", "outcome_unknown"}

\* Whatever a provider reported, and however its answer ended, the evidence that is made of it is
\* one its validator accepts.  An attempt stays pending after its answer only for a known outcome
\* with a count or a cost that no row holds; one that could be estimated settles, unless it is
\* the count of reasoning, which no estimate reads, that is too large.  What a sweep stores always
\* settles.
EveryAnswerSettles ==
    settled.state = "pending" =>
       /\ IsEvidence(answer.protocol, settled.evidence) /\ settled.evidence.state # "outcome_unknown"
       /\ TooLarge(settled.charged, settled.cost)
       /\ settled.evidence.estimate.reason = "estimated" => settled.charged.reasoning > MaxCount

\* An estimate prices the very counters of the usage row, and the row's cost is the estimate.  The
\* output of a stream that succeeded is that of its last delta.
ChargedAsReported ==
    settled.state \in {"succeeded", "failed", "rate_limited"} =>
       LET counts == settled.evidence.seen.counts
           charged == settled.charged
       IN  /\ settled.evidence.estimate.reason = "estimated" =>
                 /\ charged.input = counts["input"] /\ charged.output = counts["output"]
                 /\ charged.read = counts["read"]
                 /\ answer.protocol = "anthropic" => charged.write = counts["write"]
                 /\ settled.cost = settled.evidence.estimate.amount
           /\ (answer.protocol = "anthropic" /\ settled.state = "succeeded") =>
                 "output" \in DOMAIN counts /\ charged.output = counts["output"]

\* Every answer that a row can hold settles, and is charged as its provider reported it.
FinanceEvidenceIsSound == EveryAnswerSettles /\ ChargedAsReported

================================================================================
