----------------------------- MODULE CodingProbe -----------------------------
(***************************************************************************)
(* The local coding probe (hormuz/coding_probe.py): one plan an operator   *)
(* arms for one bounded experiment, checked three times on a request's way *)
(* to the local model: when the route is selected, before the attempt is   *)
(* begun, where the request is claimed, and under the local lease.  Each   *)
(* check is atomic; between them other requests claim, and the plan is     *)
(* revoked, expires or is replaced.                                        *)
(*                                                                         *)
(* A request's input is a sequence of items: the first one of a plan's     *)
(* case has one item, whatever is longer carries provider state.           *)
(***************************************************************************)
EXTENDS Naturals, FiniteSets, SequencesExt

CONSTANTS
    Probes,        \* requests with the probe header
    Threads,       \* conversations, each with the job that is its own
    ThreadOf,
    Inputs,        \* inputs a request may have
    FirstInput,    \* the plan's first input
    MaxRequests,   \* max_requests of a plan
    MaxPlans,      \* bound: plans that are ever armed
    NoThread

ASSUME ProbeAssumption ==
    /\ ThreadOf \in [Probes -> Threads] /\ NoThread \notin Threads
    /\ FirstInput \in Inputs /\ \A input \in Inputs : input \in Seq(Range(input))
    /\ Len(FirstInput) = 1
    /\ MaxRequests \in Nat \ {0} /\ MaxPlans \in Nat

VARIABLES
    plan,      \* how many plans were armed; the last one is in place
    ended,     \* the plan was revoked or its deadline has passed
    count,     \* claims of the plan
    job,       \* work_id, or NoThread
    last,      \* the input that was claimed last
    bound,     \* conversations that have a job
    probe,     \* where a request stands
    says,      \* the plan its header names
    input,     \* what it sends
    claim      \* how many claims of its plan there were with its own, or 0

probeVars == <<plan, ended, count, job, last, bound, probe, says, input, claim>>
planVars == <<plan, ended, count, job, last>>

ProbePCs == {"new", "identified", "selected", "prepared", "claimed", "leased", "sent", "done"}

ProbeTypeOK ==
    /\ plan \in 0 .. MaxPlans /\ ended \in BOOLEAN
    /\ count \in 0 .. MaxRequests
    /\ job \in Threads \cup {NoThread}
    /\ last \in Inputs \cup {<<>>}
    /\ bound \subseteq Threads
    /\ probe \in [Probes -> ProbePCs]
    /\ says \in [Probes -> 0 .. MaxPlans]
    /\ input \in [Probes -> Inputs]
    /\ claim \in [Probes -> 0 .. MaxRequests]

ProbeInit ==
    /\ plan = 0 /\ ended = FALSE /\ count = 0 /\ job = NoThread /\ last = <<>>
    /\ bound = {}
    /\ probe = [r \in Probes |-> "new"]
    /\ says = [r \in Probes |-> 0]
    /\ input = [r \in Probes |-> FirstInput]
    /\ claim = [r \in Probes |-> 0]

ProbeGoto(r, label) == probe' = [probe EXCEPT ![r] = label]
RequestsOnly == UNCHANGED planVars

(***************************************************************************)
(* What the operator does.                                                 *)
(***************************************************************************)

\* Mistake: a new plan goes on with the count of the old one.
Arm_KeepsCount ==
    /\ plan < MaxPlans
    /\ plan = 0 \/ ended
    /\ plan' = plan + 1 /\ ended' = FALSE
    /\ job' = NoThread /\ last' = <<>>
    /\ UNCHANGED <<count, bound, probe, says, input, claim>>

\* control with a plan, once no other one is in force.
Arm ==
    /\ plan < MaxPlans
    /\ plan = 0 \/ ended
    /\ plan' = plan + 1 /\ ended' = FALSE
    /\ count' = 0 /\ job' = NoThread /\ last' = <<>>
    /\ UNCHANGED <<bound, probe, says, input, claim>>

\* control with revoke, or the deadline passes.
EndPlan ==
    /\ plan > 0 /\ ~ended
    /\ ended' = TRUE
    /\ UNCHANGED <<plan, count, job, last, bound, probe, says, input, claim>>

(***************************************************************************)
(* What a request does.                                                    *)
(***************************************************************************)

\* A continuation knows its job since identify, the first input since prepare.
JobOf(r) == ThreadOf[r]

Claimed(r) == claim[r] > 0

\* Mistake: the claim trusts what the check at selection found.
MayProceed_Selected(r) ==
    /\ plan > 0 /\ ~ended /\ says[r] = plan
    /\ \/ probe[r] \in {"prepared", "leased"}
       \/ count < MaxRequests /\ (IF job = NoThread THEN input[r] = FirstInput
                                  ELSE JobOf(r) = job /\ IsStrictPrefix(last, input[r]))

\* Mistake: a continuation need only start with the first input.
MayProceed_FirstOnly(r) ==
    /\ plan > 0 /\ ~ended /\ says[r] = plan
    /\ Claimed(r) \/ count < MaxRequests
    /\ IF job = NoThread \/ claim[r] = 1
       THEN input[r] = FirstInput
       ELSE JobOf(r) = job /\ IsStrictPrefix(FirstInput, input[r])

\* check: the first input once, and then only what continues the last claim in
\* the same job; a claimed request is not measured against itself.
MayProceed(r) ==
    /\ plan > 0 /\ ~ended /\ says[r] = plan
    /\ Claimed(r) \/ count < MaxRequests
    /\ IF job = NoThread \/ claim[r] = 1
       THEN input[r] = FirstInput
       ELSE /\ JobOf(r) = job /\ IsStrictPrefix(FirstInput, input[r])
            /\ Claimed(r) \/ IsStrictPrefix(last, input[r])

\* identify: what carries provider state must belong to a known conversation.  A
\* header that never named a plan is refused like one that names an old one.
IdentifyProbe(r) ==
    /\ probe[r] = "new"
    /\ \E header \in 1 .. plan, value \in Inputs :
           /\ says' = [says EXCEPT ![r] = header]
           /\ input' = [input EXCEPT ![r] = value]
           /\ ProbeGoto(r, IF Len(value) > 1 /\ ThreadOf[r] \notin bound
                           THEN "done" ELSE "identified")
    /\ UNCHANGED <<bound, claim>> /\ RequestsOnly

Select(r) ==
    /\ probe[r] = "identified"
    /\ \/ MayProceed(r) /\ ProbeGoto(r, "selected")
       \/ ProbeGoto(r, "done")
    /\ UNCHANGED <<bound, says, input, claim>> /\ RequestsOnly

\* prepare binds the conversation to its job, or refuses.
PrepareProbe(r) ==
    /\ probe[r] = "selected"
    /\ bound' = bound \cup {ThreadOf[r]}
    /\ \E label \in {"prepared", "done"} : ProbeGoto(r, label)
    /\ UNCHANGED <<says, input, claim>> /\ RequestsOnly

\* final_check, which claims.
Claim(r) ==
    /\ probe[r] = "prepared"
    /\ \/ /\ MayProceed(r)
          /\ count' = count + 1
          /\ job' = JobOf(r)
          /\ last' = input[r]
          /\ claim' = [claim EXCEPT ![r] = count + 1]
          /\ ProbeGoto(r, "claimed")
       \/ ProbeGoto(r, "done") /\ UNCHANGED <<count, job, last, claim>>
    /\ UNCHANGED <<plan, ended, bound, says, input>>

\* An attempt is begun and the one local slot is taken, or a denial ends it.
TakeSlot(r) ==
    /\ probe[r] = "claimed"
    /\ \/ /\ \A s \in Probes : probe[s] \notin {"leased", "sent"}
          /\ ProbeGoto(r, "leased")
       \/ ProbeGoto(r, "done")
    /\ UNCHANGED <<bound, says, input, claim>> /\ RequestsOnly

\* final_check once more, under the lease.
Send(r) ==
    /\ probe[r] = "leased"
    /\ \/ MayProceed(r) /\ ProbeGoto(r, "sent")
       \/ ProbeGoto(r, "done")
    /\ UNCHANGED <<bound, says, input, claim>> /\ RequestsOnly

EndProbe(r) ==
    /\ probe[r] = "sent" /\ ProbeGoto(r, "done")
    /\ UNCHANGED <<bound, says, input, claim>> /\ RequestsOnly

ProbeNext ==
    \/ Arm \/ EndPlan
    \/ \E r \in Probes :
           \/ IdentifyProbe(r) \/ Select(r) \/ PrepareProbe(r) \/ Claim(r)
           \/ TakeSlot(r) \/ Send(r) \/ EndProbe(r)

ProbeSpec == ProbeInit /\ [][ProbeNext]_probeVars

(***************************************************************************)
(* What the operator authorized.                                           *)
(***************************************************************************)

\* A plan never admits more than max_requests, nor the same place twice, however
\* checks and claims of several requests interleave (the claim in check).
ClaimsAreCounted ==
    /\ \A r, s \in Probes : Claimed(r) /\ Claimed(s) /\ r # s /\ says[r] = says[s] =>
           claim[r] # claim[s]
    /\ Cardinality({r \in Probes : Claimed(r) /\ says[r] = plan}) = count
    /\ count <= MaxRequests

\* The claims of a plan are one growing conversation of one job that starts with
\* the plan's first input (first, first_length and last_input_sha256).
ClaimsAreOneConversation ==
    \A r, s \in Probes : Claimed(r) /\ Claimed(s) /\ says[r] = says[s] =>
        /\ ThreadOf[r] = ThreadOf[s]
        /\ claim[r] = 1 => input[r] = FirstInput
        /\ claim[r] < claim[s] => IsStrictPrefix(input[r], input[s])

\* What a plan authorizes is what it gets: so many requests, and of one
\* conversation, while plans end and are replaced between checks and claims.
PlanIsKept == ClaimsAreCounted /\ ClaimsAreOneConversation

==============================================================================
