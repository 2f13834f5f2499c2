---------------------------- MODULE GatewayRequest ----------------------------
(***************************************************************************)
(* The request handlers of the gateway over the attempt ledger: what       *)
(* hormuz/server.py does between admitting a generation request and        *)
(* recording its outcome, with one handler thread per request, the one     *)
(* local-inference slot of hormuz/route_admission.py, one failover, lost   *)
(* storage calls, and a server that stops and starts again.                *)
(*                                                                         *)
(* The ledger transactions are those of AttemptLedger, and the clock       *)
(* (Expire, NewMonth) runs between any two steps of a handler.  A ledger   *)
(* call that raises, because the store fails or because the attempt is no  *)
(* longer pending, ends the handler and changes nothing.                   *)
(***************************************************************************)
EXTENDS AttemptLedger

CONSTANTS
    Requests,   \* generation requests that are accounted
    LocalOnes   \* those a non-configured routing mode sends to a local route

ASSUME LocalAssumption == LocalOnes \subseteq Requests /\ None \notin Requests

VARIABLES
    pc,     \* where the handler of a request stands
    att,    \* the attempt it holds
    alt,    \* failover_decision: the alternate route it may still take
    who,    \* the actor it authenticated
    lease,  \* the handler in the local-inference slot, or None
    up,     \* the server process runs
    due     \* history: the cost the provider's answer made known

handler == <<pc, att, alt, who, lease, up, due>>
vars == <<event, root, hold, expired, usage, month, pc, att, alt, who, lease, up, due>>

\* Where a handler owes an outcome to the attempt it holds.
Egress  == {"send", "headers", "stream"}
Owing   == {"admit", "enter", "check"} \cup Egress
Working == Owing \cup {"failover429", "failover529"}
PCs     == {"new", "done"} \cup Working

TypeOK ==
    /\ LedgerTypeOK
    /\ pc \in [Requests -> PCs]
    /\ att \in [Requests -> Attempts \cup {None}]
    /\ alt \in [Requests -> BOOLEAN]
    /\ who \in [Requests -> Actors]
    /\ lease \in Requests \cup {None}
    /\ up \in BOOLEAN
    /\ due \in [Attempts -> Charges \cup {None}]

Init ==
    /\ LedgerInit
    /\ pc = [r \in Requests |-> "new"]
    /\ att = [r \in Requests |-> None]
    /\ alt \in [Requests -> BOOLEAN]
    /\ who \in [Requests -> Actors]
    /\ lease = None
    /\ up = TRUE
    /\ due = [a \in Attempts |-> None]

Goto(r, label) == pc' = [pc EXCEPT ![r] = label]

\* Mistake: an exception on the way out skips the release.
Leave_KeepsLease(r) ==
    /\ Goto(r, "done")
    /\ lease' = IF lease = r /\ att[r] \in hold \ expired THEN None ELSE lease

\* The handler ends; the lease's finally block frees the slot.
Leave(r) ==
    /\ Goto(r, "done")
    /\ lease' = IF lease = r THEN None ELSE lease

Rest == UNCHANGED <<att, alt, who, up>>

\* A ledger call of the handler, which raises when it cannot be made.
Settle(r, state, cost) == Finalize(att[r], state, cost) \/ UNCHANGED ledger
GiveUpOn(r) == MarkUnknown(att[r]) \/ UNCHANGED ledger

(***************************************************************************)
(* Before anything leaves for the provider.                                *)
(***************************************************************************)

\* Mistake: the failover keeps its own alternate.
Begin_AgainAndAgain(r, pred, status) ==
    /\ \E a \in Attempts, cost \in Costs :
           /\ BeginAttempt(a, who[r], cost, pred, status)
           /\ att' = [att EXCEPT ![r] = a]
    /\ UNCHANGED alt
    /\ Goto(r, "admit")
    /\ UNCHANGED <<who, lease, up, due>>

\* _begin_governed_attempt; a failover has no alternate of its own.
Begin(r, pred, status) ==
    /\ \E a \in Attempts, cost \in Costs :
           /\ BeginAttempt(a, who[r], cost, pred, status)
           /\ att' = [att EXCEPT ![r] = a]
    /\ alt' = [alt EXCEPT ![r] = @ /\ pred = None]
    /\ Goto(r, "admit")
    /\ UNCHANGED <<who, lease, up, due>>

Start(r) == up /\ pc[r] = "new" /\ Begin(r, None, 429)

\* The budget is spent, or the store fails: no attempt, no egress.
Denied(r) ==
    /\ up /\ pc[r] \in {"new", "failover429", "failover529"}
    /\ Leave(r)
    /\ UNCHANGED <<ledger, due>> /\ Rest

\* Attribution and the work reservation: a known rejection settles at zero, an
\* uncertain one keeps the hold.
Admit(r) ==
    /\ pc[r] = "admit"
    /\ \/ Goto(r, "enter") /\ UNCHANGED <<ledger, lease>>
       \/ Leave(r) /\ Settle(r, "failed", 0)
    /\ UNCHANGED due /\ Rest

\* The slot is taken without waiting, and a failover keeps the one it has; a
\* client that leaves during the shadow observation settles at zero as well.
Enter(r) ==
    /\ pc[r] = "enter"
    /\ \/ /\ r \in LocalOnes => lease \in {None, r}
          /\ lease' = IF r \in LocalOnes THEN r ELSE lease
          /\ Goto(r, "check")
          /\ UNCHANGED ledger
       \/ Leave(r) /\ Settle(r, "failed", 0)
    /\ UNCHANGED due /\ Rest

\* final_check reads the policy, the qualification and the health again.
Check(r) ==
    /\ pc[r] = "check"
    /\ \/ Goto(r, "send") /\ UNCHANGED <<ledger, lease>>
       \/ Leave(r) /\ Settle(r, "failed", 0)
    /\ UNCHANGED due /\ Rest

(***************************************************************************)
(* The provider's answer.                                                  *)
(***************************************************************************)

\* A transport error, a timeout or a redirect leaves the outcome unknown.
Ambiguous(r) ==
    /\ pc[r] = "send"
    /\ Leave(r) /\ GiveUpOn(r)
    /\ UNCHANGED due /\ Rest

\* 429 or 529 with an alternate route: the original is settled at zero, and the
\* failover begins only if that was recorded.
Limited(r) ==
    /\ pc[r] = "send" /\ alt[r]
    /\ \/ Finalize(att[r], "rate_limited", 0) /\ Goto(r, "failover429") /\ UNCHANGED lease
       \/ Finalize(att[r], "failed", 0) /\ Goto(r, "failover529") /\ UNCHANGED lease
       \/ Leave(r) /\ UNCHANGED ledger
    /\ UNCHANGED due /\ Rest

Failover(r) ==
    \/ pc[r] = "failover429" /\ Begin(r, att[r], 429)
    \/ pc[r] = "failover529" /\ Begin(r, att[r], 529)

Answered(r) ==
    /\ pc[r] = "send"
    /\ Goto(r, "headers")
    /\ UNCHANGED <<ledger, lease, due>> /\ Rest

\* The client may leave before it has the headers.
Headers(r) ==
    /\ pc[r] = "headers"
    /\ \/ Goto(r, "stream") /\ UNCHANGED <<ledger, lease>>
       \/ Leave(r) /\ GiveUpOn(r)
    /\ UNCHANGED due /\ Rest

\* A chunk came after refresh_at; time may pass the hold's expiry before one does.
StreamRefresh(r) ==
    /\ pc[r] = "stream"
    /\ Refresh(att[r])
    /\ UNCHANGED handler

\* The stream was cut with no terminal event, or a success lacks usage evidence.
StreamUnknown(r) ==
    /\ pc[r] = "stream"
    /\ Leave(r) /\ GiveUpOn(r)
    /\ UNCHANGED due /\ Rest

\* Mistake: when the attempt is no longer pending, drops the hold and moves on.
StreamKnown_DropsHold(r) ==
    /\ pc[r] = "stream"
    /\ \E state \in Settled, cost \in Charges :
           /\ \/ Finalize(att[r], state, cost)
              \/ event[att[r]] = "outcome_unknown" /\ Release_Any(att[r])
           /\ due' = [due EXCEPT ![att[r]] = cost]
    /\ Leave(r) /\ Rest

\* The provider's result is known.
StreamKnown(r) ==
    /\ pc[r] = "stream"
    /\ \E state \in Settled, cost \in Charges :
           /\ Settle(r, state, cost)
           /\ due' = [due EXCEPT ![att[r]] = cost]
    /\ Leave(r) /\ Rest

\* The store, or code that nothing catches, raises.
Raises(r) ==
    /\ pc[r] \in Owing
    /\ Leave(r)
    /\ UNCHANGED <<ledger, due>> /\ Rest

(***************************************************************************)
(* The server.                                                             *)
(***************************************************************************)

\* The process dies with every handler in it.
Crash ==
    /\ up
    /\ up' = FALSE
    /\ pc' = [r \in Requests |-> IF pc[r] = "new" THEN "new" ELSE "done"]
    /\ lease' = None
    /\ UNCHANGED <<ledger, att, alt, who, due>>

\* GatewayServer.__init__ sweeps before it serves.
Restart ==
    /\ ~up
    /\ up' = TRUE
    /\ Sweep
    /\ UNCHANGED <<pc, att, alt, who, lease, due>>

Clock ==
    /\ NewMonth \/ \E a \in Attempts : Expire(a)
    /\ UNCHANGED handler

(***************************************************************************)
(* The specification.                                                      *)
(***************************************************************************)

Progress(r) ==
    \/ Denied(r) \/ Admit(r) \/ Enter(r) \/ Check(r)
    \/ Ambiguous(r) \/ Limited(r) \/ Failover(r) \/ Answered(r)
    \/ Headers(r) \/ StreamUnknown(r) \/ StreamKnown(r) \/ Raises(r)

Next ==
    \/ \E r \in Requests : Start(r) \/ Progress(r) \/ StreamRefresh(r)
    \/ Crash \/ Restart \/ Clock

Spec == Init /\ [][Next]_vars

\* A request on a local route has one deadline for all of its reads and writes
\* (local_request_deadline), so its handler always goes on.
FairSpec == Spec /\ \A r \in LocalOnes : WF_vars(pc[r] # "new" /\ Progress(r))

(***************************************************************************)
(* What the handlers promise.                                              *)
(***************************************************************************)

\* Nothing is asked of a provider without a hold, and the hold is still there
\* while an answer may arrive, also after a sweep of another request has taken
\* the attempt for lost.
EgressIsHeld == \A r \in Requests : pc[r] \in Egress => att[r] \in hold

\* A cost the provider made known is charged, or the hold that was taken for it
\* stays: no race with a sweep, failed call or restart makes it free.
CostIsCovered ==
    \A a \in Attempts : due[a] # None =>
        \/ event[a] \in Settled /\ usage[a].cost = due[a]
        \/ a \in hold

\* A request fails over once at most, and only from an attempt that was settled
\* at no cost, so at most one of its attempts is ever charged.
FailoverOnceAndFree ==
    \A a \in Attempts : root[a] # None /\ root[a].pred # None =>
        /\ usage[root[a].pred].cost = 0
        /\ root[root[a].pred].pred = None

\* At most one local request is past the capacity check, and the slot is never
\* left with a handler that ended.
LeaseIsExclusive ==
    /\ \A r \in LocalOnes : pc[r] \in {"check"} \cup Egress => lease = r
    /\ lease # None => pc[lease] \in Working

\* Whatever happens to a local request, the slot comes free again.
LeaseComesFree == \A r \in LocalOnes : (lease = r) ~> (lease # r)

\* The handlers use the ledger by its transactions.
UsesLedger == LedgerSpec

\* Nothing leaves the gateway without a hold, and what a provider may charge is held until it is known.
EgressIsCovered == EgressIsHeld /\ CostIsCovered

===============================================================================
