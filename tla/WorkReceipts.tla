-------------------------------- MODULE WorkReceipts --------------------------------
(***************************************************************************)
(* What the AI work ledger shows of itself (hormuz/work_runtime.py _costs, *)
(* _plan_view, attempt_history, report; work_http.py): the costs and plans *)
(* of a work job's receipt, and the pages of its attempts.  Readers page   *)
(* while requests are admitted, settled and confirmed.                     *)
(*                                                                         *)
(* The receipts and the admission of requests add the same rows up in two  *)
(* ways; WorkLedger is about the second.                                   *)
(***************************************************************************)
EXTENDS Naturals, FiniteSets, SequencesExt, Subsequences

CONSTANTS
    ReceiptJobs,        \* jobs of one organization
    RepositoryOf,       \* the repository of each job
    ReceiptReaders,     \* clients that page through attempts
    Reservation,        \* what an attempt holds
    ReceiptEstimate,           \* what a settled attempt is charged
    Invoices,           \* what a provider confirms
    ReceiptOutcomes,    \* how attempts settle
    PageLimit,          \* attempts of a page
    MaxReceiptAttempts, \* bound: attempts of the organization
    MaxReceiptMonths,   \* bound: months
    Unconfirmed

ASSUME ReceiptAssumption ==
    /\ Invoices \cup {Reservation, ReceiptEstimate} \subseteq Nat
    /\ ReceiptOutcomes \subseteq {"succeeded", "failed", "unknown", "cache_hit"}
    /\ ReceiptJobs \cap {"none", "done"} = {}
    /\ PageLimit \in Nat \ {0} /\ {MaxReceiptAttempts, MaxReceiptMonths} \subseteq Nat
    /\ Unconfirmed \notin Nat

VARIABLES
    openedJobs,     \* the jobs there are
    ledger,         \* the attempts, in the order of their admission
    receiptMonth,   \* the current month
    readers         \* each reader: its job, its cursor, what it has read and what there was at its first page

receiptVars == <<openedJobs, ledger, receiptMonth, readers>>

Away == [job |-> "none", cursor |-> 0, pages |-> <<>>, due |-> <<>>]

ReceiptInit ==
    /\ openedJobs = {} /\ ledger = <<>> /\ receiptMonth = 1
    /\ readers = [r \in ReceiptReaders |-> Away]

Places(job) == {i \in DOMAIN ledger : ledger[i].job = job}

-----------------------------------------------------------------------------
(* The costs of a set of attempts, as a receipt adds them up.              *)

IsConfirmed(row) == row.confirmed # Unconfirmed

Committed(row) ==
    IF IsConfirmed(row) THEN row.confirmed
    ELSE IF row.state \in {"succeeded", "failed", "cache_hit"} THEN row.cost ELSE 0
PendingHold(row) == IF row.state = "pending" THEN row.reserved ELSE 0
UncertainHold(row) == IF row.state = "unknown" /\ ~IsConfirmed(row) THEN row.reserved ELSE 0
NotFinal(row) == row.state \in {"succeeded", "failed", "unknown", "pending"} /\ row.source # "provider_invoice"

CommittedIn(places) == SumFunctionOnSet([i \in places |-> Committed(ledger[i])], places)
PendingIn(places) == SumFunctionOnSet([i \in places |-> PendingHold(ledger[i])], places)
UncertainIn(places) == SumFunctionOnSet([i \in places |-> UncertainHold(ledger[i])], places)

Costs(places) ==
    [committed |-> CommittedIn(places),
     consumed |-> CommittedIn(places) + PendingIn(places) + UncertainIn(places),
     finality |-> /\ \E i \in places : IsConfirmed(ledger[i])
                  /\ \A i \in places : ~NotFinal(ledger[i])
                  /\ PendingIn(places) = 0 /\ UncertainIn(places) = 0]

\* A plan covers the life of a job, or a month of a repository or of the workspace.
PlanCovers(scope, job, row) ==
    \/ scope = "workspace" /\ row.month = receiptMonth
    \/ scope = "repository" /\ row.month = receiptMonth /\ RepositoryOf[row.job] = RepositoryOf[job]
    \/ scope = "job" /\ row.job = job
PlacesOf(scope, job) == {i \in DOMAIN ledger : PlanCovers(scope, job, ledger[i])}
Shown(scope, job) == Costs(PlacesOf(scope, job))

(* The same, as admission adds them up: one sum, and for the only          *)
(* repository of an organization the sum of its workspace.                 *)

Charge(row) ==
    Committed(row) + IF row.state = "pending" \/ (row.state = "unknown" /\ ~IsConfirmed(row))
                     THEN row.reserved ELSE 0

\* Mistake: the repository of the first job is taken for the only one.
OnlyRepository_First(repository) == RepositoryOf[CHOOSE job \in openedJobs : TRUE] = repository

OnlyRepository(repository) == \A job \in openedJobs : RepositoryOf[job] = repository

ChargedIn(places) == SumFunctionOnSet([i \in places |-> Charge(ledger[i])], places)
Enforced(scope, job) ==
    ChargedIn(PlacesOf(IF scope = "repository" /\ OnlyRepository(RepositoryOf[job]) THEN "workspace" ELSE scope, job))

-----------------------------------------------------------------------------
(* What happens to the ledger meanwhile.                                   *)

OpenJob(job) ==
    /\ job \notin openedJobs
    /\ openedJobs' = openedJobs \cup {job}
    /\ UNCHANGED <<ledger, receiptMonth, readers>>

AdmitAttempt(job, state) ==
    /\ job \in openedJobs /\ Len(ledger) < MaxReceiptAttempts
    /\ ledger' = Append(ledger, [job |-> job, month |-> receiptMonth, state |-> state, reserved |-> Reservation,
                                 cost |-> 0, confirmed |-> Unconfirmed, source |-> "none"])
    /\ UNCHANGED <<openedJobs, receiptMonth, readers>>

Settled(row, state) ==
    [row EXCEPT !.state = state, !.cost = IF state \in {"unknown", "cache_hit"} THEN 0 ELSE ReceiptEstimate]

\* Settlement names a charge, or leaves the attempt unknown; a restart leaves it unknown too.
SettleAttempt(i, state) ==
    /\ ledger[i].state \in {"pending", "unknown"}
    /\ ledger' = [ledger EXCEPT ![i] = Settled(ledger[i], state)]
    /\ UNCHANGED <<openedJobs, receiptMonth, readers>>

Confirmed(row, cost, source) == [row EXCEPT !.confirmed = cost, !.source = source]

\* Mistake: a second confirmation replaces the first.
ConfirmAttempt_Again(i, cost, source) ==
    /\ ledger[i].state \notin {"pending", "denied", "cache_hit"}
    /\ ledger' = [ledger EXCEPT ![i] = Confirmed(ledger[i], cost, source)]
    /\ UNCHANGED <<openedJobs, receiptMonth, readers>>

ConfirmAttempt(i, cost, source) ==
    /\ ledger[i].state \notin {"pending", "denied", "cache_hit"}
    /\ ~IsConfirmed(ledger[i])
    /\ ledger' = [ledger EXCEPT ![i] = Confirmed(ledger[i], cost, source)]
    /\ UNCHANGED <<openedJobs, receiptMonth, readers>>

NextReceiptMonth ==
    /\ receiptMonth < MaxReceiptMonths
    /\ receiptMonth' = receiptMonth + 1
    /\ UNCHANGED <<openedJobs, ledger, readers>>

-----------------------------------------------------------------------------
(* Paging: the newest attempts first, then those before the last one read. *)

NewestFirst(places) == Reverse(SubsequenceAt([i \in 1 .. Len(ledger) |-> i], places))
FirstOf(places) == SubSeq(places, 1, IF Len(places) < PageLimit THEN Len(places) ELSE PageLimit)

\* Mistake: a page is found by how many attempts are newer than it.
Page_ByOffset(r, places) ==
    LET newest == NewestFirst(places)
        from == Len(readers[r].pages)
    IN  FirstOf(SubSeq(newest, from + 1, Len(newest)))

Page(r, places) == FirstOf(NewestFirst({i \in places : readers[r].cursor = 0 \/ i < readers[r].cursor}))

BeginReading(r, job) ==
    /\ readers[r].job = "none" /\ job \in openedJobs
    /\ readers' = [readers EXCEPT ![r] = [job |-> job, cursor |-> 0, pages |-> <<>>, due |-> <<>>]]
    /\ UNCHANGED <<openedJobs, ledger, receiptMonth>>

\* There is a further page when one attempt more than a page was found.
ReadPage(r) ==
    LET job == readers[r].job
        places == Places(job)
        page == Page(r, places)
        more == page # <<>> /\ \E i \in places : i < Last(page)
    IN  /\ job \notin {"none", "done"}
        /\ readers' = [readers EXCEPT ![r] =
              [job |-> IF more THEN job ELSE "done", cursor |-> IF more THEN Last(page) ELSE 0,
               pages |-> readers[r].pages \o page,
               due |-> IF readers[r].pages = <<>> THEN NewestFirst(places) ELSE readers[r].due]]
        /\ UNCHANGED <<openedJobs, ledger, receiptMonth>>

ReceiptNext ==
    \/ \E job \in ReceiptJobs :
          \/ OpenJob(job)
          \/ \E state \in {"pending", "denied"} : AdmitAttempt(job, state)
          \/ \E r \in ReceiptReaders : BeginReading(r, job)
    \/ \E i \in DOMAIN ledger :
          \/ \E state \in ReceiptOutcomes : SettleAttempt(i, state)
          \/ \E cost \in Invoices : \E source \in {"provider_invoice", "provider_receipt"} :
                ConfirmAttempt(i, cost, source)
    \/ NextReceiptMonth
    \/ \E r \in ReceiptReaders : ReadPage(r)

ReceiptSpec == ReceiptInit /\ [][ReceiptNext]_receiptVars

-----------------------------------------------------------------------------
\* The types of the variables.
ReceiptTypeOK ==
    /\ openedJobs \subseteq ReceiptJobs
    /\ \A i \in DOMAIN ledger : ledger[i].job \in openedJobs /\ ledger[i].month \in 1 .. receiptMonth
    /\ receiptMonth \in 1 .. MaxReceiptMonths
    /\ \A r \in ReceiptReaders : readers[r].job \in ReceiptJobs \cup {"none", "done"}

\* Every plan shows as consumed exactly what admission counts against its budget, whatever was
\* admitted, settled, left unknown or confirmed, in whatever month: _plan_view adds three sums
\* up and _budget_plans_for_work one, which it shares between two scopes when it may.
ShownIsEnforced ==
    \A job \in openedJobs : \A scope \in {"workspace", "repository", "job"} :
        Shown(scope, job).consumed = Enforced(scope, job)

\* When a receipt says that the costs of a job are final, they change no more, unless a further
\* request is admitted (_costs, confirm_cost).
FinalCostsStay ==
    [][\A job \in openedJobs :
          Shown("job", job).finality /\ ledger' # ledger /\ Len(ledger') = Len(ledger)
          => Shown("job", job)'.committed = Shown("job", job).committed]_receiptVars

\* A reader that has followed the cursors to the end has read every attempt there was at its
\* first page, once, the latest first, although others were admitted meanwhile
\* (attempt_history: "Concurrent new admissions do not move older pages").
PagesAreStable ==
    \A r \in ReceiptReaders : readers[r].job = "done" => readers[r].pages = readers[r].due

\* What receipts, pages and final costs show is what the ledger holds and enforces.
ReceiptsAreSound == [](ShownIsEnforced /\ PagesAreStable) /\ FinalCostsStay

====
