--------------------------- MODULE FinanceCollection ---------------------------
(***************************************************************************)
(* The collection of a provider's own usage and cost reports               *)
(* (finance_collection.py).  A collection asks the provider for a chain of *)
(* pages, at most CollectionSlots collections at a time, each within a     *)
(* deadline that counts from before the wait for a slot; a page that fails *)
(* is asked for again.  The whole chain is then normalised against the     *)
(* grid of the query, and what came out is rechecked before it is stored.  *)
(*                                                                         *)
(* A page is [data, more, cursor]: its buckets, each the interval "slot"   *)
(* of the grid with a sequence of records, the has_more flag and the       *)
(* cursor of the next page.  A record is [key, extra, account, counts,     *)
(* coefficient, exponent]: its semantic key, whether it is broken down by  *)
(* more than the profile asks for, the provider account it names, how many *)
(* counts it has, and the decimal number of its amount.  Text,             *)
(* fingerprints and digests are left out.                                  *)
(***************************************************************************)
EXTENDS Integers, Sequences, FiniteSets, SequencesExt

CONSTANTS
    Collections,     \* threads that collect, or read a customer's file
    CollectionSlots, \* what the semaphore admits
    MaxPages, MaxRetries, MaxRecords, CollectionDeadline,
    PageAnswers,     \* pages a provider may send, faithful or not
    RetryDelays,     \* what Retry-After, capped, or the back-off amounts to
    QueryOf,         \* collection -> [provider, kind, origin, start, end, width, pageSize]
    KnowsAccount,    \* the collections whose binding fixes the provider account
    MaxWindow, ProviderPageLimit,
    IntegerDigits, FractionDigits,
    MaxFinanceNow           \* bound: the clock stops here

NoCursor == "none"     \* no cursor

ASSUME CollectionAssumption ==
    /\ {CollectionSlots, MaxPages, CollectionDeadline} \subseteq Nat \ {0}
    /\ MaxRetries \in Nat /\ MaxRecords \in Nat /\ MaxFinanceNow \in Nat
    /\ RetryDelays \subseteq Nat
    /\ KnowsAccount \subseteq Collections
    /\ QueryOf \in [Collections -> [provider : {"openai", "anthropic"}, kind : {"usage", "cost"},
                                   origin : {"authenticated_api", "customer_file"}, start : Nat, end : Nat, width : Nat \ {0}, pageSize : Nat \ {0}]]

VARIABLES
    fnow,        \* the monotonic clock
    fslots,      \* free slots of the semaphore
    fstage,      \* "idle" | "queued" | "asking" | "waiting" | "sleeping" | "done"
    fstarted,    \* when the collection was called
    fchain,      \* the pages received
    ftries,      \* failed tries of the page that is asked for
    fwakes,
    foutcome     \* the code of the error, or the normalised collection

collectionVars == <<fnow, fslots, fstage, fstarted, fchain, ftries, fwakes, foutcome>>

\* The intervals a query asks for, in order.
Grid(q) == 1..((q.end - q.start) \div q.width)

\* CollectionQuery: a window on whole intervals, not too long, whose pages can
\* hold all intervals within the limit of pages.
QueryIsValid(q) ==
    /\ q.start < q.end /\ q.end - q.start <= MaxWindow
    /\ q.start % q.width = 0 /\ (q.end - q.start) % q.width = 0
    /\ q.pageSize <= ProviderPageLimit
    /\ (Cardinality(Grid(q)) + q.pageSize - 1) \div q.pageSize <= MaxPages

FinanceRefusal(code) == [code |-> code]
NotYet == FinanceRefusal("none")

-----------------------------------------------------------------------------
(* Exact decimals: coefficient * 10^exponent, never rounded. *)

RECURSIVE Digits(_)
Digits(n) == IF n < 10 THEN 1 ELSE 1 + Digits(n \div 10)

\* The canonical form drops the zeros at the end of the coefficient.
RECURSIVE Stripped(_, _)
Stripped(c, e) ==
    IF c = 0 THEN <<0, 0>>
    ELSE IF c % 10 = 0 THEN Stripped(c \div 10, e + 1)
    ELSE <<c, e>>

\* decimal_text and openai_provider_decimal_text: how large and how fine an
\* amount may be, judged on the canonical form.
InDomain(c, e, fraction) ==
    LET s == Stripped(c, e)
    IN s[2] >= -fraction /\ Digits(s[1]) + s[2] <= IntegerDigits

\* The raw exponent counts too when the provider is Anthropic, before and
\* after the amount goes from cents to dollars.
AmountIsValid(provider, r) ==
    IF provider = "openai" THEN InDomain(r.coefficient, r.exponent, 2 * FractionDigits)
    ELSE \A e \in {r.exponent, r.exponent - 2} :
            e >= -FractionDigits /\ InDomain(r.coefficient, e, FractionDigits)

CanonicalAmount(provider, r) ==
    Stripped(r.coefficient, IF provider = "openai" THEN r.exponent ELSE r.exponent - 2)

-----------------------------------------------------------------------------
(* Normalisation of a chain of pages. *)

BucketsOf(pages) == FlattenSeq([i \in DOMAIN pages |-> pages[i].data])

\* Every page but the last has more and names a cursor that no page before it
\* named; the last one names none.
IsChained(pages) ==
    /\ Len(pages) \in 1..MaxPages
    /\ \A i \in DOMAIN pages :
         /\ pages[i].more = (i < Len(pages))
         /\ pages[i].more = (pages[i].cursor # NoCursor)
         /\ pages[i].more => \A j \in 1..(i - 1) : pages[j].cursor # pages[i].cursor

\* Mistake: a bucket that an earlier page answered replaces it.
FillsGrid_Again(q, buckets) == {buckets[i].slot : i \in DOMAIN buckets} = Grid(q)

\* Every bucket is an interval of the grid that none before it was, and no
\* interval is left.
FillsGrid(q, buckets) ==
    /\ \A i \in DOMAIN buckets : buckets[i].slot \in Grid(q)
    /\ \A i, j \in DOMAIN buckets : buckets[i].slot = buckets[j].slot => i = j
    /\ Len(buckets) = Cardinality(Grid(q))

\* Two records of an interval differ in their key.
KeysDiffer(buckets) ==
    \A i \in DOMAIN buckets : \A m, n \in DOMAIN buckets[i].records :
        buckets[i].records[m].key = buckets[i].records[n].key => m = n

\* _usage_observation: no breakdown nobody asked for, and some count.
UsageIsValid(r) == ~r.extra /\ r.counts > 0

\* _cost_observation: the account a record names must be the one the binding
\* fixes, and the binding must fix one.
CostIsValid(c, r) ==
    /\ ~r.extra
    /\ AmountIsValid(QueryOf[c].provider, r)
    /\ r.account # "none" => QueryOf[c].provider = "openai" /\ c \in KnowsAccount /\ r.account = "ours"

NumberOfRecords(buckets) ==
    FoldLeft(LAMBDA n, b : n + Len(b.records), 0, buckets)

\* The observations: one for each record, in the interval of its bucket.
Observations(provider, buckets) ==
    UNION {{[slot |-> buckets[i].slot, key |-> buckets[i].records[m].key,
             native |-> <<buckets[i].records[m].coefficient, buckets[i].records[m].exponent>>,
             amount |-> CanonicalAmount(provider, buckets[i].records[m])]
            : m \in DOMAIN buckets[i].records} : i \in DOMAIN buckets}

Covering(buckets, g) ==
    FoldLeft(LAMBDA n, b : IF b.slot = g THEN Len(b.records) ELSE n, 0, buckets)

\* _normalize_decoded_pages: the collection, or the refusal of the chain.  The
\* account is verified if a record names it.
Normalised(c, pages) ==
    LET q == QueryOf[c]
        buckets == BucketsOf(pages)
        valid(r) == IF q.kind = "usage" THEN UsageIsValid(r) ELSE CostIsValid(c, r)
    IN
    IF /\ IsChained(pages)
       /\ FillsGrid(q, buckets)
       /\ NumberOfRecords(buckets) <= MaxRecords
       /\ KeysDiffer(buckets)
       /\ \A i \in DOMAIN buckets : \A r \in ToSet(buckets[i].records) : valid(r)
    THEN [code |-> "collected", pages |-> pages,
          records |-> NumberOfRecords(buckets),
          coverage |-> [g \in Grid(q) |-> Covering(buckets, g)],
          observations |-> Observations(q.provider, buckets),
          verified |-> q.kind = "cost" /\ \E i \in DOMAIN buckets :
                         \E r \in ToSet(buckets[i].records) : r.account # "none"]
    ELSE FinanceRefusal("provider_response_invalid")

-----------------------------------------------------------------------------
CollectionInit ==
    /\ fnow = 0
    /\ fslots = CollectionSlots
    /\ fstage = [c \in Collections |-> "idle"]
    /\ fstarted = [c \in Collections |-> 0]
    /\ fchain = [c \in Collections |-> <<>>]
    /\ ftries = [c \in Collections |-> 0]
    /\ fwakes = [c \in Collections |-> 0]
    /\ foutcome = [c \in Collections |-> NotYet]

IsLate(c) == fnow - fstarted[c] >= CollectionDeadline

\* The clock moves whatever the collections do.
PassFinanceTime ==
    /\ fnow < MaxFinanceNow
    /\ fnow' = fnow + 1
    /\ UNCHANGED <<fslots, fstage, fstarted, fchain, ftries, fwakes, foutcome>>

\* fetch_collection_pages reads the clock, then waits for a slot.
CallCollection(c) ==
    /\ fstage[c] = "idle"
    /\ QueryIsValid(QueryOf[c]) /\ QueryOf[c].origin = "authenticated_api"
    /\ fstage' = [fstage EXCEPT ![c] = "queued"]
    /\ fstarted' = [fstarted EXCEPT ![c] = fnow]
    /\ UNCHANGED <<fnow, fslots, fchain, ftries, fwakes, foutcome>>

TakeCollectionSlot(c) ==
    /\ fstage[c] = "queued" /\ fslots > 0
    /\ fslots' = fslots - 1
    /\ fstage' = [fstage EXCEPT ![c] = "asking"]
    /\ UNCHANGED <<fnow, fstarted, fchain, ftries, fwakes, foutcome>>

\* The wait is as long as the deadline, and may time out as a slot comes free.
FindBusy(c) ==
    /\ fstage[c] = "queued" /\ IsLate(c)
    /\ fstage' = [fstage EXCEPT ![c] = "done"]
    /\ foutcome' = [foutcome EXCEPT ![c] = FinanceRefusal("collection_busy")]
    /\ UNCHANGED <<fnow, fslots, fstarted, fchain, ftries, fwakes>>

\* Every way out of the fetch gives the slot back.
EndFetch(c, result) ==
    /\ fstage' = [fstage EXCEPT ![c] = "done"]
    /\ foutcome' = [foutcome EXCEPT ![c] = result]
    /\ fslots' = fslots + 1

\* A request: not past the page limit, and not past the deadline.
AskForPage(c) ==
    /\ fstage[c] = "asking"
    /\ LET tooMany == Len(fchain[c]) >= MaxPages
       IN IF tooMany \/ IsLate(c)
          THEN EndFetch(c, FinanceRefusal(IF tooMany THEN "pagination_invalid" ELSE "collection_deadline"))
          ELSE /\ fstage' = [fstage EXCEPT ![c] = "waiting"]
               /\ UNCHANGED <<fslots, foutcome>>
    /\ UNCHANGED <<fnow, fstarted, fchain, ftries, fwakes>>

\* Mistake: the deadline is only looked at before the request.
ReceivePage_Late(c) ==
    /\ fstage[c] = "waiting"
    /\ \E page \in PageAnswers :
         LET pages == Append(fchain[c], page)
             repeated == \E i \in DOMAIN fchain[c] : fchain[c][i].cursor = page.cursor
         IN /\ fchain' = [fchain EXCEPT ![c] = pages]
            /\ IF ~page.more THEN EndFetch(c, Normalised(c, pages))
               ELSE IF page.cursor = NoCursor \/ repeated THEN EndFetch(c, FinanceRefusal("pagination_invalid"))
               ELSE fstage' = [fstage EXCEPT ![c] = "asking"] /\ UNCHANGED <<fslots, foutcome>>
    /\ ftries' = [ftries EXCEPT ![c] = 0]
    /\ UNCHANGED <<fnow, fstarted, fwakes>>

\* A page arrives.  It counts only within the deadline; the last one of the
\* chain ends the fetch and the chain is normalised, another one must name the
\* next page by a new cursor.
ReceivePage(c) ==
    /\ fstage[c] = "waiting"
    /\ \E page \in PageAnswers :
         LET pages == Append(fchain[c], page)
             repeated == \E i \in DOMAIN fchain[c] : fchain[c][i].cursor = page.cursor
         IN IF IsLate(c)
            THEN EndFetch(c, FinanceRefusal("collection_deadline")) /\ UNCHANGED fchain
            ELSE /\ fchain' = [fchain EXCEPT ![c] = pages]
                 /\ IF ~page.more THEN EndFetch(c, Normalised(c, pages))
                    ELSE IF page.cursor = NoCursor \/ repeated
                    THEN EndFetch(c, FinanceRefusal("pagination_invalid"))
                    ELSE fstage' = [fstage EXCEPT ![c] = "asking"] /\ UNCHANGED <<fslots, foutcome>>
    /\ ftries' = [ftries EXCEPT ![c] = 0]
    /\ UNCHANGED <<fnow, fstarted, fwakes>>

\* A 429, a 5xx or a failure of the connection: asked for again after a pause,
\* unless the tries or the time are used up.
FailTry(c) ==
    /\ fstage[c] = "waiting"
    /\ IF ftries[c] >= MaxRetries
       THEN EndFetch(c, FinanceRefusal("provider_unavailable")) /\ UNCHANGED <<ftries, fwakes>>
       ELSE \E delay \in RetryDelays :
              IF fnow - fstarted[c] + delay >= CollectionDeadline
              THEN EndFetch(c, FinanceRefusal("collection_deadline")) /\ UNCHANGED <<ftries, fwakes>>
              ELSE /\ fstage' = [fstage EXCEPT ![c] = "sleeping"]
                   /\ ftries' = [ftries EXCEPT ![c] = @ + 1]
                   /\ fwakes' = [fwakes EXCEPT ![c] = fnow + delay]
                   /\ UNCHANGED <<fslots, foutcome>>
    /\ UNCHANGED <<fnow, fstarted, fchain>>

\* 401, 403, another status, a redirect, an empty, oversize or undecodable
\* body, or an exception nobody catches: no retry.
RejectTry(c) ==
    /\ fstage[c] = "waiting"
    /\ \E code \in {"provider_unauthorized", "provider_response_invalid"} :
         EndFetch(c, FinanceRefusal(code))
    /\ UNCHANGED <<fnow, fstarted, fchain, ftries, fwakes>>

WakeCollection(c) ==
    /\ fstage[c] = "sleeping" /\ fnow >= fwakes[c]
    /\ fstage' = [fstage EXCEPT ![c] = "asking"]
    /\ UNCHANGED <<fnow, fslots, fstarted, fchain, ftries, fwakes, foutcome>>

\* normalize_collection_file: the pages of a customer's file, under no
\* semaphore and no deadline.
ReadBundle(c) ==
    /\ fstage[c] = "idle"
    /\ QueryIsValid(QueryOf[c]) /\ QueryOf[c].origin = "customer_file"
    /\ \E pages \in UNION {[1..n -> PageAnswers] : n \in 1..MaxPages} :
         foutcome' = [foutcome EXCEPT ![c] = Normalised(c, pages)]
    /\ fstage' = [fstage EXCEPT ![c] = "done"]
    /\ UNCHANGED <<fnow, fslots, fstarted, fchain, ftries, fwakes>>

CollectionNext ==
    \/ PassFinanceTime
    \/ \E c \in Collections :
         \/ CallCollection(c) \/ TakeCollectionSlot(c) \/ FindBusy(c)
         \/ AskForPage(c) \/ ReceivePage(c) \/ FailTry(c) \/ RejectTry(c)
         \/ WakeCollection(c) \/ ReadBundle(c)

CollectionSpec == CollectionInit /\ [][CollectionNext]_collectionVars

-----------------------------------------------------------------------------
CollectionTypeOK ==
    /\ fnow \in 0..MaxFinanceNow
    /\ fslots \in 0..CollectionSlots
    /\ fstage \in [Collections -> {"idle", "queued", "asking", "waiting", "sleeping", "done"}]
    /\ fstarted \in [Collections -> 0..MaxFinanceNow]
    /\ ftries \in [Collections -> 0..MaxRetries]
    /\ \A c \in Collections : fchain[c] \in Seq(PageAnswers) /\ Len(fchain[c]) <= MaxPages

IsCollected(c) == foutcome[c].code = "collected"

\* validate_normalized_collection: what the storage boundary rechecks.
Revalidates(q, n) ==
    /\ Len(n.pages) \in 1..MaxPages
    /\ n.records \in 0..MaxRecords
    /\ n.records = Cardinality(n.observations)
    /\ \A a, b \in n.observations : a.slot = b.slot /\ a.key = b.key => a = b
    /\ \A a \in n.observations :
         /\ a.slot \in Grid(q)
         /\ a.amount = CanonicalAmount(q.provider,
                         [coefficient |-> a.native[1], exponent |-> a.native[2]])
    /\ DOMAIN n.coverage = Grid(q)
    /\ \A g \in Grid(q) : n.coverage[g] = Cardinality({a \in n.observations : a.slot = g})
    /\ n.verified => q.provider = "openai" /\ q.kind = "cost"

\* How many buckets of a chain answer an interval.
Answering(pages, g) ==
    Cardinality(UNION {{<<i, m>> : m \in {k \in DOMAIN pages[i].data : pages[i].data[k].slot = g}}
                       : i \in DOMAIN pages})

\* Whatever pages, cursors and records a provider or a file holds, a collection
\* that is accepted answers every interval of its query by exactly one bucket,
\* counts what it holds, names no account but the one its binding fixes, and
\* passes the recheck at the storage boundary
\* (_normalize_decoded_pages, validate_normalized_collection).
CollectionIsWhole ==
    \A c \in Collections : IsCollected(c) =>
        /\ Revalidates(QueryOf[c], foutcome[c])
        /\ \A g \in Grid(QueryOf[c]) : Answering(foutcome[c].pages, g) = 1
        /\ QueryOf[c].kind = "cost" =>
             \A i \in DOMAIN foutcome[c].pages : \A b \in ToSet(foutcome[c].pages[i].data) :
                \A r \in ToSet(b.records) : r.account # "other"

\* Every slot is free or held by one collection that is under way, and nothing
\* is collected once the deadline that counts from the call has passed, however
\* long the wait for the slot, the pauses and the answers took
\* (fetch_collection_pages, _request_page).
SlotsAndDeadlines ==
    [][/\ fslots' = CollectionSlots
             - Cardinality({c \in Collections : fstage'[c] \in {"asking", "waiting", "sleeping"}})
       /\ \A c \in Collections :
            fstage[c] # "idle" /\ foutcome'[c] # foutcome[c] /\ foutcome'[c].code = "collected"
               => fnow - fstarted[c] < CollectionDeadline]_collectionVars

\* What collect_finance returns is whole, and how it is collected gives back its slot in time.
CollectionIsSound == []CollectionIsWhole /\ SlotsAndDeadlines

================================================================================
