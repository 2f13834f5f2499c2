----------------------------- MODULE EvidenceTables -----------------------------
(***************************************************************************)
(* The append-only evidence tables of the gateway's SQLite store: their    *)
(* keys and the triggers that keep what has been written.  UPDATE and      *)
(* DELETE are refused by a trigger of every table.  INSERT OR REPLACE      *)
(* deletes the rows it conflicts with and fires no DELETE trigger, so that *)
(* most tables also refuse, before the insert, a row that meets a stored   *)
(* one on a key.  Foreign keys are declared and not enforced.              *)
(*                                                                         *)
(* A table is its keys, the columns that may be NULL, the keys its         *)
(* replace guard looks at, and what its other triggers compare.  Columns   *)
(* that no key or trigger looks at are the body of a row.  Every key is    *)
(* within one organization, which is left out except where a trigger       *)
(* looks across organizations.                                             *)
(***************************************************************************)
EXTENDS Naturals, FiniteSets, Functions

CONSTANTS
    Families,     \* sets of tables, each explored on its own
    EvidenceRows  \* bound: rows stored at a time

ASSUME EvidenceAssumption == EvidenceRows \in Nat

VARIABLES family, evidence, audited  \* the tables, their rows, the entries of the audit chain

evidenceVars == <<family, evidence, audited>>

NULL == 0
Values == {1, 2}

-----------------------------------------------------------------------------
Table(name, keys, nullable) ==
    [name |-> name, keys |-> keys, nullable |-> nullable, guards |-> keys, twins |-> {},
     agree |-> {}, needs |-> {}, source |-> "", columns |-> UNION keys]

FinanceAuditEvents == Table("finance_audit", {{"event"}, {"sequence"}}, {})
RateCards == Table("rate_cards", {{"card", "version"}, {"receipt"}}, {})

\* portfolio_finance_source_binding_versions and the tables of a collection
SourceBindings == [Table("source_bindings",
    {{"binding", "version"}, {"event"}, {"binding", "digest"}}, {}) EXCEPT !.source = "event"]
CollectionAttempts == Table("collection_attempts",
    {{"attempt"}, {"binding", "version", "profile", "start", "end", "idempotency"}}, {})
CollectionEvents == [Table("collection_events",
    {{"event"}, {"attempt"}, {"receipt"}}, {"receipt"}) EXCEPT !.source = "event"]
Snapshots == [Table("snapshots",
    {{"snapshot"}, {"attempt"}, {"sequence"}}, {}) EXCEPT !.source = "snapshot"]
BucketCoverage == Table("coverage", {{"coverage"}, {"snapshot", "start", "end"}}, {})
UsageObservations == Table("usage_observations", {{"observation"}, {"snapshot", "digest"}}, {})
CostObservations == Table("cost_observations", {{"observation"}, {"snapshot", "digest"}}, {})

\* portfolio_finance_account_binding_versions: what a version says of its source binding is
\* what the source binding says; a bound attempt says what its active account binding says.
AccountBindings == [Table("account_bindings",
    {{"account", "number"}, {"accountEvent"}, {"account", "request"}}, {}) EXCEPT
    !.source = "accountEvent", !.columns = @ \cup {"binding", "version", "digest"},
    !.needs = {[table |-> "source_bindings", columns |-> {"binding", "version", "digest"}]}]
AttemptBindings == [Table("attempt_bindings", {{"request"}, {"event"}}, {"account"}) EXCEPT
    !.source = "event", !.columns = @ \cup {"account", "number"},
    !.needs = {[table |-> "account_bindings", columns |-> {"account", "number"}]}]
QueryAuditEvents == [Table("query_audit", {{"query"}}, {}) EXCEPT !.source = "query"]

FinanceAttemptEvidence == [Table("finance_attempts", {{"evidence"}, {"request"}}, {}) EXCEPT
    !.source = "evidence"]

\* gateway_provider_attempt_metrics and its second version hold an attempt once between them.
MetricsV1 == [Table("metrics", {{"event"}, {"attempt"}}, {}) EXCEPT
    !.twins = {[table |-> "metrics_v2", columns |-> {"attempt"}]}]
MetricsV2 == [Table("metrics_v2", {{"event"}, {"attempt"}}, {}) EXCEPT
    !.twins = {[table |-> "metrics", columns |-> {"attempt"}]}]
FailoverEvents == Table("failovers", {{"event"}, {"original"}, {"failover"}}, {})

\* portfolio_linear_source_binding_versions: a workspace belongs to one organization, a
\* webhook to one connector.
LinearBindings == [Table("linear_bindings",
    {{"org", "connector", "version"}, {"org", "event"}, {"org", "connector", "request"}}, {}) EXCEPT
    !.columns = @ \cup {"workspace", "webhook"},
    !.agree = {[on |-> {"workspace"}, same |-> {"org"}],
               [on |-> {"webhook"}, same |-> {"org", "connector"}]}]
LinearReceipts == [Table("linear_receipts",
    {{"connector", "receipt"}, {"connector", "delivery"}, {"connector", "key", "body"},
     {"connector", "factKey", "fact"}}, {}) EXCEPT !.source = "receipt"]
LinearContexts == [Table("linear_contexts", {{"connector", "context"}, {"sequence"}}, {}) EXCEPT
    !.source = "context",
    !.twins = {[table |-> "snapshot_contexts", columns |-> {"context"}],
               [table |-> "snapshot_contexts", columns |-> {"sequence"}]}]
LinearRetentions == [Table("linear_retentions", {{"connector", "retention"}}, {}) EXCEPT
    !.source = "retention",
    !.twins = {[table |-> "snapshot_retentions", columns |-> {"connector", "retention"}]}]

\* gateway_linear_snapshot_receipts: the pages of a snapshot agree on what they are pages of.
SnapshotReceipts == [Table("snapshot_receipts",
    {{"connector", "receipt"}, {"connector", "page"}, {"connector", "snapshot", "number"},
     {"connector", "key", "body"}}, {}) EXCEPT
    !.source = "receipt", !.columns = @ \cup {"set"},
    !.agree = {[on |-> {"connector", "snapshot"}, same |-> {"set"}]}]
SnapshotContexts == [Table("snapshot_contexts",
    {{"connector", "context"}, {"sequence"}, {"connector", "factKey", "fact"}}, {}) EXCEPT
    !.source = "context",
    !.twins = {[table |-> "linear_contexts", columns |-> {"context"}],
               [table |-> "linear_contexts", columns |-> {"sequence"}]}]
SnapshotRetentions == [Table("snapshot_retentions", {{"connector", "retention"}}, {}) EXCEPT
    !.source = "retention",
    !.twins = {[table |-> "linear_retentions", columns |-> {"connector", "retention"}]}]

\* The tables of work budgets refuse to replace a row with the same primary key.
PlanVersions == [Table("plan_versions",
    {{"plan", "version"}, {"plan", "digest"}, {"sequence"}}, {}) EXCEPT !.guards = {{"plan", "version"}}]
PlanActivations == [Table("plan_activations",
    {{"activation"}, {"plan", "generation"}}, {}) EXCEPT !.guards = {{"activation"}}]
BudgetBindings == Table("budget_bindings", {{"attempt", "plan"}}, {})
BudgetAuditEvents == [Table("budget_audit", {{"event"}, {"sequence"}}, {}) EXCEPT !.guards = {{"event"}}]

-----------------------------------------------------------------------------
RowsOf(table) ==
    {[table |-> table, at |-> at, body |-> body] :
        at \in {f \in [table.columns -> Values \cup {NULL}] :
                  \A column \in table.columns \ table.nullable : f[column] # NULL},
        body \in Values}
Rows == [table \in UNION Families |-> RowsOf(table)]

\* Two rows meet on columns when they have the same values there, and none of them is NULL.
Meet(row, other, columns) ==
    \A column \in columns : row.at[column] # NULL /\ row.at[column] = other.at[column]

Stored(name) == {row \in evidence : row.table.name = name}
Conflicting(row) ==
    {other \in Stored(row.table.name) : \E key \in row.table.keys : Meet(row, other, key)}

\* Mistake: the guard compares NULL with NULL and finds them equal.
Guarded_NullEqualsNull(row) ==
    \E other \in Stored(row.table.name), key \in row.table.guards :
       \A column \in key : row.at[column] = other.at[column]

\* Mistake: the guard looks at the columns of one key only.
Guarded_FirstKey(row) ==
    LET key == CHOOSE key \in row.table.guards : TRUE
    IN  \E other \in Stored(row.table.name) : Meet(row, other, key)

Guarded(row) ==
    \E other \in Stored(row.table.name), key \in row.table.guards : Meet(row, other, key)

\* Each row of a twin pair of tables looks at the other table too.
Doubled(row) ==
    \E twin \in row.table.twins : \E other \in Stored(twin.table) : Meet(row, other, twin.columns)

Disagrees(row) ==
    \E rule \in row.table.agree : \E other \in Stored(row.table.name) :
       Meet(row, other, rule.on) /\ ~Meet(row, other, rule.same)

\* A row that refers to another repeats what that one says.
LacksItsParent(row) ==
    \E parent \in row.table.needs :
       /\ \A column \in parent.columns : row.at[column] # NULL
       /\ \A other \in Stored(parent.table) : ~Meet(row, other, parent.columns)

RefusedByTrigger(row) == Guarded(row) \/ Doubled(row) \/ Disagrees(row) \/ LacksItsParent(row)

-----------------------------------------------------------------------------
EvidenceInit == family \in Families /\ evidence = {} /\ audited = {}

\* The first row of all is any row: its values are given the name 1.
IsFirst(row) == \A column \in row.table.columns : row.at[column] \in {1, NULL}

InsertEvidence(row) ==
    /\ ~RefusedByTrigger(row) /\ Conflicting(row) = {}
    /\ Cardinality(evidence) < EvidenceRows
    /\ evidence = {} => IsFirst(row)
    /\ evidence' = evidence \cup {row}
    /\ UNCHANGED <<family, audited>>

ReplaceEvidence(row) ==
    /\ ~RefusedByTrigger(row)
    /\ evidence # {} /\ Cardinality((evidence \ Conflicting(row)) \cup {row}) <= EvidenceRows
    /\ evidence' = (evidence \ Conflicting(row)) \cup {row}
    /\ UNCHANGED <<family, audited>>

EntryOf(row) == [table |-> row.table.name, id |-> row.at[row.table.source], body |-> row.body]

\* Mistake: an entry needs a source with its identity, whatever the source says.
HasSource_AnyBody(entry, rows) ==
    \E row \in rows : row.table.name = entry.table /\ row.at[row.table.source] = entry.id

\* An entry of the audit chain is admitted when its source is stored and says the same.
HasSource(entry, rows) ==
    \E row \in rows : row.table.name = entry.table /\ EntryOf(row) = entry

AuditEvidence(row, body) ==
    LET entry == [EntryOf(row) EXCEPT !.body = body]
    IN  /\ row \in evidence /\ row.table.source # ""
        /\ \A other \in audited : <<other.table, other.id>> # <<entry.table, entry.id>>
        /\ HasSource(entry, evidence)
        /\ audited' = audited \cup {entry}
        /\ UNCHANGED <<family, evidence>>

EvidenceNext ==
    \/ \E table \in family : \E row \in Rows[table] : InsertEvidence(row) \/ ReplaceEvidence(row)
    \/ \E row \in evidence, body \in Values : AuditEvidence(row, body)

EvidenceSpec == EvidenceInit /\ [][EvidenceNext]_evidenceVars

-----------------------------------------------------------------------------
EvidenceTypeOK ==
    /\ family \in Families
    /\ \A row \in evidence : row.table \in family /\ row \in Rows[row.table]
    /\ \A entry \in audited : entry.id \in Values /\ entry.body \in Values

\* What was written stays, and stays as it was written, whatever statement comes after it.
EvidenceIsKept == [][evidence \subseteq evidence']_evidenceVars

\* Every entry of the audit chain has a source that says what it says; what refers to another
\* row repeats it; an identity stands once in a pair of tables; what must agree agrees.
EvidenceAgrees ==
    /\ \A entry \in audited : \E row \in evidence :
          row.table.name = entry.table /\ row.at[row.table.source] = entry.id /\ row.body = entry.body
    /\ \A row \in evidence : \A parent \in row.table.needs :
          \/ \E column \in parent.columns : row.at[column] = NULL
          \/ \E other \in evidence :
                other.table.name = parent.table /\ \A c \in parent.columns : other.at[c] = row.at[c]
    /\ \A row, other \in evidence : \A twin \in row.table.twins :
          other.table.name = twin.table => \E c \in twin.columns : row.at[c] # other.at[c]
    /\ \A row, other \in evidence : \A rule \in row.table.agree :
          (row.table = other.table /\ \A c \in rule.on : row.at[c] = other.at[c])
             => \A c \in rule.same : row.at[c] = other.at[c]

\* A row that meets no stored row on a key, and nothing in a trigger's way, is admitted: a
\* second collection that failed is not refused because it has no receipt either.
OnlyConflictsAreRefused ==
    \A table \in family : \A row \in Rows[table] :
       Guarded(row) => \E other \in evidence : \E key \in table.keys :
                           /\ other.table = table
                           /\ \A c \in key : row.at[c] # NULL /\ row.at[c] = other.at[c]

\* Stored evidence is never changed or dropped, agrees with its audit entries and references, and a row
\* is refused only for a conflict.
EvidenceIsSound == [](EvidenceAgrees /\ OnlyConflictsAreRefused) /\ EvidenceIsKept

================================================================================
