------------------------------ MODULE SchemaUpgrade ------------------------------
(***************************************************************************)
(* How the gateway's SQLite file gets its schema.  Every gateway that      *)
(* opens the file brings it from the version it finds to its own, in one   *)
(* transaction; a ledger in the file says which versions were applied, and *)
(* a shape check holds the file to what the ledger claims.  Gateways of    *)
(* different versions open one file at once, fail, crash and try again,    *)
(* and append audit entries, in a table that six of the versions rebuild.  *)
(***************************************************************************)
EXTENDS Naturals, FiniteSets, FiniteSetsExt

CONSTANTS
    Openers,       \* gateways that open the file
    SchemaOf,      \* the schema version of each opener's program
    FirstVersions, \* versions the file may be found in; 0 is a file without a ledger
    MaxUpgradeEntries     \* bound: audit entries appended

ASSUME UpgradeAssumption ==
    /\ SchemaOf \in [Openers -> 1..20]
    /\ FirstVersions \subseteq 0..20 /\ MaxUpgradeEntries \in Nat

VARIABLES
    disk,    \* what is committed: the ledger, the objects of the schema, the audit entries
    opener   \* per gateway: its stage, the file as it read it or as its transaction makes it

upgradeVars == <<disk, opener>>

SchemaVersions == 1..20
TopVersion(ledger) == Max({0} \cup {v \in SchemaVersions : ledger[v] # "absent"})
NoLedger == [v \in SchemaVersions |-> "absent"]
WithRow(file, v, state) == [file EXCEPT !.ledger[v] = state]

-----------------------------------------------------------------------------
(* A migration: the objects it adds, and, when it rebuilds the entries     *)
(* table, the triggers of that table which it drops first and puts back.   *)
(* The shape check of its version asks for its objects and, of the         *)
(* triggers, for its own.                                                  *)

Migration(objects) == [adds |-> objects, drops |-> {}, putsBack |-> {}, own |-> {}]
Rebuild(object, drops, putsBack, own) ==
    [adds |-> {object}, drops |-> {"entries_kept"} \cup drops,
     putsBack |-> {"entries_kept"} \cup putsBack, own |-> own]

EvidenceColumnsMigration == Migration({"usage_evidence"})
ReservationColumnsMigration == Migration({"reservation_organization"})
RequestAttemptsMigration == Migration({"reservation_attempt", "attempts"})
AuditEntriesMigration == [Migration({"audit_chain", "entries_kept"}) EXCEPT !.own = {"entries_kept"}]
RegistryMigration == Migration({"registry"})
AttributionMigration == Migration({"attribution"})
OutcomesMigration == Migration({"outcomes"})
FinanceMigration == Migration({"finance"})
BudgetsMigration == Migration({"budgets"})
ReliabilityMigration == Migration({"reliability"})
FinanceAttemptsMigration == Rebuild("finance_attempts", {}, {"attempt_source"}, {"attempt_source"})
FinanceCollectionsMigration == Rebuild("collections", {"attempt_source"},
    {"attempt_source", "collection_source"}, {"collection_source"})
AccountBindingsMigration == Rebuild("account_bindings", {"attempt_source", "collection_source"},
    {"attempt_source", "collection_source", "account_source"}, {"account_source"})
LinearMigration == Rebuild("linear", {"attempt_source", "collection_source", "account_source"},
    {"attempt_source", "collection_source", "account_source", "linear_source"}, {"linear_source"})
\* From here on the trigger of the Linear sources also knows the pages of a snapshot.
LinearSnapshotsMigration == Rebuild("linear_snapshots",
    {"attempt_source", "collection_source", "account_source", "linear_source"},
    {"attempt_source", "collection_source", "account_source", "linear_source", "linear_pages"},
    {"linear_pages"})
AssociationsMigration == Rebuild("associations",
    {"attempt_source", "collection_source", "account_source", "linear_source"},
    {"attempt_source", "collection_source", "account_source", "linear_source", "linear_pages",
     "association_source"}, {"association_source"})
ScorecardsMigration == Migration({"scorecards"})
RoleViewsMigration == Migration({"role_views"})
RecommendationsMigration == Migration({"recommendations"})
TranslatedMetricsMigration == Migration({"translated_metrics"})

Migrations == <<
    EvidenceColumnsMigration, ReservationColumnsMigration, RequestAttemptsMigration,
    AuditEntriesMigration, RegistryMigration, AttributionMigration, OutcomesMigration,
    FinanceMigration, BudgetsMigration, ReliabilityMigration, FinanceAttemptsMigration,
    FinanceCollectionsMigration, AccountBindingsMigration, LinearMigration,
    LinearSnapshotsMigration, AssociationsMigration, ScorecardsMigration, RoleViewsMigration,
    RecommendationsMigration, TranslatedMetricsMigration>>

\* Every trigger of the entries table goes with the table that a rebuild replaces.
EntryTriggers == UNION {Migrations[v].putsBack : v \in SchemaVersions}

MigratedObjects(objects, v) ==
    LET migration == Migrations[v]
        lost == IF migration.drops = {} THEN {} ELSE EntryTriggers
    IN  ((objects \ lost) \cup migration.adds) \cup migration.putsBack
Migrated(file, v) == [file EXCEPT !.objects = MigratedObjects(@, v)]

\* A statement that creates what exists, or drops what does not, fails; only the columns of the
\* first versions and the objects of the bootstrap are added when they are missing.
CanMigrate(file, v) ==
    /\ v > 4 => file.objects \cap Migrations[v].adds = {}
    /\ Migrations[v].drops \subseteq file.objects

HasShape(file, v) ==
    \A w \in 1..v : Migrations[w].adds \cup Migrations[w].own \subseteq file.objects

\* The ledger is whole, and not of a program newer than the opener's.
IsWhole(ledger) ==
    /\ \A v \in SchemaVersions : ledger[v] # "applying"
    /\ \A v \in 1..TopVersion(ledger) : ledger[v] = "applied"
Accepts(p, ledger) == IsWhole(ledger) /\ TopVersion(ledger) <= SchemaOf[p]

-----------------------------------------------------------------------------
\* The objects a file has that was brought to version n by the releases before.
ObjectsAt[n \in 0..20] ==
    IF n = 0 THEN {} ELSE MigratedObjects(ObjectsAt[n - 1], n)

\* A file without a ledger is empty, or was written by a release that had none.
CoreTables == {"usage", "secrets", "reservations"}
BeforeLedger == {{}, CoreTables}
NoFile == [ledger |-> NoLedger, objects |-> {}, entries |-> {}]

UpgradeInit ==
    /\ \E n \in FirstVersions, old \in BeforeLedger :
          disk = [ledger |-> [v \in SchemaVersions |-> IF v <= n THEN "applied" ELSE "absent"],
                  objects |-> IF n = 0 THEN old ELSE CoreTables \cup ObjectsAt[n], entries |-> {}]
    /\ opener = [p \in Openers |-> [stage |-> "closed", file |-> NoFile]]

FileIsFree(p) == \A q \in Openers \ {p} : opener[q].stage # "upgrading"
CloseFile(p) == opener' = [opener EXCEPT ![p] = [stage |-> "closed", file |-> NoFile]]
ToStage(p, stage) == opener' = [opener EXCEPT ![p].stage = stage]

\* CREATE TABLE IF NOT EXISTS of the ledger, and what the ledger says.
ReadLedger(p) ==
    /\ opener[p].stage = "closed"
    /\ opener' = [opener EXCEPT ![p] =
          [stage |-> IF disk.ledger = NoLedger THEN "bootstrap" ELSE "check", file |-> disk]]
    /\ UNCHANGED disk

\* The bootstrap script commits each statement as it goes, and skips what is there.  A table that
\* it makes has the columns the first versions would add.
Bootstrapped == <<{"usage", "usage_evidence"}, {"secrets"},
                  {"reservations", "reservation_organization"}, {"attempts"},
                  {"audit_chain"}, {"entries_kept"}>>

Bootstrap(p) ==
    /\ opener[p].stage = "bootstrap" /\ FileIsFree(p)
    /\ \E i \in DOMAIN Bootstrapped :
          /\ \A j \in 1..(i - 1) : Bootstrapped[j] \cap disk.objects # {}
          /\ Bootstrapped[i] \cap disk.objects = {}
          /\ disk' = [disk EXCEPT !.objects = @ \cup Bootstrapped[i]]
    /\ UNCHANGED opener

BootstrapEnds(p) ==
    /\ opener[p].stage = "bootstrap"
    /\ \A i \in DOMAIN Bootstrapped : Bootstrapped[i] \cap disk.objects # {}
    /\ ToStage(p, "check")
    /\ UNCHANGED disk

\* The ledger as it was read, and the shape as it is now.
CheckShape(p) ==
    /\ opener[p].stage = "check"
    /\ IF Accepts(p, opener[p].file.ledger) /\ HasShape(disk, TopVersion(opener[p].file.ledger))
       THEN IF TopVersion(opener[p].file.ledger) < SchemaOf[p] THEN ToStage(p, "upgrade")
            ELSE opener' = [opener EXCEPT ![p] = [stage |-> "open", file |-> NoFile]]
       ELSE CloseFile(p)
    /\ UNCHANGED disk

\* Mistake: the transaction works on the file as it was when the ledger was read.
BeginUpgrade_Stale(p) ==
    LET v == TopVersion(opener[p].file.ledger) + 1
    IN  /\ opener[p].stage = "upgrade" /\ FileIsFree(p)
        /\ IF disk.ledger[v] = "absent"
           THEN opener' = [opener EXCEPT ![p] =
                              [stage |-> "upgrading", file |-> WithRow(opener[p].file, v, "applying")]]
           ELSE CloseFile(p)
        /\ UNCHANGED disk

\* The first INSERT into the ledger opens the transaction and waits for the file's write lock;
\* a version that another opener has applied meanwhile makes it fail.
BeginUpgrade(p) ==
    LET v == TopVersion(opener[p].file.ledger) + 1
    IN  /\ opener[p].stage = "upgrade" /\ FileIsFree(p)
        /\ IF disk.ledger[v] = "absent"
           THEN opener' = [opener EXCEPT ![p] = [stage |-> "upgrading", file |-> WithRow(disk, v, "applying")]]
           ELSE CloseFile(p)
        /\ UNCHANGED disk

\* Mistake: each version is committed once its row says that it is being applied.
ApplyVersion_Committing(p) ==
    LET file == opener[p].file
        v == TopVersion(file.ledger)
        done == WithRow(Migrated(file, v), v, "applied")
    IN  /\ opener[p].stage = "upgrading" /\ file.ledger[v] = "applying"
        /\ IF ~CanMigrate(file, v) THEN CloseFile(p) /\ UNCHANGED disk
           ELSE /\ opener' = [opener EXCEPT ![p].file =
                     IF v < SchemaOf[p] THEN WithRow(done, v + 1, "applying") ELSE done]
                /\ disk' = opener'[p].file

\* One version: its statements, the ledger's row, and the row of the next version.
ApplyVersion(p) ==
    LET file == opener[p].file
        v == TopVersion(file.ledger)
        done == WithRow(Migrated(file, v), v, "applied")
    IN  /\ opener[p].stage = "upgrading" /\ file.ledger[v] = "applying"
        /\ IF ~CanMigrate(file, v) THEN CloseFile(p)
           ELSE opener' = [opener EXCEPT ![p].file =
                     IF v < SchemaOf[p] THEN WithRow(done, v + 1, "applying") ELSE done]
        /\ UNCHANGED disk

CommitUpgrade(p) ==
    /\ opener[p].stage = "upgrading" /\ opener[p].file.ledger[SchemaOf[p]] = "applied"
    /\ disk' = opener[p].file
    /\ opener' = [opener EXCEPT ![p] = [stage |-> "open", file |-> NoFile]]

\* A read-only opener, and a readiness check, change nothing and ask for every version.
IsReady(p) ==
    /\ Accepts(p, disk.ledger) /\ HasShape(disk, TopVersion(disk.ledger))
    /\ \A v \in 1..SchemaOf[p] : disk.ledger[v] = "applied"

\* The audit entries of an open gateway; inside the transaction of an upgrade nobody else writes.
AppendEntryRow(p) ==
    /\ opener[p].stage = "open" /\ FileIsFree(p) /\ "audit_chain" \in disk.objects
    /\ Cardinality(disk.entries) < MaxUpgradeEntries
    /\ disk' = [disk EXCEPT !.entries = @ \cup {Cardinality(@) + 1}]
    /\ UNCHANGED opener

\* The gateway stops, crashes or fails: what its transaction did is rolled back.
AbandonFile(p) ==
    /\ opener[p].stage # "closed"
    /\ CloseFile(p)
    /\ UNCHANGED disk

UpgradeNext ==
    \E p \in Openers :
       \/ ReadLedger(p) \/ Bootstrap(p) \/ BootstrapEnds(p) \/ CheckShape(p)
       \/ BeginUpgrade(p) \/ ApplyVersion(p) \/ CommitUpgrade(p) \/ AppendEntryRow(p) \/ AbandonFile(p)

UpgradeSpec == UpgradeInit /\ [][UpgradeNext]_upgradeVars

-----------------------------------------------------------------------------
UpgradeTypeOK ==
    /\ disk.ledger \in [SchemaVersions -> {"absent", "applying", "applied"}]
    /\ disk.entries \subseteq 1..MaxUpgradeEntries
    /\ \A p \in Openers :
          opener[p].stage \in {"closed", "bootstrap", "check", "upgrade", "upgrading", "open"}

\* Whatever upgrades met, failed or were cut off, the file is one that a gateway of its version
\* opens again: the ledger is whole and the shape is what it claims.  A gateway that is open has
\* every version it relies on.
StoreOpensAgain ==
    /\ IsWhole(disk.ledger) /\ HasShape(disk, TopVersion(disk.ledger))
    /\ \A p \in Openers : opener[p].stage = "open" => IsReady(p) \/ TopVersion(disk.ledger) > SchemaOf[p]

\* An upgrade that rebuilds the entries table loses no entry, not even one that a gateway of the
\* version before appended while the upgrade ran.
EntriesSurvive == [][disk.entries \subseteq disk'.entries]_upgradeVars

\* However programs of different schemas open, upgrade and write a store, it opens again and keeps its entries.
UpgradeIsSound == []StoreOpensAgain /\ EntriesSurvive

================================================================================
