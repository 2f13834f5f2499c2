------------------------------- MODULE AuditChain -------------------------------
(***************************************************************************)
(* The commit-time audit chain of one organization (hormuz/store.py,       *)
(* audit_chain.py, _audit_verifier.py).  An audited event, the entry that  *)
(* carries it and the head of the chain are written by one transaction.    *)
(* Checkpoints of the head are retained outside the database; a database   *)
(* restored from a backup is bridged by a new epoch that names the         *)
(* checkpoint it continues from.                                           *)
(*                                                                         *)
(* A digest is the tuple of what it binds: two digests are equal exactly   *)
(* when all that they bind is equal.                                       *)
(***************************************************************************)
EXTENDS Naturals, FiniteSets, Functions

CONSTANTS
    AuditWriters,     \* connections that write: gateway requests, operator commands
    AuditKinds,       \* what is audited: "usage" has version 1 entries, the rest version 2
    MaxAuditEvents,   \* bound: events
    MaxAuditEpochs,   \* bound: epochs
    MaxRetained       \* bound: checkpoints retained outside

ASSUME AuditChainAssumption ==
    {MaxAuditEvents, MaxAuditEpochs, MaxRetained} \subseteq Nat /\ MaxAuditEpochs >= 1

VARIABLES
    audit,          \* the committed tables: sources, epochs, entries, head and anchors
    auditWork,      \* the tables as the open transaction sees them
    auditTxn,       \* where each writer stands
    auditChecked,   \* the checkpoint whose entry a writer has looked up
    auditBackup,    \* a copy of the tables
    auditRetained,  \* checkpoints in external storage
    auditNext       \* the next event: identifiers are never used again

auditVars == <<audit, auditWork, auditTxn, auditChecked, auditBackup, auditRetained, auditNext>>

NoDigest == <<>>
NoAuditHead == [epoch |-> 0, seq |-> 0, digest |-> NoDigest]
NoCheckpoint == NoAuditHead

EmptyAudit == [sources |-> {}, epochs |-> <<>>, entries |-> <<>>, head |-> NoAuditHead, anchors |-> {}]

AuditDigest(epoch, seq, previous, event) ==
    <<IF event.kind = "usage" THEN 1 ELSE 2, epoch, seq, previous, event>>

\* A table with one row more.
Inserted(table, key, row) == [k \in {key} \cup DOMAIN table |-> IF k = key THEN row ELSE table[k]]

\* The first use of the chain creates its first epoch and its head.
WithHead(tables) ==
    IF tables.head # NoAuditHead THEN tables
    ELSE [tables EXCEPT !.epochs = [epoch \in {1} |-> NoCheckpoint],
                        !.head = [epoch |-> 1, seq |-> 0, digest |-> NoDigest]]

-----------------------------------------------------------------------------
\* Verification of one snapshot of the tables, with or without a checkpoint.

StoredDigest(tables, epoch, seq) == tables.entries[<<epoch, seq>>].digest
IsStored(tables, mark) == <<mark.epoch, mark.seq>> \in DOMAIN tables.entries

\* Mistake: a checkpoint is compared by its position alone.
MarksEntry_Position(tables, mark) == IsStored(tables, mark)

MarksEntry(tables, mark) ==
    IsStored(tables, mark) /\ StoredDigest(tables, mark.epoch, mark.seq) = mark.digest

LengthOfEpoch(tables, epoch) == Cardinality({at \in DOMAIN tables.entries : at[1] = epoch})

\* An epoch other than the first continues from an entry that is stored with the digest it
\* names, or from the checkpoint that is given.
EpochIsLinked(tables, epoch, checkpoint) ==
    LET mark == tables.epochs[epoch]
    IN  /\ epoch = 1 <=> mark = NoCheckpoint
        /\ epoch > 1 => /\ mark.epoch \in 1 .. epoch - 1 /\ mark.seq >= 1
                        /\ IF IsStored(tables, mark)
                           THEN StoredDigest(tables, mark.epoch, mark.seq) = mark.digest
                           ELSE checkpoint = mark

\* Every table that holds a kind of event is read.
SourceEvents(tables) == UNION {{event \in tables.sources : event.kind = kind} : kind \in AuditKinds}

EntryVerifies(tables, epoch, seq) ==
    LET entry == tables.entries[<<epoch, seq>>]
        previous == IF seq = 1 THEN tables.epochs[epoch].digest ELSE StoredDigest(tables, epoch, seq - 1)
    IN  /\ entry.previous = previous
        /\ entry.event \in SourceEvents(tables)
        /\ entry.digest = AuditDigest(epoch, seq, previous, entry.event)

EpochVerifies(tables, epoch, checkpoint) ==
    /\ EpochIsLinked(tables, epoch, checkpoint)
    /\ \A seq \in 1 .. LengthOfEpoch(tables, epoch) :
          <<epoch, seq>> \in DOMAIN tables.entries /\ EntryVerifies(tables, epoch, seq)

HeadMatches(tables) ==
    LET last == LengthOfEpoch(tables, tables.head.epoch)
    IN  /\ tables.head.epoch \in DOMAIN tables.epochs
        /\ \A epoch \in DOMAIN tables.epochs : epoch <= tables.head.epoch
        /\ tables.head.seq = last
        /\ tables.head.digest = IF last = 0 THEN tables.epochs[tables.head.epoch].digest
                                ELSE StoredDigest(tables, tables.head.epoch, last)

\* A checkpoint that an epoch continues from has been matched there; any other must mark
\* an entry.
CheckpointMatches(tables, checkpoint) ==
    \/ \E epoch \in DOMAIN tables.epochs :
          tables.epochs[epoch] = checkpoint /\ ~IsStored(tables, checkpoint)
    \/ MarksEntry(tables, checkpoint)

Verifies(tables, checkpoint) ==
    IF tables.head = NoAuditHead THEN checkpoint = NoCheckpoint
    ELSE /\ \A epoch \in DOMAIN tables.epochs : EpochVerifies(tables, epoch, checkpoint)
         /\ HeadMatches(tables)
         /\ \A at \in DOMAIN tables.entries : at[1] \in DOMAIN tables.epochs
         /\ checkpoint # NoCheckpoint => CheckpointMatches(tables, checkpoint)

\* The freshness of the anchors can be told: the latest one of the head's epoch is not ahead
\* of the head, and what is not anchored begins at an entry.
AnchorStatusIsKnown(tables) ==
    LET anchored == {mark.seq : mark \in {m \in tables.anchors : m.epoch = tables.head.epoch}} \cup {0}
        latest == CHOOSE seq \in anchored : \A other \in anchored : other <= seq
    IN  /\ latest <= tables.head.seq
        /\ tables.head.seq > latest => <<tables.head.epoch, latest + 1>> \in DOMAIN tables.entries

-----------------------------------------------------------------------------
AuditInit ==
    /\ audit = EmptyAudit /\ auditWork = EmptyAudit
    /\ auditTxn = [w \in AuditWriters |-> "idle"]
    /\ auditChecked = [w \in AuditWriters |-> NoCheckpoint]
    /\ auditBackup = EmptyAudit
    /\ auditRetained = {}
    /\ auditNext = 1

Locked == {"sourced", "entered", "ready"}
AuditLockIsFree == \A w \in AuditWriters : auditTxn[w] \notin Locked

\* The insert of the event is the first write of its transaction: it takes the write lock,
\* and all that follows reads what the last transaction committed.
InsertSource(w, kind) ==
    /\ auditTxn[w] = "idle" /\ AuditLockIsFree /\ auditNext <= MaxAuditEvents
    /\ auditWork' = [audit EXCEPT !.sources = @ \cup {[id |-> auditNext, kind |-> kind]}]
    /\ auditNext' = auditNext + 1
    /\ auditTxn' = [auditTxn EXCEPT ![w] = "sourced"]
    /\ UNCHANGED <<audit, auditChecked, auditBackup, auditRetained>>

UnchainedEvent(tables) ==
    CHOOSE event \in tables.sources : \A at \in DOMAIN tables.entries : tables.entries[at].event # event

InsertEntry(w) ==
    LET tables == WithHead(auditWork)
        head == tables.head
        event == UnchainedEvent(tables)
        entry == [previous |-> head.digest, event |-> event,
                  digest |-> AuditDigest(head.epoch, head.seq + 1, head.digest, event)]
    IN  /\ auditTxn[w] = "sourced"
        /\ auditWork' = [tables EXCEPT !.entries = Inserted(@, <<head.epoch, head.seq + 1>>, entry)]
        /\ auditTxn' = [auditTxn EXCEPT ![w] = "entered"]
        /\ UNCHANGED <<audit, auditChecked, auditBackup, auditRetained, auditNext>>

AdvanceHead(w) ==
    LET head == auditWork.head
    IN  /\ auditTxn[w] = "entered"
        /\ auditWork' = [auditWork EXCEPT
              !.head = [epoch |-> head.epoch, seq |-> head.seq + 1,
                        digest |-> StoredDigest(auditWork, head.epoch, head.seq + 1)]]
        /\ auditTxn' = [auditTxn EXCEPT ![w] = "ready"]
        /\ UNCHANGED <<audit, auditChecked, auditBackup, auditRetained, auditNext>>

CommitAudit(w) ==
    /\ auditTxn[w] = "ready"
    /\ audit' = auditWork /\ auditWork' = EmptyAudit
    /\ auditTxn' = [auditTxn EXCEPT ![w] = "idle"]
    /\ UNCHANGED <<auditChecked, auditBackup, auditRetained, auditNext>>

\* An error or the end of the process: nothing of an open transaction is kept.
RollBackAudit(w) ==
    /\ auditTxn[w] # "idle"
    /\ auditWork' = IF auditTxn[w] \in Locked THEN EmptyAudit ELSE auditWork
    /\ auditTxn' = [auditTxn EXCEPT ![w] = "idle"]
    /\ auditChecked' = [auditChecked EXCEPT ![w] = NoCheckpoint]
    /\ UNCHANGED <<audit, auditBackup, auditRetained, auditNext>>

\* Mistake: the new epoch begins with no digest, as the first epoch does.
BeginEpoch_Afresh(w, mark) ==
    LET tables == WithHead(audit)
        epoch == mark.epoch + 1
    IN  /\ auditTxn[w] = "idle" /\ AuditLockIsFree /\ epoch <= MaxAuditEpochs
        /\ epoch > tables.head.epoch
        /\ auditWork' = [tables EXCEPT !.epochs = Inserted(@, epoch, mark),
                                       !.head = [epoch |-> epoch, seq |-> 0, digest |-> NoDigest]]
        /\ auditTxn' = [auditTxn EXCEPT ![w] = "ready"]
        /\ UNCHANGED <<audit, auditChecked, auditBackup, auditRetained, auditNext>>

\* An operator begins an epoch from a retained checkpoint, after a restore or a migration.
BeginEpoch(w, mark) ==
    LET tables == WithHead(audit)
        epoch == mark.epoch + 1
    IN  /\ auditTxn[w] = "idle" /\ AuditLockIsFree /\ epoch <= MaxAuditEpochs
        /\ epoch > tables.head.epoch
        /\ auditWork' = [tables EXCEPT !.epochs = Inserted(@, epoch, mark),
                                       !.head = [epoch |-> epoch, seq |-> 0, digest |-> mark.digest]]
        /\ auditTxn' = [auditTxn EXCEPT ![w] = "ready"]
        /\ UNCHANGED <<audit, auditChecked, auditBackup, auditRetained, auditNext>>

\* A checkpoint is built from the committed head and retained; recording it is another step.
RetainCheckpoint ==
    /\ audit.head.seq >= 1 /\ audit.head \notin auditRetained
    /\ Cardinality(auditRetained) < MaxRetained
    /\ auditRetained' = auditRetained \cup {audit.head}
    /\ UNCHANGED <<audit, auditWork, auditTxn, auditChecked, auditBackup, auditNext>>

\* The entry is looked up before the receipt is inserted, and holds no lock.
CheckCheckpoint(w, mark) ==
    /\ auditTxn[w] = "idle" /\ MarksEntry(audit, mark) /\ mark \notin audit.anchors
    /\ auditChecked' = [auditChecked EXCEPT ![w] = mark]
    /\ auditTxn' = [auditTxn EXCEPT ![w] = "checked"]
    /\ UNCHANGED <<audit, auditWork, auditBackup, auditRetained, auditNext>>

InsertAnchor(w) ==
    /\ auditTxn[w] = "checked" /\ AuditLockIsFree
    /\ auditWork' = [audit EXCEPT !.anchors = @ \cup {auditChecked[w]}]
    /\ auditChecked' = [auditChecked EXCEPT ![w] = NoCheckpoint]
    /\ auditTxn' = [auditTxn EXCEPT ![w] = "ready"]
    /\ UNCHANGED <<audit, auditBackup, auditRetained, auditNext>>

\* The operator copies the database, and later puts the copy in its place while nothing runs.
CopyAudit ==
    /\ auditBackup' = audit
    /\ UNCHANGED <<audit, auditWork, auditTxn, auditChecked, auditRetained, auditNext>>

RestoreAudit ==
    /\ \A w \in AuditWriters : auditTxn[w] = "idle"
    /\ audit' = auditBackup
    /\ UNCHANGED <<auditWork, auditTxn, auditChecked, auditBackup, auditRetained, auditNext>>

AuditNext ==
    \/ \E w \in AuditWriters :
          \/ \E kind \in AuditKinds : InsertSource(w, kind)
          \/ InsertEntry(w) \/ AdvanceHead(w) \/ CommitAudit(w) \/ RollBackAudit(w) \/ InsertAnchor(w)
          \/ \E mark \in auditRetained : BeginEpoch(w, mark) \/ CheckCheckpoint(w, mark)
    \/ RetainCheckpoint \/ CopyAudit \/ RestoreAudit

AuditSpec == AuditInit /\ [][AuditNext]_auditVars

-----------------------------------------------------------------------------
AuditEvents == [id : 1 .. MaxAuditEvents, kind : AuditKinds]

IsTables(tables) ==
    /\ tables.sources \subseteq AuditEvents
    /\ DOMAIN tables.epochs \subseteq 1 .. MaxAuditEpochs
    /\ DOMAIN tables.entries \subseteq (1 .. MaxAuditEpochs) \X (1 .. MaxAuditEvents)
    /\ \A at \in DOMAIN tables.entries : tables.entries[at].event \in AuditEvents
    /\ tables.head.epoch \in 0 .. MaxAuditEpochs /\ tables.head.seq \in 0 .. MaxAuditEvents

AuditTypeOK ==
    /\ IsTables(audit) /\ IsTables(auditWork) /\ IsTables(auditBackup)
    /\ auditTxn \in [AuditWriters -> {"idle", "checked"} \cup Locked]
    /\ auditNext \in 1 .. MaxAuditEvents + 1

Predecessors(tables) == {tables.epochs[epoch] : epoch \in DOMAIN tables.epochs} \ {NoCheckpoint}
Missing(tables) == {mark \in Predecessors(tables) : ~IsStored(tables, mark)}
Forked(tables) == {mark \in Predecessors(tables) : IsStored(tables, mark) /\ ~MarksEntry(tables, mark)}

\* No false alarm: whatever transactions, crashes, restores and new epochs have done, the
\* committed chain verifies on its own when the entries its epochs continue from are stored,
\* and with the checkpoint of the one that is not; every stored event has its one entry, and
\* the freshness of the anchors can be told.  (An epoch begun over entries that took the
\* place of the checkpoint's own, or two restores that each lost the entry of a checkpoint,
\* are outside: verification refuses those.)
HistoryVerifies ==
    /\ Forked(audit) = {} => /\ Missing(audit) = {} => \A mark \in {NoCheckpoint} \cup audit.anchors :
                                                           Verifies(audit, mark)
                             /\ \A mark \in Missing(audit) : Missing(audit) = {mark} => Verifies(audit, mark)
    /\ \A event \in audit.sources :
          Cardinality({at \in DOMAIN audit.entries : audit.entries[at].event = event}) = 1
    /\ AnchorStatusIsKnown(audit)

\* The digests that a digest binds, from itself back.
Bound(digest) ==
    LET back[n \in 0 .. MaxAuditEvents] ==
          IF n = 0 THEN digest ELSE IF back[n - 1] = NoDigest THEN NoDigest ELSE back[n - 1][4]
    IN  {back[n] : n \in 0 .. MaxAuditEvents} \ {NoDigest}

\* A restored history is noticed: verification with a retained checkpoint accepts the tables
\* only if every event that led to the checkpoint is stored, in its place, or an epoch says
\* that the history continues from that checkpoint without them.
RollbackIsNoticed ==
    \A mark \in auditRetained :
       Verifies(audit, mark) =>
          \/ mark \in Missing(audit)
          \/ \A digest \in Bound(mark.digest) :
                /\ <<digest[2], digest[3]>> \in DOMAIN audit.entries
                /\ audit.entries[<<digest[2], digest[3]>>].event = digest[5]
                /\ digest[5] \in audit.sources

\* verify_audit accepts what the writers and restores of this code leave, and nothing that was rolled back.
AuditIsSound == HistoryVerifies /\ RollbackIsNoticed

================================================================================
