------------------------------ MODULE AnchorArtifacts ------------------------------
(***************************************************************************)
(* The library of key custody and audit anchors (hormuz/custody.py): the   *)
(* envelopes that keep contents under a data key of a key service, moved   *)
(* to another key when one is rotated, and the exports of audit events     *)
(* that an outside store retains under the head of their hash chain.       *)
(* Nothing in the gateway calls it: the key service, the store of          *)
(* envelopes and the retained exports are external.                        *)
(*                                                                         *)
(* A digest is the sequence of everything it was computed from; a key that *)
(* was encrypted, and a ciphertext, are records of what opens them.        *)
(***************************************************************************)
EXTENDS Naturals, Sequences, SequencesExt

CONSTANTS
    AnchorOrgs,
    Purposes,
    WrappingKeys,       \* the key service's keys
    AnchorEvents,       \* [id, organization, body]
    MaxEnvelopes,
    MaxExport,          \* how many events an export has
    MaxFaults           \* how many times storage changes a retained export

ASSUME AnchorAssumption == MaxEnvelopes \in Nat /\ MaxExport \in Nat /\ MaxFaults \in Nat

VARIABLES
    envelopes,      \* the stored envelopes
    rewrapped,      \* the answers of rewraps that are not stored yet: <<position, envelope>>
    retired,        \* the keys the key service no longer has
    exported,       \* the events of the export, and whose they are
    anchored,       \* the retained bytes, and the head digest of the receipt
    faults

anchorVars == <<envelopes, rewrapped, retired, exported, anchored, faults>>

NoExport == [organization |-> "", events |-> <<>>]
NoAnchorDigest == <<>>

-----------------------------------------------------------------------------
EncryptionContext(organization, purpose) == <<organization, purpose>>

Available(key) == key \notin retired

\* A new data key, numbered, encrypts the contents; the service encrypts the data key.
SealedEnvelope(organization, purpose, key, dataKey) ==
    [organization |-> organization, purpose |-> purpose, key |-> key,
     encrypted |-> [by |-> key, holds |-> dataKey, for |-> EncryptionContext(organization, purpose)],
     ciphertext |-> [under |-> dataKey, for |-> <<organization, purpose>>]]

\* The service opens a data key with the key the envelope names, for the context it was bound to.
Decrypts(envelope, key) ==
    /\ Available(key)
    /\ envelope.encrypted.by = key
    /\ envelope.encrypted.for = EncryptionContext(envelope.organization, envelope.purpose)

Unseals(envelope) ==
    /\ Decrypts(envelope, envelope.key)
    /\ envelope.ciphertext.under = envelope.encrypted.holds
    /\ envelope.ciphertext.for = <<envelope.organization, envelope.purpose>>

\* Mistake: the data key moves and the envelope still names the key it was under.
Rewrapped_SameReference(envelope, key) == [envelope EXCEPT !.encrypted.by = key]

Rewrapped(envelope, key) == [envelope EXCEPT !.key = key, !.encrypted.by = key]

-----------------------------------------------------------------------------
\* Mistake: the event is hashed without its body.
ChainDigest_OfId(organization, sequence, previous, event) ==
    Append(previous, <<organization, sequence, event.id>>)

ChainDigest(organization, sequence, previous, event) ==
    Append(previous, <<organization, sequence, event>>)

PreviousOf(entries, i) == IF i = 1 THEN NoAnchorDigest ELSE entries[i - 1].digest

\* The entries of an export of `events': each is chained to the one before it.
EntriesOf(organization, events) ==
    LET digests[i \in 0..Len(events)] ==
            IF i = 0 THEN NoAnchorDigest ELSE ChainDigest(organization, i, digests[i - 1], events[i])
    IN  [i \in 1..Len(events) |->
            [sequence |-> i, previous |-> digests[i - 1], digest |-> digests[i], event |-> events[i]]]

HeadOf(entries) == IF entries = <<>> THEN NoAnchorDigest ELSE Last(entries).digest

OnlyOnce(events) == \A i, j \in DOMAIN events : events[i].id = events[j].id => i = j

\* What is true of an artifact that is parsed, or serialized, without an error.
Verified(artifact) ==
    LET entries == artifact.entries
        organization == artifact.organization
    IN  /\ entries # <<>> /\ artifact.count = Len(entries)
        /\ OnlyOnce([i \in DOMAIN entries |-> entries[i].event])
        /\ \A i \in DOMAIN entries :
              /\ entries[i].sequence = i /\ entries[i].previous = PreviousOf(entries, i)
              /\ entries[i].event.organization = organization
              /\ entries[i].digest = ChainDigest(organization, i, entries[i].previous, entries[i].event)
        /\ artifact.head = HeadOf(entries)

\* One change of the retained bytes: an entry lost, repeated, exchanged with the next or with
\* another event, or a header of another count, organization or head.
Damaged(artifact) ==
    LET entries == artifact.entries
        With(changed) == [artifact EXCEPT !.entries = changed]
    IN  {With(RemoveAt(entries, i)) : i \in DOMAIN entries}
        \cup {With(InsertAt(entries, i, entries[i])) : i \in DOMAIN entries}
        \cup {With([entries EXCEPT ![i] = entries[i + 1], ![i + 1] = entries[i]]) : i \in 1..(Len(entries) - 1)}
        \cup {With([entries EXCEPT ![i].event = event]) : i \in DOMAIN entries, event \in AnchorEvents}
        \cup {[artifact EXCEPT !.count = Len(entries)]}
        \cup {[artifact EXCEPT !.organization = organization] : organization \in AnchorOrgs}
        \cup {[artifact EXCEPT !.head = entries[i].digest] : i \in DOMAIN entries}

-----------------------------------------------------------------------------
AnchorInit ==
    /\ envelopes = <<>> /\ rewrapped = {} /\ retired = {}
    /\ exported = NoExport /\ faults = 0
    /\ anchored = [artifact |-> [organization |-> "", entries |-> <<>>, count |-> 0, head |-> NoAnchorDigest],
                   head |-> NoAnchorDigest]

Seal(organization, purpose, key) ==
    /\ Len(envelopes) < MaxEnvelopes /\ Available(key)
    /\ envelopes' = Append(envelopes, SealedEnvelope(organization, purpose, key, Len(envelopes) + 1))
    /\ UNCHANGED <<rewrapped, retired, exported, anchored, faults>>

\* The service moves the data key without showing it; the new envelope is returned.
Rewrap(i, key) ==
    /\ Decrypts(envelopes[i], envelopes[i].key) /\ Available(key)
    /\ rewrapped' = rewrapped \cup {<<i, Rewrapped(envelopes[i], key)>>}
    /\ UNCHANGED <<envelopes, retired, exported, anchored, faults>>

\* Whoever rewraps stores what is returned in the envelope's place.
StoreRewrapped(answer) ==
    /\ envelopes' = [envelopes EXCEPT ![answer[1]] = answer[2]]
    /\ rewrapped' = rewrapped \ {answer}
    /\ UNCHANGED <<retired, exported, anchored, faults>>

\* A key is retired when no envelope names it, stored or on its way.
RetireKey(key) ==
    /\ Available(key)
    /\ \A i \in DOMAIN envelopes : envelopes[i].key # key
    /\ \A answer \in rewrapped : answer[2].key # key
    /\ retired' = retired \cup {key}
    /\ UNCHANGED <<envelopes, rewrapped, exported, anchored, faults>>

\* An export is built, verified, serialized and handed to the outside store.
ExportEvents(organization, events) ==
    LET entries == EntriesOf(organization, events)
        artifact == [organization |-> organization, entries |-> entries, count |-> Len(entries),
                     head |-> HeadOf(entries)]
    IN  /\ exported = NoExport
        /\ events # <<>> /\ OnlyOnce(events)
        /\ \A i \in DOMAIN events : events[i].organization = organization
        /\ exported' = [organization |-> organization, events |-> events]
        /\ anchored' = [artifact |-> artifact, head |-> artifact.head]
        /\ UNCHANGED <<envelopes, rewrapped, retired, faults>>

DamageExport ==
    /\ exported # NoExport /\ faults < MaxFaults
    /\ \E artifact \in Damaged(anchored.artifact) : anchored' = [anchored EXCEPT !.artifact = artifact]
    /\ faults' = faults + 1
    /\ UNCHANGED <<envelopes, rewrapped, retired, exported>>

AnchorNext ==
    \/ \E organization \in AnchorOrgs : \E purpose \in Purposes : \E key \in WrappingKeys :
          Seal(organization, purpose, key)
    \/ \E i \in DOMAIN envelopes : \E key \in WrappingKeys : Rewrap(i, key)
    \/ \E answer \in rewrapped : StoreRewrapped(answer)
    \/ \E key \in WrappingKeys : RetireKey(key)
    \/ \E organization \in AnchorOrgs : \E events \in SeqOf(AnchorEvents, MaxExport) : ExportEvents(organization, events)
    \/ DamageExport

AnchorSpec == AnchorInit /\ [][AnchorNext]_anchorVars

-----------------------------------------------------------------------------
\* The types of the variables.
AnchorTypeOK ==
    /\ Len(envelopes) <= MaxEnvelopes /\ retired \subseteq WrappingKeys
    /\ \A i \in DOMAIN envelopes : envelopes[i].organization \in AnchorOrgs /\ envelopes[i].key \in WrappingKeys
    /\ exported = NoExport \/ exported.organization \in AnchorOrgs
    /\ faults \in 0..MaxFaults

\* Rotation loses nothing: an envelope opens for as long as the key it names is kept, however
\* rewraps of it overlap, so a key no envelope names can be retired.
RotationKeepsContents == \A i \in DOMAIN envelopes : Unseals(envelopes[i])

\* A retained export that verifies under the head digest of its receipt holds the events that
\* were exported, all of them and in their order (build_audit_anchor_artifact: it "detects
\* alterations, deletions, reorderings, duplicates, and cross-tenant rows").
AnchorHoldsTheExport ==
    exported # NoExport /\ Verified(anchored.artifact) /\ anchored.artifact.head = anchored.head
    => /\ anchored.artifact.organization = exported.organization
       /\ [i \in DOMAIN anchored.artifact.entries |-> anchored.artifact.entries[i].event] = exported.events

\* Rotation of wrapping keys and the anchoring of exports lose and alter nothing.
AnchorsAreSound == RotationKeepsContents /\ AnchorHoldsTheExport

====
