----------------------------- MODULE AuditChainProofs -----------------------------
(***************************************************************************)
(* The audit chain verifies whatever its writers, restores and new epochs  *)
(* do, and it does not verify what was rolled back: AuditIsSound holds for *)
(* any writers, kinds of event, epochs and checkpoints.                    *)
(*                                                                         *)
(* What is inductive is said of tables, not of variables: Chained(T) holds *)
(* of what is committed, of what a backup keeps and of what a transaction  *)
(* that is ready will commit, and each operation takes chained tables to   *)
(* chained tables.                                                         *)
(*                                                                         *)
(* Then of key custody and of the exports that are anchored, and of the    *)
(* evidence tables whose rows the entries of the chain speak of.           *)
(***************************************************************************)
EXTENDS AuditChain, AnchorArtifacts, EvidenceTables, DataTheorems, SequenceTheorems, TLAPS

PlacesIn(T, e) == {at \in DOMAIN T.entries : at[1] = e}
PlacesTo(e, n) == {<<e, seq>> : seq \in 1 .. n}

\* The places of an epoch are numbered from one without a gap.
IsLong(T, e, n) == n \in Nat /\ PlacesIn(T, e) = PlacesTo(e, n)

AreTables(T) ==
    T = [sources |-> T.sources, epochs |-> T.epochs, entries |-> T.entries, head |-> T.head, anchors |-> T.anchors]

HeadIsRight(T) ==
    /\ T.head.epoch \in Nat /\ T.head.seq \in Nat
    /\ IF T.head = NoAuditHead
       THEN T.sources = {} /\ DOMAIN T.epochs = {} /\ DOMAIN T.entries = {} /\ T.anchors = {}
       ELSE HeadMatches(T)

\* An epoch continues from a checkpoint of the epoch before it.
EpochsAreRight(T) ==
    \A e \in DOMAIN T.epochs :
        /\ e \in Nat \ {0}
        /\ e = 1 => T.epochs[e] = NoCheckpoint
        /\ e > 1 => T.epochs[e].epoch = e - 1 /\ T.epochs[e].seq \in Nat \ {0}

EntriesAreRight(T) ==
    /\ \A at \in DOMAIN T.entries : at[1] \in DOMAIN T.epochs /\ EntryVerifies(T, at[1], at[2])
    /\ \A e \in DOMAIN T.epochs : \E n \in Nat : IsLong(T, e, n)

EachHasOneEntry(T) ==
    /\ \A event \in T.sources : \E at \in DOMAIN T.entries : T.entries[at].event = event
    /\ \A at, other \in DOMAIN T.entries : T.entries[at].event = T.entries[other].event => at = other

Chained(T) ==
    /\ AreTables(T) /\ HeadIsRight(T) /\ EpochsAreRight(T) /\ EntriesAreRight(T) /\ EachHasOneEntry(T)
    /\ \A mark \in T.anchors : MarksEntry(T, mark)

\* What is stored stays as it is.
Extends(later, T) ==
    \A at \in DOMAIN T.entries : at \in DOMAIN later.entries /\ later.entries[at] = T.entries[at]

-----------------------------------------------------------------------------
LEMMA SourceEventsAre ==
    ASSUME NEW T, NEW event
    PROVE  event \in SourceEvents(T) <=> event \in T.sources /\ event.kind \in AuditKinds
<1> DEFINE of(kind) == {e \in T.sources : e.kind = kind}
<1>1. event \in SourceEvents(T) <=> \E kind \in AuditKinds : event \in of(kind)
  BY DEF SourceEvents
<1>2. \A kind \in AuditKinds : event \in of(kind) <=> event \in T.sources /\ event.kind = kind
  OBVIOUS
<1> HIDE DEF of
<1> QED
  BY <1>1, <1>2

\* The length of an epoch is the number of its last place.
LEMMA LengthIs ==
    ASSUME NEW T, NEW e, NEW n, IsLong(T, e, n)
    PROVE  /\ LengthOfEpoch(T, e) = n
           /\ \A seq : <<e, seq>> \in DOMAIN T.entries <=> seq \in 1 .. n
           /\ \A at \in DOMAIN T.entries : at[1] = e => at = <<e, at[2]>> /\ at[2] \in 1 .. n
<1> DEFINE numbered == [seq \in 1 .. n |-> <<e, seq>>]
<1>1. n \in Nat /\ PlacesIn(T, e) = PlacesTo(e, n)
  BY DEF IsLong
<1>2. IsFiniteSet(1 .. n) /\ Cardinality(1 .. n) = n
  BY <1>1, FS_Interval
<1>3. numbered \in Bijection(1 .. n, PlacesTo(e, n))
  BY DEF Bijection, Injection, Surjection, PlacesTo, IsInjective
<1>4. Cardinality(PlacesTo(e, n)) = n
  BY <1>2, <1>3, FS_Bijection DEF ExistsBijection
<1>5. LengthOfEpoch(T, e) = n
  BY <1>1, <1>4 DEF LengthOfEpoch, PlacesIn
<1>6. \A seq : <<e, seq>> \in DOMAIN T.entries <=> <<e, seq>> \in PlacesIn(T, e)
  BY DEF PlacesIn
<1>7. \A seq : <<e, seq>> \in PlacesTo(e, n) <=> seq \in 1 .. n
  BY DEF PlacesTo
<1>8. \A at \in DOMAIN T.entries : at[1] = e => at \in PlacesTo(e, n)
  BY <1>1 DEF PlacesIn
<1> QED
  BY <1>1, <1>5, <1>6, <1>7, <1>8 DEF PlacesTo

\* The head of chained tables is where their last epoch ends.
LEMMA HeadIs ==
    ASSUME NEW T, Chained(T), T.head # NoAuditHead
    PROVE  /\ T.head.epoch \in DOMAIN T.epochs /\ IsLong(T, T.head.epoch, T.head.seq)
           /\ \A e \in DOMAIN T.epochs : e <= T.head.epoch
           /\ T.head.epoch \in Nat \ {0} /\ T.head.seq \in Nat
           /\ T.head.digest = IF T.head.seq = 0 THEN T.epochs[T.head.epoch].digest
                              ELSE StoredDigest(T, T.head.epoch, T.head.seq)
<1>1. HeadMatches(T) /\ T.head.seq \in Nat
  BY DEF Chained, HeadIsRight
<1>2. T.head.epoch \in DOMAIN T.epochs
  BY <1>1 DEF HeadMatches
<1>3. PICK n \in Nat : IsLong(T, T.head.epoch, n)
  BY <1>2 DEF Chained, EntriesAreRight
<1>4. LengthOfEpoch(T, T.head.epoch) = n
  BY <1>3, LengthIs
<1>5. T.head.seq = n
  BY <1>1, <1>4 DEF HeadMatches
<1> QED
  BY <1>1, <1>2, <1>3, <1>4, <1>5 DEF HeadMatches, Chained, EpochsAreRight

\* An entry has the place of its epoch and number, one of those that its epoch counts.
LEMMA EntryPlaceIs ==
    ASSUME NEW T, Chained(T), NEW at \in DOMAIN T.entries
    PROVE  /\ at \in (DOMAIN T.epochs) \X (Nat \ {0})
           /\ at[2] # 1 => <<at[1], at[2] - 1>> \in DOMAIN T.entries
<1>1. at[1] \in DOMAIN T.epochs
  BY DEF Chained, EntriesAreRight
<1>2. PICK n \in Nat : IsLong(T, at[1], n)
  BY <1>1 DEF Chained, EntriesAreRight
<1>3. at = <<at[1], at[2]>> /\ at[2] \in 1 .. n
  BY <1>2, LengthIs
<1>4. at[2] # 1 => at[2] - 1 \in 1 .. n
  BY <1>3
<1>5. at[2] \in Nat \ {0}
  BY <1>3
<1>6. \A seq \in 1 .. n : <<at[1], seq>> \in DOMAIN T.entries
  BY <1>2, LengthIs
<1>7. at[2] # 1 => <<at[1], at[2] - 1>> \in DOMAIN T.entries
  BY <1>4, <1>6, Zenon
<1>8. at \in (DOMAIN T.epochs) \X (Nat \ {0})
  BY <1>1, <1>3, <1>5
<1> QED
  BY <1>7, <1>8

\* An entry of chained tables carries a source and continues from the entry before it.
LEMMA EntryIs ==
    ASSUME NEW T, Chained(T), NEW at \in DOMAIN T.entries
    PROVE  /\ EntryVerifies(T, at[1], at[2])
           /\ T.entries[at].event \in T.sources /\ T.entries[at].event.kind \in AuditKinds
<1>1. EntryVerifies(T, at[1], at[2])
  BY DEF Chained, EntriesAreRight
<1>2. T.entries[<<at[1], at[2]>>].event \in SourceEvents(T)
  BY <1>1 DEF EntryVerifies
<1>3. at = <<at[1], at[2]>>
  <2>1. at \in (DOMAIN T.epochs) \X (Nat \ {0})
    BY EntryPlaceIs
  <2> QED
    BY <2>1
<1>4. T.entries[at].event \in SourceEvents(T)
  BY <1>2, <1>3
<1> QED
  BY <1>1, <1>4, SourceEventsAre

LEMMA EmptyIsChained == Chained(EmptyAudit)
  BY DEF Chained, EmptyAudit, AreTables, HeadIsRight, NoAuditHead, EpochsAreRight, EntriesAreRight,
         EachHasOneEntry

LEMMA FirstUse ==
    ASSUME NEW T, Chained(T)
    PROVE  /\ Chained(WithHead(T)) /\ WithHead(T).head # NoAuditHead
           /\ WithHead(T).sources = T.sources /\ WithHead(T).anchors = T.anchors
           /\ WithHead(T).entries = T.entries
<1>1. CASE T.head # NoAuditHead
  BY <1>1 DEF WithHead
<1>2. CASE T.head = NoAuditHead
  <2> DEFINE U == WithHead(T)
             first == [epoch |-> 1, seq |-> 0, digest |-> NoDigest]
  <2>1. U = [T EXCEPT !.epochs = [epoch \in {1} |-> NoCheckpoint], !.head = first]
    BY <1>2 DEF WithHead
  <2>2. AreTables(T) /\ T.sources = {} /\ DOMAIN T.entries = {} /\ T.anchors = {}
    BY <1>2 DEF Chained, HeadIsRight
  <2>3. U = [sources |-> T.sources, epochs |-> [epoch \in {1} |-> NoCheckpoint], entries |-> T.entries,
             head |-> first, anchors |-> T.anchors]
    BY <2>1, <2>2 DEF AreTables
  <2> HIDE DEF U
  <2>4. /\ U.sources = T.sources /\ U.entries = T.entries /\ U.anchors = T.anchors
        /\ U.head = first /\ U.epochs = [epoch \in {1} |-> NoCheckpoint]
    BY <2>3
  <2>5. AreTables(U)
    BY <2>3 DEF AreTables
  <2>6. U.head # NoAuditHead
    BY <2>4 DEF NoAuditHead
  <2>7. EpochsAreRight(U) /\ EachHasOneEntry(U)
    BY <2>2, <2>4 DEF EpochsAreRight, EachHasOneEntry
  <2>8. IsLong(U, 1, 0)
    BY <2>2, <2>4 DEF IsLong, PlacesIn, PlacesTo
  <2>9. HeadIsRight(U)
    <3>1. LengthOfEpoch(U, 1) = 0
      BY <2>8, LengthIs
    <3> QED
      BY <2>4, <2>6, <3>1 DEF HeadIsRight, HeadMatches, NoCheckpoint, NoAuditHead
  <2>10. EntriesAreRight(U)
    BY <2>2, <2>4, <2>8 DEF EntriesAreRight
  <2> QED
    BY <2>2, <2>4, <2>5, <2>6, <2>7, <2>9, <2>10 DEF Chained, U
<1> QED
  BY <1>1, <1>2

\* The tables that an insert makes, and the head after it.
Entered(T, event) ==
    LET at == <<T.head.epoch, T.head.seq + 1>>
        entry == [previous |-> T.head.digest, event |-> event,
                  digest |-> AuditDigest(T.head.epoch, T.head.seq + 1, T.head.digest, event)]
    IN  [T EXCEPT !.sources = @ \cup {event}, !.entries = Inserted(@, at, entry)]

Advanced(T) ==
    [T EXCEPT !.head = [epoch |-> T.head.epoch, seq |-> T.head.seq + 1,
                        digest |-> StoredDigest(T, T.head.epoch, T.head.seq + 1)]]

\* An event that is new is chained by its insert and the head that follows it.
LEMMA EnteredIsChained ==
    ASSUME NEW T, Chained(T), T.head # NoAuditHead,
           NEW event, event \notin T.sources, event.kind \in AuditKinds
    PROVE  Chained(Advanced(Entered(T, event))) /\ Extends(Advanced(Entered(T, event)), T)
<1> DEFINE epoch == T.head.epoch
           seq   == T.head.seq + 1
           at    == <<epoch, seq>>
           digest == AuditDigest(epoch, seq, T.head.digest, event)
           entry == [previous |-> T.head.digest, event |-> event, digest |-> digest]
           U == Advanced(Entered(T, event))
<1>1. /\ epoch \in DOMAIN T.epochs /\ IsLong(T, epoch, T.head.seq) /\ T.head.seq \in Nat
      /\ \A e \in DOMAIN T.epochs : e <= epoch
      /\ T.head.digest = IF T.head.seq = 0 THEN T.epochs[epoch].digest ELSE StoredDigest(T, epoch, T.head.seq)
      /\ epoch \in Nat \ {0}
  BY HeadIs
<1>2. AreTables(T)
  BY DEF Chained
<1>3. at \notin DOMAIN T.entries
  <2>1. seq \notin 1 .. T.head.seq
    BY <1>1
  <2> QED
    BY <1>1, <2>1, LengthIs
<1>4. /\ U.sources = T.sources \cup {event} /\ U.epochs = T.epochs /\ U.anchors = T.anchors
      /\ U.entries = Inserted(T.entries, at, entry)
      /\ U.head = [epoch |-> epoch, seq |-> seq, digest |-> digest]
      /\ AreTables(U)
  <2> DEFINE E == Entered(T, event)
  <2>0. E = [T EXCEPT !.sources = @ \cup {event}, !.entries = Inserted(@, at, entry)]
    BY DEF Entered
  <2> HIDE DEF E, entry, at
  <2>1. E = [sources |-> T.sources \cup {event}, epochs |-> T.epochs,
             entries |-> Inserted(T.entries, at, entry), head |-> T.head, anchors |-> T.anchors]
    BY <1>2, <2>0 DEF AreTables
  <2> HIDE DEF seq, epoch
  <2>2. StoredDigest(E, epoch, seq) = digest
    BY <2>1 DEF StoredDigest, Inserted, at, entry
  <2>3. U = [E EXCEPT !.head = [epoch |-> epoch, seq |-> seq, digest |-> digest]]
    BY <2>1, <2>2 DEF Advanced, epoch, seq, E
  <2> HIDE DEF U, digest
  <2> QED
    BY <2>1, <2>3 DEF AreTables
<1> HIDE DEF U, entry, at, digest
<1>5. /\ DOMAIN U.entries = {at} \cup DOMAIN T.entries
      /\ U.entries[at] = entry
      /\ \A o \in DOMAIN T.entries : U.entries[o] = T.entries[o]
  BY <1>3, <1>4 DEF Inserted
<1>6. IsLong(U, epoch, seq)
  <2>1. PlacesIn(T, epoch) = PlacesTo(epoch, T.head.seq)
    BY <1>1 DEF IsLong
  <2>2. PlacesIn(U, epoch) = {at} \cup PlacesIn(T, epoch)
    BY <1>5 DEF PlacesIn, at
  <2>3. PlacesTo(epoch, seq) = {at} \cup PlacesTo(epoch, T.head.seq)
    <3>1. 1 .. seq = {seq} \cup 1 .. T.head.seq /\ seq \in Nat
      BY <1>1
    <3> QED
      BY <3>1 DEF PlacesTo, at
  <2> QED
    BY <1>1, <2>1, <2>2, <2>3 DEF IsLong
<1>7. \A e \in DOMAIN T.epochs : e # epoch => PlacesIn(U, e) = PlacesIn(T, e)
  BY <1>5 DEF PlacesIn, at
<1>8. U.head # NoAuditHead /\ U.head.epoch \in Nat /\ U.head.seq \in Nat
  BY <1>1, <1>4 DEF NoAuditHead
<1>9. HeadIsRight(U)
  <2>1. LengthOfEpoch(U, epoch) = seq /\ seq \in Nat \ {0}
    BY <1>1, <1>6, LengthIs
  <2>2. StoredDigest(U, epoch, seq) = digest
    BY <1>5 DEF StoredDigest, at, entry
  <2> HIDE DEF seq, epoch
  <2> QED
    BY <1>1, <1>4, <1>8, <2>1, <2>2 DEF HeadIsRight, HeadMatches
<1>10. EpochsAreRight(U)
  BY <1>4 DEF Chained, EpochsAreRight
<1>11. \A o \in DOMAIN T.entries : T.entries[o].event \in T.sources
  BY EntryIs
<1>12. EachHasOneEntry(U)
  <2>1. U.entries[at].event = event
    BY <1>5 DEF entry
  <2>2. \A o \in DOMAIN T.entries : U.entries[o].event \in T.sources
    BY <1>5, <1>11
  <2>3. ASSUME NEW o \in DOMAIN U.entries, NEW other \in DOMAIN U.entries,
               U.entries[o].event = U.entries[other].event
        PROVE  o = other
    <3>1. CASE o = at \/ other = at
      BY <1>5, <2>1, <2>2, <2>3, <3>1
    <3>2. CASE o \in DOMAIN T.entries /\ other \in DOMAIN T.entries
      BY <1>5, <2>3, <3>2 DEF Chained, EachHasOneEntry
    <3> QED
      BY <1>5, <3>1, <3>2
  <2>4. ASSUME NEW source \in U.sources
        PROVE  \E o \in DOMAIN U.entries : U.entries[o].event = source
    BY <1>4, <1>5, <2>1 DEF Chained, EachHasOneEntry
  <2> QED
    BY <2>3, <2>4 DEF EachHasOneEntry
<1>13. EntryVerifies(U, epoch, seq)
  <2> DEFINE previous == IF seq = 1 THEN U.epochs[epoch].digest ELSE StoredDigest(U, epoch, seq - 1)
  <2>1. previous = T.head.digest
    <3>1. CASE T.head.seq = 0
      BY <1>1, <1>4, <3>1
    <3>2. CASE T.head.seq # 0
      <4>1. seq # 1 /\ seq - 1 = T.head.seq /\ T.head.seq \in 1 .. T.head.seq
        BY <1>1, <3>2
      <4>2. <<epoch, T.head.seq>> \in DOMAIN T.entries
        BY <1>1, <4>1, LengthIs
      <4> QED
        BY <1>1, <1>5, <3>2, <4>1, <4>2 DEF StoredDigest
    <3> QED
      BY <3>1, <3>2
  <2> HIDE DEF previous
  <2>2. U.entries[at].previous = previous /\ U.entries[at].event = event
        /\ U.entries[at].digest = AuditDigest(epoch, seq, previous, event)
    BY <1>5, <2>1 DEF entry, digest
  <2>3. event \in SourceEvents(U)
    BY <1>4, SourceEventsAre
  <2> QED
    BY <2>2, <2>3 DEF EntryVerifies, at, previous
<1>14. ASSUME NEW o \in DOMAIN T.entries
       PROVE  EntryVerifies(U, o[1], o[2])
  <2> DEFINE e == o[1]
             s == o[2]
             before(V) == IF s = 1 THEN V.epochs[e].digest ELSE StoredDigest(V, e, s - 1)
  <2>1. o = <<e, s>> /\ (s # 1 => <<e, s - 1>> \in DOMAIN T.entries)
    BY EntryPlaceIs
  <2>2. EntryVerifies(T, e, s) /\ T.entries[o].event \in T.sources /\ T.entries[o].event.kind \in AuditKinds
    BY EntryIs
  <2> HIDE DEF e, s
  <2>3. before(U) = before(T)
    BY <1>4, <1>5, <2>1 DEF StoredDigest
  <2>4. T.entries[<<e, s>>].previous = before(T)
        /\ T.entries[<<e, s>>].digest = AuditDigest(e, s, before(T), T.entries[<<e, s>>].event)
    BY <2>2 DEF EntryVerifies
  <2>5. U.entries[<<e, s>>] = T.entries[<<e, s>>]
    BY <1>5, <2>1
  <2>6. U.entries[<<e, s>>].event \in SourceEvents(U)
    BY <1>4, <2>1, <2>2, <2>5, SourceEventsAre
  <2> HIDE DEF before
  <2>7. U.entries[<<e, s>>].previous = before(U)
        /\ U.entries[<<e, s>>].digest = AuditDigest(e, s, before(U), U.entries[<<e, s>>].event)
    BY <2>3, <2>4, <2>5
  <2> QED
    BY <2>6, <2>7 DEF EntryVerifies, before, e, s
<1>15. EntriesAreRight(U)
  <2>1. at[1] = epoch /\ at[2] = seq
    BY DEF at
  <2>2. ASSUME NEW o \in DOMAIN U.entries
        PROVE  o[1] \in DOMAIN U.epochs /\ EntryVerifies(U, o[1], o[2])
    <3>1. CASE o = at
      BY <1>1, <1>4, <1>13, <2>1, <3>1
    <3>2. CASE o \in DOMAIN T.entries
      BY <1>4, <1>14, <3>2 DEF Chained, EntriesAreRight
    <3> QED
      BY <1>5, <3>1, <3>2
  <2>3. ASSUME NEW e \in DOMAIN U.epochs
        PROVE  \E n \in Nat : IsLong(U, e, n)
    <3>1. CASE e = epoch
      <4>1. seq \in Nat
        BY <1>1
      <4> HIDE DEF seq
      <4> QED
        BY <1>6, <3>1, <4>1
    <3>2. CASE e # epoch
      <4>1. PICK n \in Nat : IsLong(T, e, n)
        BY <1>4 DEF Chained, EntriesAreRight
      <4> QED
        BY <1>4, <1>7, <3>2, <4>1 DEF IsLong
    <3> QED
      BY <3>1, <3>2
  <2> QED
    BY <2>2, <2>3 DEF EntriesAreRight
<1>16. Extends(U, T)
  BY <1>5 DEF Extends
<1>17. \A mark \in U.anchors : MarksEntry(U, mark)
  BY <1>4, <1>5 DEF Chained, MarksEntry, IsStored, StoredDigest
<1> QED
  BY <1>4, <1>9, <1>10, <1>12, <1>15, <1>16, <1>17 DEF Chained, U

\* The tables that an operator's new epoch makes.
Continued(T, mark) ==
    [T EXCEPT !.epochs = Inserted(@, mark.epoch + 1, mark),
              !.head = [epoch |-> mark.epoch + 1, seq |-> 0, digest |-> mark.digest]]

\* An epoch past the head's is chained: it has no entry yet.
LEMMA ContinuedIsChained ==
    ASSUME NEW T, Chained(T), T.head # NoAuditHead,
           NEW mark, mark.epoch \in Nat \ {0}, mark.seq \in Nat \ {0}, mark.epoch + 1 > T.head.epoch
    PROVE  Chained(Continued(T, mark)) /\ Extends(Continued(T, mark), T)
<1> DEFINE epoch == mark.epoch + 1
           head  == [epoch |-> epoch, seq |-> 0, digest |-> mark.digest]
           U == Continued(T, mark)
<1>1. /\ \A e \in DOMAIN T.epochs : e <= T.head.epoch /\ e \in Nat
      /\ T.head.epoch \in Nat
  BY HeadIs DEF Chained, EpochsAreRight
<1>2. epoch \notin DOMAIN T.epochs /\ epoch \in Nat /\ epoch > 1 /\ epoch - 1 = mark.epoch
  BY <1>1
<1>3. AreTables(T)
  BY DEF Chained
<1>4. /\ U.sources = T.sources /\ U.epochs = Inserted(T.epochs, epoch, mark) /\ U.anchors = T.anchors
      /\ U.entries = T.entries /\ U.head = head /\ AreTables(U)
  <2>0. U = [T EXCEPT !.epochs = Inserted(@, epoch, mark), !.head = head]
    BY DEF Continued
  <2> HIDE DEF U, epoch, head
  <2>1. U = [sources |-> T.sources, epochs |-> Inserted(T.epochs, epoch, mark),
             entries |-> T.entries, head |-> head, anchors |-> T.anchors]
    BY <1>3, <2>0 DEF AreTables
  <2> QED
    BY <2>1 DEF AreTables
<1>5. U.head.epoch = epoch /\ U.head.seq = 0 /\ U.head.digest = mark.digest
  BY <1>4
<1> HIDE DEF U, epoch, head
<1>6. /\ DOMAIN U.epochs = {epoch} \cup DOMAIN T.epochs /\ U.epochs[epoch] = mark
      /\ \A e \in DOMAIN T.epochs : U.epochs[e] = T.epochs[e]
  BY <1>2, <1>4 DEF Inserted
<1>7. IsLong(U, epoch, 0)
  <2>1. \A at \in DOMAIN T.entries : at[1] # epoch
    BY <1>2 DEF Chained, EntriesAreRight
  <2> QED
    BY <1>4, <2>1 DEF IsLong, PlacesIn, PlacesTo
<1>8. HeadIsRight(U)
  <2>1. LengthOfEpoch(U, epoch) = 0
    BY <1>7, LengthIs
  <2>2. \A e \in DOMAIN U.epochs : e <= epoch
    BY <1>1, <1>2, <1>6 DEF epoch
  <2>3. U.head # NoAuditHead
    BY <1>2, <1>5 DEF NoAuditHead
  <2> QED
    BY <1>2, <1>5, <1>6, <2>1, <2>2, <2>3 DEF HeadIsRight, HeadMatches
<1>9. EpochsAreRight(U)
  <2>1. \A e \in DOMAIN T.epochs :
           /\ e \in Nat \ {0}
           /\ e = 1 => T.epochs[e] = NoCheckpoint
           /\ e > 1 => T.epochs[e].epoch = e - 1 /\ T.epochs[e].seq \in Nat \ {0}
    BY DEF Chained, EpochsAreRight
  <2> QED
    BY <1>2, <1>6, <2>1 DEF EpochsAreRight
<1>10. EntriesAreRight(U)
  <2>1. ASSUME NEW at \in DOMAIN U.entries
        PROVE  at[1] \in DOMAIN U.epochs /\ EntryVerifies(U, at[1], at[2])
    <3>1. at[1] \in DOMAIN T.epochs /\ EntryVerifies(T, at[1], at[2])
      BY <1>4 DEF Chained, EntriesAreRight
    <3>2. SourceEvents(U) = SourceEvents(T)
      BY <1>4 DEF SourceEvents
    <3> QED
      BY <1>4, <1>6, <3>1, <3>2 DEF EntryVerifies, StoredDigest
  <2>2. ASSUME NEW e \in DOMAIN U.epochs
        PROVE  \E n \in Nat : IsLong(U, e, n)
    <3>1. CASE e = epoch
      BY <1>7, <3>1
    <3>2. CASE e \in DOMAIN T.epochs
      BY <1>4, <3>2 DEF Chained, EntriesAreRight, IsLong, PlacesIn
    <3> QED
      BY <1>6, <3>1, <3>2
  <2> QED
    BY <2>1, <2>2 DEF EntriesAreRight
<1>11. EachHasOneEntry(U) /\ Extends(U, T)
  BY <1>4 DEF Chained, EachHasOneEntry, Extends
<1>12. \A m \in U.anchors : MarksEntry(U, m)
  BY <1>4 DEF Chained, MarksEntry, IsStored, StoredDigest
<1> QED
  BY <1>4, <1>8, <1>9, <1>10, <1>11, <1>12 DEF Chained, U

\* The tables with one receipt more.
Anchored(T, mark) == [T EXCEPT !.anchors = @ \cup {mark}]

LEMMA AnchoredIsChained ==
    ASSUME NEW T, Chained(T), NEW mark, MarksEntry(T, mark)
    PROVE  Chained(Anchored(T, mark)) /\ Extends(Anchored(T, mark), T)
<1> DEFINE U == Anchored(T, mark)
<1>1. AreTables(T)
  BY DEF Chained
<1>2. U = [sources |-> T.sources, epochs |-> T.epochs, entries |-> T.entries,
           head |-> T.head, anchors |-> T.anchors \cup {mark}]
  BY <1>1 DEF Anchored, AreTables
<1> HIDE DEF U
<1>3. /\ U.sources = T.sources /\ U.epochs = T.epochs /\ U.entries = T.entries /\ U.head = T.head
      /\ U.anchors = T.anchors \cup {mark} /\ AreTables(U)
  BY <1>2 DEF AreTables
<1>4. HeadIsRight(U)
  <2>1. DOMAIN T.entries # {}
    BY DEF MarksEntry, IsStored
  <2> QED
    BY <1>3, <2>1 DEF Chained, HeadIsRight, HeadMatches, LengthOfEpoch, StoredDigest
<1>5. EpochsAreRight(U) /\ EachHasOneEntry(U) /\ Extends(U, T)
  BY <1>3 DEF Chained, EpochsAreRight, EachHasOneEntry, Extends
<1>6. EntriesAreRight(U)
  <2>1. ASSUME NEW at \in DOMAIN U.entries
        PROVE  at[1] \in DOMAIN U.epochs /\ EntryVerifies(U, at[1], at[2])
    <3>1. at[1] \in DOMAIN T.epochs /\ EntryVerifies(T, at[1], at[2])
      BY <1>3 DEF Chained, EntriesAreRight
    <3>2. SourceEvents(U) = SourceEvents(T)
      BY <1>3 DEF SourceEvents
    <3> QED
      BY <1>3, <3>1, <3>2 DEF EntryVerifies, StoredDigest
  <2> QED
    BY <1>3, <2>1 DEF Chained, EntriesAreRight, IsLong, PlacesIn
<1>7. \A m \in U.anchors : MarksEntry(U, m)
  BY <1>3 DEF Chained, MarksEntry, IsStored, StoredDigest
<1> QED
  BY <1>3, <1>4, <1>5, <1>6, <1>7 DEF Chained, U

-----------------------------------------------------------------------------
\* The tables with a source that has no entry yet.
Sourced(T, event) == [T EXCEPT !.sources = @ \cup {event}]

\* What each writer has done of its transaction.
HasDone(w) ==
    /\ auditTxn[w] = "sourced" => \E event :
          event \notin audit.sources /\ event.kind \in AuditKinds /\ auditWork = Sourced(audit, event)
    /\ auditTxn[w] = "entered" => Chained(Advanced(auditWork)) /\ Extends(Advanced(auditWork), audit)
    /\ auditTxn[w] = "ready" => Chained(auditWork) /\ Extends(auditWork, audit)
    /\ auditTxn[w] = "checked" => MarksEntry(audit, auditChecked[w])

IsNumbered(event) == event.id \in Nat /\ event.id < auditNext

AuditInv ==
    /\ auditTxn \in [AuditWriters -> {"idle", "checked"} \cup Locked] /\ auditNext \in Nat
    /\ auditChecked \in [AuditWriters -> auditRetained \cup {NoCheckpoint}]
    /\ \A w, v \in AuditWriters : auditTxn[w] \in Locked /\ auditTxn[v] \in Locked => w = v
    /\ Chained(audit) /\ Chained(auditBackup)
    /\ \A w \in AuditWriters : HasDone(w)
    /\ \A event \in audit.sources \cup auditBackup.sources \cup auditWork.sources : IsNumbered(event)
    /\ \A mark \in auditRetained : mark.epoch \in Nat \ {0} /\ mark.seq \in Nat \ {0}

LEMMA MarksStay ==
    ASSUME NEW T, NEW U, NEW mark, MarksEntry(T, mark), Extends(U, T)
    PROVE  MarksEntry(U, mark)
  BY DEF MarksEntry, IsStored, StoredDigest, Extends

LEMMA InsertSourceKeepsAudit ==
    ASSUME AuditInv, NEW w \in AuditWriters, NEW kind \in AuditKinds, InsertSource(w, kind)
    PROVE  AuditInv'
<1> DEFINE event == [id |-> auditNext, kind |-> kind]
<1>1. /\ \A v \in AuditWriters : auditTxn[v] \notin Locked
      /\ auditWork' = Sourced(audit, event) /\ auditNext' = auditNext + 1
      /\ auditTxn' = [auditTxn EXCEPT ![w] = "sourced"]
      /\ UNCHANGED <<audit, auditChecked, auditBackup, auditRetained>>
  BY DEF InsertSource, AuditLockIsFree, Sourced
<1>2. event.id = auditNext /\ event.kind = kind
  OBVIOUS
<1> HIDE DEF event
<1>3. auditNext \in Nat /\ \A e \in audit.sources \cup auditBackup.sources : e.id \in Nat /\ e.id < auditNext
  BY DEF AuditInv, IsNumbered
<1>4. event \notin audit.sources
  BY <1>2, <1>3
<1>5. auditWork'.sources = audit.sources \cup {event}
  <2>1. AreTables(audit)
    BY DEF AuditInv, Chained
  <2>2. auditWork' = [audit EXCEPT !.sources = @ \cup {event}]
    BY <1>1 DEF Sourced
  <2> QED
    BY <2>1, <2>2 DEF AreTables
<1>6. \A e \in audit'.sources \cup auditBackup'.sources \cup auditWork'.sources : IsNumbered(e)'
  BY <1>1, <1>2, <1>3, <1>5 DEF IsNumbered
<1>7. ASSUME NEW v \in AuditWriters
      PROVE  HasDone(v)'
  <2>1. CASE v = w
    BY <1>1, <1>2, <1>4, <2>1 DEF AuditInv, HasDone
  <2>2. CASE v # w
    BY <1>1, <2>2 DEF AuditInv, HasDone, Locked
  <2> QED
    BY <2>1, <2>2
<1>8. /\ auditTxn' \in [AuditWriters -> {"idle", "checked"} \cup Locked] /\ auditNext' \in Nat
      /\ \A u, v \in AuditWriters : auditTxn'[u] \in Locked /\ auditTxn'[v] \in Locked => u = v
  BY <1>1, <1>3 DEF AuditInv, Locked
<1> QED
  BY <1>1, <1>6, <1>7, <1>8 DEF AuditInv

\* The first use of the chain comes before or after the source: the tables are the same.
LEMMA SourcedFirstUse ==
    ASSUME NEW T, Chained(T), NEW event
    PROVE  /\ WithHead(Sourced(T, event)) = Sourced(WithHead(T), event)
           /\ AreTables(Sourced(WithHead(T), event))
           /\ Sourced(WithHead(T), event).sources = T.sources \cup {event}
           /\ Sourced(WithHead(T), event).entries = WithHead(T).entries
           /\ Sourced(WithHead(T), event).head = WithHead(T).head
<1> DEFINE first == [epoch |-> 1, seq |-> 0, digest |-> NoDigest]
           one   == [epoch \in {1} |-> NoCheckpoint]
<1>1. T = [sources |-> T.sources, epochs |-> T.epochs, entries |-> T.entries, head |-> T.head, anchors |-> T.anchors]
  BY DEF Chained, AreTables
<1>2. Sourced(T, event) = [sources |-> T.sources \cup {event}, epochs |-> T.epochs, entries |-> T.entries,
                           head |-> T.head, anchors |-> T.anchors]
  BY <1>1 DEF Sourced
<1>3. CASE T.head # NoAuditHead
  <2>1. WithHead(T) = T /\ WithHead(Sourced(T, event)) = Sourced(T, event)
    BY <1>2, <1>3 DEF WithHead
  <2> QED
    BY <1>2, <2>1 DEF AreTables
<1>4. CASE T.head = NoAuditHead
  <2> DEFINE U == WithHead(T)
  <2>0. U = [T EXCEPT !.epochs = one, !.head = first]
    BY <1>4 DEF WithHead
  <2>1. WithHead(Sourced(T, event)) = [Sourced(T, event) EXCEPT !.epochs = one, !.head = first]
    BY <1>2, <1>4 DEF WithHead
  <2> HIDE DEF U, one, first
  <2>2. U = [sources |-> T.sources, epochs |-> one, entries |-> T.entries,
             head |-> first, anchors |-> T.anchors]
    BY <1>1, <2>0
  <2>3. Sourced(U, event) = [sources |-> T.sources \cup {event}, epochs |-> one, entries |-> T.entries,
                             head |-> first, anchors |-> T.anchors]
    BY <2>2 DEF Sourced
  <2>4. WithHead(Sourced(T, event)) = Sourced(U, event)
    <3> DEFINE S == Sourced(T, event)
    <3>1. /\ AreTables(S) /\ S.sources = T.sources \cup {event} /\ S.entries = T.entries
          /\ S.anchors = T.anchors
      BY <1>2 DEF AreTables
    <3>2. WithHead(S) = [S EXCEPT !.epochs = one, !.head = first]
      BY <2>1
    <3> HIDE DEF S
    <3>3. WithHead(S) = [sources |-> S.sources, epochs |-> one, entries |-> S.entries,
                         head |-> first, anchors |-> S.anchors]
      BY <3>1, <3>2 DEF AreTables
    <3> QED
      BY <2>3, <3>1, <3>3 DEF S
  <2>5. /\ AreTables(Sourced(U, event)) /\ Sourced(U, event).sources = T.sources \cup {event}
        /\ Sourced(U, event).entries = U.entries /\ Sourced(U, event).head = U.head
    BY <2>2, <2>3 DEF AreTables
  <2> QED
    BY <2>4, <2>5 DEF U
<1> QED
  BY <1>3, <1>4

LEMMA InsertEntryMakes ==
    ASSUME AuditInv, NEW w \in AuditWriters, InsertEntry(w)
    PROVE  \E event :
              /\ event \in auditWork.sources /\ event \notin audit.sources /\ event.kind \in AuditKinds
              /\ auditWork.sources = audit.sources \cup {event}
              /\ auditWork' = Entered(WithHead(audit), event)
<1>1. PICK event : event \notin audit.sources /\ event.kind \in AuditKinds /\ auditWork = Sourced(audit, event)
  BY DEF InsertEntry, AuditInv, HasDone
<1> DEFINE T == WithHead(audit)
           tables == Sourced(T, event)
           at == <<T.head.epoch, T.head.seq + 1>>
           entry == [previous |-> T.head.digest, event |-> event,
                     digest |-> AuditDigest(T.head.epoch, T.head.seq + 1, T.head.digest, event)]
<1>2. Chained(audit)
  BY DEF AuditInv
<1>3. /\ WithHead(auditWork) = tables /\ AreTables(tables)
      /\ tables.sources = audit.sources \cup {event} /\ tables.entries = T.entries /\ tables.head = T.head
  BY <1>1, <1>2, SourcedFirstUse
<1>4. Chained(T) /\ T.head # NoAuditHead /\ T.sources = audit.sources
  BY <1>2, FirstUse
<1> HIDE DEF tables, T
<1>5. UnchainedEvent(tables) = event
  <2> DEFINE unchained(e) == \A o \in DOMAIN tables.entries : tables.entries[o].event # e
  <2>1. unchained(event)
    BY <1>1, <1>3, <1>4, EntryIs
  <2>2. \A e \in tables.sources : unchained(e) => e = event
    BY <1>3, <1>4 DEF Chained, EachHasOneEntry
  <2>3. UnchainedEvent(tables) = CHOOSE e \in tables.sources : unchained(e)
    BY DEF UnchainedEvent
  <2> HIDE DEF unchained
  <2> QED
    BY <1>3, <2>1, <2>2, <2>3
<1>6. auditWork' = [tables EXCEPT !.entries = Inserted(@, at, entry)]
  BY <1>3, <1>5 DEF InsertEntry
<1> HIDE DEF at, entry
<1>7. auditWork' = [sources |-> T.sources \cup {event}, epochs |-> T.epochs,
                    entries |-> Inserted(T.entries, at, entry), head |-> T.head, anchors |-> T.anchors]
  <2>1. tables = [T EXCEPT !.sources = @ \cup {event}] /\ AreTables(T)
    BY <1>4 DEF tables, Sourced, Chained
  <2> QED
    BY <1>6, <2>1 DEF AreTables
<1>8. Entered(T, event) = [sources |-> T.sources \cup {event}, epochs |-> T.epochs,
                           entries |-> Inserted(T.entries, at, entry), head |-> T.head, anchors |-> T.anchors]
  <2>1. Entered(T, event) = [T EXCEPT !.sources = @ \cup {event}, !.entries = Inserted(@, at, entry)] /\ AreTables(T)
    BY <1>4 DEF Entered, at, entry, Chained
  <2> QED
    BY <2>1 DEF AreTables
<1>9. auditWork.sources = audit.sources \cup {event}
  <2>1. auditWork = [audit EXCEPT !.sources = @ \cup {event}] /\ AreTables(audit)
    BY <1>1, <1>2 DEF Sourced, Chained
  <2> QED
    BY <2>1 DEF AreTables
<1> QED
  BY <1>1, <1>7, <1>8, <1>9 DEF T

LEMMA InsertEntryKeepsAudit ==
    ASSUME AuditInv, NEW w \in AuditWriters, InsertEntry(w)
    PROVE  AuditInv'
<1>1. PICK event :
         /\ event \in auditWork.sources /\ event \notin audit.sources /\ event.kind \in AuditKinds
         /\ auditWork.sources = audit.sources \cup {event}
         /\ auditWork' = Entered(WithHead(audit), event)
  BY InsertEntryMakes
<1>2. /\ auditTxn[w] = "sourced" /\ auditTxn' = [auditTxn EXCEPT ![w] = "entered"]
      /\ UNCHANGED <<audit, auditChecked, auditBackup, auditRetained, auditNext>>
  BY DEF InsertEntry
<1> DEFINE T == WithHead(audit)
           U == Entered(T, event)
<1>3. Chained(T) /\ T.head # NoAuditHead /\ T.sources = audit.sources /\ T.entries = audit.entries
  BY FirstUse DEF AuditInv
<1> HIDE DEF T
<1>4. Chained(Advanced(U)) /\ Extends(Advanced(U), T)
  BY <1>1, <1>3, EnteredIsChained
<1>5. U.sources = T.sources \cup {event}
  <2>1. AreTables(T)
    BY <1>3 DEF Chained
  <2>2. \E entries : U = [T EXCEPT !.sources = @ \cup {event}, !.entries = entries]
    BY DEF Entered
  <2> QED
    BY <2>1, <2>2 DEF AreTables
<1> HIDE DEF U
<1>6. auditWork' = U /\ auditWork'.sources = auditWork.sources
  BY <1>1, <1>3, <1>5 DEF U, T
<1>7. ASSUME NEW v \in AuditWriters
      PROVE  HasDone(v)'
  <2>1. CASE v = w
    <3>1. auditTxn'[v] = "entered"
      BY <1>2, <2>1 DEF AuditInv
    <3>2. Extends(Advanced(U), audit)
      BY <1>3, <1>4 DEF Extends
    <3> QED
      BY <1>2, <1>4, <1>6, <3>1, <3>2 DEF HasDone
  <2>2. CASE v # w
    <3>1. auditTxn'[v] = auditTxn[v] /\ auditTxn[v] \notin Locked
      BY <1>2, <2>2 DEF AuditInv, Locked
    <3> QED
      BY <1>2, <3>1 DEF AuditInv, HasDone, Locked
  <2> QED
    BY <2>1, <2>2
<1>8. /\ auditTxn' \in [AuditWriters -> {"idle", "checked"} \cup Locked]
      /\ \A u, v \in AuditWriters : auditTxn'[u] \in Locked /\ auditTxn'[v] \in Locked => u = v
  BY <1>2 DEF AuditInv, Locked
<1>9. \A e \in audit'.sources \cup auditBackup'.sources \cup auditWork'.sources : IsNumbered(e)'
  BY <1>2, <1>6 DEF AuditInv, IsNumbered
<1> QED
  BY <1>2, <1>7, <1>8, <1>9 DEF AuditInv

LEMMA AdvanceHeadKeepsAudit ==
    ASSUME AuditInv, NEW w \in AuditWriters, AdvanceHead(w)
    PROVE  AuditInv'
<1>1. /\ auditTxn[w] = "entered" /\ auditTxn' = [auditTxn EXCEPT ![w] = "ready"]
      /\ auditWork' = Advanced(auditWork)
      /\ UNCHANGED <<audit, auditChecked, auditBackup, auditRetained, auditNext>>
  BY DEF AdvanceHead, Advanced
<1>2. Chained(auditWork') /\ Extends(auditWork', audit)
  BY <1>1 DEF AuditInv, HasDone
<1>3. auditWork'.sources = auditWork.sources
  <2>1. \E head : auditWork' = [auditWork EXCEPT !.head = head]
    BY <1>1 DEF Advanced
  <2> QED
    BY <2>1
<1>4. ASSUME NEW v \in AuditWriters
      PROVE  HasDone(v)'
  <2>1. CASE v = w
    <3>1. auditTxn'[v] = "ready"
      BY <1>1, <2>1 DEF AuditInv
    <3> QED
      BY <1>1, <1>2, <3>1 DEF HasDone
  <2>2. CASE v # w
    <3>1. auditTxn'[v] = auditTxn[v] /\ auditTxn[v] \notin Locked
      BY <1>1, <2>2 DEF AuditInv, Locked
    <3> QED
      BY <1>1, <3>1 DEF AuditInv, HasDone, Locked
  <2> QED
    BY <2>1, <2>2
<1>5. /\ auditTxn' \in [AuditWriters -> {"idle", "checked"} \cup Locked]
      /\ \A u, v \in AuditWriters : auditTxn'[u] \in Locked /\ auditTxn'[v] \in Locked => u = v
  BY <1>1 DEF AuditInv, Locked
<1>6. \A e \in audit'.sources \cup auditBackup'.sources \cup auditWork'.sources : IsNumbered(e)'
  BY <1>1, <1>3 DEF AuditInv, IsNumbered
<1> QED
  BY <1>1, <1>4, <1>5, <1>6 DEF AuditInv

LEMMA CommitKeepsAudit ==
    ASSUME AuditInv, NEW w \in AuditWriters, CommitAudit(w)
    PROVE  AuditInv'
<1>1. /\ auditTxn[w] = "ready" /\ auditTxn' = [auditTxn EXCEPT ![w] = "idle"]
      /\ audit' = auditWork /\ auditWork' = EmptyAudit
      /\ UNCHANGED <<auditChecked, auditBackup, auditRetained, auditNext>>
  BY DEF CommitAudit
<1>2. Chained(audit') /\ Extends(audit', audit)
  BY <1>1 DEF AuditInv, HasDone
<1>3. ASSUME NEW v \in AuditWriters
      PROVE  HasDone(v)'
  <2>1. CASE v = w
    <3>1. auditTxn'[v] = "idle"
      BY <1>1, <2>1 DEF AuditInv
    <3> QED
      BY <3>1 DEF HasDone
  <2>2. CASE v # w
    <3>1. auditTxn'[v] = auditTxn[v] /\ auditTxn[v] \notin Locked
      BY <1>1, <2>2 DEF AuditInv, Locked
    <3>2. auditTxn[v] = "checked" => MarksEntry(audit, auditChecked[v])
      BY DEF AuditInv, HasDone
    <3>3. auditTxn'[v] = "checked" => MarksEntry(audit', auditChecked'[v])
      BY <1>1, <1>2, <3>1, <3>2, MarksStay
    <3> QED
      BY <3>1, <3>3 DEF HasDone, Locked
  <2> QED
    BY <2>1, <2>2
<1>4. /\ auditTxn' \in [AuditWriters -> {"idle", "checked"} \cup Locked]
      /\ \A u, v \in AuditWriters : auditTxn'[u] \in Locked /\ auditTxn'[v] \in Locked => u = v
  BY <1>1 DEF AuditInv, Locked
<1>5. \A e \in audit'.sources \cup auditBackup'.sources \cup auditWork'.sources : IsNumbered(e)'
  BY <1>1 DEF AuditInv, IsNumbered, EmptyAudit
<1> QED
  BY <1>1, <1>2, <1>3, <1>4, <1>5 DEF AuditInv

LEMMA RollBackKeepsAudit ==
    ASSUME AuditInv, NEW w \in AuditWriters, RollBackAudit(w)
    PROVE  AuditInv'
<1>1. /\ auditTxn' = [auditTxn EXCEPT ![w] = "idle"]
      /\ auditWork' = IF auditTxn[w] \in Locked THEN EmptyAudit ELSE auditWork
      /\ auditChecked' = [auditChecked EXCEPT ![w] = NoCheckpoint]
      /\ UNCHANGED <<audit, auditBackup, auditRetained, auditNext>>
  BY DEF RollBackAudit
<1>2. ASSUME NEW v \in AuditWriters
      PROVE  HasDone(v)'
  <2>1. CASE v = w
    <3>1. auditTxn'[v] = "idle"
      BY <1>1, <2>1 DEF AuditInv
    <3> QED
      BY <3>1 DEF HasDone
  <2>2. CASE v # w
    <3>1. auditTxn'[v] = auditTxn[v] /\ auditChecked'[v] = auditChecked[v]
      BY <1>1, <2>2 DEF AuditInv
    <3>2. auditTxn[v] \in Locked => auditWork' = auditWork
      BY <1>1, <2>2 DEF AuditInv
    <3>3. HasDone(v)
      BY DEF AuditInv
    <3> QED
      BY <1>1, <3>1, <3>2, <3>3 DEF HasDone, Locked
  <2> QED
    BY <2>1, <2>2
<1>3. /\ auditTxn' \in [AuditWriters -> {"idle", "checked"} \cup Locked]
      /\ \A u, v \in AuditWriters : auditTxn'[u] \in Locked /\ auditTxn'[v] \in Locked => u = v
      /\ auditChecked' \in [AuditWriters -> auditRetained' \cup {NoCheckpoint}]
  BY <1>1 DEF AuditInv, Locked
<1>4. \A e \in audit'.sources \cup auditBackup'.sources \cup auditWork'.sources : IsNumbered(e)'
  <2>1. auditWork'.sources \subseteq auditWork.sources
    BY <1>1 DEF EmptyAudit
  <2> QED
    BY <1>1, <2>1 DEF AuditInv, IsNumbered
<1> QED
  BY <1>1, <1>2, <1>3, <1>4 DEF AuditInv

\* The tables and the writers' part of an operator's epoch, checks, receipts, copies and restores.
LEMMA BeginEpochKeepsAudit ==
    ASSUME AuditInv, NEW w \in AuditWriters, NEW mark \in auditRetained, BeginEpoch(w, mark)
    PROVE  AuditInv'
<1> DEFINE T == WithHead(audit)
<1>1. /\ auditTxn' = [auditTxn EXCEPT ![w] = "ready"] /\ mark.epoch + 1 > T.head.epoch
      /\ \A v \in AuditWriters : auditTxn[v] \notin Locked
      /\ auditWork' = Continued(T, mark)
      /\ UNCHANGED <<audit, auditChecked, auditBackup, auditRetained, auditNext>>
  BY DEF BeginEpoch, Continued, AuditLockIsFree
<1>2. Chained(T) /\ T.head # NoAuditHead /\ T.sources = audit.sources /\ T.entries = audit.entries
  BY FirstUse DEF AuditInv
<1> HIDE DEF T
<1>3. Chained(auditWork') /\ Extends(auditWork', T)
  BY <1>1, <1>2, ContinuedIsChained DEF AuditInv
<1>4. auditWork'.sources = audit.sources /\ Extends(auditWork', audit)
  <2>1. AreTables(T)
    BY <1>2 DEF Chained
  <2>2. \E epochs, head : auditWork' = [T EXCEPT !.epochs = epochs, !.head = head]
    BY <1>1 DEF Continued
  <2>3. auditWork'.sources = T.sources
    BY <2>1, <2>2 DEF AreTables
  <2> QED
    BY <1>2, <1>3, <2>3 DEF Extends
<1>5. ASSUME NEW v \in AuditWriters
      PROVE  HasDone(v)'
  <2>1. CASE v = w
    <3>1. auditTxn'[v] = "ready"
      BY <1>1, <2>1 DEF AuditInv
    <3> QED
      BY <1>1, <1>3, <1>4, <3>1 DEF HasDone
  <2>2. CASE v # w
    <3>1. auditTxn'[v] = auditTxn[v] /\ auditTxn[v] \notin Locked
      BY <1>1, <2>2 DEF AuditInv
    <3> QED
      BY <1>1, <3>1 DEF AuditInv, HasDone, Locked
  <2> QED
    BY <2>1, <2>2
<1>6. /\ auditTxn' \in [AuditWriters -> {"idle", "checked"} \cup Locked]
      /\ \A u, v \in AuditWriters : auditTxn'[u] \in Locked /\ auditTxn'[v] \in Locked => u = v
  BY <1>1 DEF AuditInv, Locked
<1>7. \A e \in audit'.sources \cup auditBackup'.sources \cup auditWork'.sources : IsNumbered(e)'
  BY <1>1, <1>4 DEF AuditInv, IsNumbered
<1> QED
  BY <1>1, <1>5, <1>6, <1>7 DEF AuditInv

LEMMA CheckKeepsAudit ==
    ASSUME AuditInv, NEW w \in AuditWriters, NEW mark \in auditRetained, CheckCheckpoint(w, mark)
    PROVE  AuditInv'
<1>1. /\ auditTxn[w] = "idle" /\ MarksEntry(audit, mark)
      /\ auditChecked' = [auditChecked EXCEPT ![w] = mark] /\ auditTxn' = [auditTxn EXCEPT ![w] = "checked"]
      /\ UNCHANGED <<audit, auditWork, auditBackup, auditRetained, auditNext>>
  BY DEF CheckCheckpoint
<1>2. ASSUME NEW v \in AuditWriters
      PROVE  HasDone(v)'
  <2>1. CASE v = w
    <3>1. auditTxn'[v] = "checked" /\ auditChecked'[v] = mark
      BY <1>1, <2>1 DEF AuditInv
    <3>2. MarksEntry(audit', auditChecked'[v])
      BY <1>1, <3>1
    <3> QED
      BY <3>1, <3>2 DEF HasDone
  <2>2. CASE v # w
    <3>1. auditTxn'[v] = auditTxn[v] /\ auditChecked'[v] = auditChecked[v]
      BY <1>1, <2>2 DEF AuditInv
    <3>2. HasDone(v)
      BY DEF AuditInv
    <3> QED
      BY <1>1, <3>1, <3>2 DEF HasDone
  <2> QED
    BY <2>1, <2>2
<1>3. /\ auditTxn' \in [AuditWriters -> {"idle", "checked"} \cup Locked]
      /\ \A u, v \in AuditWriters : auditTxn'[u] \in Locked /\ auditTxn'[v] \in Locked => u = v
      /\ auditChecked' \in [AuditWriters -> auditRetained' \cup {NoCheckpoint}]
  BY <1>1 DEF AuditInv, Locked
<1>4. \A e \in audit'.sources \cup auditBackup'.sources \cup auditWork'.sources : IsNumbered(e)'
  BY <1>1 DEF AuditInv, IsNumbered
<1> QED
  BY <1>1, <1>2, <1>3, <1>4 DEF AuditInv

LEMMA InsertAnchorKeepsAudit ==
    ASSUME AuditInv, NEW w \in AuditWriters, InsertAnchor(w)
    PROVE  AuditInv'
<1> DEFINE mark == auditChecked[w]
<1>1. /\ auditTxn[w] = "checked" /\ \A v \in AuditWriters : auditTxn[v] \notin Locked
      /\ auditWork' = Anchored(audit, mark)
      /\ auditChecked' = [auditChecked EXCEPT ![w] = NoCheckpoint] /\ auditTxn' = [auditTxn EXCEPT ![w] = "ready"]
      /\ UNCHANGED <<audit, auditBackup, auditRetained, auditNext>>
  BY DEF InsertAnchor, AuditLockIsFree, Anchored
<1>2. Chained(audit) /\ MarksEntry(audit, mark)
  BY <1>1 DEF AuditInv, HasDone
<1>3. Chained(auditWork') /\ Extends(auditWork', audit)
  BY <1>1, <1>2, AnchoredIsChained
<1>4. auditWork'.sources = audit.sources
  BY <1>1, <1>2 DEF Anchored, Chained, AreTables
<1>5. ASSUME NEW v \in AuditWriters
      PROVE  HasDone(v)'
  <2>1. CASE v = w
    <3>1. auditTxn'[v] = "ready"
      BY <1>1, <2>1 DEF AuditInv
    <3> QED
      BY <1>1, <1>3, <3>1 DEF HasDone
  <2>2. CASE v # w
    <3>1. auditTxn'[v] = auditTxn[v] /\ auditTxn[v] \notin Locked /\ auditChecked'[v] = auditChecked[v]
      BY <1>1, <2>2 DEF AuditInv
    <3> QED
      BY <1>1, <3>1 DEF AuditInv, HasDone, Locked
  <2> QED
    BY <2>1, <2>2
<1>6. /\ auditTxn' \in [AuditWriters -> {"idle", "checked"} \cup Locked]
      /\ \A u, v \in AuditWriters : auditTxn'[u] \in Locked /\ auditTxn'[v] \in Locked => u = v
      /\ auditChecked' \in [AuditWriters -> auditRetained' \cup {NoCheckpoint}]
  BY <1>1 DEF AuditInv, Locked
<1>7. \A e \in audit'.sources \cup auditBackup'.sources \cup auditWork'.sources : IsNumbered(e)'
  BY <1>1, <1>4 DEF AuditInv, IsNumbered
<1> QED
  BY <1>1, <1>3, <1>5, <1>6, <1>7 DEF AuditInv

LEMMA RetainKeepsAudit == AuditInv /\ RetainCheckpoint => AuditInv'
<1> SUFFICES ASSUME AuditInv, RetainCheckpoint
             PROVE  AuditInv'
  OBVIOUS
<1>1. /\ audit.head.seq >= 1 /\ auditRetained' = auditRetained \cup {audit.head}
      /\ UNCHANGED <<audit, auditWork, auditTxn, auditChecked, auditBackup, auditNext>>
  BY DEF RetainCheckpoint
<1>2. audit.head.epoch \in Nat \ {0} /\ audit.head.seq \in Nat \ {0}
  <2>1. audit.head # NoAuditHead
    BY <1>1 DEF NoAuditHead
  <2> QED
    BY <1>1, <2>1, HeadIs DEF AuditInv
<1>3. \A w \in AuditWriters : HasDone(w)'
  BY <1>1 DEF AuditInv, HasDone
<1> QED
  BY <1>1, <1>2, <1>3 DEF AuditInv, IsNumbered

LEMMA CopyKeepsAudit == AuditInv /\ CopyAudit => AuditInv'
<1> SUFFICES ASSUME AuditInv, CopyAudit
             PROVE  AuditInv'
  OBVIOUS
<1>1. /\ auditBackup' = audit
      /\ UNCHANGED <<audit, auditWork, auditTxn, auditChecked, auditRetained, auditNext>>
  BY DEF CopyAudit
<1>2. \A w \in AuditWriters : HasDone(w)'
  BY <1>1 DEF AuditInv, HasDone
<1> QED
  BY <1>1, <1>2 DEF AuditInv, IsNumbered

LEMMA RestoreKeepsAudit == AuditInv /\ RestoreAudit => AuditInv'
<1> SUFFICES ASSUME AuditInv, RestoreAudit
             PROVE  AuditInv'
  OBVIOUS
<1>1. /\ audit' = auditBackup /\ \A w \in AuditWriters : auditTxn[w] = "idle"
      /\ UNCHANGED <<auditWork, auditTxn, auditChecked, auditBackup, auditRetained, auditNext>>
  BY DEF RestoreAudit
<1>2. \A w \in AuditWriters : HasDone(w)'
  BY <1>1 DEF HasDone
<1> QED
  BY <1>1, <1>2 DEF AuditInv, IsNumbered

LEMMA AuditStarts == AuditInit => AuditInv
  BY EmptyIsChained DEF AuditInit, AuditInv, HasDone, EmptyAudit, Locked

LEMMA AuditStep == AuditInv /\ [AuditNext]_auditVars => AuditInv'
<1> SUFFICES ASSUME AuditInv, [AuditNext]_auditVars
             PROVE  AuditInv'
  OBVIOUS
<1>1. ASSUME NEW w \in AuditWriters,
             \/ \E kind \in AuditKinds : InsertSource(w, kind)
             \/ InsertEntry(w) \/ AdvanceHead(w) \/ CommitAudit(w) \/ RollBackAudit(w) \/ InsertAnchor(w)
             \/ \E mark \in auditRetained : BeginEpoch(w, mark) \/ CheckCheckpoint(w, mark)
      PROVE  AuditInv'
  BY <1>1, InsertSourceKeepsAudit, InsertEntryKeepsAudit, AdvanceHeadKeepsAudit, CommitKeepsAudit,
     RollBackKeepsAudit, InsertAnchorKeepsAudit, BeginEpochKeepsAudit, CheckKeepsAudit
<1>2. CASE RetainCheckpoint \/ CopyAudit \/ RestoreAudit
  BY <1>2, RetainKeepsAudit, CopyKeepsAudit, RestoreKeepsAudit
<1>3. CASE UNCHANGED auditVars
  <2>1. \A w \in AuditWriters : HasDone(w)'
    BY <1>3 DEF auditVars, AuditInv, HasDone
  <2> QED
    BY <1>3, <2>1 DEF auditVars, AuditInv, IsNumbered
<1> QED
  BY <1>1, <1>2, <1>3 DEF AuditNext

-----------------------------------------------------------------------------
\* Chained tables have the whole history that they should.
LEMMA EachEventHasOneEntry ==
    ASSUME NEW T, Chained(T), NEW event \in T.sources
    PROVE  Cardinality({at \in DOMAIN T.entries : T.entries[at].event = event}) = 1
<1>1. PICK at \in DOMAIN T.entries : T.entries[at].event = event
  BY DEF Chained, EachHasOneEntry
<1>2. {o \in DOMAIN T.entries : T.entries[o].event = event} = {at}
  BY <1>1 DEF Chained, EachHasOneEntry
<1> QED
  BY <1>2, FS_Singleton

LEMMA AnchorsAreKnown ==
    ASSUME NEW T, Chained(T)
    PROVE  AnchorStatusIsKnown(T)
<1> DEFINE marked == {mark.seq : mark \in {m \in T.anchors : m.epoch = T.head.epoch}} \cup {0}
           latest   == CHOOSE seq \in marked : \A other \in marked : other <= seq
<1>1. T.head.seq \in Nat /\ \A seq \in marked : seq \in 0 .. T.head.seq
  <2>1. CASE T.head = NoAuditHead
    BY <2>1 DEF Chained, HeadIsRight
  <2>2. CASE T.head # NoAuditHead
    <3>1. IsLong(T, T.head.epoch, T.head.seq) /\ T.head.seq \in Nat
      BY <2>2, HeadIs
    <3>2. ASSUME NEW mark \in T.anchors, mark.epoch = T.head.epoch
          PROVE  mark.seq \in 1 .. T.head.seq
      <4>1. <<mark.epoch, mark.seq>> \in DOMAIN T.entries
        BY DEF Chained, MarksEntry, IsStored
      <4> QED
        BY <3>1, <3>2, <4>1, LengthIs
    <3> QED
      BY <3>1, <3>2
  <2> QED
    BY <2>1, <2>2
<1>2. 0 \in marked
  OBVIOUS
<1> HIDE DEF marked
<1>3. \E seq \in marked : \A other \in marked : other <= seq
  <2> DEFINE above == {T.head.seq - seq : seq \in marked}
  <2>1. above \in SUBSET Nat /\ above # {}
    BY <1>1, <1>2
  <2>2. PICK m \in above : \A k \in above : m <= k
    BY <2>1, LeastOfNaturals
  <2>3. PICK seq \in marked : m = T.head.seq - seq
    OBVIOUS
  <2>4. \A other \in marked : m <= T.head.seq - other
    BY <2>2
  <2> QED
    BY <1>1, <2>3, <2>4
<1>4. latest \in marked /\ \A other \in marked : other <= latest
  BY <1>3
<1> HIDE DEF latest
<1>5. latest <= T.head.seq
  BY <1>1, <1>4
<1>6. ASSUME T.head.seq > latest
      PROVE  <<T.head.epoch, latest + 1>> \in DOMAIN T.entries
  <2>1. latest + 1 \in 1 .. T.head.seq
    BY <1>1, <1>4, <1>6
  <2>2. T.head # NoAuditHead
    BY <1>1, <1>4, <1>6 DEF NoAuditHead
  <2>3. IsLong(T, T.head.epoch, T.head.seq)
    BY <2>2, HeadIs
  <2> QED
    BY <2>1, <2>3, LengthIs
<1> QED
  BY <1>5, <1>6 DEF AnchorStatusIsKnown, marked, latest

\* They verify, with the checkpoint that an epoch needs.
LEMMA ChainedVerifies ==
    ASSUME NEW T, Chained(T), Forked(T) = {}, NEW mark,
           \/ Missing(T) = {} /\ mark \in {NoCheckpoint} \cup T.anchors
           \/ Missing(T) = {mark}
    PROVE  Verifies(T, mark)
<1>1. CASE T.head = NoAuditHead
  <2>1. Missing(T) = {} /\ T.anchors = {}
    BY <1>1 DEF Chained, HeadIsRight, Missing, Predecessors
  <2> QED
    BY <1>1, <2>1 DEF Verifies
<1>2. CASE T.head # NoAuditHead
  <2>1. HeadMatches(T)
    BY <1>2 DEF Chained, HeadIsRight
  <2>2. \A at \in DOMAIN T.entries : at[1] \in DOMAIN T.epochs
    BY DEF Chained, EntriesAreRight
  <2>3. ASSUME NEW e \in DOMAIN T.epochs
        PROVE  EpochIsLinked(T, e, mark)
    <3> DEFINE from == T.epochs[e]
    <3>1. /\ e \in Nat \ {0} /\ (e = 1 => from = NoCheckpoint)
          /\ e > 1 => from.epoch = e - 1 /\ from.seq \in Nat \ {0}
      BY DEF Chained, EpochsAreRight
    <3>2. e = 1 <=> from = NoCheckpoint
      BY <3>1 DEF NoCheckpoint, NoAuditHead
    <3>3. ASSUME e > 1, IsStored(T, from)
          PROVE  StoredDigest(T, from.epoch, from.seq) = from.digest
      <4>1. from \in Predecessors(T)
        BY <3>1, <3>2, <3>3 DEF Predecessors
      <4> QED
        BY <3>3, <4>1 DEF Forked, MarksEntry
    <3>4. ASSUME e > 1, ~IsStored(T, from)
          PROVE  mark = from
      <4>1. from \in Missing(T)
        BY <3>1, <3>2, <3>4 DEF Predecessors, Missing
      <4> QED
        BY <4>1
    <3>5. e > 1 => from.epoch \in 1 .. e - 1 /\ from.seq >= 1
      BY <3>1
    <3> QED
      BY <3>2, <3>3, <3>4, <3>5 DEF EpochIsLinked
  <2>4. ASSUME NEW e \in DOMAIN T.epochs
        PROVE  EpochVerifies(T, e, mark)
    <3>1. PICK n \in Nat : IsLong(T, e, n)
      BY DEF Chained, EntriesAreRight
    <3>2. ASSUME NEW seq \in 1 .. LengthOfEpoch(T, e)
          PROVE  <<e, seq>> \in DOMAIN T.entries /\ EntryVerifies(T, e, seq)
      <4>1. <<e, seq>> \in DOMAIN T.entries
        BY <3>1, <3>2, LengthIs
      <4>2. \A at \in DOMAIN T.entries : EntryVerifies(T, at[1], at[2])
        BY DEF Chained, EntriesAreRight
      <4> QED
        BY <4>1, <4>2
    <3> QED
      BY <2>3, <3>2 DEF EpochVerifies
  <2>5. mark # NoCheckpoint => CheckpointMatches(T, mark)
    <3>1. CASE Missing(T) = {} /\ mark \in {NoCheckpoint} \cup T.anchors
      BY <3>1 DEF CheckpointMatches, Chained
    <3>2. CASE Missing(T) = {mark}
      <4>1. mark \in Predecessors(T) /\ ~IsStored(T, mark)
        BY <3>2 DEF Missing
      <4> QED
        BY <4>1 DEF CheckpointMatches, Predecessors
    <3> QED
      BY <3>1, <3>2
  <2> QED
    BY <1>2, <2>1, <2>2, <2>4, <2>5 DEF Verifies
<1> QED
  BY <1>1, <1>2

LEMMA ChainedIsWhole == Chained(audit) => HistoryVerifies
  BY ChainedVerifies, EachEventHasOneEntry, AnchorsAreKnown DEF HistoryVerifies

-----------------------------------------------------------------------------
\* b is the function that the definition of Bound recurs on, up to n.
GoesBack(b, digest, n) ==
    b = [i \in 0 .. n |-> IF i = 0 THEN digest ELSE IF b[i - 1] = NoDigest THEN NoDigest ELSE b[i - 1][4]]

LEMMA BackExists ==
    ASSUME NEW digest, NEW n \in Nat
    PROVE  \E b : GoesBack(b, digest, n)
<1> DEFINE Good == {m \in Nat : \E b : GoesBack(b, digest, m)}
<1>1. 0 \in Good
  <2> DEFINE b == [i \in 0 .. 0 |-> digest]
  <2>1. GoesBack(b, digest, 0)
    BY DEF GoesBack
  <2> HIDE DEF b
  <2> QED
    BY <2>1
<1>2. ASSUME NEW m \in Nat, m \in Good
      PROVE  m + 1 \in Good
  <2>1. PICK b : GoesBack(b, digest, m)
    BY <1>2
  <2> DEFINE last == IF b[m] = NoDigest THEN NoDigest ELSE b[m][4]
             c == [i \in 0 .. (m + 1) |-> IF i = m + 1 THEN last ELSE b[i]]
  <2>2. \A i \in 0 .. m : b[i] = IF i = 0 THEN digest ELSE IF b[i - 1] = NoDigest THEN NoDigest ELSE b[i - 1][4]
    BY <2>1 DEF GoesBack
  <2> HIDE DEF last
  <2>3. DOMAIN c = 0 .. (m + 1) /\ c[m + 1] = last /\ \A i \in 0 .. m : c[i] = b[i]
    OBVIOUS
  <2>4. c = [i \in 0 .. (m + 1) |-> c[i]]
    OBVIOUS
  <2> HIDE DEF c
  <2>5. ASSUME NEW i \in 0 .. (m + 1)
        PROVE  c[i] = IF i = 0 THEN digest ELSE IF c[i - 1] = NoDigest THEN NoDigest ELSE c[i - 1][4]
    <3>1. CASE i = m + 1
      <4>1. i # 0 /\ i - 1 = m /\ c[i - 1] = b[m]
        BY <2>3, <3>1
      <4> QED
        BY <2>3, <3>1, <4>1 DEF last
    <3>2. CASE i # m + 1
      <4>1. i \in 0 .. m /\ (i # 0 => i - 1 \in 0 .. m)
        BY <3>2
      <4> QED
        BY <2>2, <2>3, <4>1
    <3> QED
      BY <3>1, <3>2
  <2>6. GoesBack(c, digest, m + 1)
    BY <2>4, <2>5 DEF GoesBack
  <2> QED
    BY <2>6
<1> HIDE DEF Good
<1>3. Nat \subseteq Good
  BY <1>1, <1>2, NaturalsBySets
<1> QED
  BY <1>3 DEF Good

\* What a digest binds is in any set that holds it and the one before each of its digests.
LEMMA BoundWithin ==
    ASSUME NEW digest, NEW Held, digest \in Held,
           \A d \in Held : d # NoDigest => d[4] = NoDigest \/ d[4] \in Held
    PROVE  Bound(digest) \subseteq Held
<1> DEFINE back == CHOOSE b : GoesBack(b, digest, MaxAuditEvents)
<1>1. Bound(digest) = {back[n] : n \in 0 .. MaxAuditEvents} \ {NoDigest}
  BY DEF Bound, GoesBack
<1>2. MaxAuditEvents \in Nat
  BY AuditChainAssumption
<1>3. GoesBack(back, digest, MaxAuditEvents)
  BY <1>2, BackExists
<1> HIDE DEF back
<1>4. \A i \in 0 .. MaxAuditEvents :
         back[i] = IF i = 0 THEN digest ELSE IF back[i - 1] = NoDigest THEN NoDigest ELSE back[i - 1][4]
  BY <1>3 DEF GoesBack
<1> DEFINE Good == {n \in Nat : n <= MaxAuditEvents => back[n] = NoDigest \/ back[n] \in Held}
<1>5. 0 \in Good
  BY <1>2, <1>4
<1>6. ASSUME NEW n \in Nat, n \in Good
      PROVE  n + 1 \in Good
  <2> SUFFICES ASSUME n + 1 <= MaxAuditEvents
               PROVE  back[n + 1] = NoDigest \/ back[n + 1] \in Held
    OBVIOUS
  <2>1. n <= MaxAuditEvents /\ n + 1 \in 0 .. MaxAuditEvents /\ n + 1 # 0 /\ (n + 1) - 1 = n
    BY <1>2
  <2>2. back[n + 1] = IF back[n] = NoDigest THEN NoDigest ELSE back[n][4]
    BY <1>4, <2>1
  <2>3. back[n] = NoDigest \/ back[n] \in Held
    BY <1>6, <2>1
  <2> QED
    BY <2>2, <2>3
<1> HIDE DEF Good
<1>7. Nat \subseteq Good
  BY <1>5, <1>6, NaturalsBySets
<1> QED
  BY <1>1, <1>2, <1>7 DEF Good

\* Tables that verify with a checkpoint whose entry they store hold every event it binds.
LEMMA CheckpointHoldsHistory ==
    ASSUME NEW T, Chained(T), NEW mark, Verifies(T, mark), T.head # NoAuditHead, MarksEntry(T, mark),
           NEW digest \in Bound(mark.digest)
    PROVE  /\ <<digest[2], digest[3]>> \in DOMAIN T.entries
           /\ T.entries[<<digest[2], digest[3]>>].event = digest[5]
           /\ digest[5] \in T.sources
<1> DEFINE Held == {T.entries[at].digest : at \in DOMAIN T.entries}
<1>1. mark.digest \in Held
  BY DEF MarksEntry, IsStored, StoredDigest
<1>2. ASSUME NEW at \in DOMAIN T.entries
      PROVE  LET d == T.entries[at].digest
             IN  /\ at = <<d[2], d[3]>> /\ d[5] = T.entries[at].event
                 /\ d[4] = NoDigest \/ d[4] \in Held
  <2>0. at \in (DOMAIN T.epochs) \X (Nat \ {0})
    BY EntryPlaceIs
  <2>a. PICK e \in DOMAIN T.epochs : \E s \in Nat \ {0} : at = <<e, s>>
    BY <2>0
  <2>1. PICK seq \in Nat \ {0} : at = <<e, seq>>
    BY <2>a
  <2> DEFINE previous == IF seq = 1 THEN T.epochs[e].digest ELSE StoredDigest(T, e, seq - 1)
             event == T.entries[at].event
  <2>2. EntryVerifies(T, e, seq)
    BY <2>1, EntryIs
  <2>3. T.entries[at].digest = AuditDigest(e, seq, previous, event)
    BY <2>1, <2>2 DEF EntryVerifies
  <2>4. previous = NoDigest \/ previous \in Held
    <3>1. CASE seq # 1
      <4>1. <<e, seq - 1>> \in DOMAIN T.entries
        BY <2>1, <3>1, EntryPlaceIs
      <4> QED
        BY <3>1, <4>1 DEF StoredDigest
    <3>2. CASE seq = 1
      <4> DEFINE from == T.epochs[e]
      <4>1. EpochIsLinked(T, e, mark) /\ e \in Nat \ {0} /\ (e = 1 => from = NoCheckpoint)
        BY DEF Verifies, EpochVerifies, Chained, EpochsAreRight
      <4>2. CASE e = 1
        BY <3>2, <4>1, <4>2 DEF NoCheckpoint, NoAuditHead
      <4>3. CASE e # 1
        <5>1. IF IsStored(T, from) THEN StoredDigest(T, from.epoch, from.seq) = from.digest ELSE mark = from
          BY <4>1, <4>3 DEF EpochIsLinked
        <5>2. IsStored(T, from) /\ StoredDigest(T, from.epoch, from.seq) = from.digest
          BY <5>1 DEF MarksEntry
        <5> QED
          BY <3>2, <5>2 DEF IsStored, StoredDigest
      <4> QED
        BY <4>2, <4>3
    <3> QED
      BY <3>1, <3>2
  <2> HIDE DEF previous, event, Held
  <2>5. LET d == AuditDigest(e, seq, previous, event)
        IN  d[2] = e /\ d[3] = seq /\ d[4] = previous /\ d[5] = event
    BY DEF AuditDigest
  <2> QED
    BY <2>1, <2>3, <2>4, <2>5 DEF event
<1>3. \A d \in Held : d[4] = NoDigest \/ d[4] \in Held
  BY <1>2
<1> HIDE DEF Held
<1>4. digest \in Held
  BY <1>1, <1>3, BoundWithin
<1>5. PICK at \in DOMAIN T.entries : digest = T.entries[at].digest
  BY <1>4 DEF Held
<1> QED
  BY <1>2, <1>5, EntryIs

LEMMA RollbackIsSeen == AuditInv => RollbackIsNoticed
<1> SUFFICES ASSUME AuditInv, NEW mark \in auditRetained, Verifies(audit, mark), mark \notin Missing(audit)
             PROVE  \A digest \in Bound(mark.digest) :
                       /\ <<digest[2], digest[3]>> \in DOMAIN audit.entries
                       /\ audit.entries[<<digest[2], digest[3]>>].event = digest[5]
                       /\ digest[5] \in audit.sources
  BY DEF RollbackIsNoticed
<1>1. mark # NoCheckpoint /\ Chained(audit)
  BY DEF AuditInv, NoCheckpoint, NoAuditHead
<1>2. audit.head # NoAuditHead /\ CheckpointMatches(audit, mark)
  BY <1>1 DEF Verifies
<1>3. MarksEntry(audit, mark)
  BY <1>1, <1>2 DEF CheckpointMatches, Missing, Predecessors
<1> QED
  BY <1>1, <1>2, <1>3, CheckpointHoldsHistory

\* The chain that the writers, the restores and the operator's epochs leave verifies, and what is
\* verified holds every event that led to the checkpoint (record_audit_chain_checkpoint,
\* begin_audit_chain_epoch and verify_audit_chain in store.py, _audit_verifier.py).
THEOREM AuditIsSoundHolds == AuditSpec => []AuditIsSound
<1>1. AuditInv => AuditIsSound
  BY ChainedIsWhole, RollbackIsSeen DEF AuditInv, AuditIsSound
<1> QED
  BY <1>1, AuditStarts, AuditStep, PTL DEF AuditSpec


(***************************************************************************)
(* Anchors and key custody: for any organizations, keys, events and faults *)
(* of storage.                                                             *)
(*                                                                         *)
(* A digest binds all that it was computed from: the digest of an entry    *)
(* that verifies is the list of the events up to it (`ListedUpTo'), by an  *)
(* induction along the entries, whatever has become of them.  And whatever *)
(* names a key, stored or on its way, can be opened with it.               *)
(***************************************************************************)

IsSequence(s) == \E n \in Nat : s = [i \in 1 .. n |-> s[i]]

ListedUpTo(organization, events, n) == [j \in 1 .. n |-> <<organization, j, events[j]>>]

LEMMA SequenceIs ==
    ASSUME NEW s, IsSequence(s)
    PROVE  /\ Len(s) \in Nat /\ DOMAIN s = 1 .. Len(s) /\ s = [i \in 1 .. Len(s) |-> s[i]]
           /\ \E S : s \in Seq(S) /\ \A i \in DOMAIN s : s[i] \in S
<1>1. PICK n \in Nat : s = [i \in 1 .. n |-> s[i]]
  BY DEF IsSequence
<1> DEFINE S == {s[i] : i \in 1 .. n}
<1>2. s \in [1 .. n -> S]
  BY <1>1
<1>3. s \in Seq(S) /\ Len(s) = n
  BY <1>2
<1> QED
  BY <1>1, <1>2, <1>3

LEMMA MemberIsSequence == ASSUME NEW S, NEW s \in Seq(S) PROVE IsSequence(s)
BY DEF IsSequence

\* One entry more on a list.
LEMMA ListedAppended ==
    ASSUME NEW organization, NEW events, NEW n \in Nat
    PROVE  Append(ListedUpTo(organization, events, n), <<organization, n + 1, events[n + 1]>>)
               = ListedUpTo(organization, events, n + 1)
<1> DEFINE all == ListedUpTo(organization, events, n + 1)
           some == ListedUpTo(organization, events, n)
           S == {all[j] : j \in 1 .. n + 1}
           last == <<organization, n + 1, events[n + 1]>>
<1>1. /\ all \in [1 .. n + 1 -> S] /\ \A j \in 1 .. n + 1 : all[j] = <<organization, j, events[j]>>
      /\ some = [j \in 1 .. n |-> all[j]] /\ last = all[n + 1] /\ last \in S
  BY DEF ListedUpTo
<1> HIDE DEF all, some, S, last
<1>2. some \in [1 .. n -> S]
  BY <1>1
<1>3. some \in Seq(S) /\ Len(some) = n /\ all \in Seq(S) /\ Len(all) = n + 1
  BY <1>1, <1>2
<1>4. /\ Append(some, last) \in Seq(S) /\ Len(Append(some, last)) = n + 1
      /\ \A j \in 1 .. n : Append(some, last)[j] = some[j]
      /\ Append(some, last)[n + 1] = last
  BY <1>1, <1>3, AppendProperties
<1>5. \A j \in 1 .. n + 1 : j \in 1 .. n \/ j = n + 1
  OBVIOUS
<1>6. \A j \in 1 .. n : some[j] = all[j]
  BY <1>1
<1>7. \A j \in 1 .. n + 1 : Append(some, last)[j] = all[j]
  BY <1>1, <1>4, <1>5, <1>6
<1>8. Append(some, last) = all
  BY <1>3, <1>4, <1>7, SeqEqual
<1> QED
  BY <1>8 DEF all, some, last

\* The digest of a verified entry lists everything up to it.
LEMMA DigestBinds ==
    ASSUME NEW entries, NEW organization, IsSequence(entries),
           \A i \in DOMAIN entries :
              /\ entries[i].previous = PreviousOf(entries, i)
              /\ entries[i].digest = ChainDigest(organization, i, entries[i].previous, entries[i].event),
           NEW events, DOMAIN events = DOMAIN entries, \A i \in DOMAIN entries : events[i] = entries[i].event
    PROVE  \A i \in DOMAIN entries : entries[i].digest = ListedUpTo(organization, events, i)
<1> DEFINE Listed == {i \in Nat : i \in DOMAIN entries => entries[i].digest = ListedUpTo(organization, events, i)}
<1>1. DOMAIN entries = 1 .. Len(entries) /\ Len(entries) \in Nat
  BY SequenceIs
<1>2. 0 \in Listed
  BY <1>1
<1>3. ASSUME NEW i \in Nat, i \in Listed
      PROVE  i + 1 \in Listed
  <2> SUFFICES ASSUME i + 1 \in DOMAIN entries
               PROVE  entries[i + 1].digest = ListedUpTo(organization, events, i + 1)
    OBVIOUS
  <2>1. entries[i + 1].previous = ListedUpTo(organization, events, i)
    <3>1. CASE i = 0
      <4>1. ListedUpTo(organization, events, 0) = <<>>
        BY DEF ListedUpTo
      <4>2. PreviousOf(entries, i + 1) = NoAnchorDigest
        BY <3>1 DEF PreviousOf
      <4> QED
        BY <3>1, <4>1, <4>2 DEF NoAnchorDigest
    <3>2. CASE i # 0
      <4>1. i \in DOMAIN entries /\ i + 1 # 1 /\ (i + 1) - 1 = i
        BY <1>1, <3>2
      <4>2. PreviousOf(entries, i + 1) = entries[i].digest
        BY <4>1 DEF PreviousOf
      <4> QED
        BY <1>3, <4>1, <4>2
    <3> QED
      BY <3>1, <3>2
  <2>2. entries[i + 1].digest = Append(ListedUpTo(organization, events, i), <<organization, i + 1, events[i + 1]>>)
    BY <2>1 DEF ChainDigest
  <2> QED
    BY <2>2, ListedAppended
<1> HIDE DEF Listed
<1>4. Nat \subseteq Listed
  BY <1>2, <1>3, NaturalsBySets
<1> QED
  BY <1>1, <1>4 DEF Listed

\* The entries of an export, and the digest at their head.
LEMMA EntriesAre ==
    ASSUME NEW organization, NEW events, NEW n \in Nat, DOMAIN events = 1 .. n, Len(events) = n
    PROVE  LET entries == EntriesOf(organization, events)
           IN  /\ IsSequence(entries) /\ Len(entries) = n
               /\ \A i \in 1 .. n : entries[i].digest = ListedUpTo(organization, events, i)
<1> DEFINE Chains(g) == g = [i \in 0 .. n |-> IF i = 0 THEN NoAnchorDigest
                                              ELSE ChainDigest(organization, i, g[i - 1], events[i])]
           digests == CHOOSE g : Chains(g)
           lists == [i \in 0 .. n |-> ListedUpTo(organization, events, i)]
           entries == EntriesOf(organization, events)
<1>1. entries = [i \in 1 .. n |-> [sequence |-> i, previous |-> digests[i - 1], digest |-> digests[i],
                                   event |-> events[i]]]
  BY DEF EntriesOf
<1>2. ListedUpTo(organization, events, 0) = NoAnchorDigest
  BY DEF ListedUpTo, NoAnchorDigest
<1>3. \A i \in 1 .. n : ChainDigest(organization, i, ListedUpTo(organization, events, i - 1), events[i])
                          = ListedUpTo(organization, events, i)
  <2> TAKE i \in 1 .. n
  <2>1. i - 1 \in Nat /\ (i - 1) + 1 = i
    OBVIOUS
  <2>2. Append(ListedUpTo(organization, events, i - 1), <<organization, i, events[i]>>)
            = ListedUpTo(organization, events, i)
    BY <2>1, ListedAppended
  <2> QED
    BY <2>2 DEF ChainDigest
<1>4. Chains(lists)
  <2>1. \A i \in 1 .. n : i - 1 \in 0 .. n /\ i # 0
    OBVIOUS
  <2>2. \A i \in 0 .. n : i = 0 \/ i \in 1 .. n
    OBVIOUS
  <2>3. \A i \in 0 .. n : lists[i] = IF i = 0 THEN NoAnchorDigest
                                     ELSE ChainDigest(organization, i, lists[i - 1], events[i])
    BY <1>2, <1>3, <2>1, <2>2
  <2> QED
    BY <2>3
<1>5. Chains(digests)
  BY <1>4
<1> DEFINE Listed == {i \in Nat : i \in 0 .. n => digests[i] = ListedUpTo(organization, events, i)}
<1> HIDE DEF digests
<1>6. 0 \in Listed
  BY <1>2, <1>5
<1>7. ASSUME NEW i \in Nat, i \in Listed
      PROVE  i + 1 \in Listed
  <2> SUFFICES ASSUME i + 1 \in 0 .. n PROVE digests[i + 1] = ListedUpTo(organization, events, i + 1)
    OBVIOUS
  <2>1. i + 1 \in 1 .. n /\ i \in 0 .. n /\ (i + 1) - 1 = i /\ i + 1 # 0
    OBVIOUS
  <2>2. digests[i] = ListedUpTo(organization, events, i)
    BY <1>7, <2>1
  <2>3. digests[i + 1] = ChainDigest(organization, i + 1, digests[i], events[i + 1])
    BY <1>5, <2>1
  <2>4. ChainDigest(organization, i + 1, ListedUpTo(organization, events, i), events[i + 1])
            = ListedUpTo(organization, events, i + 1)
    BY <1>3, <2>1
  <2> QED
    BY <2>2, <2>3, <2>4
<1> HIDE DEF Listed
<1>8. Nat \subseteq Listed
  BY <1>6, <1>7, NaturalsBySets
<1>9. \A i \in 1 .. n : digests[i] = ListedUpTo(organization, events, i)
  BY <1>8 DEF Listed
<1>10. \A i \in 1 .. n : entries[i].digest = digests[i]
  BY <1>1
<1>11. IsSequence(entries) /\ Len(entries) = n
  <2> HIDE DEF entries
  <2>1. entries = [i \in 1 .. n |-> entries[i]]
    BY <1>1
  <2>2. IsSequence(entries)
    BY <2>1 DEF IsSequence
  <2> QED
    BY <2>1, <2>2, SequenceIs
<1> QED
  BY <1>9, <1>10, <1>11

-----------------------------------------------------------------------------
(* The retained bytes.                                                     *)

IsAnchored ==
    /\ anchored = [artifact |-> anchored.artifact, head |-> anchored.head]
    /\ anchored.artifact = [organization |-> anchored.artifact.organization, entries |-> anchored.artifact.entries,
                            count |-> anchored.artifact.count, head |-> anchored.artifact.head]
    /\ IsSequence(anchored.artifact.entries)

\* The head of the receipt is that of the export, whatever becomes of the bytes.
ReceiptIsOfTheExport ==
    exported # NoExport =>
        \E n \in Nat \ {0} : /\ DOMAIN exported.events = 1 .. n
                             /\ exported.events = [i \in 1 .. n |-> exported.events[i]]
                             /\ anchored.head = ListedUpTo(exported.organization, exported.events, n)

ExportInv == IsAnchored /\ ReceiptIsOfTheExport

\* Equal lists are of the same organization and events.
LEMMA ListsBind ==
    ASSUME NEW m \in Nat, NEW n \in Nat, n # 0, NEW a, NEW b, NEW events, NEW others,
           ListedUpTo(a, events, m) = ListedUpTo(b, others, n)
    PROVE  m = n /\ a = b /\ \A i \in 1 .. n : events[i] = others[i]
<1>1. 1 .. m = 1 .. n
  BY DEF ListedUpTo
<1>2. m = n
  BY <1>1
<1>3. \A i \in 1 .. n : <<a, i, events[i]>> = <<b, i, others[i]>>
  BY <1>1 DEF ListedUpTo
<1>4. 1 \in 1 .. n
  OBVIOUS
<1> QED
  BY <1>2, <1>3, <1>4

LEMMA VerifiedIsTheExport == ExportInv => AnchorHoldsTheExport
<1> DEFINE artifact == anchored.artifact
           entries == artifact.entries
           events == [i \in DOMAIN entries |-> entries[i].event]
           organization == artifact.organization
<1> SUFFICES ASSUME ExportInv, exported # NoExport, Verified(artifact), artifact.head = anchored.head
             PROVE  organization = exported.organization /\ events = exported.events
  BY DEF AnchorHoldsTheExport
<1>1. PICK n \in Nat \ {0} : /\ DOMAIN exported.events = 1 .. n
                             /\ exported.events = [i \in 1 .. n |-> exported.events[i]]
                             /\ anchored.head = ListedUpTo(exported.organization, exported.events, n)
  BY DEF ExportInv, ReceiptIsOfTheExport
<1>2. IsSequence(entries)
  BY DEF ExportInv, IsAnchored
<1>3. /\ entries # <<>> /\ artifact.head = HeadOf(entries)
      /\ \A i \in DOMAIN entries :
            /\ entries[i].previous = PreviousOf(entries, i)
            /\ entries[i].digest = ChainDigest(organization, i, entries[i].previous, entries[i].event)
  BY DEF Verified
<1>4. DOMAIN events = DOMAIN entries /\ \A i \in DOMAIN entries : events[i] = entries[i].event
  OBVIOUS
<1> HIDE DEF events
<1>5. \A i \in DOMAIN entries : entries[i].digest = ListedUpTo(organization, events, i)
  <2> HIDE DEF entries, artifact, organization
  <2> QED
    BY <1>2, <1>3, <1>4, DigestBinds
<1>6. Len(entries) \in Nat /\ DOMAIN entries = 1 .. Len(entries) /\ entries = [i \in 1 .. Len(entries) |-> entries[i]]
  BY <1>2, SequenceIs
<1>7. Len(entries) # 0
  <2> HIDE DEF entries
  <2>1. ASSUME Len(entries) = 0 PROVE entries = <<>>
    <3>1. entries = [i \in 1 .. 0 |-> entries[i]]
      BY <1>6, <2>1
    <3>2. <<>> = [i \in 1 .. 0 |-> entries[i]]
      OBVIOUS
    <3> QED
      BY <3>1, <3>2
  <2> QED
    BY <1>3, <2>1
<1>8. artifact.head = ListedUpTo(organization, events, Len(entries))
  <2>1. Len(entries) \in DOMAIN entries
    BY <1>6, <1>7
  <2>2. HeadOf(entries) = entries[Len(entries)].digest
    BY <1>3 DEF HeadOf, Last
  <2> QED
    BY <1>3, <1>5, <2>1, <2>2
<1>9. ListedUpTo(organization, events, Len(entries)) = ListedUpTo(exported.organization, exported.events, n)
  BY <1>1, <1>8
<1>10. /\ Len(entries) = n /\ organization = exported.organization
       /\ \A i \in 1 .. n : events[i] = exported.events[i]
  <2> HIDE DEF entries, organization
  <2> QED
    BY <1>6, <1>9, ListsBind
<1>11. events = [i \in 1 .. n |-> events[i]]
  <2>1. events = [i \in DOMAIN entries |-> entries[i].event]
    BY DEF events
  <2> QED
    BY <1>6, <1>10, <2>1
<1>12. events = exported.events
  BY <1>1, <1>10, <1>11
<1> QED
  BY <1>10, <1>12

\* What storage does to the entries leaves a sequence.
LEMMA DamagedIsSequence ==
    ASSUME NEW artifact, IsSequence(artifact.entries),
           artifact = [organization |-> artifact.organization, entries |-> artifact.entries,
                       count |-> artifact.count, head |-> artifact.head],
           NEW damaged \in Damaged(artifact)
    PROVE  /\ damaged = [organization |-> damaged.organization, entries |-> damaged.entries,
                         count |-> damaged.count, head |-> damaged.head]
           /\ IsSequence(damaged.entries)
<1> DEFINE entries == artifact.entries
           With(changed) == [artifact EXCEPT !.entries = changed]
           Fits(a) == /\ a = [organization |-> a.organization, entries |-> a.entries, count |-> a.count,
                              head |-> a.head]
                      /\ IsSequence(a.entries)
<1>1. PICK a, b, c, d : artifact = [organization |-> a, entries |-> b, count |-> c, head |-> d]
  OBVIOUS
<1> DEFINE old == [organization |-> a, entries |-> b, count |-> c, head |-> d]
<1>2. ASSUME NEW changed, IsSequence(changed)
      PROVE  Fits(With(changed))
  <2> DEFINE new == [organization |-> a, entries |-> changed, count |-> c, head |-> d]
  <2>1. [old EXCEPT !.entries = changed] = new
    OBVIOUS
  <2>2. With(changed) = new
    BY <1>1, <2>1
  <2>3. new.entries = changed /\ new = [organization |-> new.organization, entries |-> new.entries, count |-> new.count,
                                        head |-> new.head]
    OBVIOUS
  <2> HIDE DEF new, With
  <2> QED
    BY <1>2, <2>2, <2>3
<1>3. ASSUME NEW x
      PROVE  Fits([artifact EXCEPT !.count = x])
  <2> DEFINE new == [organization |-> a, entries |-> b, count |-> x, head |-> d]
  <2>1. [old EXCEPT !.count = x] = new
    OBVIOUS
  <2>2. [artifact EXCEPT !.count = x] = new
    BY <1>1, <2>1
  <2>3. new.entries = b /\ new = [organization |-> new.organization, entries |-> new.entries, count |-> new.count,
                                  head |-> new.head]
    OBVIOUS
  <2>4. b = artifact.entries
    BY <1>1
  <2> HIDE DEF new
  <2> QED
    BY <2>2, <2>3, <2>4
<1>4. ASSUME NEW x
      PROVE  Fits([artifact EXCEPT !.organization = x])
  <2> DEFINE new == [organization |-> x, entries |-> b, count |-> c, head |-> d]
  <2>1. [old EXCEPT !.organization = x] = new
    OBVIOUS
  <2>2. [artifact EXCEPT !.organization = x] = new
    BY <1>1, <2>1
  <2>3. new.entries = b /\ new = [organization |-> new.organization, entries |-> new.entries, count |-> new.count,
                                  head |-> new.head]
    OBVIOUS
  <2>4. b = artifact.entries
    BY <1>1
  <2> HIDE DEF new
  <2> QED
    BY <2>2, <2>3, <2>4
<1>5. ASSUME NEW x
      PROVE  Fits([artifact EXCEPT !.head = x])
  <2> DEFINE new == [organization |-> a, entries |-> b, count |-> c, head |-> x]
  <2>1. [old EXCEPT !.head = x] = new
    OBVIOUS
  <2>2. [artifact EXCEPT !.head = x] = new
    BY <1>1, <2>1
  <2>3. new.entries = b /\ new = [organization |-> new.organization, entries |-> new.entries, count |-> new.count,
                                  head |-> new.head]
    OBVIOUS
  <2>4. b = artifact.entries
    BY <1>1
  <2> HIDE DEF new
  <2> QED
    BY <2>2, <2>3, <2>4
<1>6. /\ Len(entries) \in Nat /\ DOMAIN entries = 1 .. Len(entries)
      /\ entries = [i \in 1 .. Len(entries) |-> entries[i]]
  BY SequenceIs
<1>7. ASSUME NEW i \in DOMAIN entries
      PROVE  IsSequence(RemoveAt(entries, i)) /\ IsSequence(InsertAt(entries, i, entries[i]))
  <2>1. PICK S : entries \in Seq(S) /\ \A j \in DOMAIN entries : entries[j] \in S
    BY SequenceIs
  <2>2. i \in Int /\ i - 1 \in Int /\ i + 1 \in Int /\ 1 \in Int /\ Len(entries) \in Int /\ entries[i] \in S
    BY <1>6, <2>1
  <2>3. /\ \A j \in 1 .. i - 1 : entries[j] \in S /\ \A k \in i + 1 .. Len(entries) : entries[k] \in S
        /\ \A j \in i .. Len(entries) : entries[j] \in S
    BY <1>6, <2>1
  <2>4. \A j \in 1 .. i - 1 : entries[j] \in S
    BY <1>6, <2>1
  <2>5. \A j \in i + 1 .. Len(entries) : entries[j] \in S
    BY <1>6, <2>1
  <2>6. \A j \in i .. Len(entries) : entries[j] \in S
    BY <1>6, <2>1
  <2> HIDE DEF entries
  <2>7. /\ SubSeq(entries, 1, i - 1) \in Seq(S) /\ SubSeq(entries, i + 1, Len(entries)) \in Seq(S)
        /\ SubSeq(entries, i, Len(entries)) \in Seq(S) /\ <<entries[i]>> \in Seq(S)
    BY <2>2, <2>4, <2>5, <2>6, SubSeqProperties
  <2>8. RemoveAt(entries, i) \in Seq(S)
    BY <2>7, ConcatProperties DEF RemoveAt
  <2>9. SubSeq(entries, 1, i - 1) \o <<entries[i]>> \in Seq(S)
    BY <2>7, ConcatProperties
  <2>10. InsertAt(entries, i, entries[i]) \in Seq(S)
    BY <2>7, <2>9, ConcatProperties DEF InsertAt
  <2> QED
    BY <2>8, <2>10, MemberIsSequence
<1>8. ASSUME NEW i \in 1 .. (Len(entries) - 1)
      PROVE  IsSequence([entries EXCEPT ![i] = entries[i + 1], ![i + 1] = entries[i]])
  <2> DEFINE swapped == [entries EXCEPT ![i] = entries[i + 1], ![i + 1] = entries[i]]
  <2>1. swapped = [j \in 1 .. Len(entries) |-> swapped[j]]
    BY <1>6
  <2> HIDE DEF swapped
  <2>2. IsSequence(swapped)
    BY <1>6, <2>1 DEF IsSequence
  <2> QED
    BY <2>2 DEF swapped
<1>9. ASSUME NEW i \in DOMAIN entries, NEW event
      PROVE  IsSequence([entries EXCEPT ![i].event = event])
  <2> DEFINE other == [entries EXCEPT ![i].event = event]
  <2>1. other = [j \in 1 .. Len(entries) |-> other[j]]
    BY <1>6
  <2> HIDE DEF other
  <2>2. IsSequence(other)
    BY <1>6, <2>1 DEF IsSequence
  <2> QED
    BY <2>2 DEF other
<1> DEFINE lost == {With(RemoveAt(entries, i)) : i \in DOMAIN entries}
           repeated == {With(InsertAt(entries, i, entries[i])) : i \in DOMAIN entries}
           exchanged == {With([entries EXCEPT ![i] = entries[i + 1], ![i + 1] = entries[i]]) :
                            i \in 1 .. (Len(entries) - 1)}
           replaced == {With([entries EXCEPT ![i].event = event]) : i \in DOMAIN entries, event \in AnchorEvents}
           counted == {[artifact EXCEPT !.count = Len(entries)]}
           moved == {[artifact EXCEPT !.organization = organization] : organization \in AnchorOrgs}
           cut == {[artifact EXCEPT !.head = entries[i].digest] : i \in DOMAIN entries}
<1>10. Damaged(artifact) = lost \cup repeated \cup exchanged \cup replaced \cup counted \cup moved \cup cut
  BY DEF Damaged
<1> HIDE DEF Fits
<1>11. (\A bytes \in lost : Fits(bytes)) /\ (\A bytes \in repeated : Fits(bytes))
  <2> HIDE DEF With
  <2> QED
    BY <1>2, <1>7
<1>12. (\A bytes \in exchanged : Fits(bytes)) /\ (\A bytes \in replaced : Fits(bytes))
  <2>1. \A bytes \in exchanged : Fits(bytes)
    <3> HIDE DEF With, entries
    <3> QED
      BY <1>2, <1>8
  <2>2. \A bytes \in replaced : Fits(bytes)
    <3> TAKE bytes \in replaced
    <3> HIDE DEF With
    <3>1. PICK i \in DOMAIN entries, event \in AnchorEvents : bytes = With([entries EXCEPT ![i].event = event])
      OBVIOUS
    <3> DEFINE other == [entries EXCEPT ![i].event = event]
    <3>2. IsSequence(other)
      BY <1>9
    <3>3. bytes = With(other)
      BY <3>1
    <3> HIDE DEF other
    <3> QED
      BY <1>2, <3>2, <3>3
  <2> QED
    BY <2>1, <2>2
<1>13. (\A bytes \in counted : Fits(bytes)) /\ (\A bytes \in moved : Fits(bytes)) /\ (\A bytes \in cut : Fits(bytes))
  BY <1>3, <1>4, <1>5
<1>14. Fits(damaged)
  <2> HIDE DEF lost, repeated, exchanged, replaced, counted, moved, cut
  <2> QED
    BY <1>10, <1>11, <1>12, <1>13
<1> QED
  BY <1>14 DEF Fits

LEMMA ExportStarts ==
    ASSUME NEW organization, NEW events \in SeqOf(AnchorEvents, MaxExport), ExportEvents(organization, events)
    PROVE  ExportInv'
<1> DEFINE entries == EntriesOf(organization, events)
           artifact == [organization |-> organization, entries |-> entries, count |-> Len(entries),
                        head |-> HeadOf(entries)]
<1>1. /\ events # <<>> /\ exported' = [organization |-> organization, events |-> events]
      /\ anchored' = [artifact |-> artifact, head |-> artifact.head]
  BY DEF ExportEvents
<1>2. PICK n \in Nat : events \in [1 .. n -> AnchorEvents]
  <2> DEFINE ofLength(m) == [1 .. m -> AnchorEvents]
  <2>1. events \in UNION {ofLength(m) : m \in 0 .. MaxExport}
    BY DEF SeqOf
  <2> HIDE DEF ofLength
  <2>2. PICK m \in 0 .. MaxExport : events \in ofLength(m)
    BY <2>1
  <2>3. m \in Nat /\ events \in [1 .. m -> AnchorEvents]
    BY <2>2, AnchorAssumption DEF ofLength
  <2> QED
    BY <2>3
<1>3. DOMAIN events = 1 .. n /\ events = [i \in 1 .. n |-> events[i]] /\ Len(events) = n
  BY <1>2
<1>4. n # 0
  <2>1. ASSUME n = 0 PROVE events = <<>>
    <3>1. events = [i \in 1 .. 0 |-> events[i]]
      BY <1>3, <2>1
    <3>2. <<>> = [i \in 1 .. 0 |-> events[i]]
      OBVIOUS
    <3> QED
      BY <3>1, <3>2
  <2> QED
    BY <1>1, <2>1
<1>5. /\ IsSequence(entries) /\ Len(entries) = n
      /\ \A i \in 1 .. n : entries[i].digest = ListedUpTo(organization, events, i)
  BY <1>3, EntriesAre
<1> HIDE DEF entries
<1>6. HeadOf(entries) = ListedUpTo(organization, events, n)
  <2>1. n \in 1 .. n
    BY <1>4
  <2>2. entries # <<>>
    <3>1. Len(<<>>) = 0
      OBVIOUS
    <3> QED
      BY <1>4, <1>5, <3>1
  <2> QED
    BY <1>5, <2>1, <2>2 DEF HeadOf, Last
<1>7. /\ anchored'.artifact = artifact /\ anchored'.head = HeadOf(entries)
      /\ anchored' = [artifact |-> anchored'.artifact, head |-> anchored'.head]
  BY <1>1
<1>8. IsAnchored'
  BY <1>5, <1>7 DEF IsAnchored
<1>9. exported'.organization = organization /\ exported'.events = events
  BY <1>1
<1>10. ReceiptIsOfTheExport'
  BY <1>3, <1>4, <1>6, <1>7, <1>9 DEF ReceiptIsOfTheExport
<1> QED
  BY <1>8, <1>10 DEF ExportInv

LEMMA DamageKeeps == ExportInv /\ DamageExport => ExportInv'
<1> SUFFICES ASSUME ExportInv, DamageExport PROVE ExportInv'
  OBVIOUS
<1>1. PICK damaged \in Damaged(anchored.artifact) : anchored' = [anchored EXCEPT !.artifact = damaged]
  BY DEF DamageExport
<1>2. /\ damaged = [organization |-> damaged.organization, entries |-> damaged.entries,
                    count |-> damaged.count, head |-> damaged.head]
      /\ IsSequence(damaged.entries)
  <2> DEFINE artifact == anchored.artifact
  <2>1. /\ IsSequence(artifact.entries)
        /\ artifact = [organization |-> artifact.organization, entries |-> artifact.entries,
                       count |-> artifact.count, head |-> artifact.head]
        /\ damaged \in Damaged(artifact)
    BY <1>1 DEF ExportInv, IsAnchored
  <2> HIDE DEF artifact
  <2> QED
    BY <2>1, DamagedIsSequence
<1>3. PICK a, b : anchored = [artifact |-> a, head |-> b]
  BY DEF ExportInv, IsAnchored
<1>4. anchored' = [artifact |-> damaged, head |-> b]
  <2> DEFINE old == [artifact |-> a, head |-> b]
  <2>1. [old EXCEPT !.artifact = damaged] = [artifact |-> damaged, head |-> b]
    OBVIOUS
  <2> QED
    BY <1>1, <1>3, <2>1
<1>5. anchored'.artifact = damaged /\ anchored'.head = anchored.head /\ exported' = exported
  BY <1>3, <1>4 DEF DamageExport
<1>6. IsAnchored'
  BY <1>2, <1>4, <1>5 DEF IsAnchored
<1>7. ReceiptIsOfTheExport'
  BY <1>5 DEF ExportInv, ReceiptIsOfTheExport
<1> QED
  BY <1>6, <1>7 DEF ExportInv

LEMMA ExportHolds == AnchorInit => ExportInv
<1> SUFFICES ASSUME AnchorInit PROVE ExportInv
  OBVIOUS
<1> DEFINE artifact == [organization |-> "", entries |-> <<>>, count |-> 0, head |-> NoAnchorDigest]
<1>1. anchored = [artifact |-> artifact, head |-> NoAnchorDigest] /\ exported = NoExport
  BY DEF AnchorInit
<1>2. IsSequence(<<>>)
  <2>1. <<>> = [i \in 1 .. 0 |-> <<>>[i]]
    OBVIOUS
  <2> QED
    BY <2>1 DEF IsSequence
<1>3. IsAnchored
  BY <1>1, <1>2 DEF IsAnchored
<1> QED
  BY <1>1, <1>3 DEF ExportInv, ReceiptIsOfTheExport

-----------------------------------------------------------------------------
(* Envelopes.                                                              *)

Envelope ==
    [organization : AnchorOrgs, purpose : Purposes, key : WrappingKeys,
     encrypted : [by : WrappingKeys, holds : Nat, for : AnchorOrgs \X Purposes],
     ciphertext : [under : Nat, for : AnchorOrgs \X Purposes]]

\* An answer is of an envelope that is stored, and opens as the stored one does.
RotationInv ==
    /\ envelopes \in Seq(Envelope)
    /\ \A i \in DOMAIN envelopes : Unseals(envelopes[i])
    /\ \A answer \in rewrapped :
          answer[1] \in DOMAIN envelopes /\ answer[2] \in Envelope /\ Unseals(answer[2])

LEMMA RewrappedUnseals ==
    ASSUME NEW envelope \in Envelope, Unseals(envelope), NEW key \in WrappingKeys, Available(key)
    PROVE  Rewrapped(envelope, key) \in Envelope /\ Unseals(Rewrapped(envelope, key))
<1>1. PICK o \in AnchorOrgs, p \in Purposes, k \in WrappingKeys,
           e \in [by : WrappingKeys, holds : Nat, for : AnchorOrgs \X Purposes],
           c \in [under : Nat, for : AnchorOrgs \X Purposes] :
           envelope = [organization |-> o, purpose |-> p, key |-> k, encrypted |-> e, ciphertext |-> c]
  BY DEF Envelope
<1>2. PICK b \in WrappingKeys, h \in Nat, f \in AnchorOrgs \X Purposes : e = [by |-> b, holds |-> h, for |-> f]
  OBVIOUS
<1> DEFINE bound == [by |-> key, holds |-> h, for |-> f]
           old == [organization |-> o, purpose |-> p, key |-> k, encrypted |-> e, ciphertext |-> c]
           half == [organization |-> o, purpose |-> p, key |-> key, encrypted |-> e, ciphertext |-> c]
           new == [organization |-> o, purpose |-> p, key |-> key, encrypted |-> bound, ciphertext |-> c]
<1>3. [old EXCEPT !.key = key] = half
  OBVIOUS
<1>4. [e EXCEPT !.by = key] = bound
  BY <1>2
<1>5. [half EXCEPT !.encrypted.by = key] = [half EXCEPT !.encrypted = bound]
  BY <1>4
<1>6. [half EXCEPT !.encrypted = bound] = new
  OBVIOUS
<1>7. Rewrapped(envelope, key) = new
  <2>1. Rewrapped(envelope, key) = [[old EXCEPT !.key = key] EXCEPT !.encrypted.by = key]
    BY <1>1 DEF Rewrapped
  <2> QED
    BY <1>3, <1>5, <1>6, <2>1
<1>8. new \in Envelope
  BY DEF Envelope
<1>9. Unseals(new)
  BY <1>1, <1>2 DEF Unseals, Decrypts
<1> QED
  BY <1>7, <1>8, <1>9

LEMMA SealKeeps ==
    ASSUME RotationInv, NEW organization \in AnchorOrgs, NEW purpose \in Purposes, NEW key \in WrappingKeys,
           Seal(organization, purpose, key)
    PROVE  RotationInv'
<1> DEFINE new == SealedEnvelope(organization, purpose, key, Len(envelopes) + 1)
<1>1. /\ envelopes' = Append(envelopes, new) /\ rewrapped' = rewrapped /\ retired' = retired /\ Available(key)
      /\ envelopes \in Seq(Envelope)
  BY DEF Seal, RotationInv
<1>2. Len(envelopes) \in Nat /\ DOMAIN envelopes = 1 .. Len(envelopes)
  BY <1>1
<1>3. new \in Envelope
  BY <1>2 DEF SealedEnvelope, EncryptionContext, Envelope
<1>4. /\ new.key = key /\ new.encrypted.by = key
      /\ new.encrypted.for = EncryptionContext(new.organization, new.purpose)
      /\ new.ciphertext.under = new.encrypted.holds /\ new.ciphertext.for = <<new.organization, new.purpose>>
  BY DEF SealedEnvelope
<1> HIDE DEF new
<1>5. /\ envelopes' \in Seq(Envelope) /\ Len(envelopes') = Len(envelopes) + 1
      /\ \A i \in 1 .. Len(envelopes) : envelopes'[i] = envelopes[i]
      /\ envelopes'[Len(envelopes) + 1] = new
  BY <1>1, <1>2, <1>3, AppendProperties
<1>6. DOMAIN envelopes' = 1 .. (Len(envelopes) + 1)
  BY <1>2, <1>5
<1>7. ASSUME NEW i \in DOMAIN envelopes' PROVE Unseals(envelopes[i])'
  <2>1. CASE i \in DOMAIN envelopes
    <3>1. Unseals(envelopes[i]) /\ envelopes'[i] = envelopes[i]
      BY <1>2, <1>5, <2>1 DEF RotationInv
    <3> QED
      BY <1>1, <3>1 DEF Unseals, Decrypts, Available
  <2>2. CASE i = Len(envelopes) + 1
    <3>1. envelopes'[i] = new
      BY <1>5, <2>2
    <3> QED
      BY <1>1, <1>4, <3>1 DEF Unseals, Decrypts, Available, EncryptionContext
  <2> QED
    BY <1>2, <1>6, <2>1, <2>2
<1>8. ASSUME NEW answer \in rewrapped'
      PROVE  answer[1] \in DOMAIN envelopes' /\ answer[2] \in Envelope /\ Unseals(answer[2])'
  <2>1. answer[1] \in DOMAIN envelopes /\ answer[2] \in Envelope /\ Unseals(answer[2])
    BY <1>1, <1>8 DEF RotationInv
  <2> QED
    BY <1>1, <1>2, <1>6, <2>1 DEF Unseals, Decrypts, Available
<1> QED
  BY <1>5, <1>7, <1>8 DEF RotationInv

LEMMA RotationKeeps == RotationInv /\ [AnchorNext]_anchorVars => RotationInv'
<1> SUFFICES ASSUME RotationInv, [AnchorNext]_anchorVars PROVE RotationInv'
  OBVIOUS
<1>1. ASSUME retired' = retired, NEW envelope, Unseals(envelope)
      PROVE  Unseals(envelope)'
  BY <1>1 DEF Unseals, Decrypts, Available
<1>2. ASSUME UNCHANGED <<envelopes, rewrapped, retired>>
      PROVE  RotationInv'
  BY <1>1, <1>2 DEF RotationInv
<1>3. CASE UNCHANGED anchorVars
  BY <1>2, <1>3 DEF anchorVars
<1>4. ASSUME NEW organization \in AnchorOrgs, NEW purpose \in Purposes, NEW key \in WrappingKeys,
             Seal(organization, purpose, key)
      PROVE  RotationInv'
  BY <1>4, SealKeeps
<1>5. ASSUME NEW i \in DOMAIN envelopes, NEW key \in WrappingKeys, Rewrap(i, key)
      PROVE  RotationInv'
  <2> DEFINE envelope == envelopes[i]
             moved == Rewrapped(envelope, key)
  <2>1. /\ rewrapped' = rewrapped \cup {<<i, moved>>} /\ envelopes' = envelopes /\ retired' = retired
        /\ Available(key) /\ envelope \in Envelope /\ Unseals(envelope)
    BY <1>5 DEF Rewrap, RotationInv
  <2>2. moved \in Envelope /\ Unseals(moved)
    <3> HIDE DEF envelope
    <3> QED
      BY <2>1, RewrappedUnseals
  <2> HIDE DEF moved
  <2>3. ASSUME NEW answer \in rewrapped'
        PROVE  answer[1] \in DOMAIN envelopes' /\ answer[2] \in Envelope /\ Unseals(answer[2])'
    <3>1. answer[1] \in DOMAIN envelopes /\ answer[2] \in Envelope /\ Unseals(answer[2])
      BY <2>1, <2>2 DEF RotationInv
    <3> QED
      BY <1>1, <2>1, <3>1
  <2>4. \A j \in DOMAIN envelopes' : Unseals(envelopes[j])'
    BY <2>1 DEF RotationInv, Unseals, Decrypts, Available
  <2> QED
    BY <2>1, <2>3, <2>4 DEF RotationInv
<1>6. ASSUME NEW answer \in rewrapped, StoreRewrapped(answer)
      PROVE  RotationInv'
  <2>1. /\ envelopes' = [envelopes EXCEPT ![answer[1]] = answer[2]] /\ rewrapped' \subseteq rewrapped
        /\ retired' = retired
    BY <1>6 DEF StoreRewrapped
  <2>2. /\ envelopes \in Seq(Envelope) /\ answer[1] \in DOMAIN envelopes /\ answer[2] \in Envelope
        /\ Unseals(answer[2])
    BY DEF RotationInv
  <2>3. envelopes' \in Seq(Envelope) /\ DOMAIN envelopes' = DOMAIN envelopes
    BY <2>1, <2>2
  <2>4. \A other : Unseals(other) => Unseals(other)'
    BY <1>1, <2>1
  <2>5. \A i \in DOMAIN envelopes : envelopes'[i] = IF i = answer[1] THEN answer[2] ELSE envelopes[i]
    BY <2>1, <2>2
  <2> QED
    BY <2>1, <2>2, <2>3, <2>4, <2>5 DEF RotationInv
<1>7. ASSUME NEW key \in WrappingKeys, RetireKey(key)
      PROVE  RotationInv'
  <2>1. /\ retired' = retired \cup {key} /\ envelopes' = envelopes /\ rewrapped' = rewrapped
        /\ \A i \in DOMAIN envelopes : envelopes[i].key # key
        /\ \A answer \in rewrapped : answer[2].key # key
    BY <1>7 DEF RetireKey
  <2>2. ASSUME NEW envelope, envelope.key # key, Unseals(envelope)
        PROVE  Unseals(envelope)'
    BY <2>1, <2>2 DEF Unseals, Decrypts, Available
  <2> QED
    BY <2>1, <2>2 DEF RotationInv
<1>8. ASSUME NEW organization \in AnchorOrgs, NEW events \in SeqOf(AnchorEvents, MaxExport),
             ExportEvents(organization, events)
      PROVE  RotationInv'
  BY <1>2, <1>8 DEF ExportEvents
<1>9. CASE DamageExport
  BY <1>2, <1>9 DEF DamageExport
<1> QED
  BY <1>3, <1>4, <1>5, <1>6, <1>7, <1>8, <1>9 DEF AnchorNext

-----------------------------------------------------------------------------
LEMMA ExportKeeps == ExportInv /\ [AnchorNext]_anchorVars => ExportInv'
<1> SUFFICES ASSUME ExportInv, [AnchorNext]_anchorVars PROVE ExportInv'
  OBVIOUS
<1>1. ASSUME UNCHANGED <<exported, anchored>> PROVE ExportInv'
  BY <1>1 DEF ExportInv, IsAnchored, ReceiptIsOfTheExport
<1>2. CASE UNCHANGED anchorVars
  BY <1>1, <1>2 DEF anchorVars
<1>3. ASSUME NEW organization \in AnchorOrgs, NEW purpose \in Purposes, NEW key \in WrappingKeys,
             Seal(organization, purpose, key)
      PROVE  ExportInv'
  BY <1>1, <1>3 DEF Seal
<1>4. ASSUME NEW i \in DOMAIN envelopes, NEW key \in WrappingKeys, Rewrap(i, key)
      PROVE  ExportInv'
  BY <1>1, <1>4 DEF Rewrap
<1>5. ASSUME NEW answer \in rewrapped, StoreRewrapped(answer)
      PROVE  ExportInv'
  BY <1>1, <1>5 DEF StoreRewrapped
<1>6. ASSUME NEW key \in WrappingKeys, RetireKey(key)
      PROVE  ExportInv'
  BY <1>1, <1>6 DEF RetireKey
<1>7. ASSUME NEW organization \in AnchorOrgs, NEW events \in SeqOf(AnchorEvents, MaxExport),
             ExportEvents(organization, events)
      PROVE  ExportInv'
  BY <1>7, ExportStarts
<1>8. CASE DamageExport
  BY <1>8, DamageKeeps
<1> QED
  BY <1>2, <1>3, <1>4, <1>5, <1>6, <1>7, <1>8 DEF AnchorNext

\* Contents stay readable through any rotation of keys, rewraps of one envelope that overlap
\* included, and a retained export that verifies under the head digest of its receipt is the one
\* that was taken, whatever storage did to its bytes, for any organizations, keys and events and
\* any number of faults (EnvelopeCipher.rewrap,
\* build_audit_anchor_artifact and verify_audit_anchor_artifact in custody.py).
THEOREM AnchorsAreSoundHolds == AnchorSpec => []AnchorsAreSound
<1>1. AnchorInit => RotationInv /\ ExportInv
  <2>1. AnchorInit => RotationInv
    <3>1. <<>> \in Seq(Envelope) /\ DOMAIN <<>> = {}
      OBVIOUS
    <3> QED
      BY <3>1 DEF AnchorInit, RotationInv
  <2> QED
    BY <2>1, ExportHolds
<1>2. (RotationInv /\ ExportInv) /\ [AnchorNext]_anchorVars => (RotationInv /\ ExportInv)'
  BY RotationKeeps, ExportKeeps
<1>3. RotationInv /\ ExportInv => AnchorsAreSound
  BY VerifiedIsTheExport DEF RotationInv, AnchorsAreSound, RotationKeepsContents
<1> QED
  BY <1>1, <1>2, <1>3, PTL DEF AnchorSpec

(***************************************************************************)
(* Evidence tables: a table whose keys all have a guard is append-only,    *)
(* whatever the other tables are, and all but three tables are of this kind.*)
(***************************************************************************)

\* Tables whose triggers are all that keeping them takes: a guard for every key, no NULL in what is compared, no table that
\* is its own twin, and twins that look at each other.
ComparesNoNull(table) ==
    /\ \A twin \in table.twins : twin.columns \subseteq table.columns \ table.nullable
    /\ \A rule \in table.agree : rule.on \cup rule.same \subseteq table.columns \ table.nullable

LooksBack(table, other) ==
    \A twin \in table.twins :
       /\ twin.table # table.name
       /\ other.name = twin.table =>
             \E back \in other.twins : back.table = table.name /\ back.columns = twin.columns

AppendOnly(tables) ==
    /\ \A table \in tables : table.guards = table.keys /\ ComparesNoNull(table)
    /\ \A table, other \in tables : LooksBack(table, other) /\ (table.name = other.name => table = other)

RowsOfTables == \A row \in evidence : row.table \in family /\ row \in RowsOf(row.table)
EvidenceInv == family \in Families /\ RowsOfTables /\ EvidenceAgrees

\* A row of a table has a value in every column that may not be NULL.
LEMMA RowIsOf ==
    ASSUME NEW table, NEW row \in RowsOf(table)
    PROVE  row.table = table /\ \A column \in table.columns \ table.nullable : row.at[column] # NULL
BY DEF RowsOf

\* Every key has its guard: a row that is not refused conflicts with none.
LEMMA NotRefused ==
    ASSUME NEW row, AppendOnly(family), row.table \in family, ~RefusedByTrigger(row)
    PROVE  Conflicting(row) = {}
BY DEF AppendOnly, RefusedByTrigger, Guarded, Conflicting

\* One row more, which no trigger refuses.
LEMMA RowKeeps ==
    ASSUME EvidenceInv, AppendOnly(family), NEW table \in family, NEW new \in RowsOf(table), ~RefusedByTrigger(new),
           evidence' = evidence \cup {new}, UNCHANGED <<family, audited>>
    PROVE  EvidenceInv'
<1>1. new.table = table
  BY RowIsOf
<1>2. RowsOfTables'
  BY <1>1 DEF EvidenceInv, RowsOfTables
<1>3. ~Doubled(new) /\ ~Disagrees(new) /\ ~LacksItsParent(new)
  BY DEF RefusedByTrigger
<1>4. ASSUME NEW entry \in audited
      PROVE  \E row \in evidence' : row.table.name = entry.table /\ row.at[row.table.source] = entry.id /\ row.body = entry.body
  BY DEF EvidenceInv, EvidenceAgrees
<1>5. ASSUME NEW row \in evidence', NEW parent \in row.table.needs
      PROVE  \/ \E column \in parent.columns : row.at[column] = NULL
             \/ \E other \in evidence' :
                   other.table.name = parent.table /\ \A c \in parent.columns : other.at[c] = row.at[c]
  <2>1. CASE row \in evidence
    BY <1>5, <2>1 DEF EvidenceInv, EvidenceAgrees
  <2>2. CASE row = new
    BY <1>3, <1>5, <2>2 DEF LacksItsParent, Stored, Meet
  <2> QED BY <2>1, <2>2
<1>6. ASSUME NEW row \in evidence', NEW other \in evidence', NEW twin \in row.table.twins, other.table.name = twin.table
      PROVE  \E c \in twin.columns : row.at[c] # other.at[c]
  <2>1. row.table \in family /\ other.table \in family /\ row \in RowsOf(row.table) /\ other \in RowsOf(other.table)
    BY <1>2 DEF RowsOfTables
  <2>2. \A column \in twin.columns : row.at[column] # NULL
    BY <2>1, RowIsOf DEF AppendOnly, ComparesNoNull
  <2>3. twin.table # row.table.name
    BY <2>1 DEF AppendOnly, LooksBack
  <2>4. CASE row \in evidence /\ other \in evidence
    BY <1>6, <2>4 DEF EvidenceInv, EvidenceAgrees
  <2>5. CASE row = new /\ other = new
    BY <1>6, <2>3, <2>5
  <2>6. CASE row = new /\ other \in evidence
    BY <1>3, <1>6, <2>2, <2>6 DEF Doubled, Stored, Meet
  <2>7. CASE row \in evidence /\ other = new
    <3>1. PICK back \in new.table.twins : back.table = row.table.name /\ back.columns = twin.columns
      BY <1>6, <2>1, <2>7 DEF AppendOnly, LooksBack
    <3>2. ~Meet(new, row, twin.columns)
      BY <1>3, <2>7, <3>1 DEF Doubled, Stored
    <3>3. \A column \in back.columns : new.at[column] # NULL
      BY <2>1, <2>7, RowIsOf DEF AppendOnly, ComparesNoNull
    <3> QED BY <2>7, <3>1, <3>2, <3>3 DEF Meet
  <2> QED BY <2>4, <2>5, <2>6, <2>7
<1>7. ASSUME NEW row \in evidence', NEW other \in evidence', NEW rule \in row.table.agree,
             row.table = other.table, \A c \in rule.on : row.at[c] = other.at[c]
      PROVE  \A c \in rule.same : row.at[c] = other.at[c]
  <2>1. row.table \in family /\ other.table \in family /\ row \in RowsOf(row.table) /\ other \in RowsOf(other.table)
    BY <1>2 DEF RowsOfTables
  <2>2. \A column \in rule.on \cup rule.same : row.at[column] # NULL /\ other.at[column] # NULL
    BY <1>7, <2>1, RowIsOf DEF AppendOnly, ComparesNoNull
  <2>3. CASE row \in evidence /\ other \in evidence
    BY <1>7, <2>3 DEF EvidenceInv, EvidenceAgrees
  <2>4. CASE row = new /\ other = new
    BY <2>4
  <2>5. CASE row = new /\ other \in evidence
    <3>1. other \in Stored(new.table.name)
      BY <1>7, <2>5 DEF Stored
    <3> QED BY <1>3, <1>7, <2>2, <2>5, <3>1 DEF Disagrees, Meet
  <2>6. CASE row \in evidence /\ other = new
    <3>1. row \in Stored(new.table.name)
      BY <1>7, <2>6 DEF Stored
    <3>2. Meet(new, row, rule.on) => Meet(new, row, rule.same)
      BY <1>3, <1>7, <2>6, <3>1 DEF Disagrees
    <3> QED BY <1>7, <2>2, <2>6, <3>2 DEF Meet
  <2> QED BY <2>3, <2>4, <2>5, <2>6
<1>8. EvidenceAgrees'
  BY <1>4, <1>5, <1>6, <1>7 DEF EvidenceAgrees
<1> QED BY <1>2, <1>8 DEF EvidenceInv

LEMMA AuditEvidenceKeeps ==
    ASSUME EvidenceInv, NEW row \in evidence, NEW body, AuditEvidence(row, body)
    PROVE  EvidenceInv'
<1> DEFINE entry == [EntryOf(row) EXCEPT !.body = body]
<1>1. /\ HasSource(entry, evidence) /\ audited' = audited \cup {entry} /\ UNCHANGED <<family, evidence>>
  BY DEF AuditEvidence
<1> HIDE DEF entry
<1>2. PICK source \in evidence : source.table.name = entry.table /\ EntryOf(source) = entry
  BY <1>1 DEF HasSource
<1>3. source.at[source.table.source] = entry.id /\ source.body = entry.body
  BY <1>2 DEF EntryOf
<1>4. RowsOfTables' /\ family' = family
  BY <1>1 DEF EvidenceInv, RowsOfTables
<1>5. EvidenceAgrees'
  BY <1>1, <1>2, <1>3 DEF EvidenceInv, EvidenceAgrees
<1> QED BY <1>4, <1>5 DEF EvidenceInv

LEMMA EvidenceStepsKeep ==
    ASSUME \A tables \in Families : AppendOnly(tables), EvidenceInv, [EvidenceNext]_evidenceVars
    PROVE  EvidenceInv' /\ evidence \subseteq evidence'
<1>1. AppendOnly(family)
  BY DEF EvidenceInv
<1>2. ASSUME NEW table \in family, NEW row \in Rows[table], InsertEvidence(row) \/ ReplaceEvidence(row)
      PROVE  EvidenceInv' /\ evidence \subseteq evidence'
  <2>1. row \in RowsOf(table)
    BY DEF Rows, EvidenceInv
  <2>2. row.table = table
    BY <2>1, RowIsOf
  <2>3. ~RefusedByTrigger(row) /\ UNCHANGED <<family, audited>>
    BY <1>2 DEF InsertEvidence, ReplaceEvidence
  <2>4. Conflicting(row) = {}
    BY <1>1, <2>2, <2>3, NotRefused
  <2>5. evidence' = evidence \cup {row}
    BY <1>2, <2>4 DEF InsertEvidence, ReplaceEvidence
  <2> QED BY <1>1, <2>1, <2>3, <2>5, RowKeeps
<1>3. ASSUME NEW row \in evidence, NEW body \in Values, AuditEvidence(row, body)
      PROVE  EvidenceInv' /\ evidence \subseteq evidence'
  <2>1. evidence' = evidence
    BY <1>3 DEF AuditEvidence
  <2> QED BY <1>3, <2>1, AuditEvidenceKeeps
<1>4. CASE UNCHANGED evidenceVars
  BY <1>4 DEF evidenceVars, EvidenceInv, RowsOfTables, EvidenceAgrees
<1> QED BY <1>2, <1>3, <1>4 DEF EvidenceNext

LEMMA RefusedForAKey ==
    ASSUME EvidenceInv, AppendOnly(family) PROVE OnlyConflictsAreRefused
<1> SUFFICES ASSUME NEW table \in family, NEW row \in Rows[table], Guarded(row)
             PROVE  \E other \in evidence : \E key \in table.keys :
                       other.table = table /\ \A c \in key : row.at[c] # NULL /\ row.at[c] = other.at[c]
  BY DEF OnlyConflictsAreRefused
<1>1. row.table = table
  <2>1. row \in RowsOf(table)
    BY DEF Rows, EvidenceInv
  <2> QED BY <2>1, RowIsOf
<1>2. PICK other \in Stored(row.table.name), key \in row.table.guards : Meet(row, other, key)
  BY DEF Guarded
<1>3. other \in evidence /\ other.table = table
  BY <1>1, <1>2 DEF Stored, AppendOnly, EvidenceInv, RowsOfTables
<1> QED BY <1>1, <1>2, <1>3 DEF AppendOnly, Meet

LEMMA AppendOnlyIsSound ==
    ASSUME \A tables \in Families : AppendOnly(tables) PROVE EvidenceSpec => EvidenceIsSound
<1>1. EvidenceInit => EvidenceInv
  BY DEF EvidenceInit, EvidenceInv, RowsOfTables, EvidenceAgrees
<1>2. EvidenceInv /\ [EvidenceNext]_evidenceVars => EvidenceInv'
  BY EvidenceStepsKeep
<1>3. EvidenceInv /\ [EvidenceNext]_evidenceVars => [evidence \subseteq evidence']_evidenceVars
  BY EvidenceStepsKeep
<1>4. EvidenceInv => EvidenceAgrees /\ OnlyConflictsAreRefused
  <2>1. EvidenceInv => AppendOnly(family)
    BY DEF EvidenceInv
  <2> QED BY <2>1, RefusedForAKey DEF EvidenceInv
<1> QED BY <1>1, <1>2, <1>3, <1>4, PTL DEF EvidenceSpec, EvidenceIsSound, EvidenceIsKept

\* Every table but those of the work budgets that refuse to replace the same primary key only.
AppendOnlyTables ==
    {FinanceAuditEvents, RateCards, SourceBindings, CollectionAttempts, CollectionEvents, Snapshots,
     BucketCoverage, UsageObservations, CostObservations, AccountBindings, AttemptBindings,
     QueryAuditEvents, FinanceAttemptEvidence, MetricsV1, MetricsV2, FailoverEvents, LinearBindings,
     LinearReceipts, LinearContexts, LinearRetentions, SnapshotReceipts, SnapshotContexts,
     SnapshotRetentions, BudgetBindings}

\* A table has a name of its own, a guard for every key, and compares what is never NULL.
IsTable(table, name) == table.name = name /\ table.guards = table.keys /\ ComparesNoNull(table)

LEMMA TablesAre ==
    /\ IsTable(FinanceAuditEvents, "finance_audit")
    /\ IsTable(RateCards, "rate_cards")
    /\ IsTable(SourceBindings, "source_bindings")
    /\ IsTable(CollectionAttempts, "collection_attempts")
    /\ IsTable(CollectionEvents, "collection_events")
    /\ IsTable(Snapshots, "snapshots")
    /\ IsTable(BucketCoverage, "coverage")
    /\ IsTable(UsageObservations, "usage_observations")
    /\ IsTable(CostObservations, "cost_observations")
    /\ IsTable(AccountBindings, "account_bindings")
    /\ IsTable(AttemptBindings, "attempt_bindings")
    /\ IsTable(QueryAuditEvents, "query_audit")
    /\ IsTable(FinanceAttemptEvidence, "finance_attempts")
    /\ IsTable(MetricsV1, "metrics")
    /\ IsTable(MetricsV2, "metrics_v2")
    /\ IsTable(FailoverEvents, "failovers")
    /\ IsTable(LinearBindings, "linear_bindings")
    /\ IsTable(LinearReceipts, "linear_receipts")
    /\ IsTable(LinearContexts, "linear_contexts")
    /\ IsTable(LinearRetentions, "linear_retentions")
    /\ IsTable(SnapshotReceipts, "snapshot_receipts")
    /\ IsTable(SnapshotContexts, "snapshot_contexts")
    /\ IsTable(SnapshotRetentions, "snapshot_retentions")
    /\ IsTable(BudgetBindings, "budget_bindings")
<1>1. IsTable(FinanceAuditEvents, "finance_audit")
  BY DEF IsTable, Table, ComparesNoNull, FinanceAuditEvents
<1>2. IsTable(RateCards, "rate_cards")
  BY DEF IsTable, Table, ComparesNoNull, RateCards
<1>3. IsTable(SourceBindings, "source_bindings")
  BY DEF IsTable, Table, ComparesNoNull, SourceBindings
<1>4. IsTable(CollectionAttempts, "collection_attempts")
  BY DEF IsTable, Table, ComparesNoNull, CollectionAttempts
<1>5. IsTable(CollectionEvents, "collection_events")
  BY DEF IsTable, Table, ComparesNoNull, CollectionEvents
<1>6. IsTable(Snapshots, "snapshots")
  BY DEF IsTable, Table, ComparesNoNull, Snapshots
<1>7. IsTable(BucketCoverage, "coverage")
  BY DEF IsTable, Table, ComparesNoNull, BucketCoverage
<1>8. IsTable(UsageObservations, "usage_observations")
  BY DEF IsTable, Table, ComparesNoNull, UsageObservations
<1>9. IsTable(CostObservations, "cost_observations")
  BY DEF IsTable, Table, ComparesNoNull, CostObservations
<1>10. IsTable(AccountBindings, "account_bindings")
  BY DEF IsTable, Table, ComparesNoNull, AccountBindings
<1>11. IsTable(AttemptBindings, "attempt_bindings")
  BY DEF IsTable, Table, ComparesNoNull, AttemptBindings
<1>12. IsTable(QueryAuditEvents, "query_audit")
  BY DEF IsTable, Table, ComparesNoNull, QueryAuditEvents
<1>13. IsTable(FinanceAttemptEvidence, "finance_attempts")
  BY DEF IsTable, Table, ComparesNoNull, FinanceAttemptEvidence
<1>14. IsTable(MetricsV1, "metrics")
  BY DEF IsTable, Table, ComparesNoNull, MetricsV1
<1>15. IsTable(MetricsV2, "metrics_v2")
  BY DEF IsTable, Table, ComparesNoNull, MetricsV2
<1>16. IsTable(FailoverEvents, "failovers")
  BY DEF IsTable, Table, ComparesNoNull, FailoverEvents
<1>17. IsTable(LinearBindings, "linear_bindings")
  BY DEF IsTable, Table, ComparesNoNull, LinearBindings
<1>18. IsTable(LinearReceipts, "linear_receipts")
  BY DEF IsTable, Table, ComparesNoNull, LinearReceipts
<1>19. IsTable(LinearContexts, "linear_contexts")
  <2>1. /\ LinearContexts.name = "linear_contexts" /\ LinearContexts.guards = LinearContexts.keys /\ LinearContexts.agree = {}
        /\ {"context", "sequence"} \subseteq LinearContexts.columns \ LinearContexts.nullable
    BY DEF LinearContexts, Table
  <2>2. LinearContexts.twins = {[table |-> "snapshot_contexts", columns |-> {"context"}],
          [table |-> "snapshot_contexts", columns |-> {"sequence"}]}
    BY DEF LinearContexts, Table
  <2> QED BY <2>1, <2>2 DEF IsTable, ComparesNoNull
<1>20. IsTable(LinearRetentions, "linear_retentions")
  BY DEF IsTable, Table, ComparesNoNull, LinearRetentions
<1>21. IsTable(SnapshotReceipts, "snapshot_receipts")
  BY DEF IsTable, Table, ComparesNoNull, SnapshotReceipts
<1>22. IsTable(SnapshotContexts, "snapshot_contexts")
  <2>1. /\ SnapshotContexts.name = "snapshot_contexts" /\ SnapshotContexts.guards = SnapshotContexts.keys /\ SnapshotContexts.agree = {}
        /\ {"context", "sequence"} \subseteq SnapshotContexts.columns \ SnapshotContexts.nullable
    BY DEF SnapshotContexts, Table
  <2>2. SnapshotContexts.twins = {[table |-> "linear_contexts", columns |-> {"context"}],
          [table |-> "linear_contexts", columns |-> {"sequence"}]}
    BY DEF SnapshotContexts, Table
  <2> QED BY <2>1, <2>2 DEF IsTable, ComparesNoNull
<1>23. IsTable(SnapshotRetentions, "snapshot_retentions")
  BY DEF IsTable, Table, ComparesNoNull, SnapshotRetentions
<1>24. IsTable(BudgetBindings, "budget_bindings")
  BY DEF IsTable, Table, ComparesNoNull, BudgetBindings
<1> QED
  BY <1>1, <1>2, <1>3, <1>4, <1>5, <1>6, <1>7, <1>8, <1>9, <1>10, <1>11, <1>12, <1>13, <1>14,
     <1>15, <1>16, <1>17, <1>18, <1>19, <1>20, <1>21, <1>22, <1>23, <1>24

\* Twins that are told apart by sets of columns.
Twins(name, sets) == {[table |-> name, columns |-> columns] : columns \in sets}

LEMMA TwinsLookBack ==
    ASSUME NEW table, NEW other, NEW name, NEW back, NEW sets, table.name = name, name # back,
           table.twins = Twins(back, sets), other.name = back => other.twins = Twins(name, sets)
    PROVE  LooksBack(table, other)
<1>1. ASSUME NEW twin \in table.twins
      PROVE  /\ twin.table # table.name
             /\ other.name = twin.table => \E one \in other.twins : one.table = table.name /\ one.columns = twin.columns
  <2>1. PICK columns \in sets : twin = [table |-> back, columns |-> columns]
    BY <1>1 DEF Twins
  <2>2. twin.table = back /\ twin.columns = columns
    BY <2>1
  <2> DEFINE one == [table |-> name, columns |-> columns]
  <2>3. one \in Twins(name, sets) /\ one.table = name /\ one.columns = columns
    BY DEF Twins
  <2> HIDE DEF one
  <2>4. other.name = back => one \in other.twins
    BY <2>3
  <2> QED BY <2>2, <2>3, <2>4
<1> QED BY <1>1 DEF LooksBack

LEMMA TwinsAre ==
    /\ MetricsV1.twins = Twins("metrics_v2", {{"attempt"}})
    /\ MetricsV2.twins = Twins("metrics", {{"attempt"}})
    /\ LinearContexts.twins = Twins("snapshot_contexts", {{"context"}, {"sequence"}})
    /\ LinearRetentions.twins = Twins("snapshot_retentions", {{"connector", "retention"}})
    /\ SnapshotContexts.twins = Twins("linear_contexts", {{"context"}, {"sequence"}})
    /\ SnapshotRetentions.twins = Twins("linear_retentions", {{"connector", "retention"}})
    /\ \A table \in AppendOnlyTables \ {MetricsV1, MetricsV2, LinearContexts, SnapshotContexts, LinearRetentions,
             SnapshotRetentions} : table.twins = {}
<1>1. FinanceAuditEvents.twins = {}
  BY DEF FinanceAuditEvents, Table
<1>2. RateCards.twins = {}
  BY DEF RateCards, Table
<1>3. SourceBindings.twins = {}
  BY DEF SourceBindings, Table
<1>4. CollectionAttempts.twins = {}
  BY DEF CollectionAttempts, Table
<1>5. CollectionEvents.twins = {}
  BY DEF CollectionEvents, Table
<1>6. Snapshots.twins = {}
  BY DEF Snapshots, Table
<1>7. BucketCoverage.twins = {}
  BY DEF BucketCoverage, Table
<1>8. UsageObservations.twins = {}
  BY DEF UsageObservations, Table
<1>9. CostObservations.twins = {}
  BY DEF CostObservations, Table
<1>10. AccountBindings.twins = {}
  BY DEF AccountBindings, Table
<1>11. AttemptBindings.twins = {}
  BY DEF AttemptBindings, Table
<1>12. QueryAuditEvents.twins = {}
  BY DEF QueryAuditEvents, Table
<1>13. FinanceAttemptEvidence.twins = {}
  BY DEF FinanceAttemptEvidence, Table
<1>14. MetricsV1.twins = Twins("metrics_v2", {{"attempt"}})
  BY DEF MetricsV1, Table, Twins
<1>15. MetricsV2.twins = Twins("metrics", {{"attempt"}})
  BY DEF MetricsV2, Table, Twins
<1>16. FailoverEvents.twins = {}
  BY DEF FailoverEvents, Table
<1>17. LinearBindings.twins = {}
  BY DEF LinearBindings, Table
<1>18. LinearReceipts.twins = {}
  BY DEF LinearReceipts, Table
<1>19. LinearContexts.twins = Twins("snapshot_contexts", {{"context"}, {"sequence"}})
  BY DEF LinearContexts, Table, Twins
<1>20. LinearRetentions.twins = Twins("snapshot_retentions", {{"connector", "retention"}})
  BY DEF LinearRetentions, Table, Twins
<1>21. SnapshotReceipts.twins = {}
  BY DEF SnapshotReceipts, Table
<1>22. SnapshotContexts.twins = Twins("linear_contexts", {{"context"}, {"sequence"}})
  BY DEF SnapshotContexts, Table, Twins
<1>23. SnapshotRetentions.twins = Twins("linear_retentions", {{"connector", "retention"}})
  BY DEF SnapshotRetentions, Table, Twins
<1>24. BudgetBindings.twins = {}
  BY DEF BudgetBindings, Table
<1> QED
  BY <1>1, <1>2, <1>3, <1>4, <1>5, <1>6, <1>7, <1>8, <1>9, <1>10, <1>11, <1>12, <1>13, <1>14,
     <1>15, <1>16, <1>17, <1>18, <1>19, <1>20, <1>21, <1>22, <1>23, <1>24 DEF AppendOnlyTables

\* Any of these tables, together or apart, look back and have different names.
LEMMA TablesAreAppendOnly == \A tables \in SUBSET AppendOnlyTables : AppendOnly(tables)
<1>1. \A table \in AppendOnlyTables : table.guards = table.keys /\ ComparesNoNull(table)
  BY TablesAre DEF AppendOnlyTables, IsTable
<1>2. \A table, other \in AppendOnlyTables : table.name = other.name => table = other
  BY TablesAre DEF AppendOnlyTables, IsTable
<1>3. ASSUME NEW table \in AppendOnlyTables, NEW other \in AppendOnlyTables PROVE LooksBack(table, other)
  <2>1. CASE table.twins = {}
    BY <2>1 DEF LooksBack
  <2>2. CASE table = MetricsV1
    <3>1. other.name = "metrics_v2" => other = MetricsV2
      BY <1>2, TablesAre DEF AppendOnlyTables, IsTable
    <3>2. table.name = "metrics"
      BY <2>2, TablesAre DEF IsTable
    <3> DEFINE name == "metrics"
               back == "metrics_v2"
               sets == {{"attempt"}}
    <3>3. table.twins = Twins(back, sets)
      BY <2>2, TwinsAre
    <3>4. other.name = back => other.twins = Twins(name, sets)
      BY <3>1, TwinsAre
    <3>5. table.name = name /\ name # back
      BY <3>2
    <3> HIDE DEF name, back, sets
    <3> QED BY <3>3, <3>4, <3>5, TwinsLookBack
  <2>3. CASE table = MetricsV2
    <3>1. other.name = "metrics" => other = MetricsV1
      BY <1>2, TablesAre DEF AppendOnlyTables, IsTable
    <3>2. table.name = "metrics_v2"
      BY <2>3, TablesAre DEF IsTable
    <3> DEFINE name == "metrics_v2"
               back == "metrics"
               sets == {{"attempt"}}
    <3>3. table.twins = Twins(back, sets)
      BY <2>3, TwinsAre
    <3>4. other.name = back => other.twins = Twins(name, sets)
      BY <3>1, TwinsAre
    <3>5. table.name = name /\ name # back
      BY <3>2
    <3> HIDE DEF name, back, sets
    <3> QED BY <3>3, <3>4, <3>5, TwinsLookBack
  <2>4. CASE table = LinearContexts
    <3>1. other.name = "snapshot_contexts" => other = SnapshotContexts
      BY <1>2, TablesAre DEF AppendOnlyTables, IsTable
    <3>2. table.name = "linear_contexts"
      BY <2>4, TablesAre DEF IsTable
    <3> DEFINE name == "linear_contexts"
               back == "snapshot_contexts"
               sets == {{"context"}, {"sequence"}}
    <3>3. table.twins = Twins(back, sets)
      BY <2>4, TwinsAre
    <3>4. other.name = back => other.twins = Twins(name, sets)
      BY <3>1, TwinsAre
    <3>5. table.name = name /\ name # back
      BY <3>2
    <3> HIDE DEF name, back, sets
    <3> QED BY <3>3, <3>4, <3>5, TwinsLookBack
  <2>5. CASE table = SnapshotContexts
    <3>1. other.name = "linear_contexts" => other = LinearContexts
      BY <1>2, TablesAre DEF AppendOnlyTables, IsTable
    <3>2. table.name = "snapshot_contexts"
      BY <2>5, TablesAre DEF IsTable
    <3> DEFINE name == "snapshot_contexts"
               back == "linear_contexts"
               sets == {{"context"}, {"sequence"}}
    <3>3. table.twins = Twins(back, sets)
      BY <2>5, TwinsAre
    <3>4. other.name = back => other.twins = Twins(name, sets)
      BY <3>1, TwinsAre
    <3>5. table.name = name /\ name # back
      BY <3>2
    <3> HIDE DEF name, back, sets
    <3> QED BY <3>3, <3>4, <3>5, TwinsLookBack
  <2>6. CASE table = LinearRetentions
    <3>1. other.name = "snapshot_retentions" => other = SnapshotRetentions
      BY <1>2, TablesAre DEF AppendOnlyTables, IsTable
    <3>2. table.name = "linear_retentions"
      BY <2>6, TablesAre DEF IsTable
    <3> DEFINE name == "linear_retentions"
               back == "snapshot_retentions"
               sets == {{"connector", "retention"}}
    <3>3. table.twins = Twins(back, sets)
      BY <2>6, TwinsAre
    <3>4. other.name = back => other.twins = Twins(name, sets)
      BY <3>1, TwinsAre
    <3>5. table.name = name /\ name # back
      BY <3>2
    <3> HIDE DEF name, back, sets
    <3> QED BY <3>3, <3>4, <3>5, TwinsLookBack
  <2>7. CASE table = SnapshotRetentions
    <3>1. other.name = "linear_retentions" => other = LinearRetentions
      BY <1>2, TablesAre DEF AppendOnlyTables, IsTable
    <3>2. table.name = "snapshot_retentions"
      BY <2>7, TablesAre DEF IsTable
    <3> DEFINE name == "snapshot_retentions"
               back == "linear_retentions"
               sets == {{"connector", "retention"}}
    <3>3. table.twins = Twins(back, sets)
      BY <2>7, TwinsAre
    <3>4. other.name = back => other.twins = Twins(name, sets)
      BY <3>1, TwinsAre
    <3>5. table.name = name /\ name # back
      BY <3>2
    <3> HIDE DEF name, back, sets
    <3> QED BY <3>3, <3>4, <3>5, TwinsLookBack
  <2> QED BY <2>1, <2>2, <2>3, <2>4, <2>5, <2>6, <2>7, TwinsAre
<1> QED BY <1>1, <1>2, <1>3 DEF AppendOnly

\* The triggers of the evidence tables of the gateway's store, but for the work budgets' plans, activations and audit events (which
\* can be rewritten): whatever rows of whichever of them are inserted, replaced and audited, what was written stays, an
\* audit entry says what its source says, what refers to a row repeats it, an identity stands once in a pair of tables, what
\* must agree agrees, and a row is refused only for one that it meets on a key.
THEOREM EvidenceIsSoundHolds ==
    ASSUME \A tables \in Families : tables \subseteq AppendOnlyTables
    PROVE  EvidenceSpec => EvidenceIsSound
BY TablesAreAppendOnly, AppendOnlyIsSound
================================================================================
