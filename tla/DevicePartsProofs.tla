-------------------------- MODULE DevicePartsProofs --------------------------
(***************************************************************************)
(* Parts of the device that share no state: the local history, the native  *)
(* path, the local coding probe, the acquisition of the local runtime and  *)
(* model, the observers of a streamed answer, and the app bridge.          *)
(***************************************************************************)
EXTENDS LocalHistory, NativeConversations, CodingProbe, LocalAcquisition, TerminalObserver, AppBridge,
        DataTheorems, SequenceTheorems, TLAPS

(***************************************************************************)
(* Local history: for any number of captures, actors and operations, and   *)
(* wherever an operation is cut off, what was under way when the user      *)
(* changed something is not stored.                                        *)
(*                                                                         *)
(* The property is not inductive: it rests on the generations, which only  *)
(* grow, so that a consent of before the change never compares equal       *)
(* again, and on an entry being stored only by a capture that has ended.   *)
(*                                                                         *)
(* And whatever is cut off, what is stored can be read again, and is no    *)
(* more than the limits.                                                   *)
(***************************************************************************)

\* Of a consent, and of the settings, only the generation matters.
GenerationTypes ==
    /\ drawn \in Nat
    /\ settings = Nobody \/ settings \in Settings
    /\ consent \in [Captures -> [gen : 0 .. MaxConsents, actor : HistoryActors] \cup {Nobody}]
    /\ progress \in [Captures -> {"new", "admitted", "captured", "done"}]
    /\ withdrawn \subseteq Captures /\ stored \subseteq Captures

\* Nobody has a generation that was not drawn, or newer than the settings'.
GenerationsGrow ==
    /\ State.gen <= drawn
    /\ \A c \in Captures : consent[c] # Nobody => consent[c].gen <= State.gen

\* What was withdrawn has a generation of before.
WithdrawnIsOld ==
    \A c \in withdrawn : consent[c] # Nobody /\ consent[c].gen < State.gen

\* An entry is stored at the end of its capture.
StoredIsDone ==
    \A c \in Captures : /\ c \in stored => progress[c] = "done"
                        /\ progress[c] = "new" => consent[c] = Nobody /\ c \notin withdrawn

GInv == /\ GenerationTypes /\ GenerationsGrow /\ WithdrawnIsOld /\ StoredIsDone
        /\ WithdrawnIsNotStored

LEMMA InitGInv == HistoryInit => GInv
  BY HistoryAssumption DEF HistoryInit, GInv, GenerationTypes, GenerationsGrow, WithdrawnIsOld,
     StoredIsDone, WithdrawnIsNotStored, State

LEMMA StateType == GenerationTypes => State \in Settings
  BY HistoryAssumption DEF GenerationTypes, State, Settings

\* What purging leaves was there before.
LEMMA PurgingShrinks == \A kept \in Purging : kept \subseteq stored
  BY DEF Purging

\* The user's change: a new generation is saved, whatever else got done.
LEMMA ChangeStep ==
    ASSUME GInv, DrawGeneration, UserOnly, settings' \in Settings, settings'.gen = drawn',
           withdrawn' = withdrawn \cup InFlight, stored' \subseteq stored
    PROVE  GInv'
<1>1. settings' # Nobody /\ State' = settings'
  BY SettingsAssumption DEF State, Settings
<1>2. drawn' \in Nat /\ drawn < drawn' /\ State.gen <= drawn /\ State.gen \in Nat
  BY StateType, HistoryAssumption DEF GInv, GenerationTypes, GenerationsGrow, DrawGeneration, Settings
<1>3. \A c \in Captures : consent[c] # Nobody => consent[c].gen \in Nat /\ consent[c].gen < State'.gen
  BY <1>1, <1>2, HistoryAssumption DEF GInv, GenerationTypes, GenerationsGrow
<1>4. GenerationTypes'
  BY <1>2 DEF GInv, GenerationTypes, UserOnly, InFlight
<1>5. GenerationsGrow'
  BY <1>1, <1>2, <1>3 DEF GenerationsGrow, UserOnly
<1>6. WithdrawnIsOld'
  BY <1>3 DEF GInv, GenerationTypes, WithdrawnIsOld, UserOnly, InFlight
<1>7. StoredIsDone' /\ WithdrawnIsNotStored'
  BY DEF GInv, StoredIsDone, WithdrawnIsNotStored, UserOnly, InFlight
<1> QED
  BY <1>4, <1>5, <1>6, <1>7 DEF GInv

\* Every step keeps the generations in order.
LEMMA NextGInv ==
    ASSUME GInv, [HistoryNext]_historyVars
    PROVE  GInv'
<1>1. ASSUME NEW a \in HistoryActors, EnableHistory(a)
      PROVE  GInv'
  <2>1. CASE UNCHANGED <<settings, stored, withdrawn>>
    <3>1. State' = State /\ drawn' \in Nat /\ drawn <= drawn'
      BY <1>1, <2>1 DEF EnableHistory, DrawGeneration, State, GInv, GenerationTypes
    <3>2. State.gen \in Nat
      BY StateType DEF GInv, Settings
    <3>3. GenerationTypes' /\ GenerationsGrow'
      BY <1>1, <2>1, <3>1, <3>2 DEF EnableHistory, UserOnly, GInv, GenerationTypes, GenerationsGrow
    <3> QED
      BY <1>1, <2>1, <3>1, <3>3 DEF EnableHistory, UserOnly, GInv, WithdrawnIsOld, StoredIsDone, WithdrawnIsNotStored
  <2>2. CASE ~UNCHANGED <<settings, stored, withdrawn>>
    <3>1. /\ settings' = [on |-> TRUE, actor |-> a, gen |-> drawn']
          /\ stored' \in Purging /\ withdrawn' = withdrawn \cup InFlight
          /\ DrawGeneration /\ UserOnly
      BY <1>1, <2>2 DEF EnableHistory
    <3>2. drawn' \in 0 .. MaxConsents
      BY <3>1, HistoryAssumption DEF DrawGeneration, GInv, GenerationTypes
    <3>3. settings' \in Settings /\ settings'.gen = drawn'
      BY <3>1, <3>2 DEF Settings
    <3> QED
      BY <3>1, <3>3, PurgingShrinks, ChangeStep
  <2> QED
    BY <2>1, <2>2
<1>2. ASSUME DisableHistory \/ DeleteHistory \/ \E c \in Captures : DeleteEntry(c)
      PROVE  GInv'
  <2>1. DrawGeneration /\ UserOnly /\ withdrawn' = withdrawn \cup InFlight
    BY <1>2 DEF DisableHistory, DeleteHistory, DeleteEntry
  <2>2. drawn' \in 0 .. MaxConsents
    BY <2>1, HistoryAssumption DEF DrawGeneration, GInv, GenerationTypes
  <2>3. settings' \in Settings /\ settings'.gen = drawn'
    BY <1>2, <2>2, StateType DEF DisableHistory, DeleteHistory, DeleteEntry, GInv, Settings
  <2>4. stored' \subseteq stored
    BY <1>2, PurgingShrinks DEF DisableHistory, DeleteHistory, DeleteEntry
  <2> QED
    BY <2>1, <2>3, <2>4, ChangeStep
<1>3. CASE ReviewHistory
  BY <1>3, PurgingShrinks DEF ReviewHistory, UserOnly, GInv, GenerationTypes, GenerationsGrow,
     WithdrawnIsOld, StoredIsDone, WithdrawnIsNotStored, State
<1>4. ASSUME NEW c \in Captures, TakeConsent(c)
      PROVE  GInv'
  <2>1. State' = State /\ UNCHANGED <<drawn, settings, withdrawn>> /\ stored' \subseteq stored
    BY <1>4, PurgingShrinks DEF TakeConsent, HandlerOnly, State
  <2>2. \/ consent' = consent
        \/ consent' = [consent EXCEPT ![c] = [gen |-> State.gen, actor |-> ActorOf[c]]]
    BY <1>4 DEF TakeConsent
  <2>3. State.gen \in 0 .. MaxConsents /\ ActorOf[c] \in HistoryActors
    BY StateType, HistoryAssumption DEF GInv, Settings
  <2>4. c \notin withdrawn /\ c \notin stored /\ progress' = [progress EXCEPT ![c] = "admitted"]
    BY <1>4 DEF TakeConsent, GInv, StoredIsDone
  <2>5. GenerationTypes'
    BY <2>1, <2>2, <2>3, <2>4 DEF GInv, GenerationTypes
  <2>6. GenerationsGrow'
    BY <2>1, <2>2, <2>3 DEF GInv, GenerationTypes, GenerationsGrow
  <2>7. WithdrawnIsOld'
    BY <2>1, <2>2, <2>4 DEF GInv, GenerationTypes, WithdrawnIsOld
  <2>8. StoredIsDone' /\ WithdrawnIsNotStored'
    BY <2>1, <2>2, <2>4 DEF GInv, GenerationTypes, StoredIsDone, WithdrawnIsNotStored
  <2> QED
    BY <2>5, <2>6, <2>7, <2>8 DEF GInv
<1>5. ASSUME NEW c \in Captures, BeginCapture(c)
      PROVE  GInv'
  <2>1. State' = State /\ UNCHANGED <<drawn, settings, withdrawn, stored, consent>>
    BY <1>5 DEF BeginCapture, HandlerOnly, State
  <2>2. /\ progress[c] = "admitted"
        /\ \/ progress' = [progress EXCEPT ![c] = "done"]
           \/ progress' = [progress EXCEPT ![c] = "captured"]
    BY <1>5 DEF BeginCapture
  <2>3. GenerationTypes' /\ GenerationsGrow' /\ WithdrawnIsOld'
    BY <2>1, <2>2 DEF GInv, GenerationTypes, GenerationsGrow, WithdrawnIsOld
  <2>4. StoredIsDone' /\ WithdrawnIsNotStored'
    BY <2>1, <2>2 DEF GInv, GenerationTypes, StoredIsDone, WithdrawnIsNotStored
  <2> QED
    BY <2>3, <2>4 DEF GInv
<1>6. ASSUME NEW c \in Captures, AppendEntry(c)
      PROVE  GInv'
  <2>1. State' = State /\ UNCHANGED <<drawn, settings, withdrawn, consent>>
    BY <1>6 DEF AppendEntry, HandlerOnly, State
  <2>2. progress[c] = "captured" /\ progress' = [progress EXCEPT ![c] = "done"]
    BY <1>6 DEF AppendEntry
  <2>3. stored' \subseteq stored \/ (Admits(c) /\ stored' \subseteq stored \cup {c})
    BY <1>6, PurgingShrinks DEF AppendEntry, MakeRoom, PartlyMade
  <2>4. Admits(c) => c \notin withdrawn
    <3>1. Admits(c) => consent[c].gen = State.gen
      BY DEF Admits
    <3>2. State.gen \in Nat
      BY StateType DEF GInv, Settings
    <3> QED
      BY <3>1, <3>2 DEF GInv, WithdrawnIsOld
  <2>5. GenerationTypes' /\ GenerationsGrow' /\ WithdrawnIsOld'
    BY <2>1, <2>2, <2>3 DEF GInv, GenerationTypes, GenerationsGrow, WithdrawnIsOld
  <2>6. StoredIsDone' /\ WithdrawnIsNotStored'
    BY <2>1, <2>2, <2>3, <2>4 DEF GInv, GenerationTypes, StoredIsDone, WithdrawnIsNotStored
  <2> QED
    BY <2>5, <2>6 DEF GInv
<1>7. CASE \E c \in Captures : OutliveRetention(c)
  BY <1>7 DEF OutliveRetention, HandlerOnly, GInv, GenerationTypes, GenerationsGrow,
     WithdrawnIsOld, StoredIsDone, WithdrawnIsNotStored, State
<1>8. CASE UNCHANGED historyVars
  BY <1>8 DEF historyVars, GInv, GenerationTypes, GenerationsGrow,
     WithdrawnIsOld, StoredIsDone, WithdrawnIsNotStored, State
<1> QED
  BY <1>1, <1>2, <1>3, <1>4, <1>5, <1>6, <1>7, <1>8 DEF HistoryNext

\* A capture that was under way when the user disabled, deleted, or enabled
\* history for somebody is never stored afterwards (the generation that begin
\* takes and append compares), wherever the change was cut off.
THEOREM WithdrawnIsNotStoredHolds == HistorySpec => []WithdrawnIsNotStored
<1>1. GInv => WithdrawnIsNotStored
  BY DEF GInv
<1> QED
  BY <1>1, InitGInv, NextGInv, PTL DEF HistorySpec

(***************************************************************************)
(* What is stored can be read.                                             *)
(***************************************************************************)

Readable == HistoryIsReadable /\ IsFiniteSet(stored)

LEMMA Lengths == \A c \in Captures : LengthOf[c] \in Nat
  BY HistoryAssumption

\* Fewer entries are no more than the limits.
LEMMA FewerFit ==
    ASSUME GenerationTypes, Readable, NEW kept \in SUBSET stored
    PROVE  /\ IsFiniteSet(kept)
           /\ Cardinality(kept) <= MaxHistory /\ TotalLength(kept) <= MaxHistoryBytes
<1>1. IsFiniteSet(stored) /\ IsFiniteSet(kept) /\ Cardinality(kept) <= Cardinality(stored)
  BY FS_Subset DEF Readable
<1>2. Cardinality(kept) \in Nat /\ Cardinality(stored) \in Nat
  BY <1>1, FS_CardinalityType
<1>3. \A c \in stored : LengthOf[c] \in Nat
  BY Lengths DEF GenerationTypes
<1>4. SumFunctionOnSet(LengthOf, kept) <= SumFunctionOnSet(LengthOf, stored)
  BY <1>1, <1>3, SumIsMonotone
<1>5. /\ SumFunctionOnSet(LengthOf, kept) \in Nat
      /\ SumFunctionOnSet(LengthOf, stored) \in Nat
  BY <1>1, <1>3, SumIsNat
<1>6. MaxHistory \in Nat /\ MaxHistoryBytes \in Nat
  BY HistoryAssumption
<1> QED
  BY <1>1, <1>2, <1>4, <1>5, <1>6 DEF Readable, HistoryIsReadable, TotalLength

\* A step that stores nothing, and neither loses the key nor saves settings without it.
LEMMA ShrinkReadable ==
    ASSUME GenerationTypes, Readable, stored' \subseteq stored,
           stored' # {} /\ settings # Nobody => settings' # Nobody,
           settings' # Nobody => deviceKey'
    PROVE  Readable'
<1>1. /\ IsFiniteSet(stored') /\ Cardinality(stored') <= MaxHistory
      /\ TotalLength(stored') <= MaxHistoryBytes
  BY FewerFit
<1>2. stored' # {} => settings' # Nobody
  BY DEF Readable, HistoryIsReadable
<1>3. TotalLength(stored)' = TotalLength(stored')
  BY DEF TotalLength
<1> QED
  BY <1>1, <1>2, <1>3 DEF Readable, HistoryIsReadable

\* An entry is stored where room was made for it, and only while history is on.
LEMMA AppendReadable ==
    ASSUME GInv, Readable, NEW c \in Captures, AppendEntry(c)
    PROVE  Readable'
<1>1. UNCHANGED <<settings, deviceKey>>
  BY DEF AppendEntry, HandlerOnly
<1>2. settings # Nobody => deviceKey
  BY DEF Readable, HistoryIsReadable
<1>3. CASE stored' \subseteq stored
  BY <1>1, <1>2, <1>3, ShrinkReadable DEF GInv
<1>4. ASSUME NEW most \in MakeRoom(stored \ outdated, c), stored' = most \cup {c}, Admits(c)
      PROVE  Readable'
  <2>1. most \in SUBSET stored /\ Accepts(most, c)
    BY <1>4 DEF MakeRoom
  <2>2. c \notin most
    BY <2>1 DEF GInv, StoredIsDone, AppendEntry
  <2>3. IsFiniteSet(most) /\ IsFiniteSet(stored') /\ Cardinality(stored') = Cardinality(most) + 1
    BY <1>4, <2>1, <2>2, FewerFit, FS_AddElement DEF GInv
  <2>4. \A d \in most \cup {c} : LengthOf[d] \in Nat
    BY <2>1, Lengths DEF GInv, GenerationTypes
  <2>5. SumFunctionOnSet(LengthOf, most \cup {c}) = LengthOf[c] + SumFunctionOnSet(LengthOf, most)
    BY <2>2, <2>3, <2>4, SumAdded
  <2>6. SumFunctionOnSet(LengthOf, most) \in Nat /\ LengthOf[c] \in Nat /\ Cardinality(most) \in Nat
    BY <2>3, <2>4, SumIsNat, FS_CardinalityType
  <2>7. Cardinality(stored') <= MaxHistory
    BY <2>1, <2>3, <2>6, HistoryAssumption DEF Accepts
  <2>8. SumFunctionOnSet(LengthOf, stored') <= MaxHistoryBytes
    BY <1>4, <2>1, <2>5, <2>6, HistoryAssumption DEF Accepts, TotalLength
  <2>9. settings # Nobody
    BY <1>4 DEF Admits, State
  <2> QED
    BY <1>1, <1>2, <2>3, <2>7, <2>8, <2>9 DEF Readable, HistoryIsReadable, TotalLength
<1> QED
  BY <1>3, <1>4, PurgingShrinks DEF AppendEntry, PartlyMade

LEMMA ReadableStep ==
    ASSUME GInv, Readable, [HistoryNext]_historyVars
    PROVE  Readable'
<1>0. (settings # Nobody => deviceKey) /\ GenerationTypes
  BY DEF Readable, HistoryIsReadable, GInv
<1>1. ASSUME NEW a \in HistoryActors, EnableHistory(a)
      PROVE  Readable'
  <2>1. stored' \subseteq stored /\ (deviceKey => deviceKey')
    <3>1. stored' \subseteq stored /\ deviceKey' \in {deviceKey, TRUE}
      BY <1>1, PurgingShrinks DEF EnableHistory
    <3>2. CASE deviceKey' = deviceKey
      BY <3>1, <3>2
    <3>3. CASE deviceKey' = TRUE
      BY <3>1, <3>3
    <3> QED
      BY <3>1, <3>2, <3>3
  <2>2. UNCHANGED settings \/ (settings' # Nobody /\ deviceKey')
    <3>1. drawn' \in 0 .. MaxConsents
      BY <1>1, HistoryAssumption DEF EnableHistory, DrawGeneration, GInv, GenerationTypes
    <3>2. [on |-> TRUE, actor |-> a, gen |-> drawn'] \in Settings
      BY <3>1 DEF Settings
    <3> QED
      BY <1>1, <3>2, SettingsAssumption DEF EnableHistory
  <2> QED
    BY <1>0, <2>1, <2>2, ShrinkReadable
<1>2. ASSUME DisableHistory \/ DeleteHistory \/ \E c \in Captures : DeleteEntry(c)
      PROVE  Readable'
  <2>1. deviceKey' /\ stored' \subseteq stored
    BY <1>2, PurgingShrinks DEF DisableHistory, DeleteHistory, DeleteEntry
  <2>2. settings' # Nobody
    <3>1. drawn' \in 0 .. MaxConsents
      BY <1>2, HistoryAssumption
         DEF DisableHistory, DeleteHistory, DeleteEntry, DrawGeneration, GInv, GenerationTypes
    <3>2. settings' \in Settings
      BY <1>0, <1>2, <3>1, StateType DEF DisableHistory, DeleteHistory, DeleteEntry, Settings
    <3> QED
      BY <3>2, SettingsAssumption
  <2> QED
    BY <1>0, <2>1, <2>2, ShrinkReadable
<1>3. CASE ReviewHistory
  BY <1>0, <1>3, PurgingShrinks, ShrinkReadable DEF ReviewHistory
<1>4. ASSUME NEW c \in Captures, TakeConsent(c) \/ BeginCapture(c) \/ OutliveRetention(c)
      PROVE  Readable'
  <2>1. UNCHANGED <<settings, deviceKey>> /\ stored' \subseteq stored
    BY <1>4, PurgingShrinks DEF TakeConsent, BeginCapture, OutliveRetention, HandlerOnly
  <2> QED
    BY <1>0, <2>1, ShrinkReadable
<1>5. ASSUME NEW c \in Captures, AppendEntry(c) PROVE Readable'
  BY <1>5, AppendReadable
<1>6. CASE UNCHANGED historyVars
  BY <1>0, <1>6, ShrinkReadable DEF historyVars
<1> QED
  BY <1>1, <1>2, <1>3, <1>4, <1>5, <1>6 DEF HistoryNext

\* _write_settings comes after the key, an entry after the settings, and append makes room
\* before it writes, so that _files never refuses a directory that append itself has filled,
\* and what was withdrawn is not among what it reads.
THEOREM HistoryIsSoundHolds == HistorySpec => []HistoryIsSound
<1>1. HistoryInit => Readable
  <2>1. SumFunctionOnSet(LengthOf, {}) = 0
    BY SumEmpty
  <2>2. IsFiniteSet({}) /\ Cardinality({}) = 0
    BY FS_EmptySet
  <2> QED
    BY <2>1, <2>2, HistoryAssumption DEF HistoryInit, Readable, HistoryIsReadable, TotalLength
<1>2. GInv /\ Readable /\ [HistoryNext]_historyVars => Readable'
  BY ReadableStep
<1>3. GInv /\ Readable => HistoryIsSound
  BY DEF GInv, Readable, HistoryIsSound
<1> QED
  BY <1>1, <1>2, <1>3, InitGInv, NextGInv, PTL DEF HistorySpec

(***************************************************************************)
(* Native conversations: whatever the bindings, requests, slots and the    *)
(* size of the memory are, a recognizable conversation has one provider    *)
(* attempt at a time.                                                      *)
(***************************************************************************)

\* The part of the type that control depends on.
PCTypes == native \in [Natives -> NativePCs] /\ carries \in [Natives -> Natives \cup {Fresh}]

\* Each attempt has its lease, and no two have the same.
LeasesAreTheirs ==
    /\ leases = {LeaseOf(r) : r \in {s \in Natives : HasAttempt(s)}}
    /\ \A r, s \in Natives : HasAttempt(r) /\ HasAttempt(s) /\ LeaseOf(r) = LeaseOf(s) => r = s

LInv == PCTypes /\ LeasesAreTheirs

LEMMA InitLInv == NativeInit => LInv
  BY NativeAssumption DEF NativeInit, LInv, PCTypes, LeasesAreTheirs, HasAttempt, NativePCs, Ending, Outcomes

\* A step that neither begins nor ends an attempt, and leaves what running
\* requests carry, leaves every lease with its attempt.
LEMMA QuietStep ==
    ASSUME LInv, PCTypes', leases' = leases,
           \A r \in Natives : HasAttempt(r)' = HasAttempt(r),
           \A r \in Natives : HasAttempt(r) => carries'[r] = carries[r]
    PROVE  LInv'
<1>1. \A r \in Natives : HasAttempt(r) => LeaseOf(r)' = LeaseOf(r)
  BY DEF LeaseOf
<1>2. {LeaseOf(r) : r \in {s \in Natives : HasAttempt(s)}}'
        = {LeaseOf(r) : r \in {s \in Natives : HasAttempt(s)}}
  BY <1>1
<1> QED
  BY <1>1, <1>2 DEF LInv, LeasesAreTheirs

\* Every step keeps the leases with their attempts.
LEMMA NextLInv ==
    ASSUME LInv, [NativeNext]_nativeVars
    PROVE  LInv'
<1> USE DEF PCTypes, NativePCs, Ending, Outcomes, NativeGoto, ReleaseSlot
<1>1. ASSUME NEW r \in Natives, AcceptNative(r) \/ PermitNative(r) \/ EndNative(r) \/ RememberAnswer(r)
      PROVE  LInv'
  <2>1. PCTypes'
    BY <1>1 DEF LInv, AcceptNative, PermitNative, EndNative, RememberAnswer
  <2>2. leases' = leases
    BY <1>1 DEF AcceptNative, PermitNative, EndNative, RememberAnswer
  <2>3. \A s \in Natives : HasAttempt(s)' = HasAttempt(s)
    BY <1>1 DEF LInv, AcceptNative, PermitNative, EndNative, RememberAnswer, HasAttempt
  <2>4. \A s \in Natives : HasAttempt(s) => carries'[s] = carries[s]
    BY <1>1 DEF LInv, AcceptNative, PermitNative, EndNative, RememberAnswer, HasAttempt
  <2> QED
    BY <2>1, <2>2, <2>3, <2>4, QuietStep
<1>2. ASSUME NEW r \in Natives, BeginNative(r), LeaseOf(r) \in leases
      PROVE  LInv'
  <2>1. PCTypes' /\ leases' = leases
    BY <1>2 DEF LInv, BeginNative
  <2>2. \A s \in Natives : HasAttempt(s)' = HasAttempt(s) /\ carries'[s] = carries[s]
    BY <1>2 DEF LInv, BeginNative, HasAttempt
  <2> QED
    BY <2>1, <2>2, QuietStep
<1>3. ASSUME NEW r \in Natives, BeginNative(r), LeaseOf(r) \notin leases
      PROVE  LInv'
  <2>1. PCTypes' /\ leases' = leases \cup {LeaseOf(r)}
    BY <1>3 DEF LInv, BeginNative
  <2>2. \A s \in Natives : LeaseOf(s)' = LeaseOf(s)
    BY <1>3 DEF BeginNative, LeaseOf
  <2>3. \A s \in Natives : HasAttempt(s)' <=> (HasAttempt(s) \/ s = r)
    BY <1>3 DEF LInv, BeginNative, HasAttempt
  <2>4. \A s \in Natives : HasAttempt(s) => LeaseOf(s) # LeaseOf(r)
    BY <1>3 DEF LInv, LeasesAreTheirs
  <2>5. leases' = {LeaseOf(s) : s \in {q \in Natives : HasAttempt(q)}}'
    BY <2>1, <2>2, <2>3 DEF LInv, LeasesAreTheirs
  <2>6. (\A p, s \in Natives : HasAttempt(p) /\ HasAttempt(s) /\ LeaseOf(p) = LeaseOf(s) => p = s)'
    BY <2>2, <2>3, <2>4 DEF LInv, LeasesAreTheirs
  <2> QED
    BY <2>1, <2>5, <2>6 DEF LInv, LeasesAreTheirs
<1>4. ASSUME NEW r \in Natives, FinishNative(r)
      PROVE  LInv'
  <2>1. PCTypes' /\ leases' = leases \ {LeaseOf(r)} /\ HasAttempt(r)
    BY <1>4 DEF LInv, FinishNative, HasAttempt
  <2>2. \A s \in Natives : LeaseOf(s)' = LeaseOf(s)
    BY <1>4 DEF FinishNative, LeaseOf
  <2>3. \A s \in Natives : HasAttempt(s)' <=> (HasAttempt(s) /\ s # r)
    BY <1>4 DEF LInv, FinishNative, HasAttempt
  <2>4. leases' = {LeaseOf(s) : s \in {q \in Natives : HasAttempt(q)}}'
    BY <2>1, <2>2, <2>3 DEF LInv, LeasesAreTheirs
  <2> QED
    BY <2>1, <2>2, <2>3, <2>4 DEF LInv, LeasesAreTheirs
<1>5. CASE ForgetOldest
  BY <1>5, QuietStep DEF ForgetOldest, LInv, HasAttempt
<1>6. CASE UNCHANGED nativeVars
  BY <1>6, QuietStep DEF nativeVars, LInv, HasAttempt
<1> QED
  BY <1>1, <1>2, <1>3, <1>4, <1>5, <1>6 DEF NativeNext

\* A conversation that can be recognized has one provider attempt at a time
\* (begin and finish, over every way an attempt ends).
THEOREM OneAttemptHolds == NativeSpec => []OneAttemptPerConversation
<1>1. LInv => OneAttemptPerConversation
  BY DEF LInv, LeasesAreTheirs, OneAttemptPerConversation, LeaseOf
<1> QED
  BY <1>1, InitLInv, NextLInv, PTL DEF NativeSpec

(***************************************************************************)
(* Slots, counts and what is remembered.                                   *)
(***************************************************************************)

Running == {r \in Natives : native[r] \notin {"new", "done"}}
Attempting == {r \in Natives : HasAttempt(r)}

Counted ==
    /\ tally \in [{"requests", "active"} \cup Outcomes -> Nat]
    /\ IsFiniteSet(Running) /\ slots = Cardinality(Running)
    /\ tally["active"] = Cardinality(Attempting)
    /\ tally["requests"] = tally["active"] + tally["succeeded"] + tally["failed"]
                               + tally["outcome_unknown"]

Key == [answer : Natives, binding : Bindings, old : BOOLEAN]

\* What is remembered was completed for its binding, and so was what a request that is permitted
\* carries, which may have been forgotten since.
Answered(answer, binding) ==
    BindingOf[answer] = binding /\ native[answer] \in {"succeeded", "done"}

Own ==
    /\ affinity \in Seq(Key) /\ Len(affinity) <= MaxAffinity
    /\ \A i \in DOMAIN affinity : Answered(affinity[i].answer, affinity[i].binding)
    /\ \A r \in Natives : (HasAttempt(r) \/ native[r] = "permitted") /\ carries[r] # Fresh =>
          Answered(carries[r], BindingOf[r])

\* How the sets of handlers that hold a slot, and of those with an attempt, follow one handler.
LEMMA OneMoves ==
    ASSUME PCTypes, NEW r \in Natives, NEW label \in NativePCs,
           native' = [native EXCEPT ![r] = label]
    PROVE  /\ Running' = IF label \in {"new", "done"} THEN Running \ {r} ELSE Running \cup {r}
           /\ Attempting' = IF label \in {"active"} \cup Ending THEN Attempting \cup {r}
                            ELSE Attempting \ {r}
           /\ Attempting \subseteq Running
<1>1. /\ native'[r] = label /\ \A s \in Natives \ {r} : native'[s] = native[s]
  BY DEF PCTypes
<1>2. Running' = IF label \in {"new", "done"} THEN Running \ {r} ELSE Running \cup {r}
  BY <1>1 DEF Running
<1>3. Attempting' = IF label \in {"active"} \cup Ending THEN Attempting \cup {r}
                    ELSE Attempting \ {r}
  BY <1>1 DEF Attempting, HasAttempt
<1>4. Attempting \subseteq Running
  BY DEF Attempting, Running, HasAttempt, Ending, Outcomes
<1> QED
  BY <1>2, <1>3, <1>4

\* One more and one less.
LEMMA CountsFollow ==
    ASSUME Counted, PCTypes, NEW r \in Natives
    PROVE  /\ IsFiniteSet(Running \ {r}) /\ IsFiniteSet(Running \cup {r})
           /\ IsFiniteSet(Attempting)
           /\ Cardinality(Running) \in Nat /\ Cardinality(Attempting) \in Nat
           /\ r \in Running => /\ Cardinality(Running \ {r}) = Cardinality(Running) - 1
                               /\ Running \cup {r} = Running
           /\ r \notin Running => /\ Cardinality(Running \cup {r}) = Cardinality(Running) + 1
                                  /\ Running \ {r} = Running
           /\ r \in Attempting => /\ Cardinality(Attempting \ {r}) = Cardinality(Attempting) - 1
                                  /\ Attempting \cup {r} = Attempting
           /\ r \notin Attempting => /\ Cardinality(Attempting \cup {r}) = Cardinality(Attempting) + 1
                                     /\ Attempting \ {r} = Attempting
<1>1. Attempting \subseteq Running
  BY DEF Attempting, Running, HasAttempt, Ending, Outcomes
<1>2. IsFiniteSet(Running) /\ IsFiniteSet(Attempting)
  BY <1>1, FS_Subset DEF Counted
<1>3. Cardinality(Running) \in Nat /\ Cardinality(Attempting) \in Nat
  BY <1>2, FS_CardinalityType
<1>4. IsFiniteSet(Running \ {r}) /\ IsFiniteSet(Running \cup {r})
  BY <1>2, FS_AddElement, FS_RemoveElement
<1>5. ASSUME NEW S, IsFiniteSet(S), r \in S
      PROVE  Cardinality(S \ {r}) = Cardinality(S) - 1 /\ S \cup {r} = S
  BY <1>5, FS_RemoveElement
<1>6. ASSUME NEW S, IsFiniteSet(S), r \notin S
      PROVE  Cardinality(S \cup {r}) = Cardinality(S) + 1 /\ S \ {r} = S
  BY <1>6, FS_AddElement
<1> QED
  BY <1>2, <1>3, <1>4, <1>5, <1>6

\* The counters are numbers, and an attempt is counted.
LEMMA CountsAreNat ==
    ASSUME Counted, PCTypes
    PROVE  /\ slots \in Nat /\ \A c \in {"requests", "active"} \cup Outcomes : tally[c] \in Nat
           /\ \A r \in Attempting : tally["active"] # 0
<1>1. Cardinality(Running) \in Nat
  BY FS_CardinalityType DEF Counted
<1>2. ASSUME NEW r \in Attempting
      PROVE  Cardinality(Attempting) # 0
  <2>1. IsFiniteSet(Attempting)
    BY CountsFollow DEF Attempting
  <2> QED
    BY <2>1, FS_EmptySet
<1> QED
  BY <1>1, <1>2 DEF Counted

LEMMA CountedStep ==
    ASSUME LInv, Counted, [NativeNext]_nativeVars
    PROVE  Counted'
<1> USE DEF NativePCs, Ending, Outcomes, NativeGoto, LInv
<1>1. ASSUME NEW r \in Natives, native[r] \in Ending \cup {"new", "read", "permitted", "active"},
             slots' = slots, tally' = tally, NEW label \in NativePCs,
             native' = [native EXCEPT ![r] = label],
             label \in {"new", "done"} <=> native[r] = "new",
             HasAttempt(r) <=> label \in {"active"} \cup Ending
      PROVE  Counted'
  <2>1. Running' = Running
    BY <1>1, OneMoves, CountsFollow, ZenonT(60) DEF Running
  <2>2. Attempting' = Attempting
    BY <1>1, OneMoves, CountsFollow, ZenonT(60) DEF Attempting
  <2> QED
    BY <1>1, <2>1, <2>2 DEF Counted
<1>2. ASSUME NEW r \in Natives, AcceptNative(r)
      PROVE  Counted'
  <2>1. CASE slots' = slots + 1
    <3>1. native[r] = "new" /\ native' = [native EXCEPT ![r] = "read"] /\ tally' = tally
      BY <1>2, <2>1 DEF AcceptNative, Counted, PCTypes
    <3>2. Running' = Running \cup {r} /\ r \notin Running
      BY <3>1, OneMoves DEF Running
    <3>3. Attempting' = Attempting
      <4>1. r \notin Attempting
        BY <3>1 DEF Attempting, HasAttempt
      <4>2. Attempting' = Attempting \ {r}
        BY <3>1, OneMoves
      <4> QED
        BY <4>1, <4>2
    <3> QED
      BY <2>1, <3>1, <3>2, <3>3, CountsFollow DEF Counted
  <2>2. CASE slots' = slots
    <3>1. native[r] = "new" /\ native' = [native EXCEPT ![r] = "done"] /\ tally' = tally
      BY <1>2, <2>2, CountsAreNat DEF AcceptNative
    <3> QED
      BY <1>1, <2>2, <3>1 DEF HasAttempt
  <2> QED
    BY <1>2, <2>1, <2>2 DEF AcceptNative
<1>3. ASSUME NEW r \in Natives, native[r] \in {"read", "permitted"}, ReleaseSlot(r), tally' = tally
      PROVE  Counted'
  <2>1. Running' = Running \ {r} /\ r \in Running
    BY <1>3, OneMoves DEF ReleaseSlot, Running
  <2>2. Attempting' = Attempting
    BY <1>3, OneMoves DEF ReleaseSlot, Attempting, HasAttempt
  <2> QED
    BY <1>3, <2>1, <2>2, CountsFollow DEF Counted, ReleaseSlot
<1>4. ASSUME NEW r \in Natives, PermitNative(r)
      PROVE  Counted'
  <2>1. CASE ReleaseSlot(r)
    BY <1>3, <1>4, <2>1 DEF PermitNative
  <2>2. CASE native' = [native EXCEPT ![r] = "permitted"] /\ slots' = slots
    BY <1>1, <1>4, <2>2 DEF PermitNative, HasAttempt
  <2> QED
    BY <1>4, <2>1, <2>2 DEF PermitNative
<1>5. ASSUME NEW r \in Natives, BeginNative(r)
      PROVE  Counted'
  <2>1. CASE LeaseOf(r) \in leases
    BY <1>3, <1>5, <2>1 DEF BeginNative
  <2>2. CASE LeaseOf(r) \notin leases
    <3>1. /\ native[r] = "permitted" /\ native' = [native EXCEPT ![r] = "active"] /\ slots' = slots
          /\ tally' = [tally EXCEPT !["requests"] = @ + 1, !["active"] = @ + 1]
      BY <1>5, <2>2 DEF BeginNative
    <3>2. Running' = Running
      BY <3>1, OneMoves, CountsFollow DEF Running
    <3>3. Attempting' = Attempting \cup {r} /\ r \notin Attempting
      BY <3>1, OneMoves DEF Attempting, HasAttempt
    <3>4. /\ tally' \in [{"requests", "active"} \cup Outcomes -> Nat]
          /\ tally'["requests"] = tally["requests"] + 1 /\ tally'["active"] = tally["active"] + 1
          /\ \A o \in Outcomes : tally'[o] = tally[o]
      BY <3>1 DEF Counted
    <3>5. tally'["active"] = Cardinality(Attempting')
      BY <3>3, <3>4, CountsFollow DEF Counted
    <3>6. tally'["requests"] = tally'["active"] + tally'["succeeded"] + tally'["failed"]
                                 + tally'["outcome_unknown"]
      BY <3>4, CountsAreNat DEF Counted
    <3> QED
      BY <3>1, <3>2, <3>4, <3>5, <3>6 DEF Counted
  <2> QED
    BY <2>1, <2>2
<1>6. ASSUME NEW r \in Natives, EndNative(r) \/ RememberAnswer(r)
      PROVE  Counted'
  <2>1. PICK label \in {"completed", "failed", "outcome_unknown", "succeeded"} :
           native' = [native EXCEPT ![r] = label]
    BY <1>6 DEF EndNative, RememberAnswer
  <2>2. native[r] \in {"active", "completed"} /\ slots' = slots /\ tally' = tally
    BY <1>6 DEF EndNative, RememberAnswer
  <2> QED
    BY <1>1, <2>1, <2>2 DEF HasAttempt
<1>7. ASSUME NEW r \in Natives, FinishNative(r)
      PROVE  Counted'
  <2>1. /\ native[r] \in Outcomes /\ native' = [native EXCEPT ![r] = "done"] /\ slots' = slots - 1
        /\ tally' = [tally EXCEPT !["active"] = @ - 1, ![native[r]] = @ + 1]
    BY <1>7 DEF FinishNative, ReleaseSlot
  <2>2. Running' = Running \ {r} /\ r \in Running
    BY <2>1, OneMoves DEF Running
  <2>3. Attempting' = Attempting \ {r} /\ r \in Attempting
    BY <2>1, OneMoves DEF Attempting, HasAttempt
  <2>4. /\ tally["active"] \in Nat /\ tally["active"] # 0 /\ r \in Attempting
        /\ \A c \in {"requests", "active"} \cup Outcomes : tally[c] \in Nat
    BY <2>3, CountsAreNat
  <2>5. /\ tally' \in [{"requests", "active"} \cup Outcomes -> Nat]
        /\ tally'["active"] = tally["active"] - 1 /\ tally'["requests"] = tally["requests"]
        /\ tally'[native[r]] = tally[native[r]] + 1
        /\ \A o \in Outcomes \ {native[r]} : tally'[o] = tally[o]
    BY <2>1, <2>4 DEF Counted
  <2>6. tally'["active"] = Cardinality(Attempting')
    BY <2>3, <2>5, CountsFollow DEF Counted
  <2>7. tally'["requests"] = tally'["active"] + tally'["succeeded"] + tally'["failed"]
                               + tally'["outcome_unknown"]
    <3>1. CASE native[r] = "succeeded"
      BY <2>4, <2>5, <3>1 DEF Counted
    <3>2. CASE native[r] = "failed"
      BY <2>4, <2>5, <3>2 DEF Counted
    <3>3. CASE native[r] = "outcome_unknown"
      BY <2>4, <2>5, <3>3 DEF Counted
    <3> QED
      BY <2>1, <3>1, <3>2, <3>3
  <2>8. IsFiniteSet(Running') /\ slots' = Cardinality(Running')
    BY <2>1, <2>2, CountsFollow DEF Counted
  <2> QED
    BY <2>5, <2>6, <2>7, <2>8 DEF Counted
<1>8. CASE ForgetOldest \/ UNCHANGED nativeVars
  BY <1>8 DEF ForgetOldest, nativeVars, Counted, Running, Attempting, HasAttempt
<1> QED
  BY <1>2, <1>4, <1>5, <1>6, <1>7, <1>8 DEF NativeNext

LEMMA KeysAre ==
    ASSUME Own
    PROVE  \A i \in DOMAIN affinity : affinity[i] \in Key /\ affinity[i].answer \in Natives
<1>1. \A i \in DOMAIN affinity : affinity[i] \in Key
  BY DEF Own
<1> QED
  BY <1>1 DEF Key

\* What is remembered next: the old keys that are left, and the new one.
LEMMA RememberedIs ==
    ASSUME Own, NEW key \in Key
    PROVE  /\ Remembered(key) \in Seq(Key) /\ Len(Remembered(key)) <= MaxAffinity
           /\ \A i \in DOMAIN Remembered(key) :
                 Remembered(key)[i] = key \/ \E k \in DOMAIN affinity : Remembered(key)[i] = affinity[k]
<1> DEFINE places == {i \in DOMAIN affinity : ~affinity[i].old /\ affinity[i].answer # key.answer}
           alive  == Alive(key)
           keys   == Append(alive, key)
<1>1. /\ alive \in Seq(Key) /\ Len(alive) <= Len(affinity)
      /\ \A n \in DOMAIN alive : \E i \in places : alive[n] = affinity[i]
  <2>1. affinity \in Seq(Key) /\ places \in SUBSET DOMAIN affinity
    BY DEF Own
  <2>2. alive = SubsequenceAt(affinity, places)
    BY DEF Alive
  <2> HIDE DEF places
  <2>3. /\ SubsequenceAt(affinity, places) \in Seq(Key)
        /\ Len(SubsequenceAt(affinity, places)) <= Len(affinity)
        /\ \A n \in DOMAIN SubsequenceAt(affinity, places) :
               \E i \in places : SubsequenceAt(affinity, places)[n] = affinity[i]
    BY <2>1, SubsequenceIs
  <2> QED
    BY <2>2, <2>3
<1> HIDE DEF alive
<1>2. /\ keys \in Seq(Key) /\ Len(keys) = Len(alive) + 1
      /\ \A n \in DOMAIN keys : keys[n] = key \/ \E i \in DOMAIN affinity : keys[n] = affinity[i]
  BY <1>1
<1> HIDE DEF keys
<1>3. Len(affinity) <= MaxAffinity /\ Len(affinity) \in Nat /\ Len(alive) \in Nat /\ MaxAffinity \in Nat
  BY <1>1, NativeAssumption DEF Own
<1>4. Remembered(key) = IF Len(keys) > MaxAffinity THEN Tail(keys) ELSE keys
  BY DEF Remembered, keys, alive
<1>5. CASE Len(keys) > MaxAffinity
  <2>1. /\ Tail(keys) \in Seq(Key) /\ Len(Tail(keys)) = Len(keys) - 1
        /\ \A i \in DOMAIN Tail(keys) : i + 1 \in DOMAIN keys /\ Tail(keys)[i] = keys[i + 1]
    BY <1>2, <1>3
  <2> QED
    BY <1>1, <1>2, <1>3, <1>4, <1>5, <2>1
<1>6. CASE ~(Len(keys) > MaxAffinity)
  BY <1>2, <1>3, <1>4, <1>6
<1> QED
  BY <1>5, <1>6

LEMMA OwnStep ==
    ASSUME LInv, Own, [NativeNext]_nativeVars
    PROVE  Own'
<1> USE DEF NativePCs, Ending, Outcomes, NativeGoto, LInv, PCTypes
<1>1. ASSUME affinity' = affinity,
             \A r \in Natives : native[r] \in {"succeeded", "done"} => native'[r] \in {"succeeded", "done"},
             \A r \in Natives : HasAttempt(r)' \/ native'[r] = "permitted" =>
                /\ HasAttempt(r) \/ native[r] = "permitted" \/ (native[r] = "read" /\ IsRetained(r))
                /\ carries'[r] = carries[r]
      PROVE  Own'
  <2>1. \A answer \in Natives : \A binding : Answered(answer, binding) => Answered(answer, binding)'
    BY <1>1 DEF Answered
  <2>2. \A i \in DOMAIN affinity : affinity[i].answer \in Natives
    BY KeysAre
  <2>3. \A i \in DOMAIN affinity' : Answered(affinity[i].answer, affinity[i].binding)'
    BY <1>1, <2>1, <2>2 DEF Own
  <2>4. ASSUME NEW r \in Natives, HasAttempt(r)' \/ native'[r] = "permitted", carries'[r] # Fresh
        PROVE  Answered(carries[r], BindingOf[r])'
    <3>1. carries[r] \in Natives /\ carries'[r] = carries[r] /\ carries[r] # Fresh
      BY <1>1, <2>4
    <3>2. Answered(carries[r], BindingOf[r])
      <4>1. CASE HasAttempt(r) \/ native[r] = "permitted"
        BY <3>1, <4>1 DEF Own
      <4>2. CASE IsRetained(r)
        <5>1. PICK i \in DOMAIN affinity : affinity[i] = [answer |-> carries[r],
                                                 binding |-> BindingOf[r], old |-> FALSE]
          BY <3>1, <4>2 DEF IsRetained
        <5>2. affinity[i].answer = carries[r] /\ affinity[i].binding = BindingOf[r]
          BY <5>1
        <5> QED
          BY <5>2 DEF Own
      <4> QED
        BY <1>1, <2>4, <4>1, <4>2
    <3> QED
      BY <2>1, <3>1, <3>2 DEF Answered
  <2> QED
    BY <1>1, <2>3, <2>4 DEF Own
<1>2. ASSUME NEW r \in Natives, AcceptNative(r) \/ PermitNative(r) \/ BeginNative(r) \/ EndNative(r)
                                 \/ FinishNative(r)
      PROVE  Own'
  <2>1. affinity' = affinity
    BY <1>2 DEF AcceptNative, PermitNative, BeginNative, EndNative, FinishNative
  <2>2. \A s \in Natives \ {r} : native'[s] = native[s] /\ carries'[s] = carries[s]
    BY <1>2 DEF AcceptNative, PermitNative, BeginNative, EndNative, FinishNative, ReleaseSlot
  <2>3. native[r] \in {"succeeded", "done"} => native'[r] \in {"succeeded", "done"}
    BY <1>2 DEF AcceptNative, PermitNative, BeginNative, EndNative, FinishNative, ReleaseSlot
  <2>4. HasAttempt(r)' \/ native'[r] = "permitted" =>
            /\ HasAttempt(r) \/ native[r] = "permitted" \/ (native[r] = "read" /\ IsRetained(r))
            /\ carries'[r] = carries[r]
    <3>1. CASE AcceptNative(r)
      BY <3>1 DEF AcceptNative, HasAttempt
    <3>2. CASE PermitNative(r)
      BY <3>2 DEF PermitNative, ReleaseSlot, HasAttempt
    <3>3. CASE BeginNative(r)
      BY <3>3 DEF BeginNative, ReleaseSlot, HasAttempt
    <3>4. CASE EndNative(r) \/ FinishNative(r)
      BY <3>4 DEF EndNative, FinishNative, ReleaseSlot, HasAttempt
    <3> QED
      BY <1>2, <3>1, <3>2, <3>3, <3>4
  <2> QED
    BY <1>1, <2>1, <2>2, <2>3, <2>4 DEF HasAttempt
<1>3. CASE UNCHANGED nativeVars
  BY <1>1, <1>3 DEF nativeVars, HasAttempt
<1>4. ASSUME NEW r \in Natives, RememberAnswer(r)
      PROVE  Own'
  <2> DEFINE key == [answer |-> r, binding |-> BindingOf[r], old |-> FALSE]
  <2>1. key \in Key /\ key.answer = r /\ key.binding = BindingOf[r]
    BY NativeAssumption DEF Key
  <2>2. affinity' \in {affinity, Remembered(key)}
    BY <1>4 DEF RememberAnswer
  <2> HIDE DEF key
  <2>3. /\ native[r] = "completed" /\ native' = [native EXCEPT ![r] = "succeeded"]
        /\ carries' = carries
    BY <1>4 DEF RememberAnswer
  <2>4. \A answer \in Natives : \A binding : Answered(answer, binding) => Answered(answer, binding)'
    BY <2>3 DEF Answered
  <2>5. Answered(r, BindingOf[r])'
    BY <2>3 DEF Answered
  <2>6. /\ affinity' \in Seq(Key) /\ Len(affinity') <= MaxAffinity
        /\ \A i \in DOMAIN affinity' :
              affinity'[i] = key \/ \E k \in DOMAIN affinity : affinity'[i] = affinity[k]
    <3>1. CASE affinity' = affinity
      BY <3>1 DEF Own
    <3>2. CASE affinity' = Remembered(key)
      BY <2>1, <3>2, RememberedIs
    <3> QED
      BY <2>2, <3>1, <3>2
  <2>7. \A k \in DOMAIN affinity : /\ BindingOf[affinity[k].answer] = affinity[k].binding
                                   /\ native'[affinity[k].answer] \in {"succeeded", "done"}
    BY <2>4, KeysAre DEF Own, Answered
  <2>8. ASSUME NEW i \in DOMAIN affinity'
        PROVE  Answered(affinity[i].answer, affinity[i].binding)'
    <3>1. CASE affinity'[i] = key
      BY <2>1, <2>5, <3>1 DEF Answered
    <3>2. ASSUME NEW k \in DOMAIN affinity, affinity'[i] = affinity[k]
          PROVE  Answered(affinity[i].answer, affinity[i].binding)'
      BY <2>7, <3>2 DEF Answered
    <3> QED
      BY <2>6, <3>1, <3>2
  <2>9. ASSUME NEW s \in Natives, HasAttempt(s)' \/ native'[s] = "permitted", carries'[s] # Fresh
        PROVE  Answered(carries[s], BindingOf[s])'
    <3>1. HasAttempt(s) \/ native[s] = "permitted"
      BY <2>3, <2>9 DEF HasAttempt
    <3>2. carries[s] \in Natives /\ Answered(carries[s], BindingOf[s])
      BY <2>3, <2>9, <3>1 DEF Own
    <3> QED
      BY <2>3, <2>4, <3>2 DEF Answered
  <2> QED
    BY <2>6, <2>8, <2>9 DEF Own
<1>5. CASE ForgetOldest
  <2>1. PICK i \in DOMAIN affinity : affinity' = [affinity EXCEPT ![i].old = TRUE]
    BY <1>5 DEF ForgetOldest
  <2>2. native' = native /\ carries' = carries
    BY <1>5 DEF ForgetOldest
  <2> DEFINE older == [affinity[i] EXCEPT !.old = TRUE]
  <2>3. /\ older \in Key /\ older.answer = affinity[i].answer
        /\ older.binding = affinity[i].binding
    BY KeysAre DEF Key
  <2>4. affinity' = [affinity EXCEPT ![i] = older]
    BY <2>1
  <2> HIDE DEF older
  <2>5. /\ affinity' \in Seq(Key) /\ Len(affinity') = Len(affinity)
        /\ DOMAIN affinity' = DOMAIN affinity
        /\ \A k \in DOMAIN affinity : /\ affinity'[k].answer = affinity[k].answer
                                      /\ affinity'[k].binding = affinity[k].binding
    BY <2>3, <2>4 DEF Own
  <2> QED
    BY <2>2, <2>5 DEF Own, Answered, HasAttempt
<1> QED
  BY <1>2, <1>3, <1>4, <1>5 DEF NativeNext

\* However a request ends, its slot, its lease and its count end with it; and what is sent on
\* continues an answer that was completed for the same identity, credential, destination, model
\* and session, out of a memory that stays within its bound.
THEOREM NativeIsSoundHolds == NativeSpec => []NativeIsSound
<1>1. NativeInit => LInv /\ Counted /\ Own
  <2>1. ASSUME NativeInit
        PROVE  Counted /\ Own
    <3>1. Running = {} /\ Attempting = {} /\ affinity = <<>> /\ \A r \in Natives : carries[r] = Fresh
      BY <2>1 DEF NativeInit, Running, Attempting, HasAttempt, Ending, Outcomes
    <3>2. Own
      BY <3>1, NativeAssumption DEF Own
    <3>3. Counted
      BY <2>1, <3>1, FS_EmptySet DEF NativeInit, Counted, Outcomes
    <3> QED
      BY <3>2, <3>3
  <2> QED
    BY <2>1, InitLInv
<1>2. LInv /\ Counted /\ Own => NativeIsSound
  <2> SUFFICES ASSUME LInv, Counted, Own
               PROVE  NativeIsSound
    OBVIOUS
  <2>1. NothingIsLeaked
    BY DEF LInv, LeasesAreTheirs, Counted, NothingIsLeaked, Running, Attempting
  <2>2. ContinuesItsOwn
    BY DEF Own, Answered, ContinuesItsOwn
  <2> QED
    BY <2>1, <2>2 DEF NativeIsSound
<1>3. LInv /\ Counted /\ Own /\ [NativeNext]_nativeVars => LInv' /\ Counted' /\ Own'
  BY NextLInv, CountedStep, OwnStep
<1> QED
  BY <1>1, <1>2, <1>3, PTL DEF NativeSpec

(***************************************************************************)
(* The coding probe: for any requests, conversations and inputs, and       *)
(* however claims interleave with plans that end and are replaced, a plan  *)
(* gets so many claims, in one conversation.                               *)
(***************************************************************************)

\* A prefix, place by place.
LEMMA PrefixIs ==
    ASSUME NEW S, NEW s \in Seq(S), NEW T, NEW t \in Seq(T)
    PROVE  IsPrefix(s, t) <=> Len(s) <= Len(t) /\ \A i \in DOMAIN s : s[i] = t[i]
<1>1. CASE Len(s) <= Len(t)
  <2>1. /\ Len(s) \in Nat /\ DOMAIN s = 1 .. Len(s)
        /\ DOMAIN SubSeq(s, 1, Len(s)) = 1 .. Len(s) /\ DOMAIN SubSeq(t, 1, Len(s)) = 1 .. Len(s)
        /\ \A i \in 1 .. Len(s) : SubSeq(s, 1, Len(s))[i] = s[i] /\ SubSeq(t, 1, Len(s))[i] = t[i]
    BY <1>1
  <2>2. SubSeq(s, 1, Len(s)) = [i \in 1 .. Len(s) |-> SubSeq(s, 1, Len(s))[i]]
        /\ SubSeq(t, 1, Len(s)) = [i \in 1 .. Len(s) |-> SubSeq(t, 1, Len(s))[i]]
    BY <1>1
  <2>3. SubSeq(s, 1, Len(s)) = SubSeq(t, 1, Len(s)) <=> \A i \in 1 .. Len(s) : s[i] = t[i]
    BY <2>1, <2>2
  <2> QED
    BY <1>1, <2>1, <2>3 DEF IsPrefix
<1>2. CASE ~(Len(s) <= Len(t))
  BY <1>2 DEF IsPrefix
<1> QED
  BY <1>1, <1>2

LEMMA StrictPrefixIs ==
    ASSUME NEW S, NEW s \in Seq(S), NEW T, NEW t \in Seq(T)
    PROVE  IsStrictPrefix(s, t) <=> Len(s) < Len(t) /\ \A i \in DOMAIN s : s[i] = t[i]
<1>1. IsPrefix(s, t) <=> Len(s) <= Len(t) /\ \A i \in DOMAIN s : s[i] = t[i]
  BY PrefixIs
<1>2. Len(s) \in Nat /\ Len(t) \in Nat /\ DOMAIN s = 1 .. Len(s) /\ DOMAIN t = 1 .. Len(t)
      /\ s = [i \in 1 .. Len(s) |-> s[i]] /\ t = [i \in 1 .. Len(t) |-> t[i]]
  OBVIOUS
<1>3. Len(s) = Len(t) /\ (\A i \in DOMAIN s : s[i] = t[i]) => s = t
  BY <1>2
<1> DEFINE m == Len(s)
           n == Len(t)
<1>4. s = t => m = n
  OBVIOUS
<1>5. m \in Nat /\ n \in Nat
  OBVIOUS
<1> HIDE DEF m, n
<1>6. /\ s = t => ~(m < n)
      /\ m <= n /\ ~(m < n) => m = n
      /\ m < n => m <= n
  BY <1>4, <1>5
<1> QED
  BY <1>1, <1>3, <1>6, Zenon DEF IsStrictPrefix, m, n

LEMMA InputIs == ASSUME NEW value \in Inputs PROVE value \in Seq(Range(value))
  BY ProbeAssumption

LEMMA PrefixIsTransitive ==
    ASSUME NEW a \in Inputs, NEW b \in Inputs, NEW c \in Inputs,
           IsStrictPrefix(a, b), IsStrictPrefix(b, c)
    PROVE  IsStrictPrefix(a, c)
<1>1. a \in Seq(Range(a)) /\ b \in Seq(Range(b)) /\ c \in Seq(Range(c))
  BY InputIs
<1>2. /\ Len(a) < Len(b) /\ \A i \in DOMAIN a : a[i] = b[i]
      /\ Len(b) < Len(c) /\ \A i \in DOMAIN b : b[i] = c[i]
  BY <1>1, StrictPrefixIs
<1>3. /\ Len(a) \in Nat /\ Len(b) \in Nat /\ Len(c) \in Nat
      /\ DOMAIN a = 1 .. Len(a) /\ DOMAIN b = 1 .. Len(b)
  BY <1>1
<1>4. Len(a) < Len(c) /\ \A i \in DOMAIN a : a[i] = c[i]
  BY <1>2, <1>3
<1> QED
  BY <1>1, <1>4, StrictPrefixIs

ClaimsOf(n) == {r \in Probes : Claimed(r) /\ says[r] = n}

ProbeTypes ==
    /\ plan \in Nat /\ count \in Nat /\ count <= MaxRequests
    /\ probe \in [Probes -> ProbePCs] /\ says \in [Probes -> Nat]
    /\ input \in [Probes -> Inputs] /\ claim \in [Probes -> Nat]

\* A claim comes after the request has named a plan that was armed.
ClaimsComeLate ==
    \A r \in Probes : Claimed(r) => says[r] <= plan /\ probe[r] \in {"claimed", "leased", "sent", "done"}

\* The claims of the plan in place: each has a place of its own, up to the count, and the last
\* one continues the others.
ClaimsOfThePlan ==
    /\ IsFiniteSet(ClaimsOf(plan)) /\ Cardinality(ClaimsOf(plan)) = count
    /\ \A r \in ClaimsOf(plan) : claim[r] <= count /\ ThreadOf[r] = job
    /\ \A r \in ClaimsOf(plan) : input[r] = last \/ (claim[r] < count /\ IsStrictPrefix(input[r], last))
    /\ count = 0 <=> job = NoThread
    /\ count # 0 => last \in Inputs

ProbeInv ==
    /\ ProbeTypes /\ ClaimsComeLate /\ ClaimsOfThePlan
    /\ PlanIsKept

Late == {"claimed", "leased", "sent", "done"}

\* A step that claims nothing and arms nothing.
LEMMA ClaimsStay ==
    ASSUME ProbeInv, ProbeTypes', UNCHANGED <<plan, count, job, last, claim>>,
           \A r \in Probes : Claimed(r) => says'[r] = says[r] /\ input'[r] = input[r] /\ probe'[r] \in Late
    PROVE  ProbeInv'
<1>1. \A r \in Probes : Claimed(r)' <=> Claimed(r)
  BY DEF Claimed
<1>2. ClaimsOf(plan)' = ClaimsOf(plan)
  BY <1>1 DEF ClaimsOf
<1>3. ClaimsComeLate'
  BY <1>1 DEF ProbeInv, ClaimsComeLate, Late
<1>4. ClaimsOfThePlan'
  <2>1. \A r \in ClaimsOf(plan) : input'[r] = input[r]
    BY DEF ClaimsOf
  <2> QED
    BY <1>2, <2>1 DEF ProbeInv, ClaimsOfThePlan
<1>5. ClaimsAreCounted'
  <2>1. Cardinality({r \in Probes : Claimed(r) /\ says[r] = plan})' = count
    BY <1>2 DEF ProbeInv, ClaimsOfThePlan, ClaimsOf
  <2> QED
    BY <1>1, <2>1 DEF ProbeInv, ProbeTypes, PlanIsKept, ClaimsAreCounted
<1>6. ClaimsAreOneConversation'
  BY <1>1 DEF ProbeInv, PlanIsKept, ClaimsAreOneConversation
<1> QED
  BY <1>3, <1>4, <1>5, <1>6 DEF ProbeInv, PlanIsKept

LEMMA ClaimKeeps ==
    ASSUME ProbeInv, NEW r \in Probes, probe[r] = "prepared", MayProceed(r),
           count' = count + 1, job' = JobOf(r), last' = input[r],
           claim' = [claim EXCEPT ![r] = count + 1], ProbeGoto(r, "claimed"),
           UNCHANGED <<plan, says, input>>
    PROVE  ProbeInv'
<1>1. /\ plan \in Nat /\ count \in Nat /\ MaxRequests \in Nat /\ count < MaxRequests
      /\ probe \in [Probes -> ProbePCs] /\ claim \in [Probes -> Nat] /\ input[r] \in Inputs
      /\ ~Claimed(r) /\ says[r] = plan /\ claim[r] = 0
  <2>1. /\ plan \in Nat /\ count \in Nat /\ MaxRequests \in Nat
        /\ probe \in [Probes -> ProbePCs] /\ claim \in [Probes -> Nat] /\ input[r] \in Inputs
    BY ProbeAssumption DEF ProbeInv, ProbeTypes
  <2>2. ~Claimed(r)
    BY DEF ProbeInv, ClaimsComeLate
  <2>3. claim[r] = 0
    BY <2>1, <2>2 DEF Claimed
  <2>4. count < MaxRequests /\ says[r] = plan
    BY <2>2 DEF MayProceed
  <2> QED
    BY <2>1, <2>2, <2>3, <2>4
<1>2. \A s \in Probes : s # r => claim'[s] = claim[s] /\ (Claimed(s)' <=> Claimed(s)) /\ probe'[s] = probe[s]
  BY <1>1 DEF Claimed, ProbeGoto
<1>3. claim'[r] = count + 1 /\ Claimed(r)' /\ probe'[r] = "claimed"
  BY <1>1 DEF Claimed, ProbeGoto
<1>4. ProbeTypes'
  BY <1>1 DEF ProbeInv, ProbeTypes, ProbeGoto, ProbePCs
<1>5. ClaimsComeLate'
  BY <1>1, <1>2, <1>3 DEF ProbeInv, ClaimsComeLate
<1>6. ClaimsOf(plan)' = ClaimsOf(plan) \cup {r} /\ r \notin ClaimsOf(plan)
  BY <1>1, <1>2, <1>3 DEF ClaimsOf
<1>7. IsFiniteSet(ClaimsOf(plan)') /\ Cardinality(ClaimsOf(plan)') = count + 1
  BY <1>6, FS_AddElement DEF ProbeInv, ClaimsOfThePlan
<1>8. /\ job = NoThread => input[r] = FirstInput
      /\ job # NoThread => ThreadOf[r] = job /\ IsStrictPrefix(last, input[r])
  BY <1>1 DEF MayProceed, JobOf
<1>9. count = 0 => ClaimsOf(plan) = {}
  BY FS_EmptySet DEF ProbeInv, ClaimsOfThePlan
<1>10. ASSUME NEW s \in ClaimsOf(plan)
       PROVE  /\ ThreadOf[s] = ThreadOf[r] /\ claim[s] <= count /\ claim[s] # 0 /\ input[s] \in Inputs
              /\ IsStrictPrefix(input[s], input[r])
  <2>1. count # 0 /\ job # NoThread /\ last \in Inputs
    BY <1>9, <1>10 DEF ProbeInv, ClaimsOfThePlan
  <2>2. input[s] \in Inputs /\ claim[s] # 0
    BY <1>1, <1>10 DEF ProbeInv, ProbeTypes, ClaimsOf, Claimed
  <2>3. input[s] = last \/ IsStrictPrefix(input[s], last)
    BY <1>10 DEF ProbeInv, ClaimsOfThePlan
  <2>4. IsStrictPrefix(input[s], input[r])
    BY <1>1, <1>8, <2>1, <2>2, <2>3, PrefixIsTransitive
  <2> QED
    BY <1>8, <1>10, <2>1, <2>2, <2>4 DEF ProbeInv, ClaimsOfThePlan
<1>11. ClaimsOfThePlan'
  <2>1. ThreadOf[r] # NoThread /\ JobOf(r) = ThreadOf[r]
    BY ProbeAssumption DEF JobOf
  <2>2. \A s \in ClaimsOf(plan) : s # r /\ claim'[s] = claim[s] /\ claim[s] \in Nat
    BY <1>1, <1>2, <1>6 DEF ClaimsOf
  <2>3. \A s \in ClaimsOf(plan)' : claim'[s] <= count' /\ ThreadOf[s] = job'
    BY <1>1, <1>3, <1>6, <1>10, <2>1, <2>2
  <2>4. \A s \in ClaimsOf(plan)' :
           input'[s] = last' \/ (claim'[s] < count' /\ IsStrictPrefix(input'[s], last'))
    BY <1>1, <1>3, <1>6, <1>10, <2>1, <2>2
  <2>5. (count' = 0 <=> job' = NoThread) /\ (count' # 0 => last' \in Inputs)
    BY <1>1, <2>1
  <2> QED
    BY <1>7, <2>3, <2>4, <2>5 DEF ClaimsOfThePlan
<1>12. \A s \in Probes : Claimed(s) /\ s # r /\ says[s] = plan => s \in ClaimsOf(plan)
  BY DEF ClaimsOf
<1>13. ClaimsAreCounted'
  <2>1. Cardinality({s \in Probes : Claimed(s) /\ says[s] = plan})' = count'
    BY <1>7 DEF ClaimsOf
  <2>2. \A s, t \in Probes : Claimed(s)' /\ Claimed(t)' /\ s # t /\ says'[s] = says'[t] => claim'[s] # claim'[t]
    <3>1. SUFFICES ASSUME NEW s \in Probes, NEW t \in Probes,
                          Claimed(s)', Claimed(t)', s # t, says[s] = says[t]
                   PROVE  claim'[s] # claim'[t]
      OBVIOUS
    <3>2. CASE s # r /\ t # r
      BY <1>2, <3>1, <3>2 DEF ProbeInv, PlanIsKept, ClaimsAreCounted
    <3>3. CASE s = r
      <4>1. t \in ClaimsOf(plan)
        BY <1>1, <1>2, <1>12, <3>1, <3>3
      <4>2. claim'[t] <= count /\ claim'[t] \in Nat
        BY <1>1, <1>2, <1>10, <3>1, <3>3, <4>1
      <4> QED
        BY <1>1, <1>3, <3>3, <4>2
    <3>4. CASE t = r
      <4>1. s \in ClaimsOf(plan)
        BY <1>1, <1>2, <1>12, <3>1, <3>4
      <4>2. claim'[s] <= count /\ claim'[s] \in Nat
        BY <1>1, <1>2, <1>10, <3>1, <3>4, <4>1
      <4> QED
        BY <1>1, <1>3, <3>4, <4>2
    <3> QED
      BY <3>2, <3>3, <3>4
  <2> QED
    BY <1>4, <2>1, <2>2 DEF ClaimsAreCounted, ProbeTypes
<1>14. ClaimsAreOneConversation'
  <2>1. SUFFICES ASSUME NEW s \in Probes, NEW t \in Probes,
                        Claimed(s)', Claimed(t)', says[s] = says[t]
                 PROVE  /\ ThreadOf[s] = ThreadOf[t]
                        /\ claim'[s] = 1 => input[s] = FirstInput
                        /\ claim'[s] < claim'[t] => IsStrictPrefix(input[s], input[t])
    BY DEF ClaimsAreOneConversation
  <2>2. CASE s # r /\ t # r
    BY <1>2, <2>1, <2>2 DEF ProbeInv, PlanIsKept, ClaimsAreOneConversation
  <2>3. CASE s = r /\ t = r
    <3>1. claim'[r] = 1 => input[r] = FirstInput
      <4>1. claim'[r] = 1 => count = 0
        BY <1>1, <1>3
      <4> QED
        BY <1>8, <4>1 DEF ProbeInv, ClaimsOfThePlan
    <3> QED
      BY <1>1, <1>3, <2>3, <3>1
  <2>4. CASE s = r /\ t # r
    <3>1. t \in ClaimsOf(plan) /\ claim'[t] = claim[t]
      BY <1>1, <1>2, <1>12, <2>1, <2>4
    <3>2. ThreadOf[t] = ThreadOf[r] /\ claim[t] <= count /\ claim[t] # 0 /\ claim[t] \in Nat
      BY <1>1, <1>10, <3>1
    <3>3. ~(claim'[r] < claim'[t]) /\ claim'[r] # 1
      BY <1>1, <1>3, <3>1, <3>2
    <3> QED
      BY <2>4, <3>2, <3>3
  <2>5. CASE s # r /\ t = r
    <3>1. s \in ClaimsOf(plan) /\ claim'[s] = claim[s] /\ Claimed(s)
      BY <1>1, <1>2, <1>12, <2>1, <2>5
    <3>2. claim[s] = 1 => input[s] = FirstInput
      BY <3>1 DEF ProbeInv, PlanIsKept, ClaimsAreOneConversation
    <3> QED
      BY <1>10, <2>5, <3>1, <3>2
  <2> QED
    BY <2>2, <2>3, <2>4, <2>5
<1> QED
  BY <1>4, <1>5, <1>11, <1>13, <1>14 DEF ProbeInv, PlanIsKept

LEMMA ProbeStep == ProbeInv /\ [ProbeNext]_probeVars => ProbeInv'
<1> SUFFICES ASSUME ProbeInv, [ProbeNext]_probeVars
             PROVE  ProbeInv'
  OBVIOUS
<1>1. ProbeTypes /\ ClaimsComeLate
  BY DEF ProbeInv
<1>2. CASE UNCHANGED probeVars
  <2>1. UNCHANGED <<plan, count, job, last, claim, says, input, probe>>
    BY <1>2 DEF probeVars
  <2>2. ProbeTypes'
    BY <1>1, <2>1 DEF ProbeTypes
  <2> QED
    BY <1>1, <2>1, <2>2, ClaimsStay DEF ClaimsComeLate, Late
<1>3. CASE Arm
  <2>1. /\ plan' = plan + 1 /\ count' = 0 /\ job' = NoThread
        /\ UNCHANGED <<probe, says, input, claim>>
    BY <1>3 DEF Arm
  <2>2. ProbeTypes'
    BY <1>1, <2>1, ProbeAssumption DEF ProbeTypes
  <2>3. \A r \in Probes : Claimed(r)' <=> Claimed(r)
    BY <2>1 DEF Claimed
  <2>4. ClaimsOf(plan)' = {} /\ {r \in Probes : Claimed(r) /\ says[r] = plan}' = {}
    BY <1>1, <2>1, <2>3 DEF ClaimsOf, ProbeTypes, ClaimsComeLate
  <2>5. ClaimsOfThePlan'
    BY <2>1, <2>4, FS_EmptySet DEF ClaimsOfThePlan
  <2>6. ClaimsComeLate'
    BY <1>1, <2>1, <2>3 DEF ClaimsComeLate, ProbeTypes
  <2>7. ClaimsAreCounted'
    BY <2>1, <2>2, <2>3, <2>4, FS_EmptySet DEF ProbeInv, PlanIsKept, ClaimsAreCounted, ProbeTypes
  <2>8. ClaimsAreOneConversation'
    BY <2>1, <2>3 DEF ProbeInv, PlanIsKept, ClaimsAreOneConversation
  <2> QED
    BY <2>2, <2>5, <2>6, <2>7, <2>8 DEF ProbeInv, PlanIsKept
<1>4. CASE EndPlan
  <2>1. UNCHANGED <<plan, count, job, last, claim, says, input, probe>>
    BY <1>4 DEF EndPlan
  <2>2. ProbeTypes'
    BY <1>1, <2>1 DEF ProbeTypes
  <2> QED
    BY <1>1, <2>1, <2>2, ClaimsStay DEF ClaimsComeLate, Late
<1>5. ASSUME NEW r \in Probes, IdentifyProbe(r)
      PROVE  ProbeInv'
  <2>1. PICK header \in 1 .. plan, value \in Inputs :
           /\ says' = [says EXCEPT ![r] = header] /\ input' = [input EXCEPT ![r] = value]
           /\ \E label \in {"done", "identified"} : probe' = [probe EXCEPT ![r] = label]
    BY <1>5 DEF IdentifyProbe, ProbeGoto
  <2>2. probe[r] = "new" /\ UNCHANGED <<plan, count, job, last, claim>>
    BY <1>5 DEF IdentifyProbe, RequestsOnly, planVars
  <2>3. ~Claimed(r)
    BY <1>1, <2>2 DEF ClaimsComeLate
  <2>4. ProbeTypes'
    BY <1>1, <2>1, <2>2 DEF ProbeTypes, ProbePCs
  <2>5. \A s \in Probes : Claimed(s) => says'[s] = says[s] /\ input'[s] = input[s] /\ probe'[s] \in Late
    BY <1>1, <2>1, <2>3 DEF ClaimsComeLate, ProbeTypes, Late
  <2> QED
    BY <2>2, <2>4, <2>5, ClaimsStay
<1>6. ASSUME NEW r \in Probes,
             Select(r) \/ PrepareProbe(r) \/ TakeSlot(r) \/ Send(r) \/ EndProbe(r)
      PROVE  ProbeInv'
  <2>1. UNCHANGED <<plan, count, job, last, claim, says, input>>
    BY <1>6 DEF Select, PrepareProbe, TakeSlot, Send, EndProbe, RequestsOnly, planVars
  <2>2. PICK label \in ProbePCs : probe' = [probe EXCEPT ![r] = label]
    BY <1>6 DEF Select, PrepareProbe, TakeSlot, Send, EndProbe, ProbeGoto, ProbePCs
  <2>3. probe[r] \in Late => label \in Late
    <3>1. probe' [r] = label
      BY <1>1, <2>2 DEF ProbeTypes
    <3> QED
      BY <1>1, <1>6, <3>1 DEF Select, PrepareProbe, TakeSlot, Send, EndProbe, ProbeGoto, Late, ProbeTypes
  <2>4. ProbeTypes'
    BY <1>1, <2>1, <2>2 DEF ProbeTypes
  <2>5. \A s \in Probes : Claimed(s) => probe'[s] \in Late
    BY <1>1, <2>2, <2>3 DEF ClaimsComeLate, ProbeTypes, Late
  <2> QED
    BY <2>1, <2>4, <2>5, ClaimsStay
<1>7. ASSUME NEW r \in Probes, Claim(r)
      PROVE  ProbeInv'
  <2>1. probe[r] = "prepared" /\ UNCHANGED <<plan, says, input>>
    BY <1>7 DEF Claim
  <2>2. CASE MayProceed(r) /\ count' = count + 1 /\ job' = JobOf(r) /\ last' = input[r]
             /\ claim' = [claim EXCEPT ![r] = count + 1] /\ ProbeGoto(r, "claimed")
    BY <2>1, <2>2, ClaimKeeps
  <2>3. CASE ProbeGoto(r, "done") /\ UNCHANGED <<count, job, last, claim>>
    <3>1. probe' = [probe EXCEPT ![r] = "done"]
      BY <2>3 DEF ProbeGoto
    <3>2. ProbeTypes'
      BY <1>1, <2>1, <2>3, <3>1 DEF ProbeTypes, ProbePCs
    <3>3. \A s \in Probes : Claimed(s) => probe'[s] \in Late
      BY <1>1, <3>1 DEF ClaimsComeLate, ProbeTypes, Late
    <3> QED
      BY <2>1, <2>3, <3>2, <3>3, ClaimsStay
  <2> QED
    BY <1>7, <2>2, <2>3 DEF Claim
<1> QED
  BY <1>2, <1>3, <1>4, <1>5, <1>6, <1>7 DEF ProbeNext

\* A plan gets no more claims than it says, each in a place of its own, and they are one growing
\* conversation of one job, however checks and claims interleave with plans that are replaced.
THEOREM PlanIsKeptHolds == ProbeSpec => []PlanIsKept
<1>1. ProbeInit => ProbeInv
  <2> SUFFICES ASSUME ProbeInit
               PROVE  ProbeInv
    OBVIOUS
  <2>1. \A r \in Probes : ~Claimed(r)
    BY DEF ProbeInit, Claimed
  <2>2. ClaimsOf(plan) = {} /\ {r \in Probes : Claimed(r) /\ says[r] = plan} = {}
    BY <2>1 DEF ClaimsOf
  <2>3. ProbeTypes
    BY ProbeAssumption DEF ProbeInit, ProbeTypes, ProbePCs
  <2>4. ClaimsOfThePlan /\ ClaimsComeLate
    BY <2>1, <2>2, FS_EmptySet DEF ProbeInit, ClaimsOfThePlan, ClaimsComeLate
  <2>5. PlanIsKept
    BY <2>1, <2>2, <2>3, FS_EmptySet
       DEF ProbeInit, PlanIsKept, ClaimsAreCounted, ClaimsAreOneConversation, ProbeTypes
  <2> QED
    BY <2>3, <2>4, <2>5 DEF ProbeInv
<1>2. ProbeInv => PlanIsKept
  BY DEF ProbeInv
<1> QED
  BY <1>1, <1>2, ProbeStep, PTL DEF ProbeSpec


(***************************************************************************)
(* Asset acquisition: for any commands, operations and sizes, what has its *)
(* final name is the pinned file, and a command that was not stopped       *)
(* within a publication leaves nothing that a later one refuses.           *)
(*                                                                         *)
(* The property rests on the lock, which a command shares with its worker: *)
(* whoever acts is alone, and finds what the stages before published.      *)
(***************************************************************************)

AreCommands ==
    /\ commands = [c \in Commands |-> commands[c]]
    /\ \A c \in Commands :
          commands[c] = [stage |-> commands[c].stage, step |-> commands[c].step, operation |-> commands[c].operation,
                         present |-> commands[c].present, outcome |-> commands[c].outcome]

AreWorkers ==
    /\ workers = [c \in Commands |-> workers[c]]
    /\ \A c \in Commands :
          /\ workers[c] = [alive |-> workers[c].alive, role |-> workers[c].role, at |-> workers[c].at]
          /\ workers[c].alive \in BOOLEAN

IsGeneration ==
    generation = [made |-> generation.made, lock |-> generation.lock, documents |-> generation.documents,
                  strays |-> generation.strays, runtime |-> generation.runtime]

AreArtifacts ==
    /\ artifacts = [role \in Roles |-> artifacts[role]]
    /\ \A role \in Roles :
          /\ artifacts[role] = [parts |-> artifacts[role].parts, pinned |-> artifacts[role].pinned,
                                names |-> artifacts[role].names]
          /\ artifacts[role].names \subseteq {"part", "file"}

Shapes == AreCommands /\ AreWorkers /\ IsGeneration /\ AreArtifacts

HasFile(role) == "file" \in artifacts[role].names

\* What the stages before this one have published.
Passed(stage) ==
    /\ stage \in {"model", "extract", "qualification", "verify", "receipt", "done"} => HasFile("runtime")
    /\ stage \in {"extract", "qualification", "verify", "receipt", "done"} => HasFile("model")
    /\ stage \in {"qualification", "verify", "receipt", "done"} => generation.runtime
    /\ stage \in {"verify", "receipt", "done"} => "qualification" \in generation.documents

\* A command with the lock is where its stage and what is published allow; a worker outlives its
\* command only, and writes to no published file.
Placed(c) ==
    LET stage == commands[c].stage
        step == commands[c].step
    IN  /\ commands[c].present => generation.made
        /\ step \notin {"new", "lock", "ended"} => generation.lock /\ Passed(stage)
        /\ step \in {"link", "unlink"} => stage \in Documents
        /\ step = "unlink" => stage \in generation.documents
        /\ step = "rename" => stage = "extract"
        /\ step \in {"fetch", "match", "linked"} => stage \in Roles
        /\ step = "linked" => HasFile(stage)
        /\ step = "fetch" => workers[c].role = stage
        /\ workers[c].alive => /\ step \in {"fetch", "ended"} /\ workers[c].role \in Roles
                               /\ ~HasFile(workers[c].role)

OneActs == \A c, d \in Commands : HoldsLock(c) /\ HoldsLock(d) => c = d

Tables ==
    /\ PublishedIsPinned
    /\ generation.made => generation.lock
    /\ Installed => Passed("done")

\* Unless a publication was cut off, private names and second names are those of the command
\* that is just publishing, and a directory without its catalog is about to have it.
InPrivate(c) == commands[c].step \in {"link", "unlink", "rename"}
InLinked(c, role) == commands[c].step = "linked" /\ commands[c].stage = role
InCatalog(c) == commands[c].stage = "catalog" /\ commands[c].step \in {"begin", "link"}

Untorn ==
    ~torn => /\ generation.strays = IF \E c \in Commands : InPrivate(c) THEN 1 ELSE 0
             /\ \A role \in Roles : {"part", "file"} \subseteq artifacts[role].names =>
                    \E c \in Commands : InLinked(c, role)
             /\ generation.made /\ "catalog" \notin generation.documents => \E c \in Commands : InCatalog(c)

AcquisitionInv ==
    /\ Shapes /\ (\A c \in Commands : Placed(c)) /\ OneActs
    /\ Tables /\ Untorn /\ TransfersAreResumed

-----------------------------------------------------------------------------
LEMMA AfterIs ==
    /\ After("mkdir") = "catalog" /\ After("catalog") = "runtime" /\ After("runtime") = "model"
    /\ After("model") = "extract" /\ After("extract") = "qualification" /\ After("qualification") = "verify"
    /\ After("verify") = "receipt" /\ After("receipt") = "done"
<1>1. ASSUME NEW n \in 1 .. 8
      PROVE  After(Stages[n]) = Stages[n + 1]
  <2>1. \A i \in 1 .. 8 : Stages[i] = Stages[n] => i = n
    BY DEF Stages
  <2> DEFINE place == CHOOSE i \in 1 .. 8 : Stages[i] = Stages[n]
  <2>2. place = n
    BY <2>1
  <2>3. After(Stages[n]) = Stages[1 + place]
    BY DEF After
  <2> HIDE DEF place
  <2> QED
    BY <2>2, <2>3
<1>2. /\ Stages[1] = "mkdir" /\ Stages[2] = "catalog" /\ Stages[3] = "runtime" /\ Stages[4] = "model"
      /\ Stages[5] = "extract" /\ Stages[6] = "qualification" /\ Stages[7] = "verify"
      /\ Stages[8] = "receipt" /\ Stages[9] = "done"
  BY DEF Stages
<1> HIDE DEF Stages
<1>3. \A n \in 1 .. 8 : After(Stages[n]) = Stages[n + 1]
  BY <1>1
<1>4. /\ After(Stages[1]) = Stages[2] /\ After(Stages[2]) = Stages[3] /\ After(Stages[3]) = Stages[4]
      /\ After(Stages[4]) = Stages[5] /\ After(Stages[5]) = Stages[6] /\ After(Stages[6]) = Stages[7]
      /\ After(Stages[7]) = Stages[8] /\ After(Stages[8]) = Stages[9]
  BY <1>3
<1> QED
  BY <1>2, <1>4

\* What a stage publishes is what the next one finds.
LEMMA PassedOn ==
    ASSUME NEW stage, Passed(stage)
    PROVE  /\ stage \in {"inspect", "mkdir"} => Passed("catalog") /\ Passed("runtime") /\ Passed("mkdir")
           /\ stage \in Documents /\ stage \in generation.documents => Passed(After(stage))
           /\ stage \in Roles /\ HasFile(stage) => Passed(After(stage))
           /\ stage = "extract" /\ generation.runtime => Passed(After(stage))
           /\ stage = "verify" => Passed(After(stage))
BY AfterIs DEF Passed, Documents, Roles

LEMMA GoesToIs ==
    ASSUME AreCommands, NEW c \in Commands, NEW stage, NEW step, GoesTo(c, stage, step)
    PROVE  /\ AreCommands'
           /\ commands'[c].stage = stage /\ commands'[c].step = step
           /\ commands'[c].outcome = commands[c].outcome /\ commands'[c].present = commands[c].present
           /\ \A d \in Commands \ {c} : commands'[d] = commands[d]
<1>1. /\ commands' = [commands EXCEPT ![c] = [commands[c] EXCEPT !.stage = stage, !.step = step]]
      /\ commands = [d \in Commands |-> commands[d]]
  BY DEF GoesTo, AreCommands
<1>2. PICK was, at, asked, found, result :
          commands[c] = [stage |-> was, step |-> at, operation |-> asked, present |-> found, outcome |-> result]
  BY DEF AreCommands
<1> DEFINE next == [stage |-> stage, step |-> step, operation |-> asked, present |-> found, outcome |-> result]
<1> DEFINE old == [stage |-> was, step |-> at, operation |-> asked, present |-> found, outcome |-> result]
<1> DEFINE half == [stage |-> stage, step |-> at, operation |-> asked, present |-> found, outcome |-> result]
<1>3. [old EXCEPT !.stage = stage] = half /\ [half EXCEPT !.step = step] = next
  OBVIOUS
<1>4. commands[c] = old
  BY <1>2
<1> HIDE DEF old, half, next
<1>5. /\ commands' = [d \in Commands |-> commands'[d]] /\ commands'[c] = next
      /\ \A d \in Commands \ {c} : commands'[d] = commands[d]
  BY <1>1, <1>3, <1>4
<1>6. AreCommands'
  BY <1>5 DEF AreCommands, next
<1> QED
  BY <1>4, <1>5, <1>6 DEF old, next

LEMMA CommandEndsIs ==
    ASSUME AreCommands, NEW c \in Commands, NEW outcome, CommandEnds(c, outcome)
    PROVE  /\ AreCommands'
           /\ commands'[c].stage = commands[c].stage /\ commands'[c].step = "ended"
           /\ commands'[c].outcome = outcome /\ commands'[c].present = commands[c].present
           /\ \A d \in Commands \ {c} : commands'[d] = commands[d]
<1>1. /\ commands' = [commands EXCEPT ![c] = [commands[c] EXCEPT !.step = "ended", !.outcome = outcome]]
      /\ commands = [d \in Commands |-> commands[d]]
  BY DEF CommandEnds, Ended, AreCommands
<1>2. PICK was, at, asked, found, result :
          commands[c] = [stage |-> was, step |-> at, operation |-> asked, present |-> found, outcome |-> result]
  BY DEF AreCommands
<1> DEFINE next == [stage |-> was, step |-> "ended", operation |-> asked, present |-> found, outcome |-> outcome]
<1> DEFINE old == [stage |-> was, step |-> at, operation |-> asked, present |-> found, outcome |-> result]
<1> DEFINE half == [stage |-> was, step |-> "ended", operation |-> asked, present |-> found, outcome |-> result]
<1>3. [old EXCEPT !.step = "ended"] = half /\ [half EXCEPT !.outcome = outcome] = next
  OBVIOUS
<1>4. commands[c] = old
  BY <1>2
<1> HIDE DEF old, half, next
<1>5. /\ commands' = [d \in Commands |-> commands'[d]] /\ commands'[c] = next
      /\ \A d \in Commands \ {c} : commands'[d] = commands[d]
  BY <1>1, <1>3, <1>4
<1>6. AreCommands'
  BY <1>5 DEF AreCommands, next
<1> QED
  BY <1>4, <1>5, <1>6 DEF old, next

-----------------------------------------------------------------------------
\* What c leaves is as c alone could leave it.
UntornBy(c) ==
    ~torn => /\ generation.strays = IF InPrivate(c) THEN 1 ELSE 0
             /\ \A role \in Roles : {"part", "file"} \subseteq artifacts[role].names => InLinked(c, role)
             /\ generation.made /\ "catalog" \notin generation.documents => InCatalog(c)

Alone(c) == \A d \in Commands \ {c} : ~HoldsLock(d)

LEMMA HolderIsAlone == ASSUME OneActs, NEW c \in Commands, HoldsLock(c) PROVE Alone(c)
BY DEF OneActs, Alone

\* A command that does not hold the lock publishes nothing.
LEMMA Bystander ==
    ASSUME NEW d \in Commands, ~HoldsLock(d), Placed(d)
    PROVE  /\ ~InPrivate(d) /\ \A role : ~InLinked(d, role)
           /\ ~InCatalog(d)
BY DEF HoldsLock, InPrivate, InLinked, InCatalog

LEMMA UntornIsBy ==
    ASSUME NEW c \in Commands, Alone(c), \A d \in Commands : Placed(d), Untorn
    PROVE  UntornBy(c)
<1>1. \A d \in Commands : d = c \/ (~InPrivate(d) /\ (\A role : ~InLinked(d, role)) /\ ~InCatalog(d))
  BY Bystander DEF Alone
<1> QED
  BY <1>1 DEF Untorn, UntornBy

\* What is published stays.
Grows ==
    /\ \A role \in Roles : HasFile(role) => HasFile(role)'
    /\ generation.runtime => generation'.runtime
    /\ generation.documents \subseteq generation'.documents
    /\ generation.made => generation'.made
    /\ generation.lock => generation'.lock
    /\ torn => torn'

Refusals == {"installation_changed", "directory_unsafe"}

\* A step of the one command that acts: what has to be shown of it.
LEMMA HolderStep ==
    ASSUME AcquisitionInv, NEW c \in Commands, Alone(c),
           \A d \in Commands \ {c} : commands'[d] = commands[d] /\ workers'[d] = workers[d],
           Shapes', Tables', Grows, Placed(c)', UntornBy(c)',
           commands'[c].outcome \in Refusals => torn'
    PROVE  AcquisitionInv'
<1>1. \A d \in Commands \ {c} : ~HoldsLock(d) /\ ~HoldsLock(d)'
  BY DEF Alone, HoldsLock
<1>2. OneActs'
  BY <1>1 DEF OneActs
<1>3. ASSUME NEW d \in Commands \ {c}
      PROVE  Placed(d)'
  <2>1. Placed(d) /\ commands'[d] = commands[d] /\ workers'[d] = workers[d]
    BY <1>3 DEF AcquisitionInv
  <2>2. ~workers[d].alive /\ commands[d].step \in {"new", "lock", "ended"}
    BY <1>1, <1>3 DEF HoldsLock
  <2> QED
    BY <2>1, <2>2 DEF Placed, Grows
<1>4. \A d \in Commands : Placed(d)'
  BY <1>3
<1>5. Untorn'
  <2>1. \A d \in Commands : d = c \/ (~InPrivate(d)' /\ (\A role : ~InLinked(d, role)') /\ ~InCatalog(d)')
    BY <1>1 DEF HoldsLock, InPrivate, InLinked, InCatalog
  <2> QED
    BY <2>1 DEF Untorn, UntornBy
<1>6. TransfersAreResumed'
  <2>1. \A d \in Commands : commands'[d].outcome \in Refusals => torn'
    BY DEF AcquisitionInv, TransfersAreResumed, Grows, Refusals
  <2> QED
    BY <2>1 DEF TransfersAreResumed, Refusals
<1> QED
  BY <1>2, <1>4, <1>5, <1>6 DEF AcquisitionInv

\* A command without the lock starts, or ends: others may act meanwhile.
LEMMA BystanderStep ==
    ASSUME AcquisitionInv, NEW c \in Commands, ~HoldsLock(c),
           AreCommands', \A d \in Commands \ {c} : commands'[d] = commands[d],
           commands'[c].step \in {"lock", "ended"}, commands'[c].present => generation.made,
           commands'[c].outcome \in Refusals => torn',
           AreWorkers', \A d \in Commands \ {c} : workers'[d] = workers[d], ~workers'[c].alive,
           IsGeneration', generation.lock => generation'.lock, generation'.made = generation.made,
           generation'.documents = generation.documents, generation'.strays = generation.strays,
           generation'.runtime = generation.runtime,
           artifacts' = artifacts, torn => torn'
    PROVE  AcquisitionInv'
<1>1. Shapes'
  BY DEF AcquisitionInv, Shapes, AreArtifacts
<1>2. ~HoldsLock(c)' /\ \A d \in Commands \ {c} : HoldsLock(d)' <=> HoldsLock(d)
  BY DEF HoldsLock
<1>3. OneActs'
  BY <1>2 DEF OneActs, AcquisitionInv
<1>4. Tables'
  BY DEF AcquisitionInv, Tables, PublishedIsPinned, Whole, Installed, Passed, HasFile
<1>5. \A d \in Commands \ {c} : Placed(d)'
  BY DEF AcquisitionInv, Placed, Passed, HasFile
<1>6. Placed(c)'
  BY DEF Placed
<1>7. Untorn'
  <2>1. \A d \in Commands : /\ InPrivate(d)' <=> InPrivate(d)
                            /\ \A role : InLinked(d, role)' <=> InLinked(d, role)
                            /\ InCatalog(d)' <=> InCatalog(d)
    BY DEF HoldsLock, InPrivate, InLinked, InCatalog
  <2> QED
    BY <2>1 DEF Untorn, AcquisitionInv
<1>8. TransfersAreResumed'
  BY DEF AcquisitionInv, TransfersAreResumed, Refusals
<1> QED
  BY <1>1, <1>3, <1>4, <1>5, <1>6, <1>7, <1>8 DEF AcquisitionInv

\* What stays as it is, is still sound.
LEMMA NothingWritten ==
    ASSUME AcquisitionInv, UNCHANGED <<generation, artifacts>>, torn => torn'
    PROVE  Tables' /\ Grows /\ IsGeneration' /\ AreArtifacts'
           /\ \A stage : Passed(stage)' <=> Passed(stage)
BY DEF AcquisitionInv, Tables, PublishedIsPinned, Whole, Installed, Passed, HasFile, Grows, Shapes,
       IsGeneration, AreArtifacts

\* The one that acts ends, and writes nothing with it.
LEMMA EndsKeeps ==
    ASSUME AcquisitionInv, NEW c \in Commands, Alone(c), NEW outcome, CommandEnds(c, outcome),
           UNCHANGED <<workers, generation, artifacts>>, torn => torn',
           outcome \in Refusals \/ InPrivate(c) \/ commands[c].step = "linked" \/ InCatalog(c) => torn'
    PROVE  AcquisitionInv'
<1>1. /\ AreCommands' /\ commands'[c].stage = commands[c].stage /\ commands'[c].step = "ended"
      /\ commands'[c].outcome = outcome /\ commands'[c].present = commands[c].present
      /\ \A d \in Commands \ {c} : commands'[d] = commands[d]
  BY CommandEndsIs DEF AcquisitionInv, Shapes
<1>2. Tables' /\ Grows /\ IsGeneration' /\ AreArtifacts'
  BY NothingWritten
<1>3. Shapes'
  BY <1>1, <1>2 DEF AcquisitionInv, Shapes, AreWorkers
<1>4. Placed(c)'
  BY <1>1 DEF AcquisitionInv, Placed, HasFile
<1>5. UntornBy(c) /\ (~torn' => ~torn /\ ~InPrivate(c) /\ commands[c].step # "linked" /\ ~InCatalog(c))
  BY UntornIsBy DEF AcquisitionInv
<1>6. UntornBy(c)'
  BY <1>1, <1>5 DEF UntornBy, InPrivate, InLinked, InCatalog
<1> QED
  BY <1>1, <1>2, <1>3, <1>4, <1>6, HolderStep

\* The one that acts goes on to a stage, and writes nothing with it.
LEMMA GoesKeeps ==
    ASSUME AcquisitionInv, NEW c \in Commands, Alone(c), commands[c].step \notin {"link", "unlink", "rename", "linked"},
           NEW stage, GoesTo(c, stage, "begin"), ~workers[c].alive,
           UNCHANGED <<workers, generation, artifacts, torn>>,
           generation.lock, Passed(stage), InCatalog(c) => "catalog" \in generation.documents
    PROVE  AcquisitionInv'
<1>1. /\ AreCommands' /\ commands'[c].stage = stage /\ commands'[c].step = "begin"
      /\ commands'[c].outcome = commands[c].outcome /\ commands'[c].present = commands[c].present
      /\ \A d \in Commands \ {c} : commands'[d] = commands[d]
  BY GoesToIs DEF AcquisitionInv, Shapes
<1>2. Tables' /\ Grows /\ IsGeneration' /\ AreArtifacts' /\ Passed(stage)'
  BY NothingWritten
<1>3. Shapes'
  BY <1>1, <1>2 DEF AcquisitionInv, Shapes, AreWorkers
<1>4. Placed(c)'
  BY <1>1, <1>2 DEF AcquisitionInv, Placed
<1>5. UntornBy(c)
  BY UntornIsBy DEF AcquisitionInv
<1>6. UntornBy(c)'
  BY <1>1, <1>5 DEF UntornBy, InPrivate, InLinked, InCatalog
<1>7. commands'[c].outcome \in Refusals => torn'
  BY <1>1 DEF AcquisitionInv, TransfersAreResumed, Refusals
<1> QED
  BY <1>1, <1>2, <1>3, <1>4, <1>6, <1>7, HolderStep

-----------------------------------------------------------------------------
LEMMA GenerationIs ==
    ASSUME IsGeneration, NEW made, NEW lock, NEW documents, NEW strays, NEW runtime
    PROVE  /\ [generation EXCEPT !.made = made] =
                  [made |-> made, lock |-> generation.lock, documents |-> generation.documents,
                   strays |-> generation.strays, runtime |-> generation.runtime]
           /\ [generation EXCEPT !.lock = lock] =
                  [made |-> generation.made, lock |-> lock, documents |-> generation.documents,
                   strays |-> generation.strays, runtime |-> generation.runtime]
           /\ [generation EXCEPT !.documents = documents] =
                  [made |-> generation.made, lock |-> generation.lock, documents |-> documents,
                   strays |-> generation.strays, runtime |-> generation.runtime]
           /\ [generation EXCEPT !.strays = strays] =
                  [made |-> generation.made, lock |-> generation.lock, documents |-> generation.documents,
                   strays |-> strays, runtime |-> generation.runtime]
           /\ [generation EXCEPT !.strays = strays, !.runtime = runtime] =
                  [made |-> generation.made, lock |-> generation.lock, documents |-> generation.documents,
                   strays |-> strays, runtime |-> runtime]
<1>1. PICK a, b, c, d, e :
          generation = [made |-> a, lock |-> b, documents |-> c, strays |-> d, runtime |-> e]
  BY DEF IsGeneration
<1> DEFINE old == [made |-> a, lock |-> b, documents |-> c, strays |-> d, runtime |-> e]
           half == [made |-> a, lock |-> b, documents |-> c, strays |-> strays, runtime |-> e]
<1>2. [old EXCEPT !.made = made] = [made |-> made, lock |-> b, documents |-> c, strays |-> d, runtime |-> e]
  OBVIOUS
<1>3. [old EXCEPT !.lock = lock] = [made |-> a, lock |-> lock, documents |-> c, strays |-> d, runtime |-> e]
  OBVIOUS
<1>4. [old EXCEPT !.documents = documents] =
          [made |-> a, lock |-> b, documents |-> documents, strays |-> d, runtime |-> e]
  OBVIOUS
<1>5. [old EXCEPT !.strays = strays] = half
  OBVIOUS
<1>6. [half EXCEPT !.runtime = runtime] = [made |-> a, lock |-> b, documents |-> c, strays |-> strays, runtime |-> runtime]
  OBVIOUS
<1>7. /\ generation = old
      /\ generation.made = a /\ generation.lock = b /\ generation.documents = c /\ generation.strays = d
      /\ generation.runtime = e
  BY <1>1
<1>8. half = [made |-> a, lock |-> b, documents |-> c, strays |-> strays, runtime |-> e]
  OBVIOUS
<1> HIDE DEF old, half
<1> QED
  BY <1>2, <1>3, <1>4, <1>5, <1>6, <1>7, <1>8

LEMMA NamesAre ==
    ASSUME AreArtifacts, NEW role \in Roles, NEW names \in SUBSET {"part", "file"},
           artifacts' = [artifacts EXCEPT ![role].names = names]
    PROVE  /\ AreArtifacts' /\ artifacts'[role].names = names
           /\ artifacts'[role].parts = artifacts[role].parts /\ artifacts'[role].pinned = artifacts[role].pinned
           /\ \A other \in Roles \ {role} : artifacts'[other] = artifacts[other]
<1>1. PICK a, b, c : artifacts[role] = [parts |-> a, pinned |-> b, names |-> c]
  BY DEF AreArtifacts
<1> DEFINE old == [parts |-> a, pinned |-> b, names |-> c]
           new == [parts |-> a, pinned |-> b, names |-> names]
<1>2. [old EXCEPT !.names = names] = new
  OBVIOUS
<1>3. artifacts[role] = old /\ artifacts[role].parts = a /\ artifacts[role].pinned = b
  BY <1>1
<1>4. new.parts = a /\ new.pinned = b /\ new.names = names
      /\ new = [parts |-> new.parts, pinned |-> new.pinned, names |-> new.names]
  OBVIOUS
<1> HIDE DEF old, new
<1>5. /\ artifacts' = [other \in Roles |-> artifacts'[other]] /\ artifacts'[role] = new
      /\ \A other \in Roles \ {role} : artifacts'[other] = artifacts[other]
  BY <1>2, <1>3 DEF AreArtifacts
<1> QED
  BY <1>3, <1>4, <1>5 DEF AreArtifacts

LEMMA ContentIs ==
    ASSUME AreArtifacts, NEW role \in Roles, NEW parts, NEW pinned,
           artifacts' = [artifacts EXCEPT ![role].parts = parts, ![role].pinned = pinned]
    PROVE  /\ AreArtifacts' /\ artifacts'[role].names = artifacts[role].names
           /\ \A other \in Roles \ {role} : artifacts'[other] = artifacts[other]
<1>1. PICK a, b, c : artifacts[role] = [parts |-> a, pinned |-> b, names |-> c]
  BY DEF AreArtifacts
<1> DEFINE old == [parts |-> a, pinned |-> b, names |-> c]
           half == [parts |-> parts, pinned |-> b, names |-> c]
           new == [parts |-> parts, pinned |-> pinned, names |-> c]
<1>2. [old EXCEPT !.parts = parts] = half /\ [half EXCEPT !.pinned = pinned] = new
  OBVIOUS
<1>3. artifacts[role] = old /\ artifacts[role].names = c
  BY <1>1
<1>4. new.names = c /\ new = [parts |-> new.parts, pinned |-> new.pinned, names |-> new.names]
  OBVIOUS
<1> HIDE DEF old, half, new
<1>5. /\ artifacts' = [other \in Roles |-> artifacts'[other]] /\ artifacts'[role] = new
      /\ \A other \in Roles \ {role} : artifacts'[other] = artifacts[other]
  BY <1>2, <1>3 DEF AreArtifacts
<1> QED
  BY <1>3, <1>4, <1>5 DEF AreArtifacts

-----------------------------------------------------------------------------
(* The operations, one after the other.                                    *)

LEMMA StartKeeps ==
    ASSUME AcquisitionInv, NEW c \in Commands, NEW operation \in Operations, StartCommand(c, operation)
    PROVE  AcquisitionInv'
<1>1. PICK was, at, asked, found, result :
          commands[c] = [stage |-> was, step |-> at, operation |-> asked, present |-> found, outcome |-> result]
  BY DEF AcquisitionInv, Shapes, AreCommands
<1> DEFINE old == [stage |-> was, step |-> at, operation |-> asked, present |-> found, outcome |-> result]
           third == [stage |-> was, step |-> "lock", operation |-> asked, present |-> found, outcome |-> result]
           half == [stage |-> was, step |-> "lock", operation |-> operation, present |-> found, outcome |-> result]
           new == [stage |-> was, step |-> "lock", operation |-> operation, present |-> generation.made,
                   outcome |-> result]
<1>2. /\ [old EXCEPT !.step = "lock"] = third /\ [third EXCEPT !.operation = operation] = half
      /\ [half EXCEPT !.present = generation.made] = new
  OBVIOUS
<1>3. commands[c] = old /\ commands[c].outcome = result
  BY <1>1
<1>4. /\ new.step = "lock" /\ new.outcome = result /\ new.present = generation.made
      /\ new = [stage |-> new.stage, step |-> new.step, operation |-> new.operation, present |-> new.present,
                outcome |-> new.outcome]
  OBVIOUS
<1> HIDE DEF old, third, half, new
<1>5. commands = [d \in Commands |-> commands[d]]
  BY DEF AcquisitionInv, Shapes, AreCommands
<1>6. /\ commands' = [d \in Commands |-> commands'[d]] /\ commands'[c] = new
      /\ \A d \in Commands \ {c} : commands'[d] = commands[d]
  BY <1>2, <1>3, <1>5 DEF StartCommand
<1>7. AreCommands'
  BY <1>4, <1>6 DEF AreCommands, AcquisitionInv, Shapes
<1>8. ~HoldsLock(c) /\ ~workers[c].alive
  BY DEF AcquisitionInv, Placed, HoldsLock, StartCommand
<1>9. commands'[c].outcome \in Refusals => torn'
  BY <1>3, <1>4, <1>6 DEF AcquisitionInv, TransfersAreResumed, Refusals, StartCommand
<1>10. AreWorkers' /\ IsGeneration'
  BY DEF AcquisitionInv, Shapes, AreWorkers, IsGeneration, StartCommand
<1> QED
  BY <1>4, <1>6, <1>7, <1>8, <1>9, <1>10, BystanderStep DEF StartCommand

LEMMA TakeLockKeeps ==
    ASSUME AcquisitionInv, NEW c \in Commands, TakeLock(c)
    PROVE  AcquisitionInv'
<1>1. /\ commands[c].step = "lock" /\ UNCHANGED <<workers, artifacts, torn>>
      /\ ~HoldsLock(c) /\ ~workers[c].alive /\ (commands[c].present => generation.made)
  BY DEF AcquisitionInv, Placed, HoldsLock, TakeLock
<1>2. AreCommands /\ AreWorkers' /\ IsGeneration /\ AreArtifacts'
  BY <1>1 DEF AcquisitionInv, Shapes, AreWorkers, AreArtifacts
<1>3. CASE ~generation.lock /\ CommandEnds(c, LockIsFree(c)) /\ UNCHANGED generation
  <2>1. LockIsFree(c) \notin Refusals
    BY <1>1, <1>3 DEF LockIsFree, Refusals, AcquisitionInv, Tables
  <2>2. IsGeneration'
    BY <1>2, <1>3 DEF IsGeneration
  <2> DEFINE outcome == LockIsFree(c)
  <2>3. CommandEnds(c, outcome) /\ outcome \notin Refusals
    BY <1>3, <2>1
  <2> HIDE DEF outcome
  <2>4. /\ AreCommands' /\ commands'[c].step = "ended"
        /\ commands'[c].outcome = outcome /\ commands'[c].present = commands[c].present
        /\ \A d \in Commands \ {c} : commands'[d] = commands[d]
    BY <1>2, <2>3, CommandEndsIs
  <2> QED
    BY <1>1, <1>2, <1>3, <2>2, <2>3, <2>4, BystanderStep
<1>4. CASE /\ generation' = [generation EXCEPT !.lock = TRUE]
           /\ \/ CommandEnds(c, "busy")
              \/ (\A d \in Commands : ~HoldsLock(d)) /\ GoesTo(c, "inspect", "begin")
  <2>1. generation' = [made |-> generation.made, lock |-> TRUE, documents |-> generation.documents,
                       strays |-> generation.strays, runtime |-> generation.runtime]
    BY <1>2, <1>4, GenerationIs
  <2>2. /\ generation'.made = generation.made /\ generation'.lock = TRUE
        /\ generation'.documents = generation.documents /\ generation'.strays = generation.strays
        /\ generation'.runtime = generation.runtime
    BY <2>1
  <2>3. IsGeneration'
    BY <2>1, <2>2 DEF IsGeneration
  <2>4. CASE CommandEnds(c, "busy")
    <3>1. /\ AreCommands' /\ commands'[c].step = "ended"
          /\ commands'[c].outcome = "busy" /\ commands'[c].present = commands[c].present
          /\ \A d \in Commands \ {c} : commands'[d] = commands[d]
      BY <1>2, <2>4, CommandEndsIs
    <3>2. "busy" \notin Refusals
      BY DEF Refusals
    <3> QED
      BY <1>1, <1>2, <2>2, <2>3, <3>1, <3>2, BystanderStep
  <2>5. CASE (\A d \in Commands : ~HoldsLock(d)) /\ GoesTo(c, "inspect", "begin")
    <3>1. /\ AreCommands' /\ commands'[c].stage = "inspect" /\ commands'[c].step = "begin"
          /\ commands'[c].outcome = commands[c].outcome /\ commands'[c].present = commands[c].present
          /\ \A d \in Commands \ {c} : commands'[d] = commands[d]
      BY <1>2, <2>5, GoesToIs
    <3>2. Alone(c)
      BY <2>5 DEF Alone
    <3>3. Shapes'
      BY <1>2, <2>3, <3>1 DEF Shapes
    <3>4. Tables'
      BY <1>1, <2>2 DEF AcquisitionInv, Tables, PublishedIsPinned, Whole, Installed, Passed, HasFile
    <3>5. Grows
      BY <1>1, <2>2 DEF Grows, HasFile
    <3>6. Placed(c)'
      BY <1>1, <2>2, <3>1 DEF Placed, Passed
    <3>7. UntornBy(c) /\ ~InPrivate(c) /\ (\A role : ~InLinked(c, role)) /\ ~InCatalog(c)
      BY <1>1, <3>2, UntornIsBy DEF AcquisitionInv, InPrivate, InLinked, InCatalog
    <3>8. UntornBy(c)'
      BY <1>1, <2>2, <3>1, <3>7 DEF UntornBy, InPrivate, InLinked, InCatalog
    <3>9. commands'[c].outcome \in Refusals => torn'
      BY <1>1, <3>1 DEF AcquisitionInv, TransfersAreResumed, Refusals
    <3> QED
      BY <1>1, <3>1, <3>2, <3>3, <3>4, <3>5, <3>6, <3>8, <3>9, HolderStep
  <2> QED
    BY <1>4, <2>4, <2>5
<1> QED
  BY <1>3, <1>4 DEF TakeLock

\* What is known of a command that acts.
LEMMA Acts ==
    ASSUME AcquisitionInv, NEW c \in Commands, commands[c].step \notin {"new", "lock", "ended"}
    PROVE  /\ Shapes /\ Tables /\ Alone(c) /\ Placed(c) /\ UntornBy(c)
           /\ generation.lock /\ Passed(commands[c].stage)
           /\ commands[c].step # "fetch" => ~workers[c].alive
           /\ commands[c].outcome \in Refusals => torn
<1>1. Placed(c) /\ HoldsLock(c)
  BY DEF AcquisitionInv, HoldsLock
<1>2. Alone(c)
  BY <1>1, HolderIsAlone DEF AcquisitionInv
<1>3. UntornBy(c)
  BY <1>2, UntornIsBy DEF AcquisitionInv
<1> QED
  BY <1>1, <1>2, <1>3 DEF AcquisitionInv, Placed, TransfersAreResumed, Refusals

LEMMA PassedIsVerified ==
    ASSUME PublishedIsPinned, NEW stage \in {"verify", "receipt", "done"}, Passed(stage)
    PROVE  Verified /\ Passed("receipt") /\ Passed("done")
BY DEF PublishedIsPinned, Passed, HasFile, Verified, RuntimeMatches, Roles

\* A file with one name or none has not two.
LEMMA TwoNames ==
    ASSUME NEW names \in SUBSET {"part", "file"}, Cardinality(names) = 2
    PROVE  {"part", "file"} \subseteq names
<1>1. Cardinality({}) = 0 /\ Cardinality({"part"}) = 1 /\ Cardinality({"file"}) = 1
  BY FS_EmptySet, FS_Singleton
<1>2. names # {} /\ names # {"part"} /\ names # {"file"}
  BY <1>1
<1> QED
  BY <1>2

LEMMA InspectKeeps ==
    ASSUME AcquisitionInv, NEW c \in Commands, Inspect(c)
    PROVE  AcquisitionInv'
<1>1. /\ commands[c].stage = "inspect" /\ commands[c].step = "begin"
      /\ UNCHANGED <<workers, generation, artifacts, torn>>
  BY DEF Inspect
<1>2. /\ Shapes /\ Tables /\ Alone(c) /\ UntornBy(c) /\ generation.lock /\ Passed("inspect")
      /\ ~workers[c].alive
  BY <1>1, Acts
<1>3. ~InPrivate(c) /\ ~InCatalog(c) /\ (\A role : ~InLinked(c, role)) /\ commands[c].step # "linked"
  BY <1>1 DEF InPrivate, InCatalog, InLinked
<1>4. ASSUME NEW outcome, CommandEnds(c, outcome), outcome \in Refusals => torn
      PROVE  AcquisitionInv'
  BY <1>1, <1>2, <1>3, <1>4, EndsKeeps
<1>5. Changed \/ Unmarked => torn
  <2>1. ~torn => generation.strays = 0 /\ ~Unmarked
    BY <1>2, <1>3 DEF UntornBy, Unmarked
  <2>2. ASSUME NEW role \in Roles, Cardinality(artifacts[role].names) = 2
        PROVE  torn
    <3>1. {"part", "file"} \subseteq artifacts[role].names
      BY <1>2, <2>2, TwoNames DEF Shapes, AreArtifacts
    <3> QED
      BY <1>2, <1>3, <3>1 DEF UntornBy
  <2>3. ~(0 > 0)
    OBVIOUS
  <2> QED
    BY <2>1, <2>2, <2>3 DEF Changed
<1>6. Installed => Verified
  BY <1>2, PassedIsVerified DEF Tables
<1>7. ASSUME NEW stage \in {"runtime", "mkdir"}, GoesTo(c, stage, "begin")
      PROVE  AcquisitionInv'
  <2>1. Passed(stage)
    BY DEF Passed
  <2> QED
    BY <1>1, <1>2, <1>3, <1>7, <2>1, GoesKeeps
<1>8. /\ "ready" \notin Refusals /\ "reuse" \notin Refusals /\ "planned" \notin Refusals
      /\ "offline_missing" \notin Refusals /\ "space_unavailable" \notin Refusals
  BY DEF Refusals
<1>9. CASE (Changed /\ CommandEnds(c, "installation_changed"))
           \/ (Unmarked /\ CommandEnds(c, "directory_unsafe"))
  BY <1>4, <1>5, <1>9
<1>10. CASE CommandEnds(c, "planned") \/ CommandEnds(c, "offline_missing") \/ CommandEnds(c, "space_unavailable")
            \/ CommandEnds(c, "ready") \/ CommandEnds(c, "reuse")
  BY <1>4, <1>8, <1>10
<1>11. CASE GoesTo(c, "runtime", "begin") \/ GoesTo(c, "mkdir", "begin")
  BY <1>7, <1>11
<1> QED
  BY <1>6, <1>9, <1>10, <1>11 DEF Inspect

LEMMA MakeGenerationKeeps ==
    ASSUME AcquisitionInv, NEW c \in Commands, MakeGeneration(c)
    PROVE  AcquisitionInv'
<1>1. /\ commands[c].stage = "mkdir" /\ commands[c].step = "begin" /\ GoesTo(c, "catalog", "begin")
      /\ UNCHANGED <<workers, artifacts, torn>>
  BY AfterIs DEF MakeGeneration, NextStage
<1>2. /\ Shapes /\ Tables /\ Alone(c) /\ UntornBy(c) /\ generation.lock /\ ~workers[c].alive
      /\ (commands[c].outcome \in Refusals => torn)
  BY <1>1, Acts
<1>3. generation' = [made |-> TRUE, lock |-> generation.lock, documents |-> generation.documents,
                     strays |-> generation.strays, runtime |-> generation.runtime]
  BY <1>2, GenerationIs DEF MakeGeneration, Shapes
<1>4. /\ generation'.made = TRUE /\ generation'.lock = generation.lock
      /\ generation'.documents = generation.documents /\ generation'.strays = generation.strays
      /\ generation'.runtime = generation.runtime
  BY <1>3
<1>5. IsGeneration'
  BY <1>3, <1>4 DEF IsGeneration
<1>6. /\ AreCommands' /\ commands'[c].stage = "catalog" /\ commands'[c].step = "begin"
      /\ commands'[c].outcome = commands[c].outcome /\ commands'[c].present = commands[c].present
      /\ \A d \in Commands \ {c} : commands'[d] = commands[d]
  BY <1>1, <1>2, GoesToIs DEF Shapes
<1>7. Shapes'
  BY <1>1, <1>2, <1>5, <1>6 DEF Shapes, AreWorkers, AreArtifacts
<1>8. Tables'
  BY <1>1, <1>2, <1>4 DEF Tables, PublishedIsPinned, Whole, Installed, Passed, HasFile
<1>9. Grows
  BY <1>1, <1>2, <1>4 DEF Grows, HasFile
<1>10. Placed(c)'
  BY <1>1, <1>2, <1>4, <1>6 DEF Placed, Passed
<1>11. ~InPrivate(c) /\ (\A role : ~InLinked(c, role)) /\ ~InPrivate(c)' /\ InCatalog(c)'
  BY <1>1, <1>6 DEF InPrivate, InLinked, InCatalog
<1>12. UntornBy(c)'
  BY <1>1, <1>2, <1>4, <1>11 DEF UntornBy
<1> QED
  BY <1>1, <1>2, <1>6, <1>7, <1>8, <1>9, <1>10, <1>12, HolderStep

\* A document is published under a private name that is removed again.
LEMMA PublishDocumentKeeps ==
    ASSUME AcquisitionInv, NEW c \in Commands, PublishDocument(c)
    PROVE  AcquisitionInv'
<1> DEFINE document == commands[c].stage
           step == commands[c].step
<1>1. /\ document \in Documents /\ step \in {"begin", "link", "unlink"}
      /\ UNCHANGED <<workers, artifacts, torn>>
  BY DEF PublishDocument
<1>2. /\ Shapes /\ Tables /\ Alone(c) /\ UntornBy(c) /\ generation.lock /\ ~workers[c].alive /\ Placed(c)
      /\ (commands[c].outcome \in Refusals => torn) /\ Passed(document)
  BY <1>1, Acts
<1>3. document \in generation.documents => Passed(After(document))
  BY <1>1, <1>2, PassedOn
<1>4. After(document) # "catalog" /\ After(document) \notin Roles \ {"runtime"}
  BY <1>1, AfterIs DEF Documents, Roles
<1>5. CASE step = "begin" /\ document \in generation.documents /\ NextStage(c) /\ UNCHANGED generation
  <2>1. GoesTo(c, After(document), "begin") /\ step \notin {"link", "unlink", "rename", "linked"}
    BY <1>5 DEF NextStage
  <2>2. InCatalog(c) => "catalog" \in generation.documents
    BY <1>5 DEF InCatalog
  <2> QED
    BY <1>1, <1>2, <1>3, <1>5, <2>1, <2>2, GoesKeeps
<1>6. ASSUME NEW strays, NEW documents, NEW stage, NEW next,
             generation' = [made |-> generation.made, lock |-> generation.lock, documents |-> documents,
                            strays |-> strays, runtime |-> generation.runtime],
             GoesTo(c, stage, next), next \in {"begin", "link", "unlink"}, generation.documents \subseteq documents,
             next # "begin" => stage = document, next = "unlink" => document \in documents,
             next = "begin" => stage = After(document) /\ document \in generation.documents,
             "receipt" \in documents => Passed("done"),
             ~torn => strays = IF next = "begin" THEN 0 ELSE 1,
             ~torn /\ generation.made /\ "catalog" \notin documents => stage = "catalog" /\ next = "link"
      PROVE  AcquisitionInv'
  <2>1. /\ generation'.made = generation.made /\ generation'.lock = generation.lock
        /\ generation'.documents = documents /\ generation'.strays = strays
        /\ generation'.runtime = generation.runtime
    BY <1>6
  <2>2. IsGeneration'
    BY <1>6, <2>1 DEF IsGeneration
  <2>3. /\ AreCommands' /\ commands'[c].stage = stage /\ commands'[c].step = next
        /\ commands'[c].outcome = commands[c].outcome /\ commands'[c].present = commands[c].present
        /\ \A d \in Commands \ {c} : commands'[d] = commands[d]
    BY <1>2, <1>6, GoesToIs DEF Shapes
  <2>4. Shapes'
    BY <1>1, <1>2, <2>2, <2>3 DEF Shapes, AreWorkers, AreArtifacts
  <2>5. \A other : Passed(other) => Passed(other)'
    BY <1>1, <1>6, <2>1 DEF Passed, HasFile
  <2>6. Tables'
    <3>1. PublishedIsPinned'
      BY <1>1, <1>2 DEF Tables, PublishedIsPinned, Whole
    <3>2. generation'.made => generation'.lock
      BY <1>2, <2>1
    <3>3. Installed' => Passed("done")'
      BY <1>6, <2>1, <2>5 DEF Installed
    <3> QED
      BY <3>1, <3>2, <3>3 DEF Tables
  <2>7. Grows
    BY <1>1, <1>6, <2>1 DEF Grows, HasFile
  <2>8. Passed(stage)
    BY <1>2, <1>3, <1>6
  <2>9. Placed(c)'
    BY <1>1, <1>2, <1>6, <2>1, <2>3, <2>5, <2>8 DEF Placed
  <2>10. ~(\E role : InLinked(c, role)) /\ (InPrivate(c)' <=> next # "begin")
    BY <1>1, <1>6, <2>3 DEF InLinked, InPrivate
  <2>11. UntornBy(c)'
    BY <1>1, <1>2, <1>6, <2>1, <2>3, <2>10 DEF UntornBy, InCatalog
  <2> QED
    BY <1>1, <1>2, <2>3, <2>4, <2>6, <2>7, <2>9, <2>11, HolderStep
<1>7. CASE /\ step = "begin" /\ document \notin generation.documents
           /\ generation' = [generation EXCEPT !.strays = generation.strays + 1] /\ GoesTo(c, document, "link")
  <2>1. generation' = [made |-> generation.made, lock |-> generation.lock, documents |-> generation.documents,
                       strays |-> generation.strays + 1, runtime |-> generation.runtime]
    BY <1>2, <1>7, GenerationIs DEF Shapes
  <2>2. "receipt" \in generation.documents => Passed("done")
    BY <1>2 DEF Tables, Installed
  <2>3. /\ ~torn => generation.strays = 0
        /\ ~torn /\ generation.made /\ "catalog" \notin generation.documents => document = "catalog"
    BY <1>2, <1>7 DEF UntornBy, InPrivate, InCatalog
  <2>4. ~torn => generation.strays + 1 = 1
    BY <2>3
  <2> HIDE DEF document, step
  <2> QED
    BY <1>6, <1>7, <2>1, <2>2, <2>3, <2>4
<1>8. CASE /\ step = "link"
           /\ generation' = [generation EXCEPT !.documents = generation.documents \cup {document}]
           /\ GoesTo(c, document, "unlink")
  <2> DEFINE documents == generation.documents \cup {document}
  <2>1. generation' = [made |-> generation.made, lock |-> generation.lock, documents |-> documents,
                       strays |-> generation.strays, runtime |-> generation.runtime]
    BY <1>2, <1>8, GenerationIs DEF Shapes
  <2>2. "receipt" \in documents => Passed("done")
    <3>1. CASE document = "receipt"
      BY <1>2, <3>1, PassedIsVerified DEF Tables
    <3>2. CASE document # "receipt"
      BY <1>2, <3>2 DEF Tables, Installed
    <3> QED
      BY <3>1, <3>2
  <2>3. /\ ~torn => generation.strays = 1
        /\ ~torn /\ generation.made /\ "catalog" \notin generation.documents => document = "catalog"
    BY <1>2, <1>8 DEF UntornBy, InPrivate, InCatalog
  <2>4. /\ ~(~torn /\ generation.made /\ "catalog" \notin documents)
        /\ document \in documents /\ generation.documents \subseteq documents
    BY <2>3
  <2> HIDE DEF document, step, documents
  <2> QED
    BY <1>6, <1>8, <2>1, <2>2, <2>3, <2>4
<1>9. CASE /\ step = "unlink"
           /\ generation' = [generation EXCEPT !.strays = generation.strays - 1] /\ NextStage(c)
  <2>1. generation' = [made |-> generation.made, lock |-> generation.lock, documents |-> generation.documents,
                       strays |-> generation.strays - 1, runtime |-> generation.runtime]
    BY <1>2, <1>9, GenerationIs DEF Shapes
  <2>2. /\ "receipt" \in generation.documents => Passed("done")
        /\ document \in generation.documents /\ GoesTo(c, After(document), "begin")
    BY <1>2, <1>9 DEF Tables, Installed, Placed, NextStage
  <2>3. /\ ~torn => generation.strays = 1
        /\ ~(~torn /\ generation.made /\ "catalog" \notin generation.documents)
    BY <1>2, <1>9 DEF UntornBy, InPrivate, InCatalog
  <2>4. ~torn => generation.strays - 1 = 0
    BY <2>3
  <2> HIDE DEF document, step
  <2> QED
    BY <1>6, <1>9, <2>1, <2>2, <2>3, <2>4
<1> QED
  BY <1>5, <1>7, <1>8, <1>9 DEF PublishDocument

\* The one that acts changes the names of a role, and goes on.
LEMMA NamesKeep ==
    ASSUME AcquisitionInv, NEW c \in Commands, Alone(c), generation.lock,
           NEW role \in Roles, NEW names \in SUBSET {"part", "file"},
           artifacts' = [artifacts EXCEPT ![role].names = names],
           HasFile(role) => "file" \in names, "file" \in names => Whole(role),
           NEW stage, NEW step \in {"begin", "fetch", "match", "linked"}, GoesTo(c, stage, step),
           Passed(stage)', step # "begin" => stage = role, stage # "catalog",
           step = "linked" => "file" \in names, {"part", "file"} \subseteq names => step = "linked",
           ~InPrivate(c), ~InCatalog(c), \A other : InLinked(c, other) => other = role,
           AreWorkers', \A d \in Commands \ {c} : workers'[d] = workers[d],
           step = "fetch" => workers'[c].role = role /\ "file" \notin names,
           workers'[c].alive => step = "fetch",
           UNCHANGED <<generation, torn>>
    PROVE  AcquisitionInv'
<1>1. /\ AreArtifacts' /\ artifacts'[role].names = names
      /\ artifacts'[role].parts = artifacts[role].parts /\ artifacts'[role].pinned = artifacts[role].pinned
      /\ \A other \in Roles \ {role} : artifacts'[other] = artifacts[other]
  BY NamesAre DEF AcquisitionInv, Shapes
<1>2. /\ AreCommands' /\ commands'[c].stage = stage /\ commands'[c].step = step
      /\ commands'[c].outcome = commands[c].outcome /\ commands'[c].present = commands[c].present
      /\ \A d \in Commands \ {c} : commands'[d] = commands[d]
  BY GoesToIs DEF AcquisitionInv, Shapes
<1>3. Shapes'
  BY <1>1, <1>2 DEF AcquisitionInv, Shapes, IsGeneration
<1>4. \A other \in Roles : HasFile(other) => HasFile(other)'
  BY <1>1 DEF HasFile
<1>5. "runtime" \in Roles /\ "model" \in Roles
  BY DEF Roles
<1>6. Tables'
  <2>1. PublishedIsPinned'
    BY <1>1 DEF AcquisitionInv, Tables, PublishedIsPinned, Whole
  <2>2. Installed' => Passed("done")'
    BY <1>4, <1>5 DEF AcquisitionInv, Tables, Installed, Passed
  <2> QED
    BY <2>1, <2>2 DEF AcquisitionInv, Tables
<1>7. Grows
  BY <1>4 DEF Grows
<1>8. HasFile(role)' <=> "file" \in names
  BY <1>1 DEF HasFile
<1>9. Placed(c)'
  BY <1>2, <1>8 DEF AcquisitionInv, Placed
<1>10. UntornBy(c)
  BY UntornIsBy DEF AcquisitionInv
<1>11. UntornBy(c)'
  <2>1. ~InPrivate(c)'
    BY <1>2 DEF InPrivate
  <2>2. ASSUME NEW other \in Roles, {"part", "file"} \subseteq artifacts'[other].names, ~torn
        PROVE  InLinked(c, other)'
    BY <1>1, <1>2, <1>10, <2>2 DEF UntornBy, InLinked
  <2> QED
    BY <1>10, <2>1, <2>2 DEF UntornBy
<1>12. commands'[c].outcome \in Refusals => torn'
  BY <1>2 DEF AcquisitionInv, TransfersAreResumed, Refusals
<1> QED
  BY <1>2, <1>3, <1>6, <1>7, <1>9, <1>11, <1>12, HolderStep

LEMMA OpenPartialKeeps ==
    ASSUME AcquisitionInv, NEW c \in Commands, OpenPartial(c)
    PROVE  AcquisitionInv'
<1>1. PICK role \in Roles :
          role = commands[c].stage /\ commands[c].step = "begin" /\ UNCHANGED <<generation, torn>>
  BY DEF OpenPartial
<1> DEFINE artifact == artifacts[role]
<1>2. /\ Shapes /\ Tables /\ Alone(c) /\ generation.lock /\ ~workers[c].alive /\ Passed(role)
  BY <1>1, Acts
<1>3. ~InPrivate(c) /\ ~InCatalog(c) /\ (\A other : ~InLinked(c, other)) /\ role \notin Documents
  BY <1>1 DEF InPrivate, InCatalog, InLinked, Roles, Documents
<1>4. CASE "file" \in artifact.names
  <2>1. Whole(role) /\ HasFile(role)
    BY <1>1, <1>2, <1>4 DEF Tables, PublishedIsPinned, HasFile
  <2>2. Passed(After(role))
    BY <1>1, <1>2, <2>1, PassedOn
  <2>3. GoesTo(c, After(role), "begin") /\ UNCHANGED <<workers, artifacts>>
    BY <1>1, <1>4, <2>1 DEF OpenPartial, NextStage
  <2> QED
    BY <1>1, <1>2, <1>3, <2>2, <2>3, GoesKeeps
<1>5. CASE "file" \notin artifact.names
  <2>1. artifacts' = [artifacts EXCEPT ![role].names = {"part"}]
    BY <1>1, <1>5 DEF OpenPartial
  <2>2. ~HasFile(role) /\ {"part"} \in SUBSET {"part", "file"}
    BY <1>5 DEF HasFile
  <2>3. /\ AreArtifacts'
        /\ \A other \in Roles \ {role} : artifacts'[other] = artifacts[other]
    BY <1>1, <1>2, <2>1, <2>2, NamesAre DEF Shapes
  <2>4. Passed(role)'
    <3>1. role = "model" => HasFile("runtime")'
      BY <1>2, <2>3 DEF Passed, HasFile, Roles
    <3> QED
      BY <1>1, <3>1 DEF Passed, Roles
  <2>5. \E step \in {"fetch", "match"} :
           /\ GoesTo(c, role, step) /\ AreWorkers' /\ (\A d \in Commands \ {c} : workers'[d] = workers[d])
           /\ step = "fetch" => workers'[c].role = role
           /\ workers'[c].alive => step = "fetch"
    <3>1. CASE GoesTo(c, role, "fetch") /\ workers' = [workers EXCEPT ![c] = [alive |-> TRUE, role |-> role, at |-> artifact.parts]]
      <4> DEFINE worker == [alive |-> TRUE, role |-> role, at |-> artifact.parts]
      <4>1. /\ worker.role = role /\ worker.alive = TRUE
            /\ worker = [alive |-> worker.alive, role |-> worker.role, at |-> worker.at]
        OBVIOUS
      <4>2. workers' = [workers EXCEPT ![c] = worker]
        BY <3>1
      <4> HIDE DEF worker
      <4>3. workers'[c] = worker /\ \A d \in Commands \ {c} : workers'[d] = workers[d]
        BY <1>2, <4>2 DEF Shapes, AreWorkers
      <4>4. AreWorkers'
        BY <1>2, <4>1, <4>2, <4>3 DEF Shapes, AreWorkers
      <4> QED
        BY <3>1, <4>1, <4>3, <4>4
    <3>2. CASE GoesTo(c, role, "match") /\ UNCHANGED workers
      BY <1>2, <3>2 DEF Shapes, AreWorkers
    <3> QED
      BY <1>1, <1>5, <3>1, <3>2 DEF OpenPartial
  <2>6. PICK step \in {"fetch", "match"} :
           /\ GoesTo(c, role, step) /\ AreWorkers' /\ (\A d \in Commands \ {c} : workers'[d] = workers[d])
           /\ step = "fetch" => workers'[c].role = role
           /\ workers'[c].alive => step = "fetch"
    BY <2>5
  <2>7. role # "catalog"
    BY <1>1 DEF Roles
  <2>8. ~("file" \in {"part"}) /\ ~({"part", "file"} \subseteq {"part"})
    OBVIOUS
  <2> HIDE DEF artifact
  <2> QED
    BY <1>1, <1>2, <1>3, <2>1, <2>2, <2>4, <2>6, <2>7, <2>8, NamesKeep
<1> QED
  BY <1>4, <1>5

LEMMA DropPartialKeeps ==
    ASSUME AcquisitionInv, NEW c \in Commands, DropPartial(c)
    PROVE  AcquisitionInv'
<1>1. PICK role \in Roles :
      /\ role = commands[c].stage /\ commands[c].step = "linked" /\ GoesTo(c, After(role), "begin")
      /\ artifacts' = [artifacts EXCEPT ![role].names = {"file"}] /\ UNCHANGED <<workers, generation, torn>>
  BY DEF DropPartial, NextStage
<1>2. PICK stage : stage = After(role)
  OBVIOUS
<1>3. /\ Shapes /\ Tables /\ Alone(c) /\ generation.lock /\ ~workers[c].alive /\ Passed(role) /\ HasFile(role)
  BY <1>1, Acts DEF Placed
<1>4. ~InPrivate(c) /\ ~InCatalog(c) /\ (\A other : InLinked(c, other) => other = role)
  BY <1>1 DEF InPrivate, InCatalog, InLinked
<1>5. Whole(role)
  BY <1>1, <1>3 DEF Tables, PublishedIsPinned, HasFile
<1>6. {"file"} \in SUBSET {"part", "file"} /\ ~({"part", "file"} \subseteq {"file"}) /\ "file" \in {"file"}
  OBVIOUS
<1>7. /\ artifacts'[role].names = {"file"}
      /\ \A other \in Roles \ {role} : artifacts'[other] = artifacts[other]
  <2>1. AreArtifacts /\ artifacts' = [artifacts EXCEPT ![role].names = {"file"}]
    BY <1>1, <1>3 DEF Shapes
  <2> QED
    BY <1>6, <2>1, NamesAre
<1>8. Passed(stage)' /\ stage # "catalog"
  <2>1. HasFile(role)'
    <3>1. "file" \in artifacts'[role].names
      BY <1>6, <1>7
    <3> QED
      BY <3>1 DEF HasFile
  <2>2. CASE role = "runtime"
    <3>1. stage = "model"
      BY <1>2, <2>2, AfterIs
    <3> QED
      BY <2>1, <2>2, <3>1 DEF Passed
  <2>3. CASE role = "model"
    <3>1. stage = "extract"
      BY <1>2, <2>3, AfterIs
    <3>2. "runtime" \in Roles \ {role} /\ HasFile("runtime")
      BY <1>3, <2>3 DEF Passed, Roles
    <3>3. HasFile("runtime")'
      BY <1>7, <3>2 DEF HasFile
    <3> QED
      BY <2>1, <2>3, <3>1, <3>3 DEF Passed
  <2> QED
    BY <1>1, <2>2, <2>3 DEF Roles
<1>9. AreWorkers'
  BY <1>1, <1>3 DEF Shapes, AreWorkers
<1> QED
  BY <1>1, <1>2, <1>3, <1>4, <1>5, <1>6, <1>8, <1>9, NamesKeep

\* The worker of the one that acts writes, or what it wrote is dropped: never a published file.
LEMMA ContentKeeps ==
    ASSUME AcquisitionInv, NEW c \in Commands, Alone(c), NEW role \in Roles, ~HasFile(role),
           NEW parts, NEW pinned,
           artifacts' = [artifacts EXCEPT ![role].parts = parts, ![role].pinned = pinned],
           commands[c].step \in {"fetch", "match", "ended"},
           UNCHANGED commands \/ CommandEnds(c, "download_invalid"),
           AreWorkers', \A d \in Commands \ {c} : workers'[d] = workers[d],
           workers'[c].alive = workers[c].alive, workers'[c].role = workers[c].role,
           workers[c].alive => UNCHANGED commands,
           UNCHANGED <<generation, torn>>
    PROVE  AcquisitionInv'
<1>1. /\ AreArtifacts' /\ artifacts'[role].names = artifacts[role].names
      /\ \A other \in Roles \ {role} : artifacts'[other] = artifacts[other]
  BY ContentIs DEF AcquisitionInv, Shapes
<1>2. \A other \in Roles : HasFile(other)' <=> HasFile(other)
  BY <1>1 DEF HasFile
<1>3. "runtime" \in Roles /\ "model" \in Roles
  BY DEF Roles
<1>4. Tables'
  <2>1. PublishedIsPinned'
    BY <1>1 DEF AcquisitionInv, Tables, PublishedIsPinned, Whole, HasFile
  <2>2. Installed' => Passed("done")'
    BY <1>2, <1>3 DEF AcquisitionInv, Tables, Installed, Passed
  <2> QED
    BY <2>1, <2>2 DEF AcquisitionInv, Tables
<1>5. Grows
  BY <1>2 DEF Grows
<1>6. UntornBy(c) /\ ~InPrivate(c) /\ ~InCatalog(c) /\ (\A other : ~InLinked(c, other))
  BY UntornIsBy DEF AcquisitionInv, InPrivate, InCatalog, InLinked
<1>7. \A other \in Roles : artifacts'[other].names = artifacts[other].names
  BY <1>1
<1>8. UntornBy(c)'
  <2>1. ~torn => /\ generation.strays = 0
                 /\ \A other \in Roles : ~({"part", "file"} \subseteq artifacts'[other].names)
                 /\ ~(generation.made /\ "catalog" \notin generation.documents)
    BY <1>6, <1>7 DEF UntornBy
  <2>2. ~InPrivate(c)'
    BY <1>6, CommandEndsIs DEF InPrivate, AcquisitionInv, Shapes
  <2> QED
    BY <2>1, <2>2 DEF UntornBy
<1>9. CASE UNCHANGED commands
  <2>1. AreCommands' /\ \A d \in Commands : commands'[d] = commands[d]
    BY <1>9 DEF AcquisitionInv, Shapes, AreCommands
  <2>2. Shapes'
    BY <1>1, <2>1 DEF AcquisitionInv, Shapes, IsGeneration
  <2>3. commands'[c].outcome \in Refusals => torn'
    BY <2>1 DEF AcquisitionInv, TransfersAreResumed, Refusals
  <2>4. ASSUME NEW stage, Passed(stage)
        PROVE  Passed(stage)'
    BY <1>2, <1>3, <2>4 DEF Passed
  <2>5. PICK stage : /\ stage = commands[c].stage /\ stage = commands'[c].stage
                     /\ commands[c].step \in {"fetch", "match"} => Passed(stage)'
    BY <2>1, <2>4 DEF AcquisitionInv, Placed
  <2>6. workers[c].alive => ~HasFile(workers[c].role)'
    BY <1>2 DEF AcquisitionInv, Placed
  <2>7. Placed(c) /\ commands'[c] = commands[c]
    BY <2>1 DEF AcquisitionInv
  <2>8. Placed(c)'
    BY <2>5, <2>6, <2>7 DEF Placed
  <2> QED
    BY <1>4, <1>5, <1>8, <2>1, <2>2, <2>3, <2>8, HolderStep
<1>10. CASE CommandEnds(c, "download_invalid") /\ ~workers[c].alive
  <2>1. /\ AreCommands' /\ commands'[c].stage = commands[c].stage /\ commands'[c].step = "ended"
        /\ commands'[c].outcome = "download_invalid" /\ commands'[c].present = commands[c].present
        /\ \A d \in Commands \ {c} : commands'[d] = commands[d]
    BY <1>10, CommandEndsIs DEF AcquisitionInv, Shapes
  <2>2. Shapes'
    BY <1>1, <2>1 DEF AcquisitionInv, Shapes, IsGeneration
  <2>3. ~(commands'[c].outcome \in Refusals)
    BY <2>1 DEF Refusals
  <2>4. Placed(c)'
    BY <1>10, <2>1 DEF AcquisitionInv, Placed
  <2> QED
    BY <1>4, <1>5, <1>8, <2>1, <2>2, <2>3, <2>4, HolderStep
<1> QED
  BY <1>9, <1>10

\* What is known of a command whose worker is alive.
LEMMA Fetches ==
    ASSUME AcquisitionInv, NEW c \in Commands, workers[c].alive
    PROVE  /\ Shapes /\ Alone(c) /\ Placed(c) /\ commands[c].step \in {"fetch", "ended"}
           /\ workers[c].role \in Roles /\ ~HasFile(workers[c].role)
<1>1. Placed(c) /\ HoldsLock(c)
  BY DEF AcquisitionInv, HoldsLock
<1>2. Alone(c)
  BY <1>1, HolderIsAlone DEF AcquisitionInv
<1> QED
  BY <1>1, <1>2 DEF AcquisitionInv, Placed

LEMMA WorkerIs ==
    ASSUME AreWorkers, NEW c \in Commands
    PROVE  /\ \A at : workers' = [workers EXCEPT ![c].at = at] =>
                  /\ AreWorkers' /\ workers'[c].alive = workers[c].alive /\ workers'[c].role = workers[c].role
                  /\ \A d \in Commands \ {c} : workers'[d] = workers[d]
           /\ workers' = [workers EXCEPT ![c].alive = FALSE] =>
                  /\ AreWorkers' /\ ~workers'[c].alive /\ workers'[c].role = workers[c].role
                  /\ \A d \in Commands \ {c} : workers'[d] = workers[d]
<1>1. PICK alive, role, before : workers[c] = [alive |-> alive, role |-> role, at |-> before]
  BY DEF AreWorkers
<1> DEFINE old == [alive |-> alive, role |-> role, at |-> before]
           with(flag) == [alive |-> flag, role |-> role, at |-> before]
           dead == with(FALSE)
           moved(at) == [alive |-> alive, role |-> role, at |-> at]
<1>2. ASSUME NEW flag
      PROVE  [old EXCEPT !.alive = flag] = with(flag)
  OBVIOUS
<1>3. [old EXCEPT !.alive = FALSE] = dead
  <2> HIDE DEF old, with
  <2> QED
    BY <1>2
<1>4. ASSUME NEW at
      PROVE  [old EXCEPT !.at = at] = moved(at)
  OBVIOUS
<1>5. workers[c] = old /\ workers[c].alive = alive /\ workers[c].role = role
  BY <1>1
<1>6. /\ dead.alive = FALSE /\ dead.role = role
      /\ dead = [alive |-> dead.alive, role |-> dead.role, at |-> dead.at]
  OBVIOUS
<1>7. \A at : /\ moved(at).alive = alive /\ moved(at).role = role
              /\ moved(at) = [alive |-> moved(at).alive, role |-> moved(at).role, at |-> moved(at).at]
  OBVIOUS
<1> HIDE DEF old, with, dead, moved
<1>8. ASSUME NEW at, workers' = [workers EXCEPT ![c].at = at]
      PROVE  /\ AreWorkers' /\ workers'[c].alive = workers[c].alive /\ workers'[c].role = workers[c].role
             /\ \A d \in Commands \ {c} : workers'[d] = workers[d]
  <2>1. /\ workers' = [d \in Commands |-> workers'[d]] /\ workers'[c] = moved(at)
        /\ \A d \in Commands \ {c} : workers'[d] = workers[d]
    BY <1>4, <1>5, <1>8 DEF AreWorkers
  <2> QED
    BY <1>5, <1>7, <2>1 DEF AreWorkers
<1>9. ASSUME workers' = [workers EXCEPT ![c].alive = FALSE]
      PROVE  /\ AreWorkers' /\ ~workers'[c].alive /\ workers'[c].role = workers[c].role
             /\ \A d \in Commands \ {c} : workers'[d] = workers[d]
  <2>1. /\ workers' = [d \in Commands |-> workers'[d]] /\ workers'[c] = dead
        /\ \A d \in Commands \ {c} : workers'[d] = workers[d]
    BY <1>3, <1>5, <1>9 DEF AreWorkers
  <2> QED
    BY <1>5, <1>6, <2>1 DEF AreWorkers
<1> QED
  BY <1>8, <1>9

LEMMA RestartKeeps ==
    ASSUME AcquisitionInv, NEW c \in Commands, Restart(c)
    PROVE  AcquisitionInv'
<1>1. PICK role : role = workers[c].role
  OBVIOUS
<1>2. /\ Shapes /\ Alone(c) /\ commands[c].step \in {"fetch", "ended"} /\ role \in Roles /\ ~HasFile(role)
  BY <1>1, Fetches DEF Restart
<1>3. /\ artifacts' = [artifacts EXCEPT ![role].parts = 0, ![role].pinned = TRUE]
      /\ workers' = [workers EXCEPT ![c].at = 0] /\ UNCHANGED <<commands, generation, torn>>
  BY <1>1 DEF Restart
<1>4. /\ AreWorkers' /\ workers'[c].alive = workers[c].alive /\ workers'[c].role = workers[c].role
      /\ \A d \in Commands \ {c} : workers'[d] = workers[d]
  BY <1>2, <1>3, WorkerIs DEF Shapes
<1> QED
  BY <1>2, <1>3, <1>4, ContentKeeps

LEMMA ReceiveKeeps ==
    ASSUME AcquisitionInv, NEW c \in Commands, NEW pinned \in BOOLEAN, Receive(c, pinned)
    PROVE  AcquisitionInv'
<1>1. PICK role : role = workers[c].role
  OBVIOUS
<1>2. /\ Shapes /\ Alone(c) /\ commands[c].step \in {"fetch", "ended"} /\ role \in Roles /\ ~HasFile(role)
  BY <1>1, Fetches DEF Receive
<1>3. UNCHANGED <<commands, generation, torn>>
  BY DEF Receive
<1>4. PICK parts, whole : artifacts' = [artifacts EXCEPT ![role].parts = parts, ![role].pinned = whole]
  BY <1>1 DEF Receive
<1>5. PICK at : workers' = [workers EXCEPT ![c].at = at]
  BY DEF Receive
<1>6. /\ AreWorkers' /\ workers'[c].alive = workers[c].alive /\ workers'[c].role = workers[c].role
      /\ \A d \in Commands \ {c} : workers'[d] = workers[d]
  BY <1>2, <1>5, WorkerIs DEF Shapes
<1> QED
  BY <1>3, <1>2, <1>4, <1>6, ContentKeeps

LEMMA MatchKeeps ==
    ASSUME AcquisitionInv, NEW c \in Commands, Match(c)
    PROVE  AcquisitionInv'
<1>1. PICK role \in Roles :
          role = commands[c].stage /\ commands[c].step = "match" /\ UNCHANGED <<workers, generation, torn>>
  BY DEF Match
<1>2. /\ Shapes /\ Tables /\ Alone(c) /\ generation.lock /\ ~workers[c].alive /\ Passed(role)
  BY <1>1, Acts
<1>3. ~InPrivate(c) /\ ~InCatalog(c) /\ (\A other : ~InLinked(c, other)) /\ role # "catalog"
  BY <1>1 DEF InPrivate, InCatalog, InLinked, Roles
<1>4. AreWorkers'
  BY <1>1, <1>2 DEF Shapes, AreWorkers
<1>5. CASE Whole(role) /\ artifacts' = [artifacts EXCEPT ![role].names = {"part", "file"}] /\ GoesTo(c, role, "linked")
  <2>1. {"part", "file"} \in SUBSET {"part", "file"} /\ "file" \in {"part", "file"}
    OBVIOUS
  <2>2. \A other \in Roles \ {role} : artifacts'[other] = artifacts[other]
    BY <1>2, <1>5, <2>1, NamesAre DEF Shapes
  <2>3. role = "model" => HasFile("runtime")'
    BY <1>2, <2>2 DEF Passed, HasFile, Roles
  <2>4. Passed(role)'
    BY <1>1, <2>3 DEF Passed, Roles
  <2> QED
    BY <1>1, <1>2, <1>3, <1>4, <1>5, <2>1, <2>4, NamesKeep
<1>6. CASE /\ ~Whole(role) /\ artifacts' = [artifacts EXCEPT ![role].parts = 0, ![role].pinned = TRUE]
           /\ CommandEnds(c, "download_invalid")
  <2>1. ~HasFile(role)
    BY <1>2, <1>6 DEF Tables, PublishedIsPinned, HasFile
  <2> QED
    BY <1>1, <1>2, <1>4, <1>6, <2>1, ContentKeeps
<1>7. CASE CommandEnds(c, "download_unavailable") /\ UNCHANGED artifacts
  <2>1. "download_unavailable" \notin Refusals
    BY DEF Refusals
  <2> QED
    BY <1>1, <1>2, <1>3, <1>7, <2>1, EndsKeeps
<1> QED
  BY <1>1, <1>5, <1>6, <1>7 DEF Match

LEMMA WorkerEndsKeeps ==
    ASSUME AcquisitionInv, NEW c \in Commands, WorkerEnds(c)
    PROVE  AcquisitionInv'
<1>1. /\ workers[c].alive /\ workers' = [workers EXCEPT ![c].alive = FALSE]
      /\ UNCHANGED <<generation, artifacts, torn>>
  BY DEF WorkerEnds
<1>2. /\ Shapes /\ Alone(c) /\ Placed(c) /\ commands[c].step \in {"fetch", "ended"}
  BY <1>1, Fetches
<1>3. /\ AreWorkers' /\ ~workers'[c].alive /\ workers'[c].role = workers[c].role
      /\ \A d \in Commands \ {c} : workers'[d] = workers[d]
  BY <1>1, <1>2, WorkerIs DEF Shapes
<1>4. Tables' /\ Grows /\ IsGeneration' /\ AreArtifacts' /\ \A stage : Passed(stage)' <=> Passed(stage)
  BY <1>1, NothingWritten
<1>5. UntornBy(c) /\ ~InPrivate(c) /\ ~InCatalog(c) /\ (\A other : ~InLinked(c, other))
  BY <1>2, UntornIsBy DEF AcquisitionInv, InPrivate, InCatalog, InLinked
<1>6. ASSUME AreCommands', commands'[c].stage = commands[c].stage, commands'[c].step \in {"ended", "match"},
             commands'[c].step = "match" => commands[c].step = "fetch",
             commands'[c].present = commands[c].present,
             commands'[c].outcome \in Refusals => commands'[c].outcome = commands[c].outcome,
             \A d \in Commands \ {c} : commands'[d] = commands[d]
      PROVE  AcquisitionInv'
  <2>1. Shapes'
    BY <1>3, <1>4, <1>6 DEF Shapes
  <2>2. PICK stage : /\ stage = commands[c].stage /\ stage = commands'[c].stage
                     /\ commands[c].step = "fetch" => Passed(stage)' /\ stage \in Roles
    BY <1>2, <1>4, <1>6 DEF Placed
  <2>3. Placed(c)'
    BY <1>1, <1>2, <1>3, <1>6, <2>2 DEF Placed
  <2>4. ~InPrivate(c)'
    BY <1>6 DEF InPrivate
  <2>5. UntornBy(c)'
    BY <1>1, <1>5, <2>4 DEF UntornBy
  <2>6. commands'[c].outcome \in Refusals => torn'
    BY <1>1, <1>6 DEF AcquisitionInv, TransfersAreResumed, Refusals
  <2> QED
    BY <1>2, <1>3, <1>4, <1>6, <2>1, <2>3, <2>5, <2>6, HolderStep
<1>7. CASE commands[c].step = "ended" /\ UNCHANGED commands
  <2>1. AreCommands'
    BY <1>2, <1>7 DEF Shapes, AreCommands
  <2> QED
    BY <1>6, <1>7, <2>1
<1>8. CASE commands[c].step = "fetch" /\ GoesTo(c, workers[c].role, "match")
  <2>1. workers[c].role = commands[c].stage
    BY <1>2, <1>8 DEF Placed
  <2>2. /\ AreCommands' /\ commands'[c].stage = commands[c].stage /\ commands'[c].step = "match"
        /\ commands'[c].outcome = commands[c].outcome /\ commands'[c].present = commands[c].present
        /\ \A d \in Commands \ {c} : commands'[d] = commands[d]
    BY <1>2, <1>8, <2>1, GoesToIs DEF Shapes
  <2> QED
    BY <1>6, <1>8, <2>2
<1>9. CASE commands[c].step = "fetch" /\ CommandEnds(c, "download_unavailable")
  <2>1. /\ AreCommands' /\ commands'[c].stage = commands[c].stage /\ commands'[c].step = "ended"
        /\ commands'[c].outcome = "download_unavailable" /\ commands'[c].present = commands[c].present
        /\ \A d \in Commands \ {c} : commands'[d] = commands[d]
    BY <1>2, <1>9, CommandEndsIs DEF Shapes
  <2>2. commands'[c].outcome \notin Refusals
    BY <2>1 DEF Refusals
  <2> QED
    BY <1>6, <2>1, <2>2
<1> QED
  BY <1>7, <1>8, <1>9 DEF WorkerEnds

LEMMA VerifyKeeps ==
    ASSUME AcquisitionInv, NEW c \in Commands, Verify(c)
    PROVE  AcquisitionInv'
<1>1. /\ commands[c].stage = "verify" /\ commands[c].step = "begin"
      /\ UNCHANGED <<workers, generation, artifacts, torn>>
  BY DEF Verify
<1>2. /\ Shapes /\ Tables /\ Alone(c) /\ generation.lock /\ ~workers[c].alive /\ Passed("verify")
  BY <1>1, Acts
<1>3. Verified /\ Passed("receipt")
  BY <1>2, PassedIsVerified DEF Tables
<1>4. GoesTo(c, "receipt", "begin") /\ ~InCatalog(c)
  BY <1>1, <1>3, AfterIs DEF Verify, NextStage, InCatalog
<1> QED
  BY <1>1, <1>2, <1>3, <1>4, GoesKeeps

LEMMA FinishKeeps ==
    ASSUME AcquisitionInv, NEW c \in Commands, Finish(c)
    PROVE  AcquisitionInv'
<1>1. /\ commands[c].stage = "done" /\ commands[c].step = "begin" /\ CommandEnds(c, "acquired")
      /\ UNCHANGED <<workers, generation, artifacts, torn>>
  BY DEF Finish
<1>2. Alone(c)
  BY <1>1, Acts
<1>3. "acquired" \notin Refusals /\ ~InPrivate(c) /\ ~InCatalog(c)
  BY <1>1 DEF Refusals, InPrivate, InCatalog
<1> QED
  BY <1>1, <1>2, <1>3, EndsKeeps

\* The runtime is extracted into a private directory, which gets its name when it is complete.
LEMMA ExtractKeeps ==
    ASSUME AcquisitionInv, NEW c \in Commands, Extract(c)
    PROVE  AcquisitionInv'
<1>1. /\ commands[c].stage = "extract" /\ commands[c].step \in {"begin", "rename"}
      /\ UNCHANGED <<workers, artifacts, torn>>
  BY DEF Extract
<1>2. /\ Shapes /\ Tables /\ Alone(c) /\ UntornBy(c) /\ generation.lock /\ ~workers[c].alive
      /\ (commands[c].outcome \in Refusals => torn) /\ Passed("extract")
  BY <1>1, Acts
<1>3. /\ ~InCatalog(c) /\ (\A other : ~InLinked(c, other)) /\ (InPrivate(c) <=> commands[c].step = "rename")
  BY <1>1 DEF InCatalog, InLinked, InPrivate
<1>4. CASE commands[c].step = "begin" /\ generation.runtime /\ NextStage(c) /\ UNCHANGED generation
  <2>1. GoesTo(c, "qualification", "begin") /\ Passed("qualification")
    BY <1>1, <1>2, <1>4, AfterIs DEF NextStage, Passed
  <2> QED
    BY <1>1, <1>2, <1>3, <1>4, <2>1, GoesKeeps
<1>5. ASSUME NEW strays, NEW runtime, NEW stage, NEW next,
             generation' = [made |-> generation.made, lock |-> generation.lock, documents |-> generation.documents,
                            strays |-> strays, runtime |-> runtime],
             generation.runtime => runtime, GoesTo(c, stage, next),
             (stage = "extract" /\ next = "rename") \/ (stage = "qualification" /\ next = "begin" /\ runtime),
             ~torn => strays = IF next = "rename" THEN 1 ELSE 0
      PROVE  AcquisitionInv'
  <2>1. /\ generation'.made = generation.made /\ generation'.lock = generation.lock
        /\ generation'.documents = generation.documents /\ generation'.strays = strays
        /\ generation'.runtime = runtime
    BY <1>5
  <2>2. IsGeneration'
    BY <1>5, <2>1 DEF IsGeneration
  <2>3. /\ AreCommands' /\ commands'[c].stage = stage /\ commands'[c].step = next
        /\ commands'[c].outcome = commands[c].outcome /\ commands'[c].present = commands[c].present
        /\ \A d \in Commands \ {c} : commands'[d] = commands[d]
    BY <1>2, <1>5, GoesToIs DEF Shapes
  <2>4. Shapes'
    BY <1>1, <1>2, <2>2, <2>3 DEF Shapes, AreWorkers, AreArtifacts
  <2>5. Passed("extract")' /\ (Passed("done") => Passed("done")')
    BY <1>1, <1>2, <1>5, <2>1 DEF Passed, HasFile
  <2>6. Tables'
    BY <1>1, <1>2, <2>1, <2>5 DEF Tables, PublishedIsPinned, Whole, Installed
  <2>7. Grows
    BY <1>1, <1>5, <2>1 DEF Grows, HasFile
  <2>8. Passed(stage)'
    BY <1>5, <2>1, <2>5 DEF Passed
  <2>9. Placed(c)'
    <3>1. Placed(c) /\ generation'.lock
      BY <1>2, <2>1 DEF AcquisitionInv
    <3> QED
      BY <1>1, <1>2, <1>5, <2>1, <2>3, <2>8, <3>1 DEF Placed
  <2>10. UntornBy(c)'
    <3>1. InPrivate(c)' <=> next = "rename"
      BY <1>5, <2>3 DEF InPrivate
    <3> QED
      BY <1>1, <1>2, <1>3, <1>5, <2>1, <3>1 DEF UntornBy
  <2> QED
    BY <1>1, <1>2, <2>3, <2>4, <2>6, <2>7, <2>9, <2>10, HolderStep
<1>6. CASE /\ commands[c].step = "begin" /\ ~generation.runtime
           /\ generation' = [generation EXCEPT !.strays = generation.strays + 1] /\ GoesTo(c, "extract", "rename")
  <2>1. generation' = [made |-> generation.made, lock |-> generation.lock, documents |-> generation.documents,
                       strays |-> generation.strays + 1, runtime |-> generation.runtime]
    BY <1>2, <1>6, GenerationIs DEF Shapes
  <2>2. ~torn => generation.strays = 0
    BY <1>2, <1>3, <1>6 DEF UntornBy
  <2>3. ~torn => generation.strays + 1 = 1
    BY <2>2
  <2> QED
    BY <1>5, <1>6, <2>1, <2>3
<1>7. CASE /\ commands[c].step = "rename"
           /\ generation' = [generation EXCEPT !.strays = generation.strays - 1, !.runtime = TRUE] /\ NextStage(c)
  <2>1. generation' = [made |-> generation.made, lock |-> generation.lock, documents |-> generation.documents,
                       strays |-> generation.strays - 1, runtime |-> TRUE]
    BY <1>2, <1>7, GenerationIs DEF Shapes
  <2>2. ~torn => generation.strays = 1
    BY <1>2, <1>3, <1>7 DEF UntornBy
  <2>3. ~torn => generation.strays - 1 = 0
    BY <2>2
  <2>4. GoesTo(c, "qualification", "begin")
    BY <1>1, <1>7, AfterIs DEF NextStage
  <2> QED
    BY <1>5, <2>1, <2>3, <2>4
<1> QED
  BY <1>4, <1>6, <1>7 DEF Extract

LEMMA KillKeeps ==
    ASSUME AcquisitionInv, NEW c \in Commands, Kill(c)
    PROVE  AcquisitionInv'
<1>1. /\ commands[c].step \notin {"new", "ended"} /\ CommandEnds(c, "killed")
      /\ UNCHANGED <<workers, generation, artifacts>> /\ (torn => torn') /\ (InPublication(c) => torn')
  BY DEF Kill
<1>2. "killed" \notin Refusals
  BY DEF Refusals
<1>3. CASE commands[c].step = "lock"
  <2>1. ~HoldsLock(c) /\ ~workers[c].alive /\ (commands[c].present => generation.made)
    BY <1>3 DEF AcquisitionInv, Placed, HoldsLock
  <2>2. /\ AreCommands' /\ commands'[c].step = "ended"
        /\ commands'[c].outcome = "killed" /\ commands'[c].present = commands[c].present
        /\ \A d \in Commands \ {c} : commands'[d] = commands[d]
    BY <1>1, CommandEndsIs DEF AcquisitionInv, Shapes
  <2>3. AreWorkers' /\ IsGeneration'
    BY <1>1 DEF AcquisitionInv, Shapes, AreWorkers, IsGeneration
  <2> QED
    BY <1>1, <1>2, <2>1, <2>2, <2>3, BystanderStep
<1>4. CASE commands[c].step # "lock"
  <2>1. Alone(c)
    BY <1>1, <1>4, Acts
  <2>2. InPrivate(c) \/ commands[c].step = "linked" \/ InCatalog(c) => InPublication(c)
    BY DEF InPrivate, InCatalog, InPublication
  <2> QED
    BY <1>1, <1>2, <2>1, <2>2, EndsKeeps
<1> QED
  BY <1>3, <1>4

LEMMA InterruptKeeps ==
    ASSUME AcquisitionInv, NEW c \in Commands, Interrupt(c)
    PROVE  AcquisitionInv'
<1> DEFINE strays == IF commands[c].step \in {"link", "unlink", "rename"} THEN generation.strays - 1
                     ELSE generation.strays
<1>1. /\ commands[c].step \notin {"new", "ended"} /\ CommandEnds(c, "interrupted")
      /\ workers' = [workers EXCEPT ![c].alive = FALSE] /\ UNCHANGED artifacts
      /\ (torn => torn') /\ (commands[c].step = "linked" => torn')
      /\ (commands[c].stage = "catalog" /\ commands[c].step # "unlink" => torn')
  BY DEF Interrupt
<1>2. Shapes /\ "interrupted" \notin Refusals
  BY DEF AcquisitionInv, Refusals
<1>3. generation' = [generation EXCEPT !.strays = strays]
  BY DEF Interrupt, Tidied
<1>4. InPrivate(c) => strays = generation.strays - 1
  BY DEF InPrivate
<1>5. ~InPrivate(c) => strays = generation.strays
  BY DEF InPrivate
<1> HIDE DEF strays
<1>6. generation' = [made |-> generation.made, lock |-> generation.lock, documents |-> generation.documents,
                     strays |-> strays, runtime |-> generation.runtime]
  BY <1>2, <1>3, GenerationIs DEF Shapes
<1>7. /\ generation'.made = generation.made /\ generation'.lock = generation.lock
      /\ generation'.documents = generation.documents /\ generation'.strays = strays
      /\ generation'.runtime = generation.runtime
  BY <1>6
<1>8. IsGeneration'
  BY <1>6, <1>7 DEF IsGeneration
<1>9. /\ AreCommands' /\ commands'[c].stage = commands[c].stage /\ commands'[c].step = "ended"
      /\ commands'[c].outcome = "interrupted" /\ commands'[c].present = commands[c].present
      /\ \A d \in Commands \ {c} : commands'[d] = commands[d]
  BY <1>1, <1>2, CommandEndsIs DEF Shapes
<1>10. /\ AreWorkers' /\ ~workers'[c].alive /\ workers'[c].role = workers[c].role
       /\ \A d \in Commands \ {c} : workers'[d] = workers[d]
  BY <1>1, <1>2, WorkerIs DEF Shapes
<1>11. CASE commands[c].step = "lock"
  <2>1. ~HoldsLock(c) /\ (commands[c].present => generation.made) /\ ~InPrivate(c)
    BY <1>11 DEF AcquisitionInv, Placed, HoldsLock, InPrivate
  <2>2. generation'.strays = generation.strays
    BY <1>5, <1>7, <2>1
  <2> QED
    BY <1>1, <1>2, <1>7, <1>8, <1>9, <1>10, <2>1, <2>2, BystanderStep
<1>12. CASE commands[c].step # "lock"
  <2>1. Tables /\ Alone(c) /\ UntornBy(c) /\ Placed(c)
    BY <1>1, <1>12, Acts
  <2>2. Shapes'
    BY <1>1, <1>2, <1>8, <1>9, <1>10 DEF Shapes, AreArtifacts
  <2>3. Tables'
    BY <1>1, <1>7, <2>1 DEF Tables, PublishedIsPinned, Whole, Installed, Passed, HasFile
  <2>4. Grows
    BY <1>1, <1>7 DEF Grows, HasFile
  <2>5. Placed(c)'
    BY <1>7, <1>9, <1>10, <2>1 DEF Placed
  <2>6. ~torn' => strays = 0
    <3>1. InPrivate(c) /\ ~torn => generation.strays = 1
      BY <2>1 DEF UntornBy
    <3>2. ~InPrivate(c) /\ ~torn => generation.strays = 0
      BY <2>1 DEF UntornBy
    <3>3. InPrivate(c) /\ ~torn => strays = 0
      BY <1>4, <3>1
    <3> QED
      BY <1>1, <1>5, <3>2, <3>3
  <2>7. ~torn' => ~InCatalog(c) /\ \A other : ~InLinked(c, other)
    BY <1>1 DEF InCatalog, InLinked
  <2>8. ~InPrivate(c)'
    BY <1>9 DEF InPrivate
  <2>9. UntornBy(c)'
    BY <1>1, <1>7, <2>1, <2>6, <2>7, <2>8 DEF UntornBy
  <2> QED
    BY <1>2, <1>9, <1>10, <2>1, <2>2, <2>3, <2>4, <2>5, <2>9, HolderStep
<1> QED
  BY <1>11, <1>12

LEMMA AcquisitionStarts == AcquisitionInit => AcquisitionInv
<1> SUFFICES ASSUME AcquisitionInit PROVE AcquisitionInv
  OBVIOUS
<1>1. \A c \in Commands : /\ commands[c] = [stage |-> "none", step |-> "new", operation |-> "none",
                                            present |-> FALSE, outcome |-> "none"]
                          /\ workers[c] = [alive |-> FALSE, role |-> "none", at |-> 0]
  BY DEF AcquisitionInit
<1>2. \A role \in Roles : artifacts[role] = [parts |-> 0, pinned |-> TRUE, names |-> {}]
  BY DEF AcquisitionInit
<1>3. \A c \in Commands : /\ commands[c].step = "new" /\ commands[c].present = FALSE /\ commands[c].outcome = "none"
                          /\ commands[c].stage = "none" /\ workers[c].alive = FALSE
  BY <1>1
<1>4. \A role \in Roles : artifacts[role].names = {}
  BY <1>2
<1>5. /\ generation.made = FALSE /\ generation.documents = {} /\ generation.strays = 0 /\ IsGeneration
  BY DEF AcquisitionInit, IsGeneration
<1>6. AreCommands
  BY <1>1 DEF AcquisitionInit, AreCommands
<1>7. AreWorkers
  BY <1>1 DEF AcquisitionInit, AreWorkers
<1>8. AreArtifacts
  BY <1>2 DEF AcquisitionInit, AreArtifacts
<1>9. \A c \in Commands : Placed(c) /\ ~HoldsLock(c)
  BY <1>3 DEF Placed, HoldsLock
<1>10. OneActs
  BY <1>9 DEF OneActs
<1>11. Tables
  BY <1>4, <1>5 DEF Tables, PublishedIsPinned, Installed
<1>12. Untorn
  BY <1>3, <1>4, <1>5 DEF Untorn, InPrivate
<1>13. TransfersAreResumed
  BY <1>3 DEF TransfersAreResumed
<1> QED
  BY <1>5, <1>6, <1>7, <1>8, <1>9, <1>10, <1>11, <1>12, <1>13 DEF AcquisitionInv, Shapes

LEMMA AcquisitionGoesOn == AcquisitionInv /\ [AcquisitionNext]_acquisitionVars => AcquisitionInv'
<1> SUFFICES ASSUME AcquisitionInv, [AcquisitionNext]_acquisitionVars PROVE AcquisitionInv'
  OBVIOUS
<1>1. CASE AcquisitionNext
  <2>1. PICK c \in Commands :
           \/ \E operation \in Operations : StartCommand(c, operation)
           \/ TakeLock(c) \/ Inspect(c) \/ MakeGeneration(c) \/ PublishDocument(c)
           \/ OpenPartial(c) \/ Restart(c) \/ (\E pinned \in BOOLEAN : Receive(c, pinned)) \/ WorkerEnds(c)
           \/ Match(c) \/ DropPartial(c) \/ Extract(c) \/ Verify(c) \/ Finish(c)
           \/ Kill(c) \/ Interrupt(c)
    BY <1>1 DEF AcquisitionNext
  <2>2. CASE \E operation \in Operations : StartCommand(c, operation)
    BY <2>2, StartKeeps
  <2>3. CASE TakeLock(c) \/ Inspect(c) \/ MakeGeneration(c) \/ PublishDocument(c)
    BY <2>3, TakeLockKeeps, InspectKeeps, MakeGenerationKeeps, PublishDocumentKeeps
  <2>4. CASE OpenPartial(c) \/ Restart(c) \/ (\E pinned \in BOOLEAN : Receive(c, pinned)) \/ WorkerEnds(c)
    BY <2>4, OpenPartialKeeps, RestartKeeps, ReceiveKeeps, WorkerEndsKeeps
  <2>5. CASE Match(c) \/ DropPartial(c) \/ Extract(c) \/ Verify(c) \/ Finish(c)
    BY <2>5, MatchKeeps, DropPartialKeeps, ExtractKeeps, VerifyKeeps, FinishKeeps
  <2>6. CASE Kill(c) \/ Interrupt(c)
    BY <2>6, KillKeeps, InterruptKeeps
  <2> QED
    BY <2>1, <2>2, <2>3, <2>4, <2>5, <2>6
<1>2. CASE UNCHANGED acquisitionVars
  BY <1>2 DEF acquisitionVars, AcquisitionInv, Shapes, AreCommands, AreWorkers, IsGeneration, AreArtifacts,
       Placed, OneActs, HoldsLock, Tables, PublishedIsPinned, Whole, Installed, Passed, HasFile, Untorn,
       InPrivate, InLinked, InCatalog, TransfersAreResumed
<1> QED
  BY <1>1, <1>2

\* What a download publishes under its final name is the pinned file, whichever worker wrote it and
\* whatever command was killed meanwhile, and a later `acquire local` refuses the directory only when
\* a command was stopped within a publication.
THEOREM AcquisitionIsSoundHolds == AcquisitionSpec => []AcquisitionIsSound
<1>1. AcquisitionInv => AcquisitionIsSound
  BY DEF AcquisitionInv, Tables, AcquisitionIsSound
<1> QED
  BY <1>1, AcquisitionStarts, AcquisitionGoesOn, PTL DEF AcquisitionSpec

(***************************************************************************)
(* The observers of a streamed answer: for an answer of any number of      *)
(* events, each of them reads it as what it is.                            *)
(*                                                                         *)
(* The property speaks of the verdict at the end; its invariant says where *)
(* each observer is after every prefix: the phase it has reached is the    *)
(* shape of what was sent so far, and what it has rejected can no longer   *)
(* become a complete answer.                                               *)
(***************************************************************************)

PhaseNames == {"awaiting", "active", "metadata", "terminal", "stopped"}
Observers == [observed : BOOLEAN, invalid : BOOLEAN, phase : PhaseNames, done : BOOLEAN,
              suffix : BOOLEAN, completed : BOOLEAN, open : BOOLEAN]

\* Every operation of the observer changes one field.
LEMMA ObserverRejects ==
    ASSUME NEW o \in Observers
    PROVE  /\ Rejected(o) \in Observers /\ Rejected(o).invalid = TRUE /\ Rejected(o).open = o.open
           /\ Rejected(o).observed = o.observed /\ Rejected(o).phase = o.phase
           /\ Rejected(o).done = o.done /\ Rejected(o).suffix = o.suffix
           /\ Rejected(o).completed = o.completed
BY DEF Rejected, Observers

LEMMA ObserverFinishes ==
    ASSUME NEW o \in Observers
    PROVE  /\ Finished(o) \in Observers /\ Finished(o).invalid = o.invalid /\ Finished(o).open = o.open
           /\ Finished(o).observed = TRUE /\ Finished(o).phase = o.phase
           /\ Finished(o).done = o.done /\ Finished(o).suffix = o.suffix
           /\ Finished(o).completed = o.completed
BY DEF Finished, Observers

LEMMA ObserverCompletes ==
    ASSUME NEW o \in Observers
    PROVE  /\ Completed(o) \in Observers /\ Completed(o).invalid = o.invalid /\ Completed(o).open = o.open
           /\ Completed(o).observed = o.observed /\ Completed(o).phase = o.phase
           /\ Completed(o).done = o.done /\ Completed(o).suffix = o.suffix
           /\ Completed(o).completed = TRUE
BY DEF Completed, Observers

LEMMA ObserverOpens ==
    ASSUME NEW o \in Observers, NEW open \in BOOLEAN
    PROVE  LET n == [o EXCEPT !.open = open]
           IN  /\ n \in Observers /\ n.invalid = o.invalid /\ n.open = open
               /\ n.observed = o.observed /\ n.phase = o.phase
               /\ n.done = o.done /\ n.suffix = o.suffix /\ n.completed = o.completed
BY DEF Observers

LEMMA ObserverIsDone ==
    ASSUME NEW o \in Observers
    PROVE  LET n == [o EXCEPT !.done = TRUE]
           IN  /\ n \in Observers /\ n.invalid = o.invalid /\ n.open = o.open
               /\ n.observed = o.observed /\ n.phase = o.phase
               /\ n.done = TRUE /\ n.suffix = o.suffix /\ n.completed = o.completed
BY DEF Observers

LEMMA ObserverIsSuffixed ==
    ASSUME NEW o \in Observers
    PROVE  LET n == [o EXCEPT !.suffix = TRUE]
           IN  /\ n \in Observers /\ n.invalid = o.invalid /\ n.open = o.open
               /\ n.observed = o.observed /\ n.phase = o.phase
               /\ n.done = o.done /\ n.suffix = TRUE /\ n.completed = o.completed
BY DEF Observers

LEMMA ObserverMoves ==
    ASSUME NEW o \in Observers, NEW phase \in PhaseNames
    PROVE  LET n == [o EXCEPT !.phase = phase]
           IN  /\ n \in Observers /\ n.invalid = o.invalid /\ n.open = o.open
               /\ n.observed = o.observed /\ n.phase = phase
               /\ n.done = o.done /\ n.suffix = o.suffix /\ n.completed = o.completed
BY DEF Observers

\* What an observer is told by a header, before the datum.
LEMMA HeaderIsRead ==
    ASSUME work \in Observers, NEW header, NEW datum
    PROVE  \E told \in Observers :
              /\ Sees(header, datum) = Observe(told, datum)
              /\ told.open = TRUE /\ told.observed = work.observed /\ told.phase = work.phase
              /\ told.done = work.done /\ told.suffix = work.suffix
              /\ ~told.invalid <=> ~work.invalid /\ ~(header # Silent /\ HeaderRejected(header))
              /\ work.completed => told.completed
<1> DEFINE opened == [work EXCEPT !.open = TRUE]
           headed == IF header = Silent THEN opened ELSE RejectedIf(opened, HeaderRejected(header))
           told == IF header \in {"completed", "stop"} THEN Completed(headed) ELSE headed
<1>1. /\ opened \in Observers /\ opened.open = TRUE /\ opened.observed = work.observed
      /\ opened.phase = work.phase /\ opened.done = work.done /\ opened.suffix = work.suffix
      /\ opened.invalid = work.invalid /\ opened.completed = work.completed
  BY ObserverOpens
<1>2. Sees(header, datum) = Observe(told, datum)
  BY DEF Sees
<1> HIDE DEF opened
<1>3. /\ headed \in Observers /\ headed.open = TRUE /\ headed.observed = work.observed
      /\ headed.phase = work.phase /\ headed.done = work.done /\ headed.suffix = work.suffix
      /\ headed.completed = work.completed
      /\ ~headed.invalid <=> ~work.invalid /\ ~(header # Silent /\ HeaderRejected(header))
  <2>1. CASE header = Silent
    BY <1>1, <2>1
  <2>2. CASE header # Silent
    <3>1. CASE HeaderRejected(header)
      <4>1. headed = Rejected(opened)
        BY <2>2, <3>1 DEF RejectedIf
      <4> QED BY <1>1, <2>2, <3>1, <4>1, ObserverRejects
    <3>2. CASE ~HeaderRejected(header)
      <4>1. headed = opened
        BY <2>2, <3>2 DEF RejectedIf
      <4> QED BY <1>1, <2>2, <3>2, <4>1
    <3> QED BY <3>1, <3>2
  <2> QED BY <2>1, <2>2
<1> HIDE DEF headed
<1>4. /\ told \in Observers /\ told.open = TRUE /\ told.observed = work.observed
      /\ told.phase = work.phase /\ told.done = work.done /\ told.suffix = work.suffix
      /\ work.completed => told.completed
      /\ told.invalid = headed.invalid
  BY <1>3, ObserverCompletes
<1> HIDE DEF told
<1> QED BY <1>2, <1>3, <1>4

-----------------------------------------------------------------------------
\* What the observer of a response makes of an event.
LEMMA ResponsesAreRead ==
    ASSUME work \in Observers, stream = "responses", NEW header, NEW datum \in Data.responses \cup {Silent},
           header \in {Silent, datum, "error"}, ~(header = Silent /\ datum = Silent)
    PROVE  LET o == Sees(header, datum)
           IN  /\ o \in Observers /\ o.open
               /\ (~o.invalid /\ ~o.observed) <=>
                     /\ ~work.invalid /\ ~work.observed /\ header # "error"
                     /\ datum \in {"progress", "foreign"}
               /\ (~o.invalid /\ o.observed) <=>
                     ~work.invalid /\ ~work.observed /\ header # "error" /\ datum = "completed"
               /\ (~o.invalid /\ o.observed) => o.completed
<1>1. PICK told \in Observers :
         /\ Sees(header, datum) = Observe(told, datum)
         /\ told.open = TRUE /\ told.observed = work.observed
         /\ ~told.invalid <=> ~work.invalid /\ ~(header # Silent /\ HeaderRejected(header))
  BY HeaderIsRead
<1>2. HeaderRejected(header) <=> header = "error" \/ work.observed
  BY DEF HeaderRejected
<1>3. PICK o : o = Sees(header, datum)
  OBVIOUS
<1>4. CASE datum = Silent
  <2>1. o = told
    BY <1>1, <1>3, <1>4 DEF Observe, Silent
  <2>2. header = "error" /\ header # Silent
    BY <1>4 DEF Silent
  <2> QED BY <1>1, <1>2, <1>3, <1>4, <2>1, <2>2 DEF Silent
<1>5. CASE datum = "done"
  <2> DEFINE done == [told EXCEPT !.done = TRUE]
  <2>1. o = Rejected(Completed(done))
    BY <1>1, <1>3, <1>5 DEF Observe, Silent, Done, RejectedIf
  <2>2. done \in Observers /\ done.open = TRUE
    BY <1>1, ObserverIsDone
  <2> HIDE DEF done
  <2>3. o \in Observers /\ o.open = TRUE /\ o.invalid = TRUE
    BY <2>1, <2>2, ObserverRejects, ObserverCompletes
  <2> QED BY <1>3, <1>5, <2>3
<1>6. CASE datum = "garbled"
  <2>1. o = Rejected(told)
    BY <1>1, <1>3, <1>6 DEF Observe, Silent
  <2>2. o \in Observers /\ o.open = TRUE /\ o.invalid = TRUE
    BY <1>1, <2>1, ObserverRejects
  <2> QED BY <1>3, <1>6, <2>2
<1>7. CASE datum \in {"progress", "foreign", "other", "completed", "cut"}
  <2>1. o = ObserveResponses(told, datum)
    BY <1>1, <1>3, <1>7 DEF Observe, Silent
  <2>2. CASE told.observed \/ datum = "other"
    <3>1. o = Rejected(told)
      BY <2>1, <2>2 DEF ObserveResponses
    <3>2. o \in Observers /\ o.open = TRUE /\ o.invalid = TRUE
      BY <1>1, <3>1, ObserverRejects
    <3> QED BY <1>1, <1>3, <2>2, <3>2
  <2>3. CASE ~told.observed /\ datum \in {"progress", "foreign"}
    <3>1. o = told
      BY <2>1, <2>3 DEF ObserveResponses
    <3> QED BY <1>1, <1>2, <1>3, <2>3, <3>1 DEF Silent
  <2>4. CASE ~told.observed /\ datum = "cut"
    <3>1. o = Rejected(Finished(told))
      BY <2>1, <2>4 DEF ObserveResponses
    <3>2. o \in Observers /\ o.open = TRUE /\ o.invalid = TRUE
      BY <1>1, <3>1, ObserverRejects, ObserverFinishes
    <3> QED BY <1>3, <2>4, <3>2
  <2>5. CASE ~told.observed /\ datum = "completed"
    <3>1. o = Completed(Finished(told))
      BY <2>1, <2>5 DEF ObserveResponses
    <3>2. /\ o \in Observers /\ o.open = TRUE /\ o.invalid = told.invalid
          /\ o.observed = TRUE /\ o.completed = TRUE
      BY <1>1, <3>1, ObserverCompletes, ObserverFinishes
    <3> QED BY <1>1, <1>2, <1>3, <2>5, <3>2 DEF Silent
  <2> QED BY <1>7, <2>2, <2>3, <2>4, <2>5
<1> QED BY <1>4, <1>5, <1>6, <1>7 DEF Data

\* A chat goes on, has finished its choice, has told its usage since, or has ended.
GoesOn(o) == ~o.invalid /\ ~o.observed /\ ~o.suffix /\ ~o.done
ChoseLast(o) == ~o.invalid /\ o.observed /\ ~o.suffix /\ ~o.done
ToldUsage(o) == ~o.invalid /\ o.observed /\ o.suffix /\ ~o.done
HasEnded(o) == ~o.invalid /\ o.observed /\ o.done
InOrder(o) == ~o.invalid => (o.done => o.observed) /\ (o.suffix => o.observed)

\* What the observer of a chat makes of an event.
LEMMA ChatsAreRead ==
    ASSUME work \in Observers, stream = "chat", NEW header, NEW datum \in Data.chat \cup {Silent},
           header \in {Silent, datum, "error"}, ~(header = Silent /\ datum = Silent), InOrder(work)
    PROVE  LET o == Sees(header, datum)
           IN  /\ o \in Observers /\ o.open /\ InOrder(o)
               /\ GoesOn(o) <=> GoesOn(work) /\ header # "error" /\ datum = "chunk"
               /\ ChoseLast(o) <=> GoesOn(work) /\ header # "error" /\ datum = "finish"
               /\ ToldUsage(o) <=> ChoseLast(work) /\ header = Silent /\ datum = "usage"
               /\ HasEnded(o) <=> (ChoseLast(work) \/ ToldUsage(work)) /\ header = Silent /\ datum = "done"
               /\ HasEnded(o) => o.completed
<1> USE DEF GoesOn, ChoseLast, ToldUsage, HasEnded, InOrder
<1>1. PICK told \in Observers :
         /\ Sees(header, datum) = Observe(told, datum)
         /\ told.open = TRUE /\ told.observed = work.observed
         /\ told.done = work.done /\ told.suffix = work.suffix
         /\ ~told.invalid <=> ~work.invalid /\ ~(header # Silent /\ HeaderRejected(header))
  BY HeaderIsRead
<1>2. HeaderRejected(header) <=> header = "error" \/ work.observed \/ work.done
  BY DEF HeaderRejected
<1>3. PICK o : o = Sees(header, datum)
  OBVIOUS
<1>4. CASE datum = Silent
  <2>1. o = told
    BY <1>1, <1>3, <1>4 DEF Observe, Silent
  <2>2. header = "error" /\ header # Silent
    BY <1>4 DEF Silent
  <2>3. o.invalid = TRUE
    BY <1>1, <1>2, <2>1, <2>2 DEF Observers
  <2> QED BY <1>1, <1>3, <1>4, <2>1, <2>3 DEF Silent
<1>5. CASE datum = "done"
  <2> DEFINE done == [told EXCEPT !.done = TRUE]
             late == ~told.observed \/ told.done
  <2>1. o = IF late THEN Rejected(Completed(done)) ELSE Completed(done)
    BY <1>1, <1>3, <1>5 DEF Observe, Silent, Done, RejectedIf
  <2>2. /\ done \in Observers /\ done.open = TRUE /\ done.done = TRUE /\ done.observed = told.observed
        /\ done.invalid = told.invalid
    BY <1>1, ObserverIsDone
  <2>3. CASE late
    <3>1. o \in Observers /\ o.open = TRUE /\ o.invalid = TRUE
      <4> HIDE DEF done
      <4> QED BY <2>1, <2>2, <2>3, ObserverRejects, ObserverCompletes
    <3> QED BY <1>1, <1>3, <1>5, <2>3, <3>1
  <2>4. CASE ~late
    <3>1. /\ o \in Observers /\ o.open = TRUE /\ o.invalid = told.invalid /\ o.done = TRUE
          /\ o.observed = told.observed /\ o.completed = TRUE
      <4> HIDE DEF done
      <4> QED BY <2>1, <2>2, <2>4, ObserverCompletes
    <3>2. told.observed /\ ~told.done
      BY <2>4
    <3> QED BY <1>1, <1>2, <1>3, <1>5, <3>1, <3>2 DEF Silent
  <2> QED BY <2>3, <2>4
<1>6. CASE datum \in {"garbled", "other"} \/ (datum \in {"usage", "empty", "chunk", "finish", "cut"} /\ told.done)
           \/ (datum \in {"chunk", "finish", "cut"} /\ told.observed)
  <2>1. o = Rejected(told)
    BY <1>1, <1>3, <1>6 DEF Observe, Silent, ObserveChat
  <2>2. o \in Observers /\ o.open = TRUE /\ o.invalid = TRUE
    BY <1>1, <2>1, ObserverRejects
  <2> QED BY <1>1, <1>3, <1>6, <2>2
<1>7. CASE datum \in {"usage", "empty"} /\ ~told.done
  <2> DEFINE suffixed == [told EXCEPT !.suffix = TRUE]
             wrong == ~told.observed \/ told.suffix \/ datum = "empty"
  <2>1. o = IF wrong THEN Rejected(suffixed) ELSE suffixed
    BY <1>1, <1>3, <1>7 DEF Observe, Silent, ObserveChat, RejectedIf
  <2>2. /\ suffixed \in Observers /\ suffixed.open = TRUE /\ suffixed.done = told.done
        /\ suffixed.observed = told.observed /\ suffixed.invalid = told.invalid /\ suffixed.suffix = TRUE
    BY <1>1, ObserverIsSuffixed
  <2>3. CASE wrong
    <3>1. o \in Observers /\ o.open = TRUE /\ o.invalid = TRUE
      <4> HIDE DEF suffixed
      <4> QED BY <2>1, <2>2, <2>3, ObserverRejects
    <3> QED BY <1>1, <1>3, <1>7, <2>3, <3>1
  <2>4. CASE ~wrong
    <3>1. o = suffixed /\ told.observed /\ ~told.suffix /\ datum = "usage"
      BY <1>7, <2>1, <2>4
    <3> HIDE DEF suffixed
    <3> QED BY <1>1, <1>2, <1>3, <1>7, <2>2, <3>1 DEF Silent
  <2> QED BY <2>3, <2>4
<1>8. CASE datum = "chunk" /\ ~told.done /\ ~told.observed
  <2>1. o = told
    BY <1>1, <1>3, <1>8 DEF Observe, Silent, ObserveChat
  <2> QED BY <1>1, <1>2, <1>3, <1>8, <2>1 DEF Silent
<1>9. CASE datum = "cut" /\ ~told.done /\ ~told.observed
  <2>1. o = Rejected(Finished(told))
    BY <1>1, <1>3, <1>9 DEF Observe, Silent, ObserveChat, RejectedIf
  <2>2. o \in Observers /\ o.open = TRUE /\ o.invalid = TRUE
    BY <1>1, <2>1, ObserverRejects, ObserverFinishes
  <2> QED BY <1>3, <1>9, <2>2
<1>10. CASE datum = "finish" /\ ~told.done /\ ~told.observed
  <2>1. o = Finished(told)
    BY <1>1, <1>3, <1>10 DEF Observe, Silent, ObserveChat, RejectedIf
  <2>2. /\ o \in Observers /\ o.open = TRUE /\ o.invalid = told.invalid /\ o.observed = TRUE
        /\ o.done = told.done /\ o.suffix = told.suffix
    BY <1>1, <2>1, ObserverFinishes
  <2> QED BY <1>1, <1>2, <1>3, <1>10, <2>2 DEF Silent
<1>11. datum \in {"chunk", "finish", "cut", "usage", "empty", "other", "garbled", "done", Silent}
  BY DEF Data
<1> QED BY <1>4, <1>5, <1>6, <1>7, <1>8, <1>9, <1>10, <1>11

LEMMA PhasesAre ==
    /\ DOMAIN Phases["awaiting"] = {"start"} /\ Phases["awaiting"]["start"] = "active"
    /\ DOMAIN Phases["active"] = {"block", "delta", "final", "cut"}
    /\ Phases["active"]["block"] = "active" /\ Phases["active"]["delta"] = "metadata"
    /\ Phases["active"]["final"] = "terminal" /\ Phases["active"]["cut"] = "terminal"
    /\ DOMAIN Phases["metadata"] = {"delta", "final", "cut"}
    /\ Phases["metadata"]["delta"] = "metadata" /\ Phases["metadata"]["final"] = "terminal"
    /\ Phases["metadata"]["cut"] = "terminal"
    /\ DOMAIN Phases["terminal"] = {"stop"} /\ Phases["terminal"]["stop"] = "stopped"
    /\ DOMAIN Phases["stopped"] = {}
BY DEF Phases

\* A message in a phase, with nothing wrong yet.
InPhase(o, phase) == ~o.invalid /\ o.phase = phase
Marked(o) == /\ (InPhase(o, "terminal") \/ InPhase(o, "stopped")) => o.observed
             /\ InPhase(o, "stopped") => o.completed

\* What the observer of a message makes of an event.
LEMMA MessagesAreRead ==
    ASSUME work \in Observers, stream = "messages", NEW header, NEW datum \in Data.messages \cup {Silent},
           header \in {Silent, datum, "error"}, ~(header = Silent /\ datum = Silent), Marked(work)
    PROVE  LET o == Sees(header, datum)
           IN  /\ o \in Observers /\ o.open /\ Marked(o)
               /\ InPhase(o, "awaiting") <=> InPhase(work, "awaiting") /\ header # "error" /\ datum = "ping"
               /\ InPhase(o, "active") <=>
                     /\ header # "error"
                     /\ \/ InPhase(work, "awaiting") /\ datum = "start"
                        \/ InPhase(work, "active") /\ datum \in {"block", "ping"}
               /\ InPhase(o, "metadata") <=>
                     /\ header # "error"
                     /\ \/ InPhase(work, "active") /\ datum = "delta"
                        \/ InPhase(work, "metadata") /\ datum \in {"delta", "ping"}
               /\ InPhase(o, "terminal") <=>
                     /\ header # "error"
                     /\ \/ (InPhase(work, "active") \/ InPhase(work, "metadata")) /\ datum = "final"
                        \/ InPhase(work, "terminal") /\ datum = "ping"
               /\ InPhase(o, "stopped") <=> InPhase(work, "terminal") /\ header # "error" /\ datum = "stop"
<1> USE DEF InPhase, Marked
<1>1. PICK told \in Observers :
         /\ Sees(header, datum) = Observe(told, datum)
         /\ told.open = TRUE /\ told.observed = work.observed /\ told.phase = work.phase
         /\ ~told.invalid <=> ~work.invalid /\ ~(header # Silent /\ HeaderRejected(header))
         /\ work.completed => told.completed
  BY HeaderIsRead
<1>2. HeaderRejected(header) <=>
         \/ header = "error" \/ work.phase = "stopped"
         \/ work.phase = "terminal" /\ header \notin {"ping", "stop"}
  BY DEF HeaderRejected
<1>3. PICK o : o = Sees(header, datum)
  OBVIOUS
<1>4. CASE datum = Silent
  <2>1. o = told
    BY <1>1, <1>3, <1>4 DEF Observe, Silent
  <2>2. header = "error" /\ header # Silent
    BY <1>4 DEF Silent
  <2>3. o.invalid = TRUE
    BY <1>1, <1>2, <2>1, <2>2 DEF Observers
  <2> QED BY <1>1, <1>3, <1>4, <2>1, <2>3 DEF Silent
<1>5. CASE datum = "done"
  <2> DEFINE done == [told EXCEPT !.done = TRUE]
  <2>1. o = Rejected(Completed(done))
    BY <1>1, <1>3, <1>5 DEF Observe, Silent, Done, RejectedIf
  <2>2. done \in Observers /\ done.open = TRUE
    BY <1>1, ObserverIsDone
  <2> HIDE DEF done
  <2>3. o \in Observers /\ o.open = TRUE /\ o.invalid = TRUE
    BY <2>1, <2>2, ObserverRejects, ObserverCompletes
  <2> QED BY <1>3, <1>5, <2>3
<1>6. CASE datum = "garbled"
  <2>1. o = Rejected(told)
    BY <1>1, <1>3, <1>6 DEF Observe, Silent
  <2>2. o \in Observers /\ o.open = TRUE /\ o.invalid = TRUE
    BY <1>1, <2>1, ObserverRejects
  <2> QED BY <1>3, <1>6, <2>2
<1>7. CASE datum = "ping"
  <2>1. o = IF told.phase = "stopped" THEN Rejected(told) ELSE told
    BY <1>1, <1>3, <1>7 DEF Observe, Silent, ObserveMessages, RejectedIf
  <2>2. CASE told.phase = "stopped"
    <3>1. o \in Observers /\ o.open = TRUE /\ o.invalid = TRUE
      BY <1>1, <2>1, <2>2, ObserverRejects
    <3> QED BY <1>1, <1>3, <1>7, <2>2, <3>1
  <2>3. CASE told.phase # "stopped"
    <3>1. o = told
      BY <2>1, <2>3
    <3> QED BY <1>1, <1>2, <1>3, <1>7, <2>3, <3>1 DEF Silent
  <2> QED BY <2>2, <2>3
<1>8. CASE datum \in {"start", "block", "delta", "final", "cut", "stop", "other"}
  <2> DEFINE next == Phases[told.phase]
             after == IF datum = "stop" THEN Completed(told) ELSE told
             moved == [after EXCEPT !.phase = next[datum]]
  <2>1. o = IF datum \notin DOMAIN next THEN Rejected(after)
            ELSE IF datum \in {"final", "cut"}
                 THEN IF datum = "cut" THEN Rejected(Finished(moved)) ELSE Finished(moved)
                 ELSE moved
    BY <1>1, <1>3, <1>8 DEF Observe, Silent, ObserveMessages, RejectedIf
  <2>2. /\ after \in Observers /\ after.open = TRUE /\ after.observed = told.observed
        /\ after.phase = told.phase /\ after.invalid = told.invalid
        /\ told.completed => after.completed
        /\ datum = "stop" => after.completed
    BY <1>1, ObserverCompletes
  <2>3. told.phase \in PhaseNames
    BY <1>1 DEF Observers
  <2>4. CASE datum \notin DOMAIN next
    <3>1. o \in Observers /\ o.open = TRUE /\ o.invalid = TRUE
      <4> HIDE DEF after, next
      <4> QED BY <2>1, <2>2, <2>4, ObserverRejects
    <3> QED BY <1>1, <1>3, <1>8, <2>3, <2>4, <3>1, PhasesAre DEF PhaseNames
  <2>5. CASE datum \in DOMAIN next
    <3>1. /\ next[datum] \in PhaseNames
          /\ next[datum] = "active" <=>
                (told.phase = "awaiting" /\ datum = "start") \/ (told.phase = "active" /\ datum = "block")
          /\ next[datum] = "metadata" <=> told.phase \in {"active", "metadata"} /\ datum = "delta"
          /\ next[datum] = "terminal" <=> told.phase \in {"active", "metadata"} /\ datum \in {"final", "cut"}
          /\ next[datum] = "stopped" <=> told.phase = "terminal" /\ datum = "stop"
          /\ next[datum] # "awaiting"
      BY <2>3, <2>5, PhasesAre DEF PhaseNames
    <3>2. PICK phase : phase = next[datum]
      OBVIOUS
    <3> HIDE DEF next, after
    <3>3. /\ moved \in Observers /\ moved.open = TRUE /\ moved.observed = told.observed
          /\ moved.phase = phase /\ moved.invalid = told.invalid
          /\ told.completed => moved.completed
          /\ datum = "stop" => moved.completed
      BY <2>2, <3>1, <3>2, ObserverMoves
    <3> HIDE DEF moved
    <3>4. CASE datum = "cut"
      <4>1. o \in Observers /\ o.open = TRUE /\ o.invalid = TRUE
        BY <2>1, <2>5, <3>3, <3>4, ObserverRejects, ObserverFinishes
      <4> QED BY <1>3, <3>4, <4>1
    <3>5. CASE datum = "final"
      <4>1. /\ o \in Observers /\ o.open = TRUE /\ o.invalid = told.invalid /\ o.phase = phase
            /\ o.observed = TRUE
        BY <2>1, <2>5, <3>3, <3>5, ObserverFinishes
      <4> QED BY <1>1, <1>2, <1>3, <3>1, <3>2, <3>5, <4>1 DEF Silent
    <3>6. CASE datum \notin {"cut", "final"}
      <4>1. o = moved
        BY <2>1, <2>5, <3>6
      <4> QED BY <1>1, <1>2, <1>3, <1>8, <3>1, <3>2, <3>3, <3>6, <4>1 DEF Silent
    <3> QED BY <3>4, <3>5, <3>6
  <2> QED BY <2>4, <2>5
<1>9. datum \in {"start", "block", "delta", "final", "cut", "stop", "ping", "other", "garbled", "done", Silent}
  BY DEF Data
<1> QED BY <1>4, <1>5, <1>6, <1>7, <1>8, <1>9

-----------------------------------------------------------------------------
(* How far a sequence of data is from a complete answer.                   *)

ChatGoesOn(sent, n) == AreAll(sent, 1, n, {"chunk"})
ChatChose(sent, n) == n > 0 /\ sent[n] = "finish" /\ AreAll(sent, 1, n - 1, {"chunk"})
ChatTold(sent, n) == n > 1 /\ sent[n] = "usage" /\ ChatChose(sent, n - 1)

MessageAwaits(sent, n) == AreAll(sent, 1, n, {"ping"})
MessageIsActive(sent, n) == \E start \in 1..n :
    sent[start] = "start" /\ AreAll(sent, 1, start - 1, {"ping"}) /\ AreAll(sent, start + 1, n, {"block", "ping"})
MessageHasMetadata(sent, n) == \E start \in 1..n :
    /\ sent[start] = "start" /\ AreAll(sent, 1, start - 1, {"ping"})
    /\ \E k \in start + 1..n : /\ AreAll(sent, start + 1, k - 1, {"block", "ping"})
                               /\ AreAll(sent, k, n, {"delta", "ping"})
                               /\ \E i \in k..n : sent[i] = "delta"
MessageIsFinal(sent, n) == \E end \in 1..n :
    sent[end] = "final" /\ Begun(sent, end - 1) /\ AreAll(sent, end + 1, n, {"ping"})

LEMMA AllSame ==
    ASSUME NEW old, NEW new, NEW n \in Nat, \A i \in 1..n : new[i] = old[i],
           NEW from \in Nat \ {0}, NEW to \in Int, to <= n, NEW kinds
    PROVE  AreAll(new, from, to, kinds) <=> AreAll(old, from, to, kinds)
BY DEF AreAll

LEMMA AllOneMore ==
    ASSUME NEW old, NEW new, NEW n \in Nat, \A i \in 1..n : new[i] = old[i],
           NEW from \in Nat \ {0}, from <= n + 1, NEW kinds
    PROVE  AreAll(new, from, n + 1, kinds) <=> AreAll(old, from, n, kinds) /\ new[n + 1] \in kinds
BY DEF AreAll

LEMMA ResponseGrows ==
    ASSUME NEW old, NEW new, NEW n \in Nat, \A i \in 1..n : new[i] = old[i]
    PROVE  CompleteResponse(new, n + 1) <=>
              AreAll(old, 1, n, {"progress", "foreign"}) /\ new[n + 1] = "completed"
BY AllSame DEF CompleteResponse

LEMMA ChatGrows ==
    ASSUME NEW old, NEW new, NEW n \in Nat, \A i \in 1..n : new[i] = old[i]
    PROVE  /\ ChatGoesOn(new, n + 1) <=> ChatGoesOn(old, n) /\ new[n + 1] = "chunk"
           /\ ChatChose(new, n + 1) <=> ChatGoesOn(old, n) /\ new[n + 1] = "finish"
           /\ ChatTold(new, n + 1) <=> ChatChose(old, n) /\ new[n + 1] = "usage"
           /\ CompleteChat(new, n + 1) <=> (ChatChose(old, n) \/ ChatTold(old, n)) /\ new[n + 1] = "done"
<1>1. ChatGoesOn(new, n + 1) <=> ChatGoesOn(old, n) /\ new[n + 1] = "chunk"
  <2>1. 1 \in Nat \ {0} /\ 1 <= n + 1
    OBVIOUS
  <2>2. AreAll(new, 1, n + 1, {"chunk"}) <=> AreAll(old, 1, n, {"chunk"}) /\ new[n + 1] \in {"chunk"}
    BY <2>1, AllOneMore
  <2> QED BY <2>2 DEF ChatGoesOn
<1>2. ChatChose(new, n + 1) <=> ChatGoesOn(old, n) /\ new[n + 1] = "finish"
  BY AllSame DEF ChatGoesOn, ChatChose
<1>3. ChatChose(new, n) <=> ChatChose(old, n)
  BY AllSame DEF ChatChose
<1>4. ChatTold(new, n + 1) <=> ChatChose(old, n) /\ new[n + 1] = "usage"
  BY <1>3 DEF ChatTold, ChatChose
<1>5. ChatTold(new, n) <=> ChatTold(old, n)
  BY AllSame DEF ChatTold, ChatChose
<1>6. CompleteChat(new, n + 1) <=> (ChatChose(new, n) \/ ChatTold(new, n)) /\ new[n + 1] = "done"
  <2>1. ASSUME CompleteChat(new, n + 1)
        PROVE  (ChatChose(new, n) \/ ChatTold(new, n)) /\ new[n + 1] = "done"
    <3>1. PICK end \in {n, n - 1} : /\ end > 0 /\ new[end] = "finish" /\ AreAll(new, 1, end - 1, {"chunk"})
                                    /\ AreAll(new, end + 1, n, {"usage"})
      BY <2>1 DEF CompleteChat
    <3>2. CASE end = n
      BY <2>1, <3>1, <3>2 DEF CompleteChat, ChatChose
    <3>3. CASE end = n - 1
      <4>1. new[n] = "usage"
        BY <3>1, <3>3 DEF AreAll
      <4> QED BY <2>1, <3>1, <3>3, <4>1 DEF CompleteChat, ChatTold, ChatChose
    <3> QED BY <3>1, <3>2, <3>3
  <2>2. ASSUME ChatChose(new, n), new[n + 1] = "done"
        PROVE  CompleteChat(new, n + 1)
    BY <2>2 DEF CompleteChat, ChatChose, AreAll
  <2>3. ASSUME ChatTold(new, n), new[n + 1] = "done"
        PROVE  CompleteChat(new, n + 1)
    <3>1. /\ n - 1 > 0 /\ new[n - 1] = "finish" /\ AreAll(new, 1, (n - 1) - 1, {"chunk"})
          /\ AreAll(new, (n - 1) + 1, n, {"usage"})
      BY <2>3 DEF ChatTold, ChatChose, AreAll
    <3> QED BY <2>3, <3>1 DEF CompleteChat
  <2> QED BY <2>1, <2>2, <2>3
<1> QED BY <1>1, <1>2, <1>3, <1>4, <1>5, <1>6

\* What has begun has blocks only, or metadata too.
LEMMA BegunIs ==
    ASSUME NEW sent, NEW n \in Nat
    PROVE  Begun(sent, n) <=> MessageIsActive(sent, n) \/ MessageHasMetadata(sent, n)
<1>1. ASSUME Begun(sent, n)
      PROVE  MessageIsActive(sent, n) \/ MessageHasMetadata(sent, n)
  <2>1. PICK start \in 1..n, k \in Nat :
           /\ k \in start..n
           /\ sent[start] = "start" /\ AreAll(sent, 1, start - 1, {"ping"})
           /\ AreAll(sent, start + 1, k, {"block", "ping"}) /\ AreAll(sent, k + 1, n, {"delta", "ping"})
    BY <1>1 DEF Begun
  <2>2. CASE \E i \in k + 1..n : sent[i] = "delta"
    <3>1. k + 1 \in start + 1..n /\ (k + 1) - 1 = k
      BY <2>1, <2>2
    <3> QED BY <2>1, <2>2, <3>1 DEF MessageHasMetadata
  <2>3. CASE ~\E i \in k + 1..n : sent[i] = "delta"
    <3>1. AreAll(sent, start + 1, n, {"block", "ping"})
      BY <2>1, <2>3 DEF AreAll
    <3> QED BY <2>1, <3>1 DEF MessageIsActive
  <2> QED BY <2>2, <2>3
<1>2. ASSUME MessageIsActive(sent, n)
      PROVE  Begun(sent, n)
  <2>1. PICK start \in 1..n : /\ sent[start] = "start" /\ AreAll(sent, 1, start - 1, {"ping"})
                              /\ AreAll(sent, start + 1, n, {"block", "ping"})
    BY <1>2 DEF MessageIsActive
  <2>2. n \in start..n /\ AreAll(sent, n + 1, n, {"delta", "ping"})
    BY DEF AreAll
  <2> QED BY <2>1, <2>2 DEF Begun
<1>3. ASSUME MessageHasMetadata(sent, n)
      PROVE  Begun(sent, n)
  <2>1. PICK start \in 1..n, k \in Nat :
           /\ k \in start + 1..n
           /\ sent[start] = "start" /\ AreAll(sent, 1, start - 1, {"ping"})
           /\ AreAll(sent, start + 1, k - 1, {"block", "ping"}) /\ AreAll(sent, k, n, {"delta", "ping"})
    BY <1>3 DEF MessageHasMetadata
  <2>2. k - 1 \in start..n /\ (k - 1) + 1 = k
    BY <2>1
  <2> QED BY <2>1, <2>2 DEF Begun
<1> QED BY <1>1, <1>2, <1>3

LEMMA MessageStarts ==
    ASSUME NEW old, NEW new, NEW n \in Nat, \A i \in 1..n : new[i] = old[i]
    PROVE  /\ MessageAwaits(new, n + 1) <=> MessageAwaits(old, n) /\ new[n + 1] = "ping"
           /\ MessageIsActive(new, n + 1) <=>
                 \/ MessageAwaits(old, n) /\ new[n + 1] = "start"
                 \/ MessageIsActive(old, n) /\ new[n + 1] \in {"block", "ping"}
<1>1. MessageAwaits(new, n + 1) <=> MessageAwaits(old, n) /\ new[n + 1] = "ping"
  BY AllOneMore DEF MessageAwaits
<1>2. ASSUME MessageIsActive(new, n + 1)
      PROVE  \/ MessageAwaits(old, n) /\ new[n + 1] = "start"
             \/ MessageIsActive(old, n) /\ new[n + 1] \in {"block", "ping"}
  <2>1. PICK start \in 1..n + 1 : /\ new[start] = "start" /\ AreAll(new, 1, start - 1, {"ping"})
                                  /\ AreAll(new, start + 1, n + 1, {"block", "ping"})
    BY <1>2 DEF MessageIsActive
  <2>2. AreAll(old, 1, start - 1, {"ping"})
    BY <2>1, AllSame
  <2>3. CASE start = n + 1
    BY <2>1, <2>2, <2>3 DEF MessageAwaits
  <2>4. CASE start \in 1..n
    <3>1. start + 1 \in Nat \ {0} /\ start + 1 <= n + 1
      BY <2>4
    <3>2. AreAll(old, start + 1, n, {"block", "ping"}) /\ new[n + 1] \in {"block", "ping"}
      BY <2>1, <3>1, AllOneMore
    <3>3. old[start] = "start"
      BY <2>1, <2>4
    <3> QED BY <2>2, <2>4, <3>2, <3>3 DEF MessageIsActive
  <2> QED BY <2>3, <2>4
<1>3. ASSUME MessageAwaits(old, n), new[n + 1] = "start"
      PROVE  MessageIsActive(new, n + 1)
  <2>1. AreAll(new, 1, n, {"ping"}) /\ AreAll(new, (n + 1) + 1, n + 1, {"block", "ping"})
    BY <1>3, AllSame DEF MessageAwaits, AreAll
  <2>2. n + 1 \in 1..n + 1 /\ (n + 1) - 1 = n
    OBVIOUS
  <2> QED BY <1>3, <2>1, <2>2 DEF MessageIsActive
<1>4. ASSUME MessageIsActive(old, n), new[n + 1] \in {"block", "ping"}
      PROVE  MessageIsActive(new, n + 1)
  <2>1. PICK start \in 1..n : /\ old[start] = "start" /\ AreAll(old, 1, start - 1, {"ping"})
                              /\ AreAll(old, start + 1, n, {"block", "ping"})
    BY <1>4 DEF MessageIsActive
  <2>2. AreAll(new, 1, start - 1, {"ping"})
    BY <2>1, AllSame
  <2>3. AreAll(new, start + 1, n + 1, {"block", "ping"})
    BY <1>4, <2>1, AllOneMore
  <2> QED BY <2>1, <2>2, <2>3 DEF MessageIsActive
<1> QED BY <1>1, <1>2, <1>3, <1>4

LEMMA MetadataGrows ==
    ASSUME NEW old, NEW new, NEW n \in Nat, \A i \in 1..n : new[i] = old[i]
    PROVE  MessageHasMetadata(new, n + 1) <=>
              \/ MessageIsActive(old, n) /\ new[n + 1] = "delta"
              \/ MessageHasMetadata(old, n) /\ new[n + 1] \in {"delta", "ping"}
<1>1. ASSUME MessageHasMetadata(new, n + 1)
      PROVE  \/ MessageIsActive(old, n) /\ new[n + 1] = "delta"
             \/ MessageHasMetadata(old, n) /\ new[n + 1] \in {"delta", "ping"}
  <2>1. PICK start \in 1..n + 1, k \in Nat :
           /\ k \in start + 1..n + 1
           /\ new[start] = "start" /\ AreAll(new, 1, start - 1, {"ping"})
           /\ AreAll(new, start + 1, k - 1, {"block", "ping"}) /\ AreAll(new, k, n + 1, {"delta", "ping"})
           /\ \E i \in k..n + 1 : new[i] = "delta"
    BY <1>1 DEF MessageHasMetadata
  <2>2. /\ start \in 1..n /\ old[start] = "start" /\ AreAll(old, 1, start - 1, {"ping"})
        /\ AreAll(old, start + 1, k - 1, {"block", "ping"}) /\ AreAll(old, k, n, {"delta", "ping"})
        /\ new[n + 1] \in {"delta", "ping"}
    <3>1. start \in 1..n /\ k \in Nat \ {0} /\ k <= n + 1
      BY <2>1
    <3>2. AreAll(old, k, n, {"delta", "ping"}) /\ new[n + 1] \in {"delta", "ping"}
      BY <2>1, <3>1, AllOneMore
    <3>3. AreAll(old, 1, start - 1, {"ping"}) /\ AreAll(old, start + 1, k - 1, {"block", "ping"})
      BY <2>1, <3>1, AllSame
    <3> QED BY <2>1, <3>1, <3>2, <3>3
  <2>3. CASE \E i \in k..n : old[i] = "delta"
    <3>1. k \in start + 1..n
      BY <2>1, <2>3
    <3> QED BY <2>2, <2>3, <3>1 DEF MessageHasMetadata
  <2>4. CASE ~\E i \in k..n : old[i] = "delta"
    <3>1. AreAll(old, start + 1, n, {"block", "ping"})
      BY <2>1, <2>2, <2>4 DEF AreAll
    <3>2. new[n + 1] = "delta"
      BY <2>1, <2>4
    <3> QED BY <2>2, <3>1, <3>2 DEF MessageIsActive
  <2> QED BY <2>3, <2>4
<1>2. ASSUME MessageIsActive(old, n), new[n + 1] = "delta"
      PROVE  MessageHasMetadata(new, n + 1)
  <2>1. PICK start \in 1..n : /\ old[start] = "start" /\ AreAll(old, 1, start - 1, {"ping"})
                              /\ AreAll(old, start + 1, n, {"block", "ping"})
    BY <1>2 DEF MessageIsActive
  <2>2. AreAll(new, 1, start - 1, {"ping"}) /\ AreAll(new, start + 1, n, {"block", "ping"})
    BY <2>1, AllSame
  <2>3. /\ n + 1 \in start + 1..n + 1 /\ (n + 1) - 1 = n
        /\ AreAll(new, n + 1, n + 1, {"delta", "ping"}) /\ n + 1 \in n + 1..n + 1
    BY <1>2 DEF AreAll
  <2>4. start \in 1..n + 1 /\ new[start] = "start"
    BY <2>1
  <2> QED BY <1>2, <2>2, <2>3, <2>4 DEF MessageHasMetadata
<1>3. ASSUME MessageHasMetadata(old, n), new[n + 1] \in {"delta", "ping"}
      PROVE  MessageHasMetadata(new, n + 1)
  <2>1. PICK start \in 1..n, k \in Nat :
           /\ k \in start + 1..n
           /\ old[start] = "start" /\ AreAll(old, 1, start - 1, {"ping"})
           /\ AreAll(old, start + 1, k - 1, {"block", "ping"}) /\ AreAll(old, k, n, {"delta", "ping"})
           /\ \E i \in k..n : old[i] = "delta"
    BY <1>3 DEF MessageHasMetadata
  <2>2. AreAll(new, 1, start - 1, {"ping"}) /\ AreAll(new, start + 1, k - 1, {"block", "ping"})
    BY <2>1, AllSame
  <2>3. AreAll(new, k, n + 1, {"delta", "ping"})
    BY <1>3, <2>1, AllOneMore
  <2>4. start \in 1..n + 1 /\ new[start] = "start" /\ k \in start + 1..n + 1
    BY <2>1
  <2>5. \E i \in k..n + 1 : new[i] = "delta"
    BY <2>1
  <2> QED BY <2>2, <2>3, <2>4, <2>5 DEF MessageHasMetadata
<1> QED BY <1>1, <1>2, <1>3

LEMMA BegunSame ==
    ASSUME NEW old, NEW new, NEW n \in Nat, \A i \in 1..n : new[i] = old[i],
           NEW m \in Nat, m <= n
    PROVE  Begun(new, m) <=> Begun(old, m)
<1>1. \A from \in Nat \ {0}, to \in Int : to <= m =>
         \A kinds : AreAll(new, from, to, kinds) <=> AreAll(old, from, to, kinds)
  BY DEF AreAll
<1>2. \A start \in 1..m : /\ new[start] = old[start] /\ start + 1 \in Nat \ {0}
                          /\ start - 1 <= m /\ start - 1 \in Int
                          /\ \A k \in start..m : k <= m /\ k \in Int /\ k + 1 \in Nat \ {0}
  OBVIOUS
<1> QED BY <1>1, <1>2 DEF Begun

LEMMA LastOrBefore ==
    ASSUME NEW n \in Nat, NEW k \in 1..n + 1
    PROVE  k = n + 1 \/ k \in 1..n
OBVIOUS

LEMMA MessageEnds ==
    ASSUME NEW old, NEW new, NEW n \in Nat, \A i \in 1..n : new[i] = old[i]
    PROVE  /\ MessageIsFinal(new, n + 1) <=>
                 \/ Begun(old, n) /\ new[n + 1] = "final"
                 \/ MessageIsFinal(old, n) /\ new[n + 1] = "ping"
           /\ CompleteMessage(new, n + 1) <=> MessageIsFinal(old, n) /\ new[n + 1] = "stop"
<1>1. ASSUME MessageIsFinal(new, n + 1)
      PROVE  \/ Begun(old, n) /\ new[n + 1] = "final"
             \/ MessageIsFinal(old, n) /\ new[n + 1] = "ping"
  <2>1. PICK end \in 1..n + 1 : /\ new[end] = "final" /\ Begun(new, end - 1)
                                /\ AreAll(new, end + 1, n + 1, {"ping"})
    BY <1>1 DEF MessageIsFinal
  <2>2. Begun(old, end - 1)
    <3>1. end - 1 \in Nat /\ end - 1 <= n
      OBVIOUS
    <3>2. Begun(new, end - 1) <=> Begun(old, end - 1)
      BY <3>1, BegunSame
    <3> QED BY <2>1, <3>2
  <2>3. CASE end = n + 1
    <3>1. end - 1 = n
      BY <2>3
    <3>2. Begun(old, n)
      BY <2>2, <3>1, Zenon
    <3> QED BY <2>1, <2>3, <3>2, Zenon
  <2>4. CASE end \in 1..n
    <3>1. end + 1 \in Nat \ {0} /\ end + 1 <= n + 1
      BY <2>4
    <3>2. AreAll(new, end + 1, n + 1, {"ping"}) <=> AreAll(old, end + 1, n, {"ping"}) /\ new[n + 1] \in {"ping"}
      BY <3>1, AllOneMore
    <3>3. old[end] = "final" /\ new[n + 1] = "ping" /\ AreAll(old, end + 1, n, {"ping"})
      BY <2>1, <2>4, <3>2
    <3> QED BY <2>2, <2>4, <3>3 DEF MessageIsFinal
  <2>5. end = n + 1 \/ end \in 1..n
    BY <2>1, LastOrBefore, Zenon
  <2> QED BY <2>3, <2>4, <2>5, Zenon
<1>2. ASSUME Begun(old, n), new[n + 1] = "final"
      PROVE  MessageIsFinal(new, n + 1)
  <2>1. Begun(new, n) /\ AreAll(new, (n + 1) + 1, n + 1, {"ping"})
    BY <1>2, BegunSame DEF AreAll
  <2>2. n + 1 \in 1..n + 1 /\ (n + 1) - 1 = n
    OBVIOUS
  <2> QED BY <1>2, <2>1, <2>2 DEF MessageIsFinal
<1>3. MessageIsFinal(new, n) <=> MessageIsFinal(old, n)
  <2>1. \A end \in 1..n : /\ new[end] = old[end]
                          /\ Begun(new, end - 1) <=> Begun(old, end - 1)
                          /\ AreAll(new, end + 1, n, {"ping"}) <=> AreAll(old, end + 1, n, {"ping"})
    BY BegunSame, AllSame
  <2> QED BY <2>1 DEF MessageIsFinal
<1>4. ASSUME MessageIsFinal(old, n), new[n + 1] = "ping"
      PROVE  MessageIsFinal(new, n + 1)
  <2>1. PICK end \in 1..n : /\ new[end] = "final" /\ Begun(new, end - 1)
                            /\ AreAll(new, end + 1, n, {"ping"})
    BY <1>3, <1>4 DEF MessageIsFinal
  <2>2. AreAll(new, end + 1, n + 1, {"ping"})
    BY <1>4, <2>1 DEF AreAll
  <2> QED BY <2>1, <2>2 DEF MessageIsFinal
<1>5. CompleteMessage(new, n + 1) <=> MessageIsFinal(new, n) /\ new[n + 1] = "stop"
  <2>1. n + 1 > 0 /\ (n + 1) - 1 = n
    OBVIOUS
  <2> QED BY <2>1 DEF CompleteMessage, MessageIsFinal
<1> QED BY <1>1, <1>2, <1>3, <1>4, <1>5

-----------------------------------------------------------------------------
(* What the observers keep.                                                *)

Words == {Silent, "error", "progress", "foreign", "other", "completed", "cut", "garbled", "done", "chunk",
          "finish", "usage", "empty", "start", "block", "delta", "final", "stop", "ping"}
EventType == [header : Words, datum : Words, closed : BOOLEAN]
ObserverTyping ==
    /\ stream \in {"responses", "chat", "messages"} /\ events \in Seq(EventType) /\ work \in Observers
    /\ nativeState \in [state : {"open", "completed", "incomplete"}, invalid : BOOLEAN,
                        response : {"unknown", "another", "its own"}, header : Words, datum : Words]

\* The last event is open, or none is.
LastIsOpen ==
    /\ \A i \in 1..Len(events) : events[i].closed <=> ~(work.open /\ i = Len(events))
    /\ work.open => Len(events) > 0

NoErrors == \A i \in 1..Len(events) : events[i].header # "error"
QuietAtTheEnd == \A i, j \in 1..Len(events) : (i < j /\ Sent[i] = "finish") => events[j].header = Silent

\* The observer is where the data that it was sent have brought it.
ReadsResponses == stream = "responses" =>
    /\ ~work.invalid /\ ~work.observed <=> NoErrors /\ AreAll(Sent, 1, Len(events), {"progress", "foreign"})
    /\ ~work.invalid /\ work.observed <=> NoErrors /\ CompleteResponse(Sent, Len(events))
    /\ ~work.invalid /\ work.observed => work.completed
ReadsChats == stream = "chat" =>
    /\ InOrder(work)
    /\ GoesOn(work) <=> NoErrors /\ QuietAtTheEnd /\ ChatGoesOn(Sent, Len(events))
    /\ ChoseLast(work) <=> NoErrors /\ QuietAtTheEnd /\ ChatChose(Sent, Len(events))
    /\ ToldUsage(work) <=> NoErrors /\ QuietAtTheEnd /\ ChatTold(Sent, Len(events))
    /\ HasEnded(work) <=> NoErrors /\ QuietAtTheEnd /\ CompleteChat(Sent, Len(events))
    /\ HasEnded(work) => work.completed
ReadsMessages == stream = "messages" =>
    /\ Marked(work)
    /\ InPhase(work, "awaiting") <=> NoErrors /\ MessageAwaits(Sent, Len(events))
    /\ InPhase(work, "active") <=> NoErrors /\ MessageIsActive(Sent, Len(events))
    /\ InPhase(work, "metadata") <=> NoErrors /\ MessageHasMetadata(Sent, Len(events))
    /\ InPhase(work, "terminal") <=> NoErrors /\ MessageIsFinal(Sent, Len(events))
    /\ InPhase(work, "stopped") <=> NoErrors /\ CompleteMessage(Sent, Len(events))

\* The native observer listens as long as every event that was closed was acceptable and none
\* of them its end; then it has succeeded, or refused the event that ended it.
Names(sent, n, kind) == \E i \in 1..n : sent[i] = kind
ClosedEvents == IF work.open THEN Len(events) - 1 ELSE Len(events)
NativeListens ==
    /\ \A i \in 1..ClosedEvents : AcceptedEvent(events[i]) /\ Sent[i] # "completed"
    /\ OneResponse(Sent, ClosedEvents)
    /\ nativeState.response = "another" <=> Names(Sent, ClosedEvents, "foreign")
    /\ nativeState.response = "its own" <=> Names(Sent, ClosedEvents, "progress")
    /\ work.open => /\ nativeState.header = events[Len(events)].header
                    /\ nativeState.datum = events[Len(events)].datum
Succeeds(sent, m) ==
    sent[m] = "completed" /\ (\A i \in 1..m : AcceptedEvent(events[i])) /\ OneResponse(sent, m)
Refuses(sent, m) ==
    /\ \A i \in 1..m - 1 : sent[i] # "completed"
    /\ ~AcceptedEvent(events[m]) \/ ~OneResponse(sent, m)
NativeKeeps == stream = "responses" =>
    /\ Listens => NativeListens
    /\ NativeSucceeds => \E m \in 1..ClosedEvents : Succeeds(Sent, m)
    /\ ~Listens /\ ~NativeSucceeds => \E m \in 1..ClosedEvents : Refuses(Sent, m)

ObserverInv == /\ ObserverTyping /\ LastIsOpen /\ NativeKeeps
               /\ ReadsResponses /\ ReadsChats /\ ReadsMessages

LEMMA EventIsAdded ==
    ASSUME ObserverTyping, NEW header \in Words, NEW datum \in Words, SendEvent(header, datum)
    PROVE  /\ Len(events) \in Nat /\ Len(events') = Len(events) + 1
           /\ events' \in Seq(EventType)
           /\ \A i \in 1..Len(events) : events'[i] = events[i] /\ Sent'[i] = Sent[i]
           /\ events'[Len(events) + 1] = [header |-> header, datum |-> datum, closed |-> FALSE]
           /\ Sent'[Len(events) + 1] = datum
<1> DEFINE event == [header |-> header, datum |-> datum, closed |-> FALSE]
<1>1. event \in EventType /\ events \in Seq(EventType) /\ events' = Append(events, event)
  BY DEF EventType, ObserverTyping, SendEvent
<1> HIDE DEF event
<1>2. /\ Len(events) \in Nat /\ Len(events') = Len(events) + 1
      /\ events' \in Seq(EventType)
      /\ \A i \in 1..Len(events) : events'[i] = events[i]
      /\ events'[Len(events) + 1] = event
      /\ DOMAIN events = 1..Len(events) /\ DOMAIN events' = 1..Len(events) + 1
  BY <1>1, AppendProperties, LenProperties
<1>3. \A i \in 1..Len(events) : Sent'[i] = Sent[i]
  BY <1>2 DEF Sent
<1>4. Sent'[Len(events) + 1] = event.datum
  BY <1>2 DEF Sent
<1> USE DEF event
<1> QED BY <1>2, <1>3, <1>4

LEMMA ErrorsGrow ==
    ASSUME ObserverTyping, NEW header \in Words, NEW datum \in Words, SendEvent(header, datum)
    PROVE  /\ NoErrors' <=> NoErrors /\ header # "error"
           /\ QuietAtTheEnd' <=>
                 /\ QuietAtTheEnd
                 /\ (\E i \in 1..Len(events) : Sent[i] = "finish") => header = Silent
<1> DEFINE n == Len(events)
<1>1. /\ n \in Nat /\ Len(events') = n + 1
      /\ \A i \in 1..n : events'[i] = events[i] /\ Sent'[i] = Sent[i]
      /\ events'[n + 1] = [header |-> header, datum |-> datum, closed |-> FALSE]
  BY EventIsAdded
<1> HIDE DEF n
<1>2. (\A i \in 1..n + 1 : i \in 1..n \/ i = n + 1) /\ events'[n + 1].header = header
  BY <1>1
<1>3. NoErrors' <=> NoErrors /\ header # "error"
  BY <1>1, <1>2 DEF NoErrors, n
<1>4. QuietAtTheEnd' <=> \A i, j \in 1..n + 1 : (i < j /\ Sent'[i] = "finish") => events'[j].header = Silent
  BY <1>1 DEF QuietAtTheEnd
<1>5. QuietAtTheEnd <=> \A i, j \in 1..n : (i < j /\ Sent[i] = "finish") => events[j].header = Silent
  BY DEF QuietAtTheEnd, n
<1>6. QuietAtTheEnd' => QuietAtTheEnd /\ ((\E i \in 1..n : Sent[i] = "finish") => header = Silent)
  <2>1. QuietAtTheEnd' => QuietAtTheEnd
    BY <1>1, <1>4, <1>5
  <2>2. ASSUME QuietAtTheEnd', NEW i \in 1..n, Sent[i] = "finish"
        PROVE  header = Silent
    <3>1. i \in 1..n + 1 /\ n + 1 \in 1..n + 1 /\ i < n + 1 /\ Sent'[i] = "finish"
      BY <1>1, <2>2
    <3> QED BY <1>2, <1>4, <2>2, <3>1
  <2> QED BY <2>1, <2>2
<1>7. ASSUME QuietAtTheEnd, (\E i \in 1..n : Sent[i] = "finish") => header = Silent
      PROVE  QuietAtTheEnd'
  <2>1. SUFFICES ASSUME NEW i \in 1..n + 1, NEW j \in 1..n + 1, i < j, Sent'[i] = "finish"
                 PROVE  events'[j].header = Silent
    BY <1>4
  <2>2. i \in 1..n /\ Sent[i] = "finish"
    BY <1>1, <2>1
  <2>3. CASE j = n + 1
    BY <1>2, <1>7, <2>2, <2>3
  <2>4. CASE j \in 1..n
    BY <1>1, <1>5, <1>7, <2>1, <2>2, <2>4
  <2> QED BY <1>2, <2>3, <2>4
<1> QED BY <1>3, <1>6, <1>7 DEF n

LEMMA ResponsesStay ==
    ASSUME ObserverTyping, ReadsResponses, stream = "responses",
           NEW header, NEW datum \in Data.responses \cup {Silent}, header \in {Silent, datum, "error"},
           header \in Words, datum \in Words, SendEvent(header, datum)
    PROVE  ReadsResponses'
<1>1. PICK n, old, new : n = Len(events) /\ old = Sent /\ new = Sent'
  OBVIOUS
<1>2. /\ n \in Nat /\ Len(events') = n + 1
      /\ \A i \in 1..n : new[i] = old[i]
      /\ new[n + 1] = datum
  BY <1>1, EventIsAdded
<1>3. NoErrors' <=> NoErrors /\ header # "error"
  BY ErrorsGrow
<1>4. /\ AreAll(new, 1, n + 1, {"progress", "foreign"}) <=>
            AreAll(old, 1, n, {"progress", "foreign"}) /\ datum \in {"progress", "foreign"}
      /\ CompleteResponse(new, n + 1) <=> AreAll(old, 1, n, {"progress", "foreign"}) /\ datum = "completed"
  <2>1. 1 \in Nat \ {0} /\ 1 <= n + 1
    BY <1>2
  <2> QED BY <1>2, <2>1, AllOneMore, ResponseGrows
<1>5. PICK o : o = Sees(header, datum)
  OBVIOUS
<1>6. /\ work' = o /\ stream' = stream
      /\ (~o.invalid /\ ~o.observed) <=>
            /\ ~work.invalid /\ ~work.observed /\ header # "error" /\ datum \in {"progress", "foreign"}
      /\ (~o.invalid /\ o.observed) <=>
            ~work.invalid /\ ~work.observed /\ header # "error" /\ datum = "completed"
      /\ (~o.invalid /\ o.observed) => o.completed
  BY <1>5, ResponsesAreRead DEF SendEvent, ObserverTyping
<1>7. ~work.invalid /\ ~work.observed <=> NoErrors /\ AreAll(old, 1, n, {"progress", "foreign"})
  BY <1>1 DEF ReadsResponses
<1> QED BY <1>1, <1>2, <1>3, <1>4, <1>6, <1>7 DEF ReadsResponses

LEMMA ChatsStay ==
    ASSUME ObserverTyping, ReadsChats, stream = "chat",
           NEW header, NEW datum \in Data.chat \cup {Silent}, header \in {Silent, datum, "error"},
           header \in Words, datum \in Words, SendEvent(header, datum)
    PROVE  ReadsChats'
<1>1. PICK n, old, new : n = Len(events) /\ old = Sent /\ new = Sent'
  OBVIOUS
<1>2. /\ n \in Nat /\ Len(events') = n + 1
      /\ \A i \in 1..n : new[i] = old[i]
      /\ new[n + 1] = datum
  BY <1>1, EventIsAdded
<1>3. PICK finished \in BOOLEAN : finished <=> \E i \in 1..n : old[i] = "finish"
  OBVIOUS
<1>4. /\ NoErrors' <=> NoErrors /\ header # "error"
      /\ QuietAtTheEnd' <=> QuietAtTheEnd /\ (finished => header = Silent)
  BY <1>1, <1>3, ErrorsGrow
<1>5. /\ ChatGoesOn(new, n + 1) <=> ChatGoesOn(old, n) /\ datum = "chunk"
      /\ ChatChose(new, n + 1) <=> ChatGoesOn(old, n) /\ datum = "finish"
      /\ ChatTold(new, n + 1) <=> ChatChose(old, n) /\ datum = "usage"
      /\ CompleteChat(new, n + 1) <=> (ChatChose(old, n) \/ ChatTold(old, n)) /\ datum = "done"
  BY <1>2, ChatGrows
<1>6. /\ ChatGoesOn(old, n) => ~finished
      /\ ChatChose(old, n) => finished
      /\ ChatTold(old, n) => finished
  <2>1. ChatGoesOn(old, n) => ~finished
    BY <1>3 DEF ChatGoesOn, AreAll
  <2>2. ChatChose(old, n) => finished
    BY <1>2, <1>3 DEF ChatChose
  <2>3. ChatTold(old, n) => finished
    BY <1>2, <1>3 DEF ChatChose, ChatTold
  <2> QED BY <2>1, <2>2, <2>3
<1>7. PICK o : o = Sees(header, datum)
  OBVIOUS
<1>8. /\ work' = o /\ stream' = stream /\ InOrder(o)
      /\ GoesOn(o) <=> GoesOn(work) /\ header # "error" /\ datum = "chunk"
      /\ ChoseLast(o) <=> GoesOn(work) /\ header # "error" /\ datum = "finish"
      /\ ToldUsage(o) <=> ChoseLast(work) /\ header = Silent /\ datum = "usage"
      /\ HasEnded(o) <=> (ChoseLast(work) \/ ToldUsage(work)) /\ header = Silent /\ datum = "done"
      /\ HasEnded(o) => o.completed
  <2>1. work \in Observers /\ InOrder(work) /\ ~(header = Silent /\ datum = Silent)
    BY DEF ObserverTyping, ReadsChats, SendEvent
  <2> QED BY <1>7, <2>1, ChatsAreRead DEF SendEvent
<1>9. /\ GoesOn(work) <=> NoErrors /\ QuietAtTheEnd /\ ChatGoesOn(old, n)
      /\ ChoseLast(work) <=> NoErrors /\ QuietAtTheEnd /\ ChatChose(old, n)
      /\ ToldUsage(work) <=> NoErrors /\ QuietAtTheEnd /\ ChatTold(old, n)
  BY <1>1 DEF ReadsChats
<1>10. header = Silent => header # "error"
  BY DEF Silent
<1>11. /\ GoesOn(o) <=> NoErrors' /\ QuietAtTheEnd' /\ ChatGoesOn(new, n + 1)
       /\ ChoseLast(o) <=> NoErrors' /\ QuietAtTheEnd' /\ ChatChose(new, n + 1)
       /\ ToldUsage(o) <=> NoErrors' /\ QuietAtTheEnd' /\ ChatTold(new, n + 1)
       /\ HasEnded(o) <=> NoErrors' /\ QuietAtTheEnd' /\ CompleteChat(new, n + 1)
  BY <1>4, <1>5, <1>6, <1>8, <1>9, <1>10
<1> QED BY <1>1, <1>2, <1>8, <1>11 DEF ReadsChats, InOrder, GoesOn, ChoseLast, ToldUsage, HasEnded

LEMMA MessagesStay ==
    ASSUME ObserverTyping, ReadsMessages, stream = "messages",
           NEW header, NEW datum \in Data.messages \cup {Silent}, header \in {Silent, datum, "error"},
           header \in Words, datum \in Words, SendEvent(header, datum)
    PROVE  ReadsMessages'
<1>1. PICK n, old, new : n = Len(events) /\ old = Sent /\ new = Sent'
  OBVIOUS
<1>2. /\ n \in Nat /\ Len(events') = n + 1
      /\ \A i \in 1..n : new[i] = old[i]
      /\ new[n + 1] = datum
  BY <1>1, EventIsAdded
<1>3. NoErrors' <=> NoErrors /\ header # "error"
  BY ErrorsGrow
<1>4. /\ MessageAwaits(new, n + 1) <=> MessageAwaits(old, n) /\ datum = "ping"
      /\ MessageIsActive(new, n + 1) <=>
            \/ MessageAwaits(old, n) /\ datum = "start"
            \/ MessageIsActive(old, n) /\ datum \in {"block", "ping"}
      /\ MessageHasMetadata(new, n + 1) <=>
            \/ MessageIsActive(old, n) /\ datum = "delta"
            \/ MessageHasMetadata(old, n) /\ datum \in {"delta", "ping"}
      /\ MessageIsFinal(new, n + 1) <=>
            \/ Begun(old, n) /\ datum = "final"
            \/ MessageIsFinal(old, n) /\ datum = "ping"
      /\ CompleteMessage(new, n + 1) <=> MessageIsFinal(old, n) /\ datum = "stop"
  <2>1. /\ MessageAwaits(new, n + 1) <=> MessageAwaits(old, n) /\ new[n + 1] = "ping"
        /\ MessageIsActive(new, n + 1) <=>
              \/ MessageAwaits(old, n) /\ new[n + 1] = "start"
              \/ MessageIsActive(old, n) /\ new[n + 1] \in {"block", "ping"}
    BY <1>2, MessageStarts
  <2>2. MessageHasMetadata(new, n + 1) <=>
           \/ MessageIsActive(old, n) /\ new[n + 1] = "delta"
           \/ MessageHasMetadata(old, n) /\ new[n + 1] \in {"delta", "ping"}
    BY <1>2, MetadataGrows
  <2>3. /\ MessageIsFinal(new, n + 1) <=>
              \/ Begun(old, n) /\ new[n + 1] = "final"
              \/ MessageIsFinal(old, n) /\ new[n + 1] = "ping"
        /\ CompleteMessage(new, n + 1) <=> MessageIsFinal(old, n) /\ new[n + 1] = "stop"
    BY <1>2, MessageEnds
  <2> QED BY <1>2, <2>1, <2>2, <2>3
<1>5. Begun(old, n) <=> MessageIsActive(old, n) \/ MessageHasMetadata(old, n)
  BY <1>2, BegunIs
<1>6. PICK o : o = Sees(header, datum)
  OBVIOUS
<1>7. /\ work' = o /\ stream' = stream /\ Marked(o)
      /\ InPhase(o, "awaiting") <=> InPhase(work, "awaiting") /\ header # "error" /\ datum = "ping"
      /\ InPhase(o, "active") <=>
            /\ header # "error"
            /\ \/ InPhase(work, "awaiting") /\ datum = "start"
               \/ InPhase(work, "active") /\ datum \in {"block", "ping"}
      /\ InPhase(o, "metadata") <=>
            /\ header # "error"
            /\ \/ InPhase(work, "active") /\ datum = "delta"
               \/ InPhase(work, "metadata") /\ datum \in {"delta", "ping"}
      /\ InPhase(o, "terminal") <=>
            /\ header # "error"
            /\ \/ (InPhase(work, "active") \/ InPhase(work, "metadata")) /\ datum = "final"
               \/ InPhase(work, "terminal") /\ datum = "ping"
      /\ InPhase(o, "stopped") <=> InPhase(work, "terminal") /\ header # "error" /\ datum = "stop"
  <2>1. work \in Observers /\ Marked(work) /\ ~(header = Silent /\ datum = Silent)
    BY DEF ObserverTyping, ReadsMessages, SendEvent
  <2> QED BY <1>6, <2>1, MessagesAreRead DEF SendEvent
<1>8. /\ InPhase(work, "awaiting") <=> NoErrors /\ MessageAwaits(old, n)
      /\ InPhase(work, "active") <=> NoErrors /\ MessageIsActive(old, n)
      /\ InPhase(work, "metadata") <=> NoErrors /\ MessageHasMetadata(old, n)
      /\ InPhase(work, "terminal") <=> NoErrors /\ MessageIsFinal(old, n)
  BY <1>1 DEF ReadsMessages
<1>9. /\ InPhase(o, "awaiting") <=> NoErrors' /\ MessageAwaits(new, n + 1)
      /\ InPhase(o, "active") <=> NoErrors' /\ MessageIsActive(new, n + 1)
      /\ InPhase(o, "metadata") <=> NoErrors' /\ MessageHasMetadata(new, n + 1)
      /\ InPhase(o, "terminal") <=> NoErrors' /\ MessageIsFinal(new, n + 1)
      /\ InPhase(o, "stopped") <=> NoErrors' /\ CompleteMessage(new, n + 1)
  BY <1>3, <1>4, <1>5, <1>7, <1>8
<1> QED BY <1>1, <1>2, <1>7, <1>9 DEF ReadsMessages, Marked, InPhase

LEMMA EventIsOpen ==
    ASSUME ObserverInv, NEW datum \in Data[stream] \cup {Silent}, NEW header \in {Silent, datum, "error"},
           SendEvent(header, datum)
    PROVE  /\ header \in Words /\ datum \in Words /\ work' \in Observers /\ work'.open
           /\ stream' = stream
           /\ ReadsResponses' /\ ReadsChats' /\ ReadsMessages'
<1>1. ObserverTyping /\ ReadsResponses /\ ReadsChats /\ ReadsMessages
  BY DEF ObserverInv
<1>2. /\ stream \in {"responses", "chat", "messages"} /\ stream' = stream /\ work' = Sees(header, datum)
      /\ ~(header = Silent /\ datum = Silent) /\ work \in Observers
  BY <1>1 DEF SendEvent, ObserverTyping
<1>3. Silent \in Words /\ "error" \in Words
  BY DEF Words
<1>4. CASE stream = "responses"
  <2>1. Data[stream] = Data.responses /\ Data.responses \subseteq Words
    BY <1>4 DEF Data, Words
  <2>2. header \in Words /\ datum \in Words
    BY <1>3, <2>1
  <2>3. ReadsResponses'
    BY <1>1, <1>4, <2>1, <2>2, ResponsesStay
  <2>4. work' \in Observers /\ work'.open
    BY <1>2, <1>4, <2>1, ResponsesAreRead
  <2> QED BY <1>2, <1>4, <2>2, <2>3, <2>4 DEF ReadsChats, ReadsMessages
<1>5. CASE stream = "chat"
  <2>1. Data[stream] = Data.chat /\ Data.chat \subseteq Words
    BY <1>5 DEF Data, Words
  <2>2. header \in Words /\ datum \in Words
    BY <1>3, <2>1
  <2>3. ReadsChats'
    BY <1>1, <1>5, <2>1, <2>2, ChatsStay
  <2>4. InOrder(work)
    BY <1>1, <1>5 DEF ReadsChats
  <2>5. work' \in Observers /\ work'.open
    BY <1>2, <1>5, <2>1, <2>4, ChatsAreRead
  <2> QED BY <1>2, <1>5, <2>2, <2>3, <2>5 DEF ReadsResponses, ReadsMessages
<1>6. CASE stream = "messages"
  <2>1. Data[stream] = Data.messages /\ Data.messages \subseteq Words
    BY <1>6 DEF Data, Words
  <2>2. header \in Words /\ datum \in Words
    BY <1>3, <2>1
  <2>3. ReadsMessages'
    BY <1>1, <1>6, <2>1, <2>2, MessagesStay
  <2>4. Marked(work)
    BY <1>1, <1>6 DEF ReadsMessages
  <2>5. work' \in Observers /\ work'.open
    BY <1>2, <1>6, <2>1, <2>4, MessagesAreRead
  <2> QED BY <1>2, <1>6, <2>2, <2>3, <2>5 DEF ReadsResponses, ReadsChats
<1> QED BY <1>2, <1>4, <1>5, <1>6

LEMMA SendEventKeeps ==
    ASSUME ObserverInv, NEW datum \in Data[stream] \cup {Silent}, NEW header \in {Silent, datum, "error"},
           SendEvent(header, datum)
    PROVE  ObserverInv'
<1>1. /\ header \in Words /\ datum \in Words /\ work' \in Observers /\ work'.open
      /\ stream' = stream /\ ReadsResponses' /\ ReadsChats' /\ ReadsMessages'
  BY EventIsOpen
<1>2. ObserverTyping /\ LastIsOpen /\ NativeKeeps
  BY DEF ObserverInv
<1>3. PICK n, old, new : n = Len(events) /\ old = Sent /\ new = Sent'
  OBVIOUS
<1>4. /\ n \in Nat /\ Len(events') = n + 1 /\ events' \in Seq(EventType)
      /\ \A i \in 1..n : events'[i] = events[i] /\ new[i] = old[i]
      /\ events'[n + 1] = [header |-> header, datum |-> datum, closed |-> FALSE]
  BY <1>1, <1>2, <1>3, EventIsAdded
<1>5. ~work.open
  BY DEF SendEvent
<1>6. ClosedEvents = n /\ ClosedEvents' = n
  BY <1>1, <1>3, <1>4, <1>5 DEF ClosedEvents
<1>7. LastIsOpen'
  <2>1. events'[n + 1].closed = FALSE /\ events'[n + 1].header = header /\ events'[n + 1].datum = datum
    BY <1>4
  <2>2. \A i \in 1..n : events[i].closed
    BY <1>2, <1>3, <1>5 DEF LastIsOpen
  <2>3. \A i \in 1..n + 1 : i \in 1..n \/ i = n + 1
    BY <1>4
  <2>4. \A i \in 1..n + 1 : events'[i].closed <=> i # n + 1
    BY <1>4, <2>1, <2>2, <2>3
  <2> QED BY <1>1, <1>4, <2>4 DEF LastIsOpen
<1>8. /\ nativeState' \in [state : {"open", "completed", "incomplete"}, invalid : BOOLEAN,
                           response : {"unknown", "another", "its own"}, header : Words, datum : Words]
      /\ nativeState'.state = nativeState.state /\ nativeState'.invalid = nativeState.invalid
      /\ nativeState'.response = nativeState.response
      /\ Listens => nativeState'.header = header /\ nativeState'.datum = datum
  <2>1. CASE Listens
    <3>1. nativeState' = [state |-> nativeState.state, invalid |-> nativeState.invalid,
                          response |-> nativeState.response, header |-> header, datum |-> datum]
      BY <2>1 DEF SendEvent, PendingEvent
    <3> QED BY <1>1, <1>2, <3>1 DEF ObserverTyping
  <2>2. CASE ~Listens
    BY <1>2, <2>2 DEF SendEvent, ObserverTyping
  <2> QED BY <2>1, <2>2
<1>9. Listens' <=> Listens
  BY <1>1, <1>8 DEF Listens
<1>10. NativeSucceeds' <=> NativeSucceeds
  BY <1>8 DEF NativeSucceeds
<1>11. \A m \in 1..n : /\ OneResponse(new, m) <=> OneResponse(old, m)
                       /\ \A i \in 1..m : events'[i] = events[i] /\ new[i] = old[i]
  BY <1>4 DEF OneResponse
<1>12. \A m \in 1..n : Succeeds(old, m) => Succeeds(new, m)'
  BY <1>3, <1>11 DEF Succeeds, AcceptedEvent
<1>13. \A m \in 1..n : Refuses(old, m) => Refuses(new, m)'
  BY <1>3, <1>11 DEF Refuses, AcceptedEvent
<1>14. stream = "responses" /\ Listens => NativeListens'
  <2>1. SUFFICES ASSUME stream = "responses", Listens
                 PROVE  NativeListens'
    OBVIOUS
  <2>2. /\ \A i \in 1..n : AcceptedEvent(events[i]) /\ old[i] # "completed"
        /\ OneResponse(old, n)
        /\ nativeState.response = "another" <=> Names(old, n, "foreign")
        /\ nativeState.response = "its own" <=> Names(old, n, "progress")
    BY <1>2, <1>3, <1>6, <2>1 DEF NativeKeeps, NativeListens
  <2>3. /\ OneResponse(new, n)
        /\ Names(old, n, "foreign") <=> Names(new, n, "foreign")
        /\ Names(old, n, "progress") <=> Names(new, n, "progress")
    BY <1>4, <2>2 DEF OneResponse, Names
  <2>4. \A i \in 1..n : AcceptedEvent(events'[i]) /\ new[i] # "completed"
    BY <1>4, <2>2
  <2>5. events'[Len(events')].header = header /\ events'[Len(events')].datum = datum
    BY <1>4
  <2> QED BY <1>3, <1>6, <1>8, <2>1, <2>2, <2>3, <2>4, <2>5 DEF NativeListens
<1>15. NativeKeeps'
  BY <1>1, <1>2, <1>3, <1>6, <1>9, <1>10, <1>12, <1>13, <1>14 DEF NativeKeeps
<1>16. ObserverTyping'
  BY <1>1, <1>2, <1>4, <1>8 DEF ObserverTyping
<1> QED BY <1>1, <1>7, <1>15, <1>16 DEF ObserverInv

LEMMA EventIsClosed ==
    ASSUME ObserverInv, CloseEvent
    PROVE  /\ Len(events) \in Nat \ {0} /\ Len(events') = Len(events) /\ events' \in Seq(EventType)
           /\ \A i \in 1..Len(events) :
                 /\ events'[i].header = events[i].header /\ events'[i].datum = events[i].datum
                 /\ i # Len(events) => events'[i] = events[i]
           /\ events'[Len(events)].closed = TRUE
           /\ Sent' = Sent
<1> DEFINE n == Len(events)
           event == [header |-> Latest.header, datum |-> Latest.datum, closed |-> TRUE]
<1>1. /\ n \in Nat \ {0} /\ events \in Seq(EventType) /\ DOMAIN events = 1..n
  <2>1. events \in Seq(EventType) /\ n > 0
    BY DEF CloseEvent, ObserverInv, ObserverTyping, LastIsOpen
  <2>2. n \in Nat /\ DOMAIN events = 1..n
    BY <2>1, LenProperties
  <2> QED BY <2>1, <2>2
<1>2. events[n] \in EventType /\ Latest = events[n]
  BY <1>1, ElementOfSeq DEF Latest
<1>3. event \in EventType /\ event.header = events[n].header /\ event.datum = events[n].datum /\ event.closed = TRUE
  BY <1>2 DEF EventType
<1>4. events' = [events EXCEPT ![n] = event]
  BY DEF CloseEvent
<1> HIDE DEF event, n
<1>5. /\ events' \in Seq(EventType) /\ Len(events') = n /\ DOMAIN events' = 1..n
      /\ events'[n] = event /\ \A i \in 1..n : i # n => events'[i] = events[i]
  BY <1>1, <1>3, <1>4, ExceptSeq
<1>6. \A i \in 1..n : events'[i].header = events[i].header /\ events'[i].datum = events[i].datum
  BY <1>1, <1>3, <1>5
<1>7. Sent' = Sent
  BY <1>1, <1>5, <1>6 DEF Sent
<1> QED BY <1>1, <1>3, <1>5, <1>6, <1>7 DEF n

LEMMA ReadingStays ==
    ASSUME ObserverInv, CloseEvent
    PROVE  ReadsResponses' /\ ReadsChats' /\ ReadsMessages'
<1>1. PICK n \in Nat \ {0} : n = Len(events)
  BY EventIsClosed
<1>2. /\ Len(events') = n /\ Sent' = Sent /\ stream' = stream
      /\ \A i \in 1..n : events'[i].header = events[i].header
  BY <1>1, EventIsClosed DEF CloseEvent
<1>3. /\ NoErrors' <=> NoErrors
      /\ QuietAtTheEnd' <=> QuietAtTheEnd
  BY <1>1, <1>2 DEF NoErrors, QuietAtTheEnd
<1>4. work' = [work EXCEPT !.open = FALSE] /\ work \in Observers
  BY DEF CloseEvent, ObserverInv, ObserverTyping
<1>5. PICK o : o = work'
  OBVIOUS
<1>6. /\ o.invalid = work.invalid /\ o.observed = work.observed /\ o.phase = work.phase
      /\ o.done = work.done /\ o.suffix = work.suffix /\ o.completed = work.completed
  BY <1>4, <1>5, ObserverOpens
<1>7. ReadsResponses'
  <2>1. ReadsResponses
    BY DEF ObserverInv
  <2> QED BY <1>1, <1>2, <1>3, <1>5, <1>6, <2>1 DEF ReadsResponses
<1>8. ReadsChats'
  <2>1. /\ InOrder(work)' <=> InOrder(work)
        /\ GoesOn(work)' <=> GoesOn(work)
        /\ ChoseLast(work)' <=> ChoseLast(work)
        /\ ToldUsage(work)' <=> ToldUsage(work)
        /\ HasEnded(work)' <=> HasEnded(work)
    BY <1>5, <1>6 DEF InOrder, GoesOn, ChoseLast, ToldUsage, HasEnded
  <2>2. ReadsChats /\ work'.completed = work.completed
    BY <1>5, <1>6 DEF ObserverInv
  <2> QED BY <1>1, <1>2, <1>3, <2>1, <2>2 DEF ReadsChats
<1>9. ReadsMessages'
  <2>1. /\ Marked(work)' <=> Marked(work)
        /\ InPhase(work, "awaiting")' <=> InPhase(work, "awaiting")
        /\ InPhase(work, "active")' <=> InPhase(work, "active")
        /\ InPhase(work, "metadata")' <=> InPhase(work, "metadata")
        /\ InPhase(work, "terminal")' <=> InPhase(work, "terminal")
        /\ InPhase(work, "stopped")' <=> InPhase(work, "stopped")
    BY <1>5, <1>6 DEF Marked, InPhase
  <2>2. ReadsMessages
    BY DEF ObserverInv
  <2> QED BY <1>1, <1>2, <1>3, <2>1, <2>2 DEF ReadsMessages
<1> QED BY <1>7, <1>8, <1>9

\* What the native observer makes of an event that is closed, as the last one.
LEMMA DispatchedIsOne ==
    ASSUME ObserverTyping
    PROVE  Dispatched \in [state : {"open", "completed", "incomplete"}, invalid : BOOLEAN,
                           response : {"unknown", "another", "its own"}, header : Words, datum : Words]
<1> DEFINE datum == nativeState.datum
           names == datum \in {"progress", "foreign", "completed", "cut"}
           refused == /\ datum \notin {Silent, "done"}
                      /\ \/ datum = "garbled" \/ nativeState.header \notin {Silent, datum}
                         \/ names /\ ~OfOneResponse(nativeState.response, datum)
           accepted == names /\ ~refused
           state == IF accepted /\ datum = "completed" THEN "completed"
                    ELSE IF accepted /\ datum = "cut" THEN "incomplete" ELSE nativeState.state
           response == IF ~accepted THEN nativeState.response
                       ELSE IF datum = "foreign" THEN "another" ELSE "its own"
<1>1. PICK wrong \in BOOLEAN : wrong <=> refused
  OBVIOUS
<1>2. PICK invalid \in BOOLEAN : invalid <=> nativeState.invalid \/ refused
  OBVIOUS
<1>3. state \in {"open", "completed", "incomplete"} /\ response \in {"unknown", "another", "its own"}
  BY DEF ObserverTyping
<1>4. Silent \in Words
  BY DEF Words
<1>5. Dispatched.state = state /\ Dispatched.response = response
      /\ Dispatched.header = Silent /\ Dispatched.datum = Silent
  BY DEF Dispatched
<1>6. Dispatched.invalid \in BOOLEAN
  BY DEF Dispatched, ObserverTyping
<1> HIDE DEF state, response
<1>7. Dispatched = [state |-> Dispatched.state, invalid |-> Dispatched.invalid,
                    response |-> Dispatched.response, header |-> Dispatched.header,
                    datum |-> Dispatched.datum]
  BY DEF Dispatched
<1> QED BY <1>3, <1>4, <1>5, <1>6, <1>7

LEMMA NativeStays ==
    ASSUME ObserverInv, CloseEvent, stream = "responses"
    PROVE  NativeKeeps'
<1>1. PICK n, sent : n \in Nat \ {0} /\ n = Len(events) /\ sent = Sent
  BY EventIsClosed
<1>2. /\ Len(events') = n /\ Sent' = sent
      /\ \A i \in 1..n - 1 : events'[i] = events[i]
      /\ events'[n].header = events[n].header /\ events'[n].datum = events[n].datum
      /\ events'[n].closed = TRUE
  <2>1. /\ Len(events') = n /\ Sent' = sent
        /\ \A i \in 1..n : /\ events'[i].header = events[i].header /\ events'[i].datum = events[i].datum
                           /\ i # n => events'[i] = events[i]
        /\ events'[n].closed = TRUE
    BY <1>1, EventIsClosed
  <2>2. (\A i \in 1..n - 1 : i \in 1..n /\ i # n) /\ n \in 1..n
    BY <1>1
  <2>3. \A i \in 1..n - 1 : events'[i] = events[i]
    BY <2>1, <2>2
  <2>4. events'[n].header = events[n].header /\ events'[n].datum = events[n].datum
    BY <2>1, <2>2
  <2> QED BY <2>1, <2>3, <2>4
<1>3. work.open /\ ~work'.open
  BY ObserverOpens DEF CloseEvent, ObserverInv, ObserverTyping
<1>4. ClosedEvents = n - 1 /\ ClosedEvents' = n
  BY <1>1, <1>2, <1>3 DEF ClosedEvents
<1>5. stream' = stream /\ NativeKeeps /\ ObserverTyping /\ DOMAIN events = 1..n
  BY <1>1, LenProperties DEF CloseEvent, ObserverInv, ObserverTyping
<1>6. \A m \in 1..n - 1 : Succeeds(sent, m) => Succeeds(sent, m)'
  BY <1>1, <1>2 DEF Succeeds, AcceptedEvent
<1>7. \A m \in 1..n - 1 : Refuses(sent, m) => Refuses(sent, m)'
  BY <1>1, <1>2 DEF Refuses, AcceptedEvent
<1>8. CASE ~Listens
  <2>1. nativeState' = nativeState
    BY <1>8 DEF CloseEvent
  <2>2. (Listens' <=> Listens) /\ (NativeSucceeds' <=> NativeSucceeds)
    BY <1>5, <2>1 DEF Listens, NativeSucceeds
  <2>3. \A m \in 1..n - 1 : m \in 1..n
    BY <1>1
  <2> QED BY <1>1, <1>2, <1>4, <1>5, <1>6, <1>7, <1>8, <2>2, <2>3 DEF NativeKeeps
<1>9. CASE Listens
  <2>1. PICK header, datum, response : /\ header = nativeState.header /\ datum = nativeState.datum
                                       /\ response = nativeState.response
    OBVIOUS
  <2>2. /\ \A i \in 1..n - 1 : AcceptedEvent(events[i]) /\ sent[i] # "completed"
        /\ OneResponse(sent, n - 1)
        /\ response = "another" <=> Names(sent, n - 1, "foreign")
        /\ response = "its own" <=> Names(sent, n - 1, "progress")
        /\ header = events[n].header /\ datum = events[n].datum
    BY <1>1, <1>3, <1>4, <1>5, <1>9, <2>1 DEF NativeKeeps, NativeListens
  <2>3. sent[n] = datum
    <3>1. n \in DOMAIN events
      BY <1>1, <1>5
    <3>2. Sent[n] = events[n].datum
      BY <3>1 DEF Sent
    <3> QED BY <1>1, <2>2, <3>2
  <2>4. AcceptedEvent(events'[n]) <=> /\ datum \notin {"garbled", "cut"}
                                      /\ datum \in {Silent, "done"} \/ header \in {Silent, datum}
    BY <1>2, <2>2 DEF AcceptedEvent
  <2>5. OneResponse(sent, n) <=> /\ datum = "foreign" => ~Names(sent, n - 1, "progress")
                                 /\ datum \in {"progress", "completed"} => ~Names(sent, n - 1, "foreign")
    <3>1. (\A i \in 1..n : i \in 1..n - 1 \/ i = n) /\ (\A i \in 1..n - 1 : i \in 1..n) /\ n \in 1..n
      BY <1>1
    <3>2. OneResponse(sent, n) => /\ datum = "foreign" => ~Names(sent, n - 1, "progress")
                                  /\ datum \in {"progress", "completed"} => ~Names(sent, n - 1, "foreign")
      BY <2>3, <3>1 DEF OneResponse, Names
    <3>3. ASSUME datum = "foreign" => ~Names(sent, n - 1, "progress"),
                 datum \in {"progress", "completed"} => ~Names(sent, n - 1, "foreign"),
                 NEW i \in 1..n, NEW j \in 1..n, sent[i] = "foreign", sent[j] \in {"progress", "completed"}
          PROVE  FALSE
      <4>1. \A m \in 1..n - 1 : sent[m] # "completed"
        BY <2>2
      <4>2. CASE i = n
        <5>1. j \in 1..n - 1 /\ sent[j] = "progress"
          BY <2>3, <3>1, <3>3, <4>1, <4>2
        <5> QED BY <2>3, <3>3, <4>2, <5>1 DEF Names
      <4>3. CASE i \in 1..n - 1 /\ j = n
        BY <2>3, <3>3, <4>3 DEF Names
      <4>4. CASE i \in 1..n - 1 /\ j \in 1..n - 1
        BY <2>2, <3>3, <4>4 DEF OneResponse
      <4> QED BY <3>1, <4>2, <4>3, <4>4
    <3> QED BY <3>2, <3>3 DEF OneResponse
  <2>6. PICK names \in BOOLEAN : names <=> datum \in {"progress", "foreign", "completed", "cut"}
    OBVIOUS
  <2>7. PICK refused \in BOOLEAN :
           refused <=> /\ datum \notin {Silent, "done"}
                       /\ \/ datum = "garbled" \/ header \notin {Silent, datum}
                          \/ names /\ response \notin {"unknown", IF datum = "foreign" THEN "another" ELSE "its own"}
    OBVIOUS
  <2>8. PICK new : new = nativeState'
    OBVIOUS
  <2>9. /\ new.state = IF names /\ ~refused /\ datum = "completed" THEN "completed"
                       ELSE IF names /\ ~refused /\ datum = "cut" THEN "incomplete" ELSE nativeState.state
        /\ new.invalid <=> refused
        /\ new.response = IF ~(names /\ ~refused) THEN response
                          ELSE IF datum = "foreign" THEN "another" ELSE "its own"
    BY <1>9, <2>1, <2>6, <2>7, <2>8 DEF CloseEvent, Dispatched, OfOneResponse, Listens
  <2>10. nativeState.state = "open" /\ response \in {"unknown", "another", "its own"}
    BY <1>5, <1>9, <2>1 DEF Listens, ObserverTyping
  <2>11. /\ \A i \in 1..n - 1 : AcceptedEvent(events'[i]) /\ sent[i] # "completed"
         /\ \A i \in 1..n : i \in 1..n - 1 \/ i = n
         /\ n \in 1..n
    <3>1. (\A i \in 1..n : i \in 1..n - 1 \/ i = n) /\ n \in 1..n
      BY <1>1
    <3>2. \A i \in 1..n - 1 : AcceptedEvent(events'[i]) /\ sent[i] # "completed"
      BY <1>2, <2>2
    <3> QED BY <3>1, <3>2
  <2>12. CASE refused
    <3>1. ~AcceptedEvent(events'[n]) \/ ~OneResponse(sent, n)
      BY <2>2, <2>4, <2>5, <2>6, <2>7, <2>10, <2>12
    <3>2. Refuses(sent, n)'
      BY <1>2, <2>11, <3>1 DEF Refuses
    <3>3. ~Listens' /\ ~NativeSucceeds'
      BY <2>8, <2>9, <2>12 DEF Listens, NativeSucceeds
    <3> QED BY <1>2, <1>4, <2>11, <3>2, <3>3 DEF NativeKeeps
  <2>13. CASE ~refused /\ datum = "completed"
    <3>1. AcceptedEvent(events'[n]) /\ OneResponse(sent, n)
      BY <2>2, <2>4, <2>5, <2>6, <2>7, <2>10, <2>13 DEF Silent
    <3>2. Succeeds(sent, n)'
      BY <1>2, <2>3, <2>11, <2>13, <3>1 DEF Succeeds
    <3>3. ~Listens' /\ NativeSucceeds'
      BY <2>6, <2>8, <2>9, <2>13 DEF Listens, NativeSucceeds
    <3> QED BY <1>2, <1>4, <2>11, <3>2, <3>3 DEF NativeKeeps
  <2>14. CASE ~refused /\ datum = "cut"
    <3>1. ~AcceptedEvent(events'[n])
      BY <2>4, <2>14
    <3>2. Refuses(sent, n)'
      BY <1>2, <2>11, <3>1 DEF Refuses
    <3>3. ~Listens' /\ ~NativeSucceeds'
      BY <2>6, <2>8, <2>9, <2>14 DEF Listens, NativeSucceeds
    <3> QED BY <1>2, <1>4, <2>11, <3>2, <3>3 DEF NativeKeeps
  <2>15. CASE ~refused /\ datum \notin {"completed", "cut"}
    <3>1. AcceptedEvent(events'[n])
      BY <2>4, <2>6, <2>7, <2>15 DEF Silent
    <3>2. OneResponse(sent, n)
      BY <2>2, <2>5, <2>6, <2>7, <2>10, <2>15 DEF Silent
    <3>3. /\ Names(sent, n, "foreign") <=> Names(sent, n - 1, "foreign") \/ datum = "foreign"
          /\ Names(sent, n, "progress") <=> Names(sent, n - 1, "progress") \/ datum = "progress"
      BY <1>1, <2>3 DEF Names
    <3>4. /\ new.response = "another" <=> Names(sent, n, "foreign")
          /\ new.response = "its own" <=> Names(sent, n, "progress")
      BY <2>2, <2>6, <2>7, <2>9, <2>10, <2>15, <3>3 DEF Silent
    <3>5. NativeListens'
      BY <1>2, <1>3, <1>4, <2>3, <2>8, <2>11, <2>15, <3>1, <3>2, <3>4 DEF NativeListens
    <3>6. Listens' /\ ~NativeSucceeds'
      BY <1>5, <2>6, <2>8, <2>9, <2>10, <2>15 DEF Listens, NativeSucceeds
    <3> QED BY <3>5, <3>6 DEF NativeKeeps
  <2> QED BY <2>12, <2>13, <2>14, <2>15
<1> QED BY <1>8, <1>9

LEMMA CloseEventKeeps ==
    ASSUME ObserverInv, CloseEvent
    PROVE  ObserverInv'
<1>1. PICK n \in Nat \ {0} : n = Len(events)
  BY EventIsClosed
<1>2. /\ Len(events') = n /\ events' \in Seq(EventType) /\ stream' = stream
      /\ \A i \in 1..n : i # n => events'[i] = events[i]
      /\ events'[n].closed = TRUE
  BY <1>1, EventIsClosed DEF CloseEvent
<1>3. work.open /\ ~work'.open /\ work' \in Observers
  BY ObserverOpens DEF CloseEvent, ObserverInv, ObserverTyping
<1>4. LastIsOpen'
  BY <1>1, <1>2, <1>3 DEF ObserverInv, LastIsOpen
<1>5. ObserverTyping'
  <2>1. ObserverTyping /\ nativeState' = IF Listens THEN Dispatched ELSE nativeState
    BY DEF ObserverInv, CloseEvent
  <2> QED BY <1>2, <1>3, <2>1, DispatchedIsOne DEF ObserverTyping
<1>6. NativeKeeps'
  BY <1>2, NativeStays DEF NativeKeeps
<1> QED BY <1>4, <1>5, <1>6, ReadingStays DEF ObserverInv

LEMMA ObserverStarts ==
    ASSUME ObserverInit
    PROVE  ObserverInv
<1>1. events = <<>> /\ Len(events) = 0 /\ events \in Seq(EventType)
  BY EmptySeq DEF ObserverInit
<1>2. /\ work = [observed |-> FALSE, invalid |-> FALSE, phase |-> "awaiting", done |-> FALSE,
                 suffix |-> FALSE, completed |-> FALSE, open |-> FALSE]
      /\ work \in Observers
  BY DEF ObserverInit, Observers, PhaseNames
<1>3. /\ ~work.observed /\ ~work.invalid /\ work.phase = "awaiting" /\ ~work.done
      /\ ~work.suffix /\ ~work.completed /\ ~work.open
  BY <1>2
<1>4. stream \in {"responses", "chat", "messages"}
  BY ObserverAssumption DEF ObserverInit
<1>5. /\ nativeState \in [state : {"open", "completed", "incomplete"}, invalid : BOOLEAN,
                          response : {"unknown", "another", "its own"}, header : Words, datum : Words]
      /\ nativeState.state = "open" /\ nativeState.invalid = FALSE /\ nativeState.response = "unknown"
  BY DEF ObserverInit, Words
<1>6. ObserverTyping
  BY <1>1, <1>2, <1>4, <1>5 DEF ObserverTyping
<1>7. LastIsOpen
  BY <1>1, <1>3 DEF LastIsOpen
<1>8. PICK n, sent : n = 0 /\ n = Len(events) /\ sent = Sent
  BY <1>1
<1>9. 1..n = {} /\ ~(n > 0) /\ ~(n > 1)
  BY <1>8
<1>10. NoErrors /\ QuietAtTheEnd
  BY <1>8, <1>9 DEF NoErrors, QuietAtTheEnd
<1>11. ReadsResponses
  <2>1. AreAll(sent, 1, n, {"progress", "foreign"}) /\ ~CompleteResponse(sent, n)
    BY <1>9 DEF AreAll, CompleteResponse
  <2> QED BY <1>3, <1>8, <1>10, <2>1 DEF ReadsResponses
<1>12. ReadsChats
  <2>1. ChatGoesOn(sent, n) /\ ~ChatChose(sent, n) /\ ~ChatTold(sent, n) /\ ~CompleteChat(sent, n)
    BY <1>9 DEF ChatGoesOn, AreAll, ChatChose, ChatTold, CompleteChat
  <2>2. /\ InOrder(work) /\ GoesOn(work) /\ ~ChoseLast(work) /\ ~ToldUsage(work) /\ ~HasEnded(work)
    BY <1>3 DEF InOrder, GoesOn, ChoseLast, ToldUsage, HasEnded
  <2> QED BY <1>8, <1>10, <2>1, <2>2 DEF ReadsChats
<1>13. ReadsMessages
  <2>1. /\ MessageAwaits(sent, n) /\ ~MessageIsActive(sent, n) /\ ~MessageHasMetadata(sent, n)
        /\ ~MessageIsFinal(sent, n) /\ ~CompleteMessage(sent, n)
    BY <1>9 DEF MessageAwaits, AreAll, MessageIsActive, MessageHasMetadata, MessageIsFinal, CompleteMessage
  <2>2. /\ Marked(work) /\ InPhase(work, "awaiting") /\ ~InPhase(work, "active")
        /\ ~InPhase(work, "metadata") /\ ~InPhase(work, "terminal") /\ ~InPhase(work, "stopped")
    BY <1>3 DEF Marked, InPhase
  <2> QED BY <1>8, <1>10, <2>1, <2>2 DEF ReadsMessages
<1>14. NativeKeeps
  <2>1. ClosedEvents = n
    BY <1>3, <1>8 DEF ClosedEvents
  <2>2. OneResponse(sent, n) /\ ~Names(sent, n, "foreign") /\ ~Names(sent, n, "progress")
    BY <1>9 DEF OneResponse, Names
  <2>3. NativeListens
    BY <1>3, <1>5, <1>8, <1>9, <2>1, <2>2 DEF NativeListens
  <2>4. (stream = "responses" => Listens) /\ ~NativeSucceeds
    BY <1>5 DEF Listens, NativeSucceeds
  <2> QED BY <2>3, <2>4 DEF NativeKeeps
<1> QED BY <1>6, <1>7, <1>11, <1>12, <1>13, <1>14 DEF ObserverInv

LEMMA ObserverKeeps ==
    ASSUME ObserverInv, [ObserverNext]_observerVars
    PROVE  ObserverInv'
<1>1. CASE \E datum \in Data[stream] \cup {Silent} :
              \E header \in {Silent, datum, "error"} : SendEvent(header, datum)
  BY <1>1, SendEventKeeps
<1>2. CASE CloseEvent
  BY <1>2, CloseEventKeeps
<1>3. CASE UNCHANGED observerVars
  <2>1. stream' = stream /\ events' = events /\ work' = work /\ nativeState' = nativeState
    BY <1>3 DEF observerVars
  <2>2. Sent' = Sent /\ ClosedEvents' = ClosedEvents /\ (Listens' <=> Listens)
        /\ (NativeSucceeds' <=> NativeSucceeds) /\ (NoErrors' <=> NoErrors)
    BY <2>1 DEF Sent, ClosedEvents, Listens, NativeSucceeds, NoErrors
  <2>3. (ObserverTyping' <=> ObserverTyping) /\ (LastIsOpen' <=> LastIsOpen)
        /\ (QuietAtTheEnd' <=> QuietAtTheEnd)
    BY <2>1, <2>2 DEF ObserverTyping, LastIsOpen, QuietAtTheEnd
  <2>4. NativeListens' <=> NativeListens
    BY <2>1, <2>2 DEF NativeListens
  <2>5. NativeKeeps' <=> NativeKeeps
    BY <2>1, <2>2, <2>4 DEF NativeKeeps, Succeeds, Refuses
  <2>6. (ReadsResponses' <=> ReadsResponses) /\ (ReadsMessages' <=> ReadsMessages)
    BY <2>1, <2>2 DEF ReadsResponses, ReadsMessages, Marked, InPhase
  <2>7. ReadsChats' <=> ReadsChats
    BY <2>1, <2>2, <2>3 DEF ReadsChats, InOrder, GoesOn, ChoseLast, ToldUsage, HasEnded
  <2> QED BY <2>3, <2>5, <2>6, <2>7 DEF ObserverInv
<1> QED BY <1>1, <1>2, <1>3 DEF ObserverNext

LEMMA CompleteIsRead ==
    ASSUME ObserverInv
    PROVE  CompleteIsComplete
<1>1. /\ ObserverTyping /\ LastIsOpen /\ ReadsResponses /\ ReadsChats /\ ReadsMessages
  BY DEF ObserverInv
<1>2. DOMAIN events = 1..Len(events) /\ Len(events) \in Nat
  BY <1>1, LenProperties DEF ObserverTyping
<1>3. /\ stream \in {"responses", "chat", "messages"}
      /\ work.open \in BOOLEAN /\ work.invalid \in BOOLEAN /\ work.observed \in BOOLEAN
      /\ work.completed \in BOOLEAN /\ work.done \in BOOLEAN
  BY <1>1 DEF ObserverTyping, Observers
<1>4. (\A i \in DOMAIN events : events[i].closed /\ events[i].header # "error") <=> ~work.open /\ NoErrors
  <2>1. (\A i \in DOMAIN events : events[i].closed) <=> ~work.open
    <3>0. /\ \A i \in 1..Len(events) : events[i].closed <=> ~(work.open /\ i = Len(events))
          /\ work.open => Len(events) > 0
      BY <1>1 DEF LastIsOpen
    <3>1. \A m \in Nat : m > 0 => m \in 1..m
      OBVIOUS
    <3>2. work.open => Len(events) \in 1..Len(events)
      BY <3>0, <3>1, <1>2, Zenon
    <3>3. /\ \A i \in DOMAIN events : events[i].closed <=> ~(work.open /\ i = Len(events))
          /\ work.open => Len(events) \in DOMAIN events
      BY <3>0, <3>2, <1>2, Zenon
    <3>4. work.open => ~events[Len(events)].closed
      BY <3>3
    <3> QED BY <3>3, <3>4
  <2> QED BY <1>2, <2>1 DEF NoErrors
<1>5. CASE stream = "responses"
  <2>1. WorkComplete <=> ~work.open /\ ~work.invalid /\ work.observed
    BY <1>1, <1>3, <1>5 DEF WorkComplete, ReadsResponses
  <2>2. ~work.invalid /\ work.observed <=> NoErrors /\ CompleteResponse(Sent, Len(events))
    BY <1>1, <1>5 DEF ReadsResponses
  <2> QED BY <1>4, <1>5, <2>1, <2>2 DEF CompleteIsComplete
<1>6. CASE stream = "chat"
  <2>1. WorkComplete <=> ~work.open /\ HasEnded(work)
    BY <1>1, <1>3, <1>6 DEF WorkComplete, ReadsChats, HasEnded
  <2>2. HasEnded(work) <=> NoErrors /\ QuietAtTheEnd /\ CompleteChat(Sent, Len(events))
    BY <1>1, <1>6 DEF ReadsChats
  <2>3. QuietAtTheEnd <=>
           \A i, j \in DOMAIN events : (i < j /\ Sent[i] = "finish") => events[j].header = Silent
    BY <1>2 DEF QuietAtTheEnd
  <2> QED BY <1>4, <1>6, <2>1, <2>2, <2>3 DEF CompleteIsComplete
<1>7. CASE stream = "messages"
  <2>1. WorkComplete <=> ~work.open /\ InPhase(work, "stopped")
    BY <1>1, <1>3, <1>7 DEF WorkComplete, ReadsMessages, Marked, InPhase
  <2>2. InPhase(work, "stopped") <=> NoErrors /\ CompleteMessage(Sent, Len(events))
    BY <1>1, <1>7 DEF ReadsMessages
  <2> QED BY <1>4, <1>7, <2>1, <2>2 DEF CompleteIsComplete
<1> QED BY <1>3, <1>5, <1>6, <1>7

LEMMA NativeSuccessIsRead ==
    ASSUME ObserverInv
    PROVE  NativeSuccessIsTerminal
<1>1. SUFFICES ASSUME stream = "responses"
               PROVE  NativeSucceeds <=> \E m \in DOMAIN events : Succeeds(Sent, m)
  BY DEF NativeSuccessIsTerminal, Succeeds
<1>2. ObserverTyping /\ LastIsOpen /\ NativeKeeps
  BY DEF ObserverInv
<1>3. PICK n, c, sent : /\ n \in Nat /\ n = Len(events) /\ c = ClosedEvents /\ sent = Sent
                         /\ DOMAIN events = 1..n
  BY <1>2, LenProperties DEF ObserverTyping
<1>4. /\ c \in Nat /\ c <= n
      /\ \A m \in 1..n : events[m].closed => m \in 1..c
  BY <1>2, <1>3 DEF LastIsOpen, ClosedEvents
<1>5. ASSUME NativeSucceeds
      PROVE  \E m \in DOMAIN events : Succeeds(sent, m)
  <2>1. PICK m \in 1..c : Succeeds(sent, m)
    BY <1>1, <1>2, <1>3, <1>5 DEF NativeKeeps
  <2>2. m \in DOMAIN events
    BY <1>3, <1>4
  <2> QED BY <2>1, <2>2
<1>6. ASSUME ~NativeSucceeds, NEW m \in 1..n, Succeeds(sent, m)
      PROVE  FALSE
  <2>1. /\ sent[m] = "completed" /\ \A i \in 1..m : AcceptedEvent(events[i])
        /\ OneResponse(sent, m) /\ m \in 1..m
    BY <1>6 DEF Succeeds
  <2>2. m \in 1..c
    BY <1>4, <1>6, <2>1 DEF AcceptedEvent
  <2>3. CASE Listens
    BY <1>1, <1>2, <1>3, <2>1, <2>2, <2>3 DEF NativeKeeps, NativeListens
  <2>4. CASE ~Listens
    <3>1. PICK k \in 1..c : Refuses(sent, k)
      BY <1>1, <1>2, <1>3, <1>6, <2>4 DEF NativeKeeps
    <3>2. /\ \A i \in 1..k - 1 : sent[i] # "completed"
          /\ ~AcceptedEvent(events[k]) \/ ~OneResponse(sent, k)
      BY <3>1 DEF Refuses
    <3>3. k \in 1..m
      BY <1>4, <2>1, <2>2, <3>2
    <3>4. OneResponse(sent, k)
      <4>1. \A i \in 1..k : i \in 1..m
        BY <3>3
      <4> QED BY <2>1, <4>1 DEF OneResponse
    <3> QED BY <2>1, <3>2, <3>3, <3>4
  <2> QED BY <2>3, <2>4
<1> QED BY <1>3, <1>5, <1>6

\* An answer of any length counts as complete exactly when it is one of its protocol, whole and
\* closed (work_gateway.py work_connection_complete), and a native turn as a success exactly when
\* its first terminal event completes the one response it was bound to (native_codex_stream.py finish).
THEOREM ObserverIsSoundHolds == ObserverSpec => []ObserverIsSound
<1>1. ObserverInv => ObserverIsSound
  BY CompleteIsRead, NativeSuccessIsRead DEF ObserverIsSound
<1> QED BY <1>1, ObserverStarts, ObserverKeeps, PTL DEF ObserverSpec

(*************************************************************************)
(* The app bridge: for any number of requests of the app, of calls that are*)
(* given up and of records of the chat, and however the threads of the    *)
(* bridge and the engine take turns.                                      *)
(*                                                                        *)
(* The property is not inductive.  It rests on which calls are under way  *)
(* (each is one that its task waits for or has given up, and there is one of*)
(* a task at most), on the order of the engine's writes against the answers*)
(* on their way, and, as long as no call is given up and one turn is under*)
(* way at a time, on the record and the engine agreeing on the provider.  *)
(*************************************************************************)

TaskStates ==
    [at : {"idle", "lock", "done"} \cup Calls, kind : {"none", "turn", "save", "effort"}, model : {"none", "native", "local", "same"},
     record : Nat, provider : {"none", "native", "local", "kept"}, got : {"none", "ok", "error"}]
ChatRecords == [provider : {"native", "local"}, busy : BOOLEAN, lock : BridgeRequests \cup {NoTurn}]
EngineCalls == [request : BridgeRequests, what : Calls, model : {"native", "local"}]
EngineMessages == [request : BridgeRequests, what : Calls \cup {"started", "completed"}, got : {"ok", "error"}]
Selections == [model : {"native", "local"}, filed : {"native", "local"}, crossed : SUBSET BridgeRequests]
AppMessages == [request : BridgeRequests, what : Answers \cup {"started", "completed"}]

\* A task is at a step of its kind, and remembers a record that there was.
TaskIsOf(task, size) ==
    /\ task.at \in {"lock", "unsubscribe", "resume", "turn"} => task.kind = "turn" /\ task.record \in 1 .. size
    /\ task.at = "save" => task.kind \in {"save", "effort"}
    /\ task.kind \in {"save", "effort"} => task.model \in {"native", "local"}
    /\ task.at \in {"unsubscribe", "resume"} => task.provider \in {"native", "local"}
    /\ task.kind = "turn" => task.provider # "kept" /\ task.model # "none"
    /\ task.at = "idle" => task.kind = "none"

BridgeTyped ==
    /\ tasks \in [BridgeRequests -> TaskStates]
    /\ records \in Seq(ChatRecords) /\ Len(records) \in Nat \ {0}
    /\ \A r \in BridgeRequests : TaskIsOf(tasks[r], Len(records))
    /\ toEngine \in Seq(EngineCalls) /\ toBridge \in Seq(EngineMessages)
    /\ delivering \in BridgeRequests \cup {NoTurn}
    /\ engine.provider \in {"native", "local"} /\ engine.turn \in BridgeRequests \cup {NoTurn}
    /\ engine = [provider |-> engine.provider, loaded |-> engine.loaded, turn |-> engine.turn, saves |-> engine.saves]
    /\ engine.saves \in Seq(BridgeRequests)
    /\ seen \in Seq(AppMessages) /\ selection \in Selections /\ lapses \subseteq BridgeRequests

\* A call that is under way is one that its task waits for, or has given up; and there is one of a task at most.
Waits(task, gone, what) == (task.at = what /\ task.got = "none") \/ (task.at = "done" /\ gone)
CallsInFlight ==
    /\ \A i \in DOMAIN toEngine : Waits(tasks[toEngine[i].request], toEngine[i].request \in lapses, toEngine[i].what)
    /\ \A i \in DOMAIN toBridge : toBridge[i].what \in Calls =>
          Waits(tasks[toBridge[i].request], toBridge[i].request \in lapses, toBridge[i].what)
    /\ \A i, j \in DOMAIN toEngine : toEngine[i].request = toEngine[j].request => i = j
    /\ \A i, j \in DOMAIN toBridge :
          toBridge[i].what \in Calls /\ toBridge[j].what \in Calls /\ toBridge[i].request = toBridge[j].request => i = j
    /\ \A i \in DOMAIN toEngine, j \in DOMAIN toBridge : toBridge[j].what \in Calls => toEngine[i].request # toBridge[j].request
    /\ \A r \in lapses : tasks[r].at = "done" /\ tasks[r].got = "none"

\* The reader waits for exactly the task that has an answer to pass on.
ReaderWaits ==
    \A r \in BridgeRequests : delivering = r <=> (tasks[r].at \in {"turn", "save"} /\ tasks[r].got # "none")

\* Whoever hears of a turn has the answer to it, or finds it before, on its way.
AnswerAt(list, r, p) == \E q \in DOMAIN list : q < p /\ list[q].request = r /\ list[q].what = "turn"
TurnsAreTold ==
    /\ \A p \in DOMAIN toBridge : toBridge[p].what \in {"started", "completed"} =>
          \/ tasks[toBridge[p].request].at = "done" \/ delivering = toBridge[p].request
          \/ AnswerAt(toBridge, toBridge[p].request, p)
    /\ engine.turn # NoTurn =>
          \/ tasks[engine.turn].at = "done" \/ delivering = engine.turn
          \/ AnswerAt(toBridge, engine.turn, Len(toBridge) + 1)

\* Exactly the tasks that are done were answered, once; those given up were refused.
AnsweredOnce ==
    /\ \A i, j \in DOMAIN seen :
          seen[i].what \in Answers /\ seen[j].what \in Answers /\ seen[i].request = seen[j].request => i = j
    /\ \A i \in DOMAIN seen : seen[i].what \in Answers => tasks[seen[i].request].at = "done"
    /\ \A r \in BridgeRequests : tasks[r].at = "done" => \E i \in DOMAIN seen : seen[i].request = r /\ seen[i].what \in Answers
    /\ \A i \in DOMAIN seen : seen[i].what \in {"started", "completed"} =>
          \E j \in DOMAIN seen : j < i /\ seen[j].request = seen[i].request /\ seen[j].what \in Answers
    /\ \A i \in DOMAIN seen : seen[i].what = "ok" => seen[i].request \notin lapses

\* The writes the engine made, in their order, against the answers that are on their way.
SavedAnswer(message, r) == message.request = r /\ message.what = "save" /\ message.got = "ok"
KeptTask(task) == task.at = "done" /\ task.got = "ok" /\ task.provider = "kept"
KeptOf(saves, ts) == {k \in DOMAIN saves : KeptTask(ts[saves[k]])}
SavesInOrder ==
    /\ \A k \in DOMAIN engine.saves : tasks[engine.saves[k]].kind \in {"save", "effort"}
    /\ \A k, l \in DOMAIN engine.saves : engine.saves[k] = engine.saves[l] => k = l
    /\ \A i \in DOMAIN toEngine : /\ toEngine[i].what = "save" => tasks[toEngine[i].request].kind \in {"save", "effort"}
                                  /\ \A k \in DOMAIN engine.saves : toEngine[i].request # engine.saves[k]
    /\ \A p \in DOMAIN toBridge : SavedAnswer(toBridge[p], toBridge[p].request) =>
          \E k \in DOMAIN engine.saves : engine.saves[k] = toBridge[p].request
    /\ \A r \in BridgeRequests : tasks[r].at = "save" /\ tasks[r].got = "ok" => \E k \in DOMAIN engine.saves : engine.saves[k] = r
    /\ \A k \in DOMAIN engine.saves : tasks[engine.saves[k]].at # "done" =>
          delivering = engine.saves[k] \/ \E p \in DOMAIN toBridge : SavedAnswer(toBridge[p], engine.saves[k])
    /\ \A p, q \in DOMAIN toBridge : \A k, l \in DOMAIN engine.saves :
          p < q /\ SavedAnswer(toBridge[p], engine.saves[k]) /\ SavedAnswer(toBridge[q], engine.saves[l]) => k < l
    /\ \A k, l \in DOMAIN engine.saves :
          delivering = engine.saves[k] /\ tasks[engine.saves[l]].at # "done" /\ l # k => k < l
    /\ \A k \in KeptOf(engine.saves, tasks), l \in DOMAIN engine.saves : tasks[engine.saves[l]].at # "done" => k < l

\* While no call was given up and one turn is asked for at a time, the record in use is of the provider the engine has.
OneAtATime == lapses = {} /\ MaxTurnsAtOnce = 1
AwaitsResume(list, q) == \E p \in DOMAIN list : list[p].request = q /\ list[p].what = "resume"
OneTurn ==
    \A r, q \in BridgeRequests : tasks[r].kind = "turn" /\ tasks[r].at # "done" /\ tasks[q].kind = "turn"
        /\ tasks[q].at # "done" => r = q
RecordFits == (\A r \in BridgeRequests : tasks[r].at # "resume") => engine.provider = records[Len(records)].provider
TaskFits(r) ==
    /\ tasks[r].at \in {"lock", "unsubscribe"} => tasks[r].record = Len(records)
    /\ tasks[r].at = "turn" => tasks[r].provider = records[Len(records)].provider
    /\ tasks[r].at = "resume" /\ (tasks[r].got # "none" \/ AwaitsResume(toBridge, r)) => engine.provider = tasks[r].provider
ProvidersAgree == OneAtATime => OneTurn /\ RecordFits /\ \A r \in BridgeRequests : TaskFits(r)
ResumesSucceed ==
    /\ \A i \in DOMAIN toEngine : toEngine[i].what = "resume" => toEngine[i].model = tasks[toEngine[i].request].provider
    /\ \A p \in DOMAIN toBridge : toBridge[p].what = "resume" => toBridge[p].got = "ok"
    /\ \A r \in BridgeRequests : tasks[r].at = "resume" => tasks[r].got # "error"

BridgeInv ==
    /\ BridgeTyped /\ CallsInFlight /\ ReaderWaits /\ TurnsAreTold /\ AnsweredOnce /\ SavesInOrder
    /\ ResumesSucceed /\ ProvidersAgree

-----------------------------------------------------------------------------
(* A queue with one message more, and without its first one.               *)

Grown(s, t, e) ==
    /\ Len(s) \in Nat /\ DOMAIN s = 1 .. Len(s) /\ Len(t) = Len(s) + 1 /\ DOMAIN t = 1 .. Len(t)
    /\ \A i \in 1 .. Len(s) : t[i] = s[i]
    /\ t[Len(s) + 1] = e
Shrunk(s, t) ==
    /\ Len(s) \in Nat \ {0} /\ DOMAIN s = 1 .. Len(s) /\ Len(t) = Len(s) - 1 /\ DOMAIN t = 1 .. Len(t)
    /\ \A i \in 1 .. Len(t) : t[i] = s[i + 1]

\* Append makes the one,
LEMMA GrownIs ==
    ASSUME NEW S, NEW s \in Seq(S), NEW e \in S
    PROVE  Append(s, e) \in Seq(S) /\ Grown(s, Append(s, e), e)
<1>1. Append(s, e) \in Seq(S) /\ Len(Append(s, e)) = Len(s) + 1
      /\ (\A i \in 1 .. Len(s) : Append(s, e)[i] = s[i]) /\ Append(s, e)[Len(s) + 1] = e
  BY AppendProperties
<1>2. Len(s) \in Nat /\ DOMAIN s = 1 .. Len(s) /\ DOMAIN Append(s, e) = 1 .. Len(Append(s, e))
  BY <1>1, LenProperties
<1> QED
  BY <1>1, <1>2 DEF Grown

\* and Tail the other.
LEMMA ShrunkIs ==
    ASSUME NEW S, NEW s \in Seq(S), s # <<>>
    PROVE  Tail(s) \in Seq(S) /\ Shrunk(s, Tail(s)) /\ Head(s) = s[1] /\ s[1] \in S
<1>1. Tail(s) \in Seq(S) /\ Len(Tail(s)) = Len(s) - 1 /\ (\A i \in 1 .. Len(Tail(s)) : Tail(s)[i] = s[i + 1])
      /\ Head(s) = s[1] /\ s[1] \in S
  BY HeadTailProperties, LenProperties, ElementOfSeq, EmptySeq
<1>2. Len(s) \in Nat /\ DOMAIN s = 1 .. Len(s) /\ DOMAIN Tail(s) = 1 .. Len(Tail(s)) /\ Len(s) # 0
  BY <1>1, LenProperties, EmptySeq
<1> QED
  BY <1>1, <1>2 DEF Shrunk

-----------------------------------------------------------------------------
(* A step of one task.                                                     *)

Moved(r, t) ==
    /\ tasks' \in [BridgeRequests -> TaskStates] /\ tasks'[r] = t
    /\ \A q \in BridgeRequests \ {r} : tasks'[q] = tasks[q]

\* It is what a task changed by EXCEPT comes to.
LEMMA MovedIs ==
    ASSUME BridgeTyped, NEW r \in BridgeRequests, NEW t \in TaskStates, tasks' = [tasks EXCEPT ![r] = t]
    PROVE  Moved(r, t)
BY DEF Moved, BridgeTyped

\* The parts of a task, as its steps change them.
LEMMA TaskParts ==
    ASSUME NEW at, NEW kind, NEW model, NEW record, NEW provider, NEW t, t = Task(at, kind, model, record, provider)
    PROVE  /\ t.at = at /\ t.kind = kind /\ t.model = model /\ t.record = record /\ t.provider = provider /\ t.got = "none"
           /\ at \in {"idle", "lock", "done"} \cup Calls /\ kind \in {"none", "turn", "save", "effort"}
                /\ model \in {"none", "native", "local", "same"} /\ record \in Nat
                /\ provider \in {"none", "native", "local", "kept"} => t \in TaskStates
BY DEF Task, TaskStates
LEMMA EndedParts ==
    ASSUME NEW t \in TaskStates, NEW e, e = [t EXCEPT !.at = "done"]
    PROVE  /\ e.at = "done" /\ e.kind = t.kind /\ e.model = t.model /\ e.record = t.record
           /\ e.provider = t.provider /\ e.got = t.got /\ e \in TaskStates
BY DEF TaskStates
LEMMA CallingParts ==
    ASSUME NEW t \in TaskStates, NEW what \in Calls, NEW provider \in {"native", "local"}, NEW e, e = Calling(t, what, provider)
    PROVE  /\ e.at = what /\ e.kind = t.kind /\ e.model = t.model /\ e.record = t.record
           /\ e.provider = provider /\ e.got = "none" /\ e \in TaskStates
BY DEF TaskStates, Calling
LEMMA GotParts ==
    ASSUME NEW t \in TaskStates, NEW got \in {"ok", "error"}, NEW e, e = [t EXCEPT !.got = got]
    PROVE  /\ e.at = t.at /\ e.kind = t.kind /\ e.model = t.model /\ e.record = t.record
           /\ e.provider = t.provider /\ e.got = got /\ e \in TaskStates
BY DEF TaskStates

\* No call of a task is under way.
Quiet(r) ==
    /\ r \notin lapses
    /\ \A i \in DOMAIN toEngine : toEngine[i].request # r
    /\ \A j \in DOMAIN toBridge : toBridge[j].what \in Calls => toBridge[j].request # r

\* So it is with one that is not waiting for an answer and is not done.
LEMMA QuietIs ==
    ASSUME BridgeInv, NEW r \in BridgeRequests, tasks[r].at # "done", tasks[r].at \in Calls => tasks[r].got # "none"
    PROVE  Quiet(r)
<1>1. r \notin lapses
  BY DEF BridgeInv, CallsInFlight
<1>2. ASSUME NEW i \in DOMAIN toEngine, toEngine[i].request = r PROVE FALSE
  <2>1. toEngine[i] \in EngineCalls
    BY ElementOfSeq, LenProperties DEF BridgeInv, BridgeTyped
  <2>2. toEngine[i].what \in Calls
    BY <2>1 DEF EngineCalls
  <2> QED
    BY <1>2, <2>2 DEF BridgeInv, CallsInFlight, Waits
<1>3. ASSUME NEW j \in DOMAIN toBridge, toBridge[j].what \in Calls, toBridge[j].request = r PROVE FALSE
  BY <1>3 DEF BridgeInv, CallsInFlight, Waits
<1> QED
  BY <1>1, <1>2, <1>3 DEF Quiet

\* What is in the queues, by its parts.
Queued ==
    /\ Len(toEngine) \in Nat /\ DOMAIN toEngine = 1 .. Len(toEngine)
    /\ Len(toBridge) \in Nat /\ DOMAIN toBridge = 1 .. Len(toBridge)
    /\ Len(seen) \in Nat /\ DOMAIN seen = 1 .. Len(seen)
    /\ Len(engine.saves) \in Nat /\ DOMAIN engine.saves = 1 .. Len(engine.saves)
    /\ \A i \in DOMAIN toEngine : toEngine[i].request \in BridgeRequests /\ toEngine[i].what \in Calls
         /\ toEngine[i].model \in {"native", "local"}
    /\ \A i \in DOMAIN toBridge : toBridge[i].request \in BridgeRequests /\ toBridge[i].got \in {"ok", "error"}
         /\ toBridge[i].what \in Calls \cup {"started", "completed"}
    /\ \A i \in DOMAIN seen : seen[i].request \in BridgeRequests /\ seen[i].what \in Answers \cup {"started", "completed"}
    /\ \A k \in DOMAIN engine.saves : engine.saves[k] \in BridgeRequests
LEMMA QueuedIs == ASSUME BridgeTyped PROVE Queued
<1>1. /\ toEngine \in Seq(EngineCalls) /\ toBridge \in Seq(EngineMessages) /\ seen \in Seq(AppMessages)
      /\ engine.saves \in Seq(BridgeRequests)
  BY DEF BridgeTyped
<1>2. /\ Len(toEngine) \in Nat /\ DOMAIN toEngine = 1 .. Len(toEngine)
      /\ Len(toBridge) \in Nat /\ DOMAIN toBridge = 1 .. Len(toBridge)
      /\ Len(seen) \in Nat /\ DOMAIN seen = 1 .. Len(seen)
      /\ Len(engine.saves) \in Nat /\ DOMAIN engine.saves = 1 .. Len(engine.saves)
  BY <1>1, LenProperties
<1>3. \A i \in DOMAIN toEngine : toEngine[i] \in EngineCalls
  BY <1>1, <1>2, ElementOfSeq
<1>4. \A i \in DOMAIN toBridge : toBridge[i] \in EngineMessages
  BY <1>1, <1>2, ElementOfSeq
<1>5. \A i \in DOMAIN seen : seen[i] \in AppMessages
  BY <1>1, <1>2, ElementOfSeq
<1>6. \A k \in DOMAIN engine.saves : engine.saves[k] \in BridgeRequests
  BY <1>1, <1>2, ElementOfSeq
<1>7. \A i \in DOMAIN toEngine : toEngine[i].request \in BridgeRequests /\ toEngine[i].what \in Calls
         /\ toEngine[i].model \in {"native", "local"}
  BY <1>3 DEF EngineCalls
<1>8. \A i \in DOMAIN toBridge : toBridge[i].request \in BridgeRequests /\ toBridge[i].got \in {"ok", "error"}
         /\ toBridge[i].what \in Calls \cup {"started", "completed"}
  BY <1>4 DEF EngineMessages
<1>9. \A i \in DOMAIN seen : seen[i].request \in BridgeRequests /\ seen[i].what \in Answers \cup {"started", "completed"}
  BY <1>5 DEF AppMessages
<1> QED
  BY <1>2, <1>6, <1>7, <1>8, <1>9 DEF Queued

\* What the invariant says beyond the types and the providers.
Ordering ==
    CallsInFlight /\ ReaderWaits /\ TurnsAreTold /\ AnsweredOnce /\ SavesInOrder /\ ResumesSucceed

-----------------------------------------------------------------------------
(* A call goes out.                                                        *)

CallGoesOut(r, t, m) ==
    /\ Moved(r, t) /\ t.at \in Calls /\ t.got = "none"
    /\ t.at = "resume" => m = t.provider
    /\ t.at = "save" => t.kind \in {"save", "effort"} /\ \A k \in DOMAIN engine.saves : engine.saves[k] # r
    /\ tasks[r].kind # "none" => t.kind = tasks[r].kind
    /\ Grown(toEngine, toEngine', Call(r, t.at, m))
    /\ UNCHANGED <<toBridge, delivering, engine, selection, seen, lapses>>

LEMMA CallGoesOutKeeps ==
    ASSUME BridgeInv, NEW r \in BridgeRequests, NEW t \in TaskStates, NEW m, CallGoesOut(r, t, m),
           Quiet(r), tasks[r].at \in {"idle", "lock", "unsubscribe", "resume"}
    PROVE  Ordering'
<1> DEFINE n == Len(toEngine) + 1
<1>0. /\ tasks'[r] = t /\ (\A q \in BridgeRequests : q # r => tasks'[q] = tasks[q])
      /\ toBridge' = toBridge /\ delivering' = delivering /\ engine' = engine /\ selection' = selection
      /\ seen' = seen /\ lapses' = lapses
  BY DEF CallGoesOut, Moved
<1>1. Queued
  BY QueuedIs DEF BridgeInv
<1>2. /\ DOMAIN toEngine' = 1 .. n /\ (\A i \in 1 .. Len(toEngine) : toEngine'[i] = toEngine[i])
      /\ toEngine'[n].request = r /\ toEngine'[n].what = t.at /\ toEngine'[n].model = m
      /\ DOMAIN toEngine = 1 .. Len(toEngine) /\ Len(toEngine) \in Nat
  BY DEF CallGoesOut, Grown, Call
<1>3. /\ t.at \in Calls /\ t.got = "none" /\ (t.at = "resume" => m = t.provider) /\ t.at \notin {"done", "idle", "lock"}
      /\ (t.at = "save" => \A k \in DOMAIN engine.saves : engine.saves[k] # r)
  BY DEF CallGoesOut, Calls
<1>4. delivering # r
  BY DEF BridgeInv, ReaderWaits
<1>5. /\ \A i \in 1 .. Len(toEngine) : toEngine[i].request # r
      /\ \A j \in DOMAIN toBridge : toBridge[j].what \in Calls => toBridge[j].request # r
      /\ r \notin lapses
  BY <1>2 DEF Quiet
<1>6. \A i \in 1 .. n : i = n \/ i \in 1 .. Len(toEngine)
  BY <1>2
<1> HIDE DEF n
<1>7. \A i \in 1 .. Len(toEngine) : tasks'[toEngine'[i].request] = tasks[toEngine[i].request]
  BY <1>0, <1>1, <1>2, <1>5 DEF Queued
<1>8. \A j \in DOMAIN toBridge : toBridge[j].what \in Calls => tasks'[toBridge[j].request] = tasks[toBridge[j].request]
  BY <1>0, <1>1, <1>5 DEF Queued
<1>9. \A k \in DOMAIN engine.saves : engine.saves[k] # r
  <2>1. \A k \in DOMAIN engine.saves : tasks[engine.saves[k]].kind \in {"save", "effort"}
    BY DEF BridgeInv, SavesInOrder
  <2>2. tasks[r].kind \notin {"save", "effort"}
    BY DEF BridgeInv, BridgeTyped, TaskIsOf
  <2> QED
    BY <2>1, <2>2
<1>10. \A k \in DOMAIN engine.saves : tasks'[engine.saves[k]] = tasks[engine.saves[k]]
  BY <1>0, <1>1, <1>9 DEF Queued
<1>11. \A i \in DOMAIN seen : seen[i].what \in Answers => seen[i].request # r
  BY DEF BridgeInv, AnsweredOnce
<1>12. CallsInFlight'
  <2>1. \A i \in 1 .. n : Waits(tasks'[toEngine'[i].request], toEngine'[i].request \in lapses, toEngine'[i].what)
    <3>1. Waits(tasks'[toEngine'[n].request], toEngine'[n].request \in lapses, toEngine'[n].what)
      BY <1>0, <1>2, <1>3 DEF Waits
    <3>2. \A i \in 1 .. Len(toEngine) : Waits(tasks'[toEngine'[i].request], toEngine'[i].request \in lapses, toEngine'[i].what)
      <4>1. \A i \in 1 .. Len(toEngine) : Waits(tasks[toEngine[i].request], toEngine[i].request \in lapses, toEngine[i].what)
        BY <1>2 DEF BridgeInv, CallsInFlight
      <4> QED
        BY <4>1, <1>2, <1>7
    <3> QED
      BY <3>1, <3>2, <1>6
  <2>2. \A j \in DOMAIN toBridge : toBridge[j].what \in Calls =>
          Waits(tasks'[toBridge[j].request], toBridge[j].request \in lapses, toBridge[j].what)
    BY <1>8 DEF BridgeInv, CallsInFlight
  <2>3. \A i, j \in 1 .. n : toEngine'[i].request = toEngine'[j].request => i = j
    <3>1. \A i, j \in 1 .. Len(toEngine) : toEngine'[i].request = toEngine'[j].request => i = j
      BY <1>2 DEF BridgeInv, CallsInFlight
    <3> QED
      BY <3>1, <1>2, <1>5, <1>6
  <2>4. \A i \in 1 .. n, j \in DOMAIN toBridge : toBridge[j].what \in Calls => toEngine'[i].request # toBridge[j].request
    <3>1. \A i \in 1 .. Len(toEngine), j \in DOMAIN toBridge : toBridge[j].what \in Calls
              => toEngine'[i].request # toBridge[j].request
      BY <1>2 DEF BridgeInv, CallsInFlight
    <3> QED
      BY <3>1, <1>2, <1>5, <1>6
  <2>5. \A q \in lapses : tasks'[q].at = "done" /\ tasks'[q].got = "none"
    BY <1>0, <1>5 DEF BridgeInv, CallsInFlight, BridgeTyped
  <2>6. \A i, j \in DOMAIN toBridge :
          toBridge[i].what \in Calls /\ toBridge[j].what \in Calls /\ toBridge[i].request = toBridge[j].request => i = j
    BY DEF BridgeInv, CallsInFlight
  <2> QED
    BY <1>0, <1>2, <2>1, <2>2, <2>3, <2>4, <2>5, <2>6 DEF CallsInFlight
<1>13. ReaderWaits'
  BY <1>0, <1>3, <1>4 DEF BridgeInv, ReaderWaits
<1>14. TurnsAreTold'
  <2>1. \A q \in BridgeRequests : tasks[q].at = "done" => tasks'[q].at = "done"
    BY <1>0
  <2>2. engine.turn \in BridgeRequests \cup {NoTurn}
    BY DEF BridgeInv, BridgeTyped
  <2>3. \A p \in DOMAIN toBridge : toBridge[p].request \in BridgeRequests
    BY <1>1 DEF Queued
  <2> QED
    BY <1>0, <2>1, <2>2, <2>3 DEF BridgeInv, TurnsAreTold, AnswerAt
<1>15. AnsweredOnce'
  <2>1. \A i \in DOMAIN seen : seen[i].what \in Answers => tasks'[seen[i].request].at = "done"
    BY <1>0, <1>1, <1>11 DEF BridgeInv, AnsweredOnce, Queued
  <2>2. \A q \in BridgeRequests : tasks'[q].at = "done" => \E i \in DOMAIN seen : seen[i].request = q /\ seen[i].what \in Answers
    BY <1>0, <1>3 DEF BridgeInv, AnsweredOnce
  <2> QED
    BY <1>0, <2>1, <2>2 DEF BridgeInv, AnsweredOnce
<1>16. KeptOf(engine.saves, tasks') = KeptOf(engine.saves, tasks)
  BY <1>10 DEF KeptOf
<1>17. SavesInOrder'
  <2>1. \A i \in 1 .. n : /\ toEngine'[i].what = "save" => tasks'[toEngine'[i].request].kind \in {"save", "effort"}
                         /\ \A k \in DOMAIN engine.saves : toEngine'[i].request # engine.saves[k]
    <3>1. \A i \in 1 .. Len(toEngine) : /\ toEngine'[i].what = "save" => tasks'[toEngine'[i].request].kind \in {"save", "effort"}
                                        /\ \A k \in DOMAIN engine.saves : toEngine'[i].request # engine.saves[k]
      BY <1>2, <1>7 DEF BridgeInv, SavesInOrder
    <3>2. t.at = "save" => t.kind \in {"save", "effort"}
      BY DEF CallGoesOut
    <3> QED
      BY <3>1, <3>2, <1>0, <1>2, <1>6, <1>9
  <2>2. \A q \in BridgeRequests : tasks'[q].at = "save" /\ tasks'[q].got = "ok"
            => \E k \in DOMAIN engine.saves : engine.saves[k] = q
    BY <1>0, <1>3 DEF BridgeInv, SavesInOrder
  <2>3. \A k \in DOMAIN engine.saves : tasks'[engine.saves[k]].kind \in {"save", "effort"}
    BY <1>10 DEF BridgeInv, SavesInOrder
  <2>4. \A k \in DOMAIN engine.saves : tasks'[engine.saves[k]].at # "done" =>
          delivering = engine.saves[k] \/ \E p \in DOMAIN toBridge : SavedAnswer(toBridge[p], engine.saves[k])
    BY <1>10 DEF BridgeInv, SavesInOrder
  <2>5. \A k, l \in DOMAIN engine.saves :
          delivering = engine.saves[k] /\ tasks'[engine.saves[l]].at # "done" /\ l # k => k < l
    BY <1>10 DEF BridgeInv, SavesInOrder
  <2>6. \A k \in KeptOf(engine.saves, tasks'), l \in DOMAIN engine.saves : tasks'[engine.saves[l]].at # "done" => k < l
    BY <1>10, <1>16 DEF BridgeInv, SavesInOrder
  <2> QED
    BY <1>0, <1>2, <2>1, <2>2, <2>3, <2>4, <2>5, <2>6 DEF BridgeInv, SavesInOrder
<1>19. ResumesSucceed'
  <2>1. \A i \in 1 .. n : toEngine'[i].what = "resume" => toEngine'[i].model = tasks'[toEngine'[i].request].provider
    <3>1. \A i \in 1 .. Len(toEngine) : toEngine'[i].what = "resume" => toEngine'[i].model = tasks'[toEngine'[i].request].provider
      BY <1>2, <1>7 DEF BridgeInv, ResumesSucceed
    <3> QED
      BY <3>1, <1>0, <1>2, <1>3, <1>6
  <2>2. \A q \in BridgeRequests : tasks'[q].at = "resume" => tasks'[q].got # "error"
    BY <1>0, <1>3 DEF BridgeInv, ResumesSucceed
  <2> QED
    BY <1>0, <1>2, <2>1, <2>2 DEF BridgeInv, ResumesSucceed
<1> QED
  BY <1>12, <1>13, <1>14, <1>15, <1>17, <1>19 DEF Ordering

-----------------------------------------------------------------------------
(* The answer to a request goes to the app.                                *)

AnswerGoesOut(r, t, how) ==
    /\ Moved(r, t) /\ t.at = "done" /\ t.provider = tasks[r].provider
    /\ tasks[r].kind # "none" => t.kind = tasks[r].kind /\ t.model = tasks[r].model
    /\ how \in Answers
    /\ how = "ok" => tasks[r].at \in {"turn", "save"} /\ tasks[r].got = "ok" /\ lapses' = lapses
    /\ Grown(seen, seen', [request |-> r, what |-> how])
    /\ delivering' = IF delivering = r THEN NoTurn ELSE delivering
    /\ t.got = "ok" /\ t.provider = "kept" => tasks[r].at \in {"turn", "save"} /\ tasks[r].got = "ok"
    /\ (lapses' = lapses /\ Quiet(r)) \/ (lapses' = lapses \cup {r} /\ t.got = "none")
    /\ UNCHANGED <<toEngine, toBridge, engine>>

LEMMA AnswerGoesOutKeeps ==
    ASSUME BridgeInv, NEW r \in BridgeRequests, NEW t \in TaskStates, NEW how, AnswerGoesOut(r, t, how), tasks[r].at # "done"
    PROVE  Ordering'
<1> DEFINE n == Len(seen) + 1
<1>0. /\ tasks'[r] = t /\ (\A q \in BridgeRequests : q # r => tasks'[q] = tasks[q])
      /\ toBridge' = toBridge /\ toEngine' = toEngine /\ engine' = engine
  BY DEF AnswerGoesOut, Moved
<1>1. Queued
  BY QueuedIs DEF BridgeInv
<1>2. /\ DOMAIN seen' = 1 .. n /\ (\A i \in 1 .. Len(seen) : seen'[i] = seen[i])
      /\ seen'[n].request = r /\ seen'[n].what = how
      /\ DOMAIN seen = 1 .. Len(seen) /\ Len(seen) \in Nat
  BY DEF AnswerGoesOut, Grown
<1>3. t.at = "done" /\ how \in {"ok", "error", "refused"} /\ t.provider = tasks[r].provider
  BY DEF AnswerGoesOut, Answers
<1>4. \A i \in 1 .. n : i = n \/ i \in 1 .. Len(seen)
  BY <1>2
<1>5. /\ delivering' # r /\ (\A q \in BridgeRequests : q # r => (delivering' = q <=> delivering = q))
  BY BridgeAssumption DEF AnswerGoesOut
<1>6. /\ \A q \in BridgeRequests : q \in lapses => q \in lapses'
      /\ r \in lapses' \/ Quiet(r)
      /\ \A q \in BridgeRequests : q # r /\ q \in lapses' => q \in lapses
      /\ lapses' \subseteq lapses \cup {r}
  BY DEF AnswerGoesOut
<1>7. \A i \in 1 .. Len(seen) : seen[i].what \in Answers => seen[i].request # r
  BY <1>2 DEF BridgeInv, AnsweredOnce
<1> HIDE DEF n
<1>9. \A k \in DOMAIN engine.saves : engine.saves[k] = r => tasks[r].kind \in {"save", "effort"}
  BY DEF BridgeInv, SavesInOrder
<1>10. \A k \in DOMAIN engine.saves : /\ tasks'[engine.saves[k]].kind = tasks[engine.saves[k]].kind
          /\ tasks'[engine.saves[k]].provider = tasks[engine.saves[k]].provider
          /\ tasks'[engine.saves[k]].model = tasks[engine.saves[k]].model
  BY <1>0, <1>1, <1>9 DEF AnswerGoesOut, Queued
<1>11. CallsInFlight'
  <2>1. ASSUME NEW q \in BridgeRequests, NEW what \in Calls, Waits(tasks[q], q \in lapses, what), q # r \/ ~Quiet(r)
        PROVE  Waits(tasks'[q], q \in lapses', what)
    BY <2>1, <1>0, <1>3, <1>6 DEF Waits
  <2>2. \A i \in DOMAIN toEngine : Waits(tasks'[toEngine[i].request], toEngine[i].request \in lapses', toEngine[i].what)
    <3> SUFFICES ASSUME NEW i \in DOMAIN toEngine
                 PROVE  Waits(tasks'[toEngine[i].request], toEngine[i].request \in lapses', toEngine[i].what)
      OBVIOUS
    <3>1. Waits(tasks[toEngine[i].request], toEngine[i].request \in lapses, toEngine[i].what)
      BY DEF BridgeInv, CallsInFlight
    <3>2. toEngine[i].request # r \/ ~Quiet(r)
      BY DEF Quiet
    <3> QED
      BY <1>1, <2>1, <3>1, <3>2 DEF Queued
  <2>3. \A j \in DOMAIN toBridge : toBridge[j].what \in Calls =>
          Waits(tasks'[toBridge[j].request], toBridge[j].request \in lapses', toBridge[j].what)
    <3> SUFFICES ASSUME NEW j \in DOMAIN toBridge, toBridge[j].what \in Calls
                 PROVE Waits(tasks'[toBridge[j].request], toBridge[j].request \in lapses', toBridge[j].what)
      OBVIOUS
    <3>1. Waits(tasks[toBridge[j].request], toBridge[j].request \in lapses, toBridge[j].what)
      BY DEF BridgeInv, CallsInFlight
    <3>2. toBridge[j].request # r \/ ~Quiet(r)
      BY DEF Quiet
    <3> QED
      BY <1>1, <2>1, <3>1, <3>2 DEF Queued
  <2>4. \A q \in lapses' : tasks'[q].at = "done" /\ tasks'[q].got = "none"
    <3>1. r \in lapses' => t.got = "none"
      BY DEF AnswerGoesOut, Quiet
    <3> QED
      BY <1>0, <1>3, <1>6, <3>1 DEF BridgeInv, CallsInFlight, BridgeTyped
  <2> QED
    BY <1>0, <2>2, <2>3, <2>4 DEF BridgeInv, CallsInFlight
<1>12. ReaderWaits'
  BY <1>0, <1>3, <1>5 DEF BridgeInv, ReaderWaits
<1>13. TurnsAreTold'
  <2>1. \A q \in BridgeRequests : tasks[q].at = "done" \/ delivering = q => tasks'[q].at = "done" \/ delivering' = q
    BY <1>0, <1>3, <1>5
  <2>2. engine.turn \in BridgeRequests \cup {NoTurn}
    BY DEF BridgeInv, BridgeTyped
  <2>3. \A p \in DOMAIN toBridge : toBridge[p].request \in BridgeRequests
    BY <1>1 DEF Queued
  <2> QED
    BY <1>0, <2>1, <2>2, <2>3 DEF BridgeInv, TurnsAreTold, AnswerAt
<1>14. AnsweredOnce'
  <2>1. \A i, j \in 1 .. n :
          seen'[i].what \in Answers /\ seen'[j].what \in Answers /\ seen'[i].request = seen'[j].request => i = j
    <3>1. \A i, j \in 1 .. Len(seen) :
          seen'[i].what \in Answers /\ seen'[j].what \in Answers /\ seen'[i].request = seen'[j].request => i = j
      BY <1>2 DEF BridgeInv, AnsweredOnce
    <3> QED
      BY <3>1, <1>2, <1>4, <1>7
  <2>2. \A i \in 1 .. n : seen'[i].what \in Answers => tasks'[seen'[i].request].at = "done"
    <3>1. \A i \in 1 .. Len(seen) : seen'[i].what \in Answers => tasks'[seen'[i].request].at = "done"
      BY <1>0, <1>1, <1>2, <1>7 DEF BridgeInv, AnsweredOnce, Queued
    <3> QED
      BY <3>1, <1>0, <1>2, <1>3, <1>4
  <2>3. \A q \in BridgeRequests : tasks'[q].at = "done" => \E i \in 1 .. n : seen'[i].request = q /\ seen'[i].what \in Answers
    <3> SUFFICES ASSUME NEW q \in BridgeRequests, tasks'[q].at = "done"
                 PROVE  \E i \in 1 .. n : seen'[i].request = q /\ seen'[i].what \in Answers
      OBVIOUS
    <3>1. CASE q = r
      <4>1. n \in 1 .. n
        BY <1>2 DEF n
      <4> QED
        BY <3>1, <4>1, <1>2, <1>3 DEF Answers
    <3>2. CASE q # r
      <4>1. PICK i \in DOMAIN seen : seen[i].request = q /\ seen[i].what \in Answers
        BY <3>2, <1>0 DEF BridgeInv, AnsweredOnce
      <4>2. i \in 1 .. n /\ i \in 1 .. Len(seen)
        BY <1>2 DEF n
      <4> QED
        BY <4>1, <4>2, <1>2
    <3> QED
      BY <3>1, <3>2
  <2>4. \A i \in 1 .. n : seen'[i].what \in {"started", "completed"} =>
          \E j \in 1 .. n : j < i /\ seen'[j].request = seen'[i].request /\ seen'[j].what \in Answers
    <3> SUFFICES ASSUME NEW i \in 1 .. n, seen'[i].what \in {"started", "completed"}
                 PROVE \E j \in 1 .. n : j < i /\ seen'[j].request = seen'[i].request /\ seen'[j].what \in Answers
      OBVIOUS
    <3>1. i \in 1 .. Len(seen) /\ seen'[i] = seen[i]
      BY <1>2, <1>3, <1>4
    <3>2. PICK j \in DOMAIN seen : j < i /\ seen[j].request = seen[i].request /\ seen[j].what \in Answers
      BY <3>1, <1>2 DEF BridgeInv, AnsweredOnce
    <3>3. j \in 1 .. n /\ j \in 1 .. Len(seen)
      BY <1>2 DEF n
    <3> QED
      BY <3>1, <3>2, <3>3, <1>2
  <2>5. \A i \in 1 .. n : seen'[i].what = "ok" => seen'[i].request \notin lapses'
    <3>1. \A i \in 1 .. Len(seen) : seen'[i].what = "ok" => seen'[i].request \notin lapses'
      <4>1. \A i \in 1 .. Len(seen) : seen[i].what = "ok" => seen[i].request \notin lapses /\ seen[i].request # r
        BY <1>2, <1>7 DEF BridgeInv, AnsweredOnce, Answers
      <4> QED
        BY <4>1, <1>2, <1>6
    <3>2. how = "ok" => r \notin lapses'
      BY DEF AnswerGoesOut, BridgeInv, CallsInFlight
    <3> QED
      BY <3>1, <3>2, <1>2, <1>4
  <2> QED
    BY <1>2, <2>1, <2>2, <2>3, <2>4, <2>5 DEF AnsweredOnce
<1>15. \A k \in DOMAIN engine.saves : tasks'[engine.saves[k]].at # "done"
           => tasks[engine.saves[k]].at # "done" /\ engine.saves[k] # r
  BY <1>0, <1>1, <1>3 DEF Queued
<1>16. \A k \in KeptOf(engine.saves, tasks) : k \in DOMAIN engine.saves
  BY DEF KeptOf
<1>17. \A k \in DOMAIN engine.saves :
          k \in KeptOf(engine.saves, tasks') <=> k \in KeptOf(engine.saves, tasks) \/ (engine.saves[k] = r /\ KeptTask(t))
  BY <1>0, <1>1 DEF KeptOf, KeptTask, Queued
<1>18. KeptTask(t) => delivering = r
  BY DEF AnswerGoesOut, KeptTask, BridgeInv, ReaderWaits
<1>19. SavesInOrder'
  <2>1. \A k \in DOMAIN engine.saves : tasks'[engine.saves[k]].kind \in {"save", "effort"}
    BY <1>10 DEF BridgeInv, SavesInOrder
  <2>2. \A q \in BridgeRequests : tasks'[q].at = "save" /\ tasks'[q].got = "ok"
            => \E k \in DOMAIN engine.saves : engine.saves[k] = q
    BY <1>0, <1>3 DEF BridgeInv, SavesInOrder
  <2>3. \A k \in DOMAIN engine.saves : tasks'[engine.saves[k]].at # "done" =>
          delivering' = engine.saves[k] \/ \E p \in DOMAIN toBridge : SavedAnswer(toBridge[p], engine.saves[k])
    BY <1>1, <1>5, <1>15 DEF BridgeInv, SavesInOrder, Queued
  <2>4. \A k, l \in DOMAIN engine.saves :
          delivering' = engine.saves[k] /\ tasks'[engine.saves[l]].at # "done" /\ l # k => k < l
    BY <1>1, <1>5, <1>15 DEF BridgeInv, SavesInOrder, Queued
  <2>5. \A k \in KeptOf(engine.saves, tasks'), l \in DOMAIN engine.saves : tasks'[engine.saves[l]].at # "done" => k < l
    <3> SUFFICES ASSUME NEW k \in KeptOf(engine.saves, tasks'),
                        NEW l \in DOMAIN engine.saves, tasks'[engine.saves[l]].at # "done"
                 PROVE k < l
      OBVIOUS
    <3>1. k \in DOMAIN engine.saves
      BY DEF KeptOf
    <3>2. CASE k \in KeptOf(engine.saves, tasks)
      BY <3>2, <1>15 DEF BridgeInv, SavesInOrder
    <3>3. CASE engine.saves[k] = r /\ KeptTask(t)
      <4>1. delivering = engine.saves[k] /\ l # k /\ tasks[engine.saves[l]].at # "done"
        BY <3>1, <3>3, <1>15, <1>18
      <4> QED
        BY <3>1, <4>1 DEF BridgeInv, SavesInOrder
    <3> QED
      BY <1>17, <3>1, <3>2, <3>3
  <2>6. \A i \in DOMAIN toEngine : toEngine[i].what = "save" => tasks'[toEngine[i].request].kind \in {"save", "effort"}
    <3>1. \A q \in BridgeRequests : tasks[q].kind \in {"save", "effort"} => tasks'[q].kind \in {"save", "effort"}
      BY <1>0 DEF AnswerGoesOut
    <3> QED
      BY <3>1, <1>1 DEF BridgeInv, SavesInOrder, Queued
  <2> QED
    BY <1>0, <2>1, <2>2, <2>3, <2>4, <2>5, <2>6 DEF BridgeInv, SavesInOrder
<1>21. ResumesSucceed'
  <2>1. \A q \in BridgeRequests : tasks'[q].provider = tasks[q].provider
    BY <1>0, <1>3
  <2>2. \A q \in BridgeRequests : tasks'[q].at = "resume" => tasks'[q].got # "error"
    BY <1>0, <1>3 DEF BridgeInv, ResumesSucceed
  <2> QED
    BY <1>0, <1>1, <2>1, <2>2 DEF BridgeInv, ResumesSucceed, Queued
<1> QED
  BY <1>11, <1>12, <1>13, <1>14, <1>19, <1>21 DEF Ordering

-----------------------------------------------------------------------------
(* The reader takes a message.                                             *)

\* The first message is gone and the others have moved up.
LEMMA ReadsOne ==
    ASSUME BridgeTyped, Shrunk(toBridge, toBridge')
    PROVE  /\ 1 \in DOMAIN toBridge
           /\ \A p \in DOMAIN toBridge' : p \in Nat /\ p + 1 \in DOMAIN toBridge /\ p + 1 > 1 /\ toBridge'[p] = toBridge[p + 1]
           /\ \A p \in DOMAIN toBridge : p \in Nat /\ (p # 1 => p - 1 \in DOMAIN toBridge' /\ toBridge'[p - 1] = toBridge[p])
<1>1. \A p \in DOMAIN toBridge : p # 1 => p - 1 \in DOMAIN toBridge' /\ (p - 1) + 1 = p
  BY DEF Shrunk
<1>2. \A p \in DOMAIN toBridge : p # 1 => toBridge'[p - 1] = toBridge[p]
  <2> SUFFICES ASSUME NEW p \in DOMAIN toBridge, p # 1 PROVE toBridge'[p - 1] = toBridge[p]
    OBVIOUS
  <2> DEFINE m == p - 1
  <2>1. m \in DOMAIN toBridge' /\ m + 1 = p
    BY <1>1
  <2> HIDE DEF m
  <2>2. toBridge'[m] = toBridge[m + 1]
    BY <2>1 DEF Shrunk
  <2>3. toBridge'[m] = toBridge[p]
    BY <2>1, <2>2
  <2> QED
    BY <2>3 DEF m
<1> QED
  BY <1>1, <1>2 DEF Shrunk

\* What is kept of the calls and of the writes when the tasks that wait for other answers do not move.
Reads(r) ==
    /\ Shrunk(toBridge, toBridge') /\ r = toBridge[1].request /\ delivering = NoTurn
    /\ \A q \in BridgeRequests \ {r} : tasks'[q] = tasks[q]
    /\ /\ tasks'[r].at = tasks[r].at /\ tasks'[r].kind = tasks[r].kind /\ tasks'[r].model = tasks[r].model
       /\ tasks'[r].provider = tasks[r].provider /\ tasks'[r].record = tasks[r].record
    /\ toBridge[1].what \notin Calls => tasks'[r].got = tasks[r].got
    /\ tasks[r].at = "done" => delivering' = NoTurn /\ tasks'[r].got = tasks[r].got
    /\ delivering' \in {r, NoTurn}
    /\ toBridge[1].what \in {"turn", "save"} => tasks[r].at = "done" \/ delivering' = r
    /\ toBridge[1].what \notin {"turn", "save"} => delivering' = NoTurn
    /\ UNCHANGED <<toEngine, engine, selection, lapses>>

LEMMA ReadsKeeps ==
    ASSUME BridgeInv, NEW r \in BridgeRequests, Reads(r)
    PROVE  CallsInFlight' /\ TurnsAreTold'
           /\ \A k \in DOMAIN engine.saves : tasks'[engine.saves[k]].at # "done" =>
                 delivering' = engine.saves[k] \/ \E p \in DOMAIN toBridge' : SavedAnswer(toBridge'[p], engine.saves[k])
<1>0. /\ toEngine' = toEngine /\ engine' = engine /\ selection' = selection /\ lapses' = lapses
      /\ r = toBridge[1].request /\ delivering = NoTurn /\ NoTurn \notin BridgeRequests
  BY BridgeAssumption DEF Reads
<1>1. Queued
  BY QueuedIs DEF BridgeInv
<1>2. /\ 1 \in DOMAIN toBridge
      /\ \A p \in DOMAIN toBridge' : p \in Nat /\ p + 1 \in DOMAIN toBridge /\ p + 1 > 1 /\ toBridge'[p] = toBridge[p + 1]
      /\ \A p \in DOMAIN toBridge : p \in Nat /\ (p # 1 => p - 1 \in DOMAIN toBridge' /\ toBridge'[p - 1] = toBridge[p])
  <2>1. BridgeTyped /\ Shrunk(toBridge, toBridge')
    BY DEF BridgeInv, Reads
  <2> QED
    BY <2>1, ReadsOne
<1>3. \A q \in BridgeRequests : q # r => tasks'[q] = tasks[q]
  BY DEF Reads
<1>4. \A q \in BridgeRequests : tasks'[q].at = tasks[q].at
  BY <1>3 DEF Reads
<1>5. CallsInFlight'
  <2>1. \A i \in DOMAIN toEngine : Waits(tasks'[toEngine[i].request], toEngine[i].request \in lapses, toEngine[i].what)
    <3> SUFFICES ASSUME NEW i \in DOMAIN toEngine
                 PROVE Waits(tasks'[toEngine[i].request], toEngine[i].request \in lapses, toEngine[i].what)
      OBVIOUS
    <3>1. Waits(tasks[toEngine[i].request], toEngine[i].request \in lapses, toEngine[i].what)
              /\ toEngine[i].request \in BridgeRequests
      BY <1>1 DEF BridgeInv, CallsInFlight, Queued
    <3>2. CASE toEngine[i].request # r
      BY <3>1, <3>2, <1>3
    <3>3. CASE toEngine[i].request = r
      <4>1. toBridge[1].what \notin Calls
        BY <3>3, <1>0, <1>2 DEF BridgeInv, CallsInFlight
      <4> QED
        BY <3>1, <3>3, <4>1 DEF Reads, Waits
    <3> QED
      BY <3>2, <3>3
  <2>2. \A p \in DOMAIN toBridge' : toBridge'[p].what \in Calls =>
          Waits(tasks'[toBridge'[p].request], toBridge'[p].request \in lapses, toBridge'[p].what)
    <3> SUFFICES ASSUME NEW p \in DOMAIN toBridge', toBridge'[p].what \in Calls
                 PROVE Waits(tasks'[toBridge'[p].request], toBridge'[p].request \in lapses, toBridge'[p].what)
      OBVIOUS
    <3>1. Waits(tasks[toBridge'[p].request], toBridge'[p].request \in lapses, toBridge'[p].what)
              /\ toBridge'[p].request \in BridgeRequests
      BY <1>1, <1>2 DEF BridgeInv, CallsInFlight, Queued
    <3>2. CASE toBridge'[p].request # r
      BY <3>1, <3>2, <1>3
    <3>3. CASE toBridge'[p].request = r
      <4>1. p + 1 \in DOMAIN toBridge /\ p + 1 # 1 /\ toBridge[p + 1].what \in Calls /\ toBridge[p + 1].request = r
        BY <3>3, <1>2
      <4>2. toBridge[1].what \notin Calls
        BY <4>1, <1>0, <1>2 DEF BridgeInv, CallsInFlight
      <4> QED
        BY <3>1, <3>3, <4>2 DEF Reads, Waits
    <3> QED
      BY <3>2, <3>3
  <2>3. \A i, j \in DOMAIN toBridge' :
          toBridge'[i].what \in Calls /\ toBridge'[j].what \in Calls /\ toBridge'[i].request = toBridge'[j].request => i = j
    <3> SUFFICES ASSUME NEW i \in DOMAIN toBridge', NEW j \in DOMAIN toBridge',
                        toBridge'[i].what \in Calls, toBridge'[j].what \in Calls, toBridge'[i].request = toBridge'[j].request
                 PROVE i = j
      OBVIOUS
    <3>1. i + 1 = j + 1
      BY <1>2 DEF BridgeInv, CallsInFlight
    <3> QED
      BY <3>1, <1>2
  <2>4. \A i \in DOMAIN toEngine, j \in DOMAIN toBridge' : toBridge'[j].what \in Calls
            => toEngine[i].request # toBridge'[j].request
    BY <1>2 DEF BridgeInv, CallsInFlight
  <2>5. \A q \in lapses : tasks'[q].at = "done" /\ tasks'[q].got = "none"
    BY <1>3, <1>4 DEF BridgeInv, CallsInFlight, BridgeTyped, Reads
  <2> QED
    BY <1>0, <2>1, <2>2, <2>3, <2>4, <2>5 DEF BridgeInv, CallsInFlight
<1>6. TurnsAreTold'
  <2>1. ASSUME NEW q \in BridgeRequests, NEW p \in Nat, AnswerAt(toBridge, q, p + 1), p + 1 \in Nat
        PROVE tasks'[q].at = "done" \/ delivering' = q \/ AnswerAt(toBridge', q, p)
    <3>1. PICK a \in DOMAIN toBridge : a < p + 1 /\ toBridge[a].request = q /\ toBridge[a].what = "turn"
      BY <2>1 DEF AnswerAt
    <3>2. CASE a = 1
      BY <3>1, <3>2, <1>0, <1>4 DEF Reads
    <3>3. CASE a # 1
      <4>1. a - 1 \in DOMAIN toBridge' /\ toBridge'[a - 1] = toBridge[a] /\ a - 1 < p
        BY <3>1, <3>3, <1>2
      <4> QED
        BY <3>1, <4>1 DEF AnswerAt
    <3> QED
      BY <3>2, <3>3
  <2>2. ASSUME NEW p \in DOMAIN toBridge', toBridge'[p].what \in {"started", "completed"}
        PROVE \/ tasks'[toBridge'[p].request].at = "done" \/ delivering' = toBridge'[p].request
              \/ AnswerAt(toBridge', toBridge'[p].request, p)
    <3>1. p + 1 \in DOMAIN toBridge /\ p \in Nat /\ p + 1 \in Nat /\ toBridge'[p] = toBridge[p + 1]
              /\ toBridge[p + 1].request \in BridgeRequests
      BY <1>1, <1>2 DEF Queued
    <3>2. tasks[toBridge[p + 1].request].at = "done" \/ AnswerAt(toBridge, toBridge[p + 1].request, p + 1)
      BY <2>2, <3>1, <1>0 DEF BridgeInv, TurnsAreTold
    <3> QED
      BY <2>1, <3>1, <3>2, <1>4
  <2>3. ASSUME engine.turn # NoTurn
        PROVE \/ tasks'[engine.turn].at = "done" \/ delivering' = engine.turn
              \/ AnswerAt(toBridge', engine.turn, Len(toBridge') + 1)
    <3>1. engine.turn \in BridgeRequests
      BY <2>3 DEF BridgeInv, BridgeTyped
    <3>2. tasks[engine.turn].at = "done" \/ AnswerAt(toBridge, engine.turn, Len(toBridge) + 1)
      BY <2>3, <3>1, <1>0 DEF BridgeInv, TurnsAreTold
    <3>3. Len(toBridge) = Len(toBridge') + 1 /\ Len(toBridge') + 1 \in Nat /\ Len(toBridge) + 1 \in Nat
      BY DEF Reads, Shrunk
    <3> QED
      BY <2>1, <3>1, <3>2, <3>3, <1>4
  <2> QED
    BY <1>0, <2>2, <2>3 DEF TurnsAreTold
<1>7. ASSUME NEW k \in DOMAIN engine.saves, tasks'[engine.saves[k]].at # "done"
      PROVE delivering' = engine.saves[k] \/ \E p \in DOMAIN toBridge' : SavedAnswer(toBridge'[p], engine.saves[k])
  <2>1. engine.saves[k] \in BridgeRequests /\ tasks[engine.saves[k]].at # "done"
    BY <1>1, <1>4, <1>7 DEF Queued
  <2>2. PICK p \in DOMAIN toBridge : SavedAnswer(toBridge[p], engine.saves[k])
    BY <2>1, <1>0 DEF BridgeInv, SavesInOrder
  <2>3. CASE p = 1
    BY <2>1, <2>2, <2>3, <1>0 DEF SavedAnswer, Reads
  <2>4. CASE p # 1
    BY <2>2, <2>4, <1>2
  <2> QED
    BY <2>3, <2>4
<1> QED
  BY <1>5, <1>6, <1>7

\* An answer that a task waits for: the reader waits until it is passed on, if it must.
LEMMA AnswerIsReadKeeps ==
    ASSUME BridgeInv, NEW r \in BridgeRequests, Reads(r), toBridge[1].what \in Calls, tasks[r].at = toBridge[1].what,
           tasks[r].got = "none", tasks'[r].got = toBridge[1].got,
           delivering' = IF toBridge[1].what \in {"turn", "save"} THEN r ELSE NoTurn, seen' = seen
    PROVE  Ordering'
<1>0. /\ toEngine' = toEngine /\ engine' = engine /\ selection' = selection /\ lapses' = lapses
      /\ r = toBridge[1].request /\ delivering = NoTurn /\ NoTurn \notin BridgeRequests
  BY BridgeAssumption DEF Reads
<1>1. Queued
  BY QueuedIs DEF BridgeInv
<1>2. /\ 1 \in DOMAIN toBridge
      /\ \A p \in DOMAIN toBridge' : p \in Nat /\ p + 1 \in DOMAIN toBridge /\ p + 1 > 1 /\ toBridge'[p] = toBridge[p + 1]
      /\ \A p \in DOMAIN toBridge : p \in Nat /\ (p # 1 => p - 1 \in DOMAIN toBridge' /\ toBridge'[p - 1] = toBridge[p])
  <2>1. BridgeTyped /\ Shrunk(toBridge, toBridge')
    BY DEF BridgeInv, Reads
  <2> QED
    BY <2>1, ReadsOne
<1>3. \A q \in BridgeRequests : q # r => tasks'[q] = tasks[q]
  BY DEF Reads
<1>4. \A q \in BridgeRequests : /\ tasks'[q].at = tasks[q].at /\ tasks'[q].kind = tasks[q].kind
          /\ tasks'[q].model = tasks[q].model
                                /\ tasks'[q].provider = tasks[q].provider
  BY <1>3 DEF Reads
<1>5. toBridge[1].got \in {"ok", "error"} /\ toBridge[1].got # "none"
  BY <1>1, <1>2 DEF Queued
<1>6. CallsInFlight' /\ TurnsAreTold'
  BY ReadsKeeps
<1>7. ReaderWaits'
  <2>1. \A q \in BridgeRequests : ~(tasks[q].at \in {"turn", "save"} /\ tasks[q].got # "none")
    BY <1>0 DEF BridgeInv, ReaderWaits
  <2>2. ASSUME NEW q \in BridgeRequests PROVE delivering' = q <=> (tasks'[q].at \in {"turn", "save"} /\ tasks'[q].got # "none")
    <3>1. CASE q = r
      BY <3>1, <1>0, <1>4, <1>5
    <3>2. CASE q # r
      BY <3>2, <2>1, <1>0, <1>3
    <3> QED
      BY <3>1, <3>2
  <2> QED
    BY <2>2 DEF ReaderWaits
<1>8. AnsweredOnce'
  <2>1. \A i \in DOMAIN seen : seen[i].request \in BridgeRequests
    BY <1>1 DEF Queued
  <2> QED
    BY <1>0, <1>4, <2>1 DEF BridgeInv, AnsweredOnce
<1>9. \A k \in DOMAIN engine.saves : engine.saves[k] \in BridgeRequests
  BY <1>1 DEF Queued
<1>10. KeptOf(engine.saves, tasks') = KeptOf(engine.saves, tasks)
  <2>1. tasks[r].at # "done"
    BY DEF Calls
  <2>2. \A q \in BridgeRequests : KeptTask(tasks'[q]) <=> KeptTask(tasks[q])
    BY <1>3, <1>4, <2>1 DEF KeptTask
  <2> QED
    BY <1>9, <2>2 DEF KeptOf
<1>11. SavesInOrder'
  <2>1. \A k \in DOMAIN engine.saves : tasks'[engine.saves[k]].kind \in {"save", "effort"}
    BY <1>4, <1>9 DEF BridgeInv, SavesInOrder
  <2>2. \A p \in DOMAIN toBridge' : SavedAnswer(toBridge'[p], toBridge'[p].request) =>
          \E k \in DOMAIN engine.saves : engine.saves[k] = toBridge'[p].request
    BY <1>2 DEF BridgeInv, SavesInOrder
  <2>3. \A q \in BridgeRequests : tasks'[q].at = "save" /\ tasks'[q].got = "ok"
            => \E k \in DOMAIN engine.saves : engine.saves[k] = q
    <3> SUFFICES ASSUME NEW q \in BridgeRequests, tasks'[q].at = "save", tasks'[q].got = "ok"
                 PROVE  \E k \in DOMAIN engine.saves : engine.saves[k] = q
      OBVIOUS
    <3>1. CASE q = r
      <4>1. SavedAnswer(toBridge[1], toBridge[1].request)
        BY <3>1, <1>4 DEF SavedAnswer
      <4> QED
        BY <3>1, <4>1, <1>0, <1>2 DEF BridgeInv, SavesInOrder
    <3>2. CASE q # r
      BY <3>2, <1>3 DEF BridgeInv, SavesInOrder
    <3> QED
      BY <3>1, <3>2
  <2>4. \A k \in DOMAIN engine.saves : tasks'[engine.saves[k]].at # "done" =>
          delivering' = engine.saves[k] \/ \E p \in DOMAIN toBridge' : SavedAnswer(toBridge'[p], engine.saves[k])
    BY ReadsKeeps
  <2>5. \A p, q \in DOMAIN toBridge' : \A k, l \in DOMAIN engine.saves :
          p < q /\ SavedAnswer(toBridge'[p], engine.saves[k]) /\ SavedAnswer(toBridge'[q], engine.saves[l]) => k < l
    <3> SUFFICES ASSUME NEW p \in DOMAIN toBridge', NEW q \in DOMAIN toBridge', NEW k \in DOMAIN engine.saves,
                        NEW l \in DOMAIN engine.saves,
                        p < q, SavedAnswer(toBridge'[p], engine.saves[k]), SavedAnswer(toBridge'[q], engine.saves[l])
                 PROVE k < l
      OBVIOUS
    <3>1. /\ p + 1 \in DOMAIN toBridge /\ q + 1 \in DOMAIN toBridge /\ p + 1 < q + 1
          /\ SavedAnswer(toBridge[p + 1], engine.saves[k]) /\ SavedAnswer(toBridge[q + 1], engine.saves[l])
      BY <1>2
    <3> QED
      BY <3>1 DEF BridgeInv, SavesInOrder
  <2>6. \A k, l \in DOMAIN engine.saves :
          delivering' = engine.saves[k] /\ tasks'[engine.saves[l]].at # "done" /\ l # k => k < l
    <3> SUFFICES ASSUME NEW k \in DOMAIN engine.saves, NEW l \in DOMAIN engine.saves,
                        delivering' = engine.saves[k], tasks'[engine.saves[l]].at # "done", l # k
                 PROVE k < l
      OBVIOUS
    <3>1. engine.saves[k] = r /\ engine.saves[l] \in BridgeRequests /\ engine.saves[k] \in BridgeRequests
      BY <1>0, <1>9
    <3>2. engine.saves[l] # r
      BY <3>1 DEF BridgeInv, SavesInOrder
    <3>3. tasks[r].at # "turn"
      <4>1. tasks[r].kind \in {"save", "effort"}
        BY <3>1 DEF BridgeInv, SavesInOrder
      <4> QED
        BY <4>1 DEF BridgeInv, BridgeTyped, TaskIsOf
    <3>4. PICK p \in DOMAIN toBridge : SavedAnswer(toBridge[p], engine.saves[l])
      BY <3>1, <1>0, <1>4 DEF BridgeInv, SavesInOrder
    <3>5. p # 1 /\ 1 < p
      <4>1. p # 1
        BY <3>2, <3>4, <1>0 DEF SavedAnswer
      <4> QED
        BY <4>1, <1>1 DEF Queued
    <3>6. tasks[r].at # "done" /\ delivering # engine.saves[k]
      BY <3>1, <1>0 DEF Calls
    <3>7. PICK o \in DOMAIN toBridge : SavedAnswer(toBridge[o], engine.saves[k])
      BY <3>1, <3>6 DEF BridgeInv, SavesInOrder
    <3>8. o = 1
      <4>1. toBridge[o].what \in Calls /\ toBridge[o].request = toBridge[1].request
        BY <3>1, <3>7, <1>0 DEF SavedAnswer, Calls
      <4> QED
        BY <4>1, <1>2 DEF BridgeInv, CallsInFlight
    <3> QED
      BY <3>4, <3>5, <3>7, <3>8 DEF BridgeInv, SavesInOrder
  <2>7. \A k \in KeptOf(engine.saves, tasks'), l \in DOMAIN engine.saves : tasks'[engine.saves[l]].at # "done" => k < l
    BY <1>4, <1>9, <1>10 DEF BridgeInv, SavesInOrder
  <2>8. \A i \in DOMAIN toEngine : toEngine[i].what = "save" => tasks'[toEngine[i].request].kind \in {"save", "effort"}
    BY <1>1, <1>4 DEF BridgeInv, SavesInOrder, Queued
  <2> QED
    BY <1>0, <2>1, <2>2, <2>3, <2>4, <2>5, <2>6, <2>7, <2>8 DEF BridgeInv, SavesInOrder
<1>13. ResumesSucceed'
  <2>1. \A q \in BridgeRequests : tasks'[q].at = "resume" => tasks'[q].got # "error"
    <3> SUFFICES ASSUME NEW q \in BridgeRequests, tasks'[q].at = "resume" PROVE tasks'[q].got # "error"
      OBVIOUS
    <3>1. CASE q = r
      BY <3>1, <1>2, <1>4 DEF BridgeInv, ResumesSucceed
    <3>2. CASE q # r
      BY <3>2, <1>3 DEF BridgeInv, ResumesSucceed
    <3> QED
      BY <3>1, <3>2
  <2> QED
    BY <1>0, <1>1, <1>2, <1>4, <2>1 DEF BridgeInv, ResumesSucceed, Queued
<1> QED
  BY <1>6, <1>7, <1>8, <1>11, <1>13 DEF Ordering

\* An answer nobody waits for is dropped; what the engine says of a turn goes to the app, which has the answer by then.
LEMMA RestIsReadKeeps ==
    ASSUME BridgeInv, NEW r \in BridgeRequests, Reads(r), tasks' = tasks, delivering' = NoTurn,
           \/ seen' = seen
           \/ /\ toBridge[1].what \in {"started", "completed"}
              /\ Grown(seen, seen', [request |-> r, what |-> toBridge[1].what])
    PROVE  Ordering'
<1>0. /\ toEngine' = toEngine /\ engine' = engine /\ selection' = selection /\ lapses' = lapses
      /\ r = toBridge[1].request /\ delivering = NoTurn /\ delivering' = delivering /\ NoTurn \notin BridgeRequests
  BY BridgeAssumption DEF Reads
<1>1. Queued
  BY QueuedIs DEF BridgeInv
<1>2. /\ 1 \in DOMAIN toBridge
      /\ \A p \in DOMAIN toBridge' : p \in Nat /\ p + 1 \in DOMAIN toBridge /\ p + 1 > 1 /\ toBridge'[p] = toBridge[p + 1]
      /\ \A p \in DOMAIN toBridge : p \in Nat /\ (p # 1 => p - 1 \in DOMAIN toBridge' /\ toBridge'[p - 1] = toBridge[p])
  <2>1. BridgeTyped /\ Shrunk(toBridge, toBridge')
    BY DEF BridgeInv, Reads
  <2> QED
    BY <2>1, ReadsOne
<1>3. CallsInFlight' /\ TurnsAreTold'
  BY ReadsKeeps
<1>4. ReaderWaits'
  BY <1>0 DEF BridgeInv, ReaderWaits
<1>5. \/ seen' = seen
      \/ \E w \in {"started", "completed"} :
           /\ toBridge[1].what = w /\ DOMAIN seen' = 1 .. Len(seen) + 1 /\ (\A i \in 1 .. Len(seen) : seen'[i] = seen[i])
           /\ seen'[Len(seen) + 1].request = r /\ seen'[Len(seen) + 1].what = w
  BY DEF Grown
<1>6. DOMAIN seen = 1 .. Len(seen) /\ Len(seen) \in Nat /\ \A i \in 1 .. Len(seen) + 1 : i = Len(seen) + 1 \/ i \in 1 .. Len(seen)
  BY <1>1 DEF Queued
<1>7. AnsweredOnce'
  <2>1. CASE seen' = seen
    BY <2>1, <1>0 DEF BridgeInv, AnsweredOnce
  <2>2. ASSUME NEW w \in {"started", "completed"},
               toBridge[1].what = w, DOMAIN seen' = 1 .. Len(seen) + 1, \A i \in 1 .. Len(seen) : seen'[i] = seen[i],
               seen'[Len(seen) + 1].request = r, seen'[Len(seen) + 1].what = w
        PROVE AnsweredOnce'
    <3> DEFINE n == Len(seen) + 1
    <3>1. w \notin Answers
      BY DEF Answers
    <3>2. \A i \in 1 .. n : i = n \/ (i \in 1 .. Len(seen) /\ i \in DOMAIN seen)
      BY <1>6
    <3>3. \A i \in DOMAIN seen : i \in 1 .. n /\ i < n /\ seen'[i] = seen[i]
      BY <1>6, <2>2
    <3>4. seen'[n].request = r /\ seen'[n].what = w /\ DOMAIN seen' = 1 .. n
      BY <2>2
    <3> HIDE DEF n
    <3>5. tasks[r].at = "done"
      <4>1. \/ tasks[r].at = "done" \/ delivering = r
            \/ AnswerAt(toBridge, r, 1)
        BY <2>2, <1>0, <1>2 DEF BridgeInv, TurnsAreTold
      <4>2. ~AnswerAt(toBridge, r, 1)
        BY <1>1 DEF AnswerAt, Queued
      <4> QED
        BY <4>1, <4>2, <1>0
    <3>6. PICK a \in DOMAIN seen : seen[a].request = r /\ seen[a].what \in Answers
      BY <3>5 DEF BridgeInv, AnsweredOnce
    <3>7. \A i \in 1 .. n : seen'[i].what \in Answers => i \in DOMAIN seen /\ seen'[i] = seen[i]
      BY <3>1, <3>2, <3>3, <3>4
    <3>8. \A i, j \in 1 .. n :
            seen'[i].what \in Answers /\ seen'[j].what \in Answers /\ seen'[i].request = seen'[j].request => i = j
      BY <3>7 DEF BridgeInv, AnsweredOnce
    <3>9. \A i \in 1 .. n : seen'[i].what \in Answers => tasks[seen'[i].request].at = "done"
      BY <3>7 DEF BridgeInv, AnsweredOnce
    <3>10. \A q \in BridgeRequests : tasks[q].at = "done" => \E i \in 1 .. n : seen'[i].request = q /\ seen'[i].what \in Answers
      BY <3>3 DEF BridgeInv, AnsweredOnce
    <3>11. \A i \in 1 .. n : seen'[i].what \in {"started", "completed"} =>
            \E j \in 1 .. n : j < i /\ seen'[j].request = seen'[i].request /\ seen'[j].what \in Answers
      <4> SUFFICES ASSUME NEW i \in 1 .. n, seen'[i].what \in {"started", "completed"}
                   PROVE \E j \in 1 .. n : j < i /\ seen'[j].request = seen'[i].request /\ seen'[j].what \in Answers
        OBVIOUS
      <4>1. CASE i = n
        BY <4>1, <3>3, <3>4, <3>6
      <4>2. CASE i # n
        <5>1. i \in DOMAIN seen /\ seen'[i] = seen[i]
          BY <4>2, <3>2, <3>3
        <5>2. PICK j \in DOMAIN seen : j < i /\ seen[j].request = seen[i].request /\ seen[j].what \in Answers
          BY <5>1 DEF BridgeInv, AnsweredOnce
        <5> QED
          BY <5>1, <5>2, <3>3
      <4> QED
        BY <4>1, <4>2
    <3>12. \A i \in 1 .. n : seen'[i].what = "ok" => i \in DOMAIN seen /\ seen'[i] = seen[i] /\ seen'[i].request \notin lapses
      BY <3>7 DEF BridgeInv, AnsweredOnce, Answers
    <3> QED
      BY <1>0, <3>4, <3>8, <3>9, <3>10, <3>11, <3>12 DEF AnsweredOnce
  <2> QED
    BY <1>5, <2>1, <2>2
<1>9. SavesInOrder'
  <2>1. \A p \in DOMAIN toBridge' : SavedAnswer(toBridge'[p], toBridge'[p].request) =>
          \E k \in DOMAIN engine.saves : engine.saves[k] = toBridge'[p].request
    BY <1>2 DEF BridgeInv, SavesInOrder
  <2>2. \A k \in DOMAIN engine.saves : tasks[engine.saves[k]].at # "done" =>
          delivering = engine.saves[k] \/ \E p \in DOMAIN toBridge' : SavedAnswer(toBridge'[p], engine.saves[k])
    BY ReadsKeeps, <1>0
  <2>3. \A p, q \in DOMAIN toBridge' : \A k, l \in DOMAIN engine.saves :
          p < q /\ SavedAnswer(toBridge'[p], engine.saves[k]) /\ SavedAnswer(toBridge'[q], engine.saves[l]) => k < l
    <3> SUFFICES ASSUME NEW p \in DOMAIN toBridge', NEW q \in DOMAIN toBridge', NEW k \in DOMAIN engine.saves,
                        NEW l \in DOMAIN engine.saves,
                        p < q, SavedAnswer(toBridge'[p], engine.saves[k]), SavedAnswer(toBridge'[q], engine.saves[l])
                 PROVE k < l
      OBVIOUS
    <3>1. /\ p + 1 \in DOMAIN toBridge /\ q + 1 \in DOMAIN toBridge /\ p + 1 < q + 1
          /\ SavedAnswer(toBridge[p + 1], engine.saves[k]) /\ SavedAnswer(toBridge[q + 1], engine.saves[l])
      BY <1>2
    <3> QED
      BY <3>1 DEF BridgeInv, SavesInOrder
  <2> QED
    BY <1>0, <2>1, <2>2, <2>3 DEF BridgeInv, SavesInOrder
<1>11. ResumesSucceed'
  BY <1>0, <1>2 DEF BridgeInv, ResumesSucceed
<1> QED
  BY <1>3, <1>4, <1>7, <1>9, <1>11 DEF Ordering

-----------------------------------------------------------------------------
(* The engine takes a call and answers it.                                 *)

\* The answer, and perhaps that the turn has begun, go to the bridge.
Spoken(s, t, e) ==
    /\ Len(s) \in Nat /\ DOMAIN s = 1 .. Len(s) /\ DOMAIN t = 1 .. Len(t) /\ Len(t) \in Nat
    /\ \A i \in 1 .. Len(s) : t[i] = s[i]
    /\ t[Len(s) + 1] = e
    /\ \/ Len(t) = Len(s) + 1
       \/ /\ Len(t) = Len(s) + 2 /\ e.what = "turn"
          /\ t[Len(s) + 2].what = "started" /\ t[Len(s) + 2].request = e.request
EngineTakes(c, got) ==
    /\ Shrunk(toEngine, toEngine') /\ c = toEngine[1]
    /\ Spoken(toBridge, toBridge', Says(c.request, c.what, got))
    /\ c.what = "resume" => got = "ok"
    /\ \/ engine'.turn = engine.turn
       \/ c.what = "turn" /\ engine'.turn = c.request
    /\ \/ engine'.saves = engine.saves /\ (c.what = "save" => got = "error")
       \/ Grown(engine.saves, engine'.saves, c.request) /\ c.what = "save" /\ got = "ok"
    /\ UNCHANGED <<tasks, delivering, selection, seen, lapses>>

\* What the bridge then finds in its queue.
LEMMA SaidIs ==
    ASSUME NEW s, NEW t, NEW e, Spoken(s, t, e), NEW n, n = Len(s) + 1
    PROVE  /\ \A p \in DOMAIN s : p \in DOMAIN t /\ p \in Nat /\ p < n /\ t[p] = s[p]
           /\ n \in DOMAIN t /\ n \in Nat /\ t[n] = e
           /\ \A p \in DOMAIN t : \/ p \in DOMAIN s
                                  \/ p = n
                                  \/ p = n + 1 /\ e.what = "turn" /\ t[p].what = "started" /\ t[p].request = e.request
           /\ Len(t) \in Nat /\ Len(t) >= n
<1>1. PICK a \in Nat : a = Len(s)
  BY DEF Spoken
<1>2. PICK b \in Nat : b = Len(t)
  BY DEF Spoken
<1>3. /\ DOMAIN s = 1 .. a /\ DOMAIN t = 1 .. b /\ (\A i \in 1 .. a : t[i] = s[i]) /\ t[a + 1] = e
      /\ b = a + 1 \/ (b = a + 2 /\ e.what = "turn" /\ t[a + 2].what = "started" /\ t[a + 2].request = e.request)
  BY <1>1, <1>2 DEF Spoken
<1>4. n = a + 1 /\ n \in Nat /\ n + 1 = a + 2
  BY <1>1
<1>5. \A p \in 1 .. a : p \in 1 .. b /\ p \in Nat /\ p < a + 1
  BY <1>3
<1>6. a + 1 \in 1 .. b /\ b >= a + 1
  BY <1>3
<1>7. \A p \in 1 .. b : p \in 1 .. a \/ p = a + 1 \/ (p = a + 2 /\ b # a + 1)
  BY <1>3
<1> QED
  BY <1>2, <1>3, <1>4, <1>5, <1>6, <1>7

\* What stays as it is in the queue of the engine.
LEMMA CallsMoveUp ==
    ASSUME Shrunk(toEngine, toEngine')
    PROVE  /\ 1 \in DOMAIN toEngine
           /\ \A i \in DOMAIN toEngine' : i \in Nat /\ i + 1 \in DOMAIN toEngine /\ i + 1 # 1 /\ toEngine'[i] = toEngine[i + 1]
BY DEF Shrunk

\* Who has put a call to the engine has no answer yet.
LEMMA CallIsOpen ==
    ASSUME BridgeInv, 1 \in DOMAIN toEngine, NEW r, r = toEngine[1].request
    PROVE  /\ r \in BridgeRequests /\ Waits(tasks[r], r \in lapses, toEngine[1].what)
           /\ delivering # r
           /\ \A j \in DOMAIN toBridge : toBridge[j].what \in Calls => toBridge[j].request # r
           /\ \A k \in DOMAIN engine.saves : engine.saves[k] # r
           /\ ~KeptTask(tasks[r])
<1>1. r \in BridgeRequests /\ Waits(tasks[r], r \in lapses, toEngine[1].what)
  BY QueuedIs DEF BridgeInv, CallsInFlight, Queued
<1>2. delivering # r
  BY <1>1 DEF BridgeInv, ReaderWaits, Waits
<1>3. ~KeptTask(tasks[r])
  <2>1. toEngine[1].what # "done"
    BY QueuedIs DEF BridgeInv, Queued, Calls
  <2> QED
    BY <1>1, <2>1 DEF BridgeInv, CallsInFlight, Waits, KeptTask
<1> QED
  BY <1>1, <1>2, <1>3 DEF BridgeInv, CallsInFlight, SavesInOrder

LEMMA EngineTakesKeeps ==
    ASSUME BridgeInv, NEW c, NEW got \in {"ok", "error"}, EngineTakes(c, got)
    PROVE  Ordering'
<1> DEFINE n == Len(toBridge) + 1
           r == c.request
<1>0. /\ tasks' = tasks /\ delivering' = delivering /\ selection' = selection /\ seen' = seen /\ lapses' = lapses
      /\ c = toEngine[1] /\ r = toEngine[1].request
  BY DEF EngineTakes
<1>1. Queued
  BY QueuedIs DEF BridgeInv
<1>2. /\ 1 \in DOMAIN toEngine
      /\ \A i \in DOMAIN toEngine' : i \in Nat /\ i + 1 \in DOMAIN toEngine /\ i + 1 # 1 /\ toEngine'[i] = toEngine[i + 1]
  <2>1. Shrunk(toEngine, toEngine')
    BY DEF EngineTakes
  <2> QED
    BY <2>1, CallsMoveUp
<1>3. /\ r \in BridgeRequests /\ Waits(tasks[r], r \in lapses, c.what)
      /\ delivering # r
      /\ \A j \in DOMAIN toBridge : toBridge[j].what \in Calls => toBridge[j].request # r
      /\ \A k \in DOMAIN engine.saves : engine.saves[k] # r
      /\ ~KeptTask(tasks[r])
  <2> HIDE DEF r
  <2> QED
    BY <1>0, <1>2, CallIsOpen
<1>4. c.what \in Calls /\ c.what \notin {"started", "completed"}
  BY <1>0, <1>1, <1>2 DEF Queued, Calls
<1>5. /\ \A p \in DOMAIN toBridge : p \in DOMAIN toBridge' /\ p \in Nat /\ p < n /\ toBridge'[p] = toBridge[p]
      /\ n \in DOMAIN toBridge' /\ n \in Nat
      /\ toBridge'[n].request = r /\ toBridge'[n].what = c.what /\ toBridge'[n].got = got
      /\ \A p \in DOMAIN toBridge' : \/ p \in DOMAIN toBridge
                                     \/ p = n
                                     \/ /\ p = n + 1 /\ c.what = "turn" /\ toBridge'[p].what = "started"
                                        /\ toBridge'[p].request = r
      /\ Len(toBridge') \in Nat /\ Len(toBridge') >= n
  <2>1. Spoken(toBridge, toBridge', Says(r, c.what, got))
    BY DEF EngineTakes
  <2>2. Says(r, c.what, got).request = r /\ Says(r, c.what, got).what = c.what /\ Says(r, c.what, got).got = got
    BY DEF Says
  <2> QED
    BY <2>1, <2>2, SaidIs
<1> HIDE DEF n, r
<1>6. \A p \in DOMAIN toBridge' : toBridge'[p].what \in Calls => p \in DOMAIN toBridge \/ p = n
  BY <1>5 DEF Calls
<1>7. CallsInFlight'
  <2>1. \A i \in DOMAIN toEngine' : Waits(tasks[toEngine'[i].request], toEngine'[i].request \in lapses, toEngine'[i].what)
    BY <1>2 DEF BridgeInv, CallsInFlight
  <2>2. \A p \in DOMAIN toBridge' : toBridge'[p].what \in Calls =>
          Waits(tasks[toBridge'[p].request], toBridge'[p].request \in lapses, toBridge'[p].what)
    <3> SUFFICES ASSUME NEW p \in DOMAIN toBridge', toBridge'[p].what \in Calls
                 PROVE Waits(tasks[toBridge'[p].request], toBridge'[p].request \in lapses, toBridge'[p].what)
      OBVIOUS
    <3>1. CASE p = n
      BY <3>1, <1>3, <1>5
    <3>2. CASE p \in DOMAIN toBridge
      BY <3>2, <1>5 DEF BridgeInv, CallsInFlight
    <3> QED
      BY <1>6, <3>1, <3>2
  <2>3. \A i, j \in DOMAIN toEngine' : toEngine'[i].request = toEngine'[j].request => i = j
    <3> SUFFICES ASSUME NEW i \in DOMAIN toEngine', NEW j \in DOMAIN toEngine', toEngine'[i].request = toEngine'[j].request
                 PROVE i = j
      OBVIOUS
    <3>1. i + 1 = j + 1
      BY <1>2 DEF BridgeInv, CallsInFlight
    <3> QED
      BY <3>1, <1>2
  <2>4. \A i, j \in DOMAIN toBridge' :
          toBridge'[i].what \in Calls /\ toBridge'[j].what \in Calls /\ toBridge'[i].request = toBridge'[j].request => i = j
    <3>1. \A i, j \in DOMAIN toBridge :
          toBridge'[i].what \in Calls /\ toBridge'[j].what \in Calls /\ toBridge'[i].request = toBridge'[j].request => i = j
      BY <1>5 DEF BridgeInv, CallsInFlight
    <3>2. \A i \in DOMAIN toBridge : toBridge'[i].what \in Calls => toBridge'[i].request # r
      BY <1>3, <1>5
    <3> QED
      BY <1>5, <1>6, <3>1, <3>2
  <2>5. \A i \in DOMAIN toEngine', j \in DOMAIN toBridge' : toBridge'[j].what \in Calls
            => toEngine'[i].request # toBridge'[j].request
    <3>1. \A i \in DOMAIN toEngine', j \in DOMAIN toBridge : toBridge'[j].what \in Calls
              => toEngine'[i].request # toBridge'[j].request
      BY <1>2, <1>5 DEF BridgeInv, CallsInFlight
    <3>2. \A i \in DOMAIN toEngine' : toEngine'[i].request # r
      <4>1. \A i \in DOMAIN toEngine : i # 1 => toEngine[i].request # toEngine[1].request
        BY <1>2 DEF BridgeInv, CallsInFlight
      <4> QED
        BY <4>1, <1>0, <1>2
    <3> QED
      BY <1>5, <1>6, <3>1, <3>2
  <2>6. \A q \in lapses : tasks[q].at = "done" /\ tasks[q].got = "none"
    BY DEF BridgeInv, CallsInFlight
  <2> QED
    BY <1>0, <2>1, <2>2, <2>3, <2>4, <2>5, <2>6 DEF CallsInFlight
<1>8. ReaderWaits'
  BY <1>0 DEF BridgeInv, ReaderWaits
<1>9. TurnsAreTold'
  <2>1. ASSUME NEW q, NEW p \in Nat, NEW o \in Nat, p <= o, AnswerAt(toBridge, q, p) PROVE AnswerAt(toBridge', q, o)
    BY <2>1, <1>5 DEF AnswerAt
  <2>2. ASSUME c.what = "turn", NEW o \in Nat, n < o PROVE AnswerAt(toBridge', r, o)
    BY <2>2, <1>5 DEF AnswerAt
  <2>3. ASSUME NEW p \in DOMAIN toBridge', toBridge'[p].what \in {"started", "completed"}
        PROVE \/ tasks[toBridge'[p].request].at = "done" \/ delivering = toBridge'[p].request
              \/ AnswerAt(toBridge', toBridge'[p].request, p)
    <3>1. CASE p \in DOMAIN toBridge
      <4>1. \/ tasks[toBridge[p].request].at = "done" \/ delivering = toBridge[p].request
            \/ AnswerAt(toBridge, toBridge[p].request, p)
        BY <2>3, <3>1, <1>5 DEF BridgeInv, TurnsAreTold
      <4>2. p \in Nat /\ p <= p
        BY <3>1, <1>5
      <4> QED
        BY <2>1, <3>1, <4>1, <4>2, <1>5
    <3>2. CASE p = n + 1 /\ c.what = "turn" /\ toBridge'[p].request = r
      BY <2>2, <3>2, <1>5
    <3>3. p # n
      BY <2>3, <1>4, <1>5
    <3> QED
      BY <3>1, <3>2, <3>3, <1>5
  <2>4. ASSUME engine'.turn # NoTurn
        PROVE \/ tasks[engine'.turn].at = "done" \/ delivering = engine'.turn
              \/ AnswerAt(toBridge', engine'.turn, Len(toBridge') + 1)
    <3>1. n < Len(toBridge') + 1 /\ Len(toBridge') + 1 \in Nat
      BY <1>5
    <3>2. CASE engine'.turn = engine.turn
      <4>1. Len(toBridge) + 1 \in Nat /\ Len(toBridge) + 1 <= Len(toBridge') + 1
        BY <1>1, <1>5 DEF Queued, n
      <4>2. \/ tasks[engine.turn].at = "done" \/ delivering = engine.turn
            \/ AnswerAt(toBridge, engine.turn, Len(toBridge) + 1)
        BY <2>4, <3>2 DEF BridgeInv, TurnsAreTold
      <4> QED
        BY <2>1, <3>1, <3>2, <4>1, <4>2
    <3>3. CASE c.what = "turn" /\ engine'.turn = r
      BY <2>2, <3>1, <3>3
    <3> QED
      BY <3>2, <3>3 DEF EngineTakes, r
  <2> QED
    BY <1>0, <2>3, <2>4 DEF TurnsAreTold
<1>10. AnsweredOnce'
  BY <1>0 DEF BridgeInv, AnsweredOnce
<1>11. /\ \A i \in DOMAIN toEngine' : toEngine'[i].what = "save" => tasks[toEngine'[i].request].kind \in {"save", "effort"}
       /\ \A q \in BridgeRequests : tasks[q].at = "save" /\ tasks[q].got = "ok"
              => \E k \in DOMAIN engine.saves : engine.saves[k] = q
       /\ \A i \in DOMAIN toEngine' : toEngine'[i].request # r
       /\ \A i \in DOMAIN toEngine' : \A k \in DOMAIN engine.saves : toEngine'[i].request # engine.saves[k]
  <2>1. \A i \in DOMAIN toEngine : i # 1 => toEngine[i].request # toEngine[1].request
    BY <1>2 DEF BridgeInv, CallsInFlight
  <2> QED
    BY <2>1, <1>0, <1>2 DEF BridgeInv, SavesInOrder
<1>12. \A p \in DOMAIN toBridge' : \A q : SavedAnswer(toBridge'[p], q) =>
          (p \in DOMAIN toBridge /\ q # r /\ SavedAnswer(toBridge[p], q)) \/ (p = n /\ q = r /\ c.what = "save" /\ got = "ok")
  <2> SUFFICES ASSUME NEW p \in DOMAIN toBridge', NEW q, SavedAnswer(toBridge'[p], q)
               PROVE (p \in DOMAIN toBridge /\ q # r /\ SavedAnswer(toBridge[p], q)) \/ (p = n /\ q = r /\ c.what = "save" /\ got = "ok")
    OBVIOUS
  <2>1. toBridge'[p].what = "save" /\ toBridge'[p].what \in Calls /\ toBridge'[p].request = q /\ toBridge'[p].got = "ok"
    BY DEF SavedAnswer, Calls
  <2>2. CASE p = n
    BY <2>1, <2>2, <1>5
  <2>3. CASE p \in DOMAIN toBridge
    BY <2>1, <2>3, <1>3, <1>5
  <2> QED
    BY <2>1, <2>2, <2>3, <1>6
<1>13. ASSUME engine'.saves = engine.saves /\ (c.what = "save" => got = "error")
       PROVE  SavesInOrder'
  <2>1. \A p \in DOMAIN toBridge' : \A q : SavedAnswer(toBridge'[p], q) =>
          p \in DOMAIN toBridge /\ SavedAnswer(toBridge[p], q)
    BY <1>12, <1>13
  <2>2. SavesInOrder'
    <3>1. \A p \in DOMAIN toBridge' : SavedAnswer(toBridge'[p], toBridge'[p].request) =>
            \E k \in DOMAIN engine.saves : engine.saves[k] = toBridge'[p].request
      BY <2>1, <1>5 DEF BridgeInv, SavesInOrder
    <3>2. \A k \in DOMAIN engine.saves : tasks[engine.saves[k]].at # "done" =>
            delivering = engine.saves[k] \/ \E p \in DOMAIN toBridge' : SavedAnswer(toBridge'[p], engine.saves[k])
      BY <1>5 DEF BridgeInv, SavesInOrder
    <3>3. \A p, q \in DOMAIN toBridge' : \A k, l \in DOMAIN engine.saves :
            p < q /\ SavedAnswer(toBridge'[p], engine.saves[k]) /\ SavedAnswer(toBridge'[q], engine.saves[l]) => k < l
      BY <2>1 DEF BridgeInv, SavesInOrder
    <3> QED
      BY <1>0, <1>11, <1>13, <3>1, <3>2, <3>3 DEF BridgeInv, SavesInOrder
  <2> QED
    BY <2>2
<1>14. ASSUME Grown(engine.saves, engine'.saves, r) /\ c.what = "save" /\ got = "ok"
       PROVE  SavesInOrder'
  <2> DEFINE m == Len(engine.saves) + 1
             old == engine.saves
             new == engine'.saves
  <2>1. /\ DOMAIN new = 1 .. m /\ m \in Nat /\ DOMAIN old = 1 .. Len(old)
        /\ \A k \in DOMAIN old : k \in DOMAIN new /\ k \in Nat /\ k < m /\ new[k] = old[k]
        /\ m \in DOMAIN new /\ new[m] = r
        /\ \A k \in DOMAIN new : k \in DOMAIN old \/ k = m
    BY <1>14 DEF Grown
  <2>2. \A k \in DOMAIN old : new[k] # r
    BY <2>1, <1>3
  <2> HIDE DEF m, old, new
  <2>3. KeptOf(new, tasks) = KeptOf(old, tasks)
    BY <2>1, <1>3 DEF KeptOf
  <2>4. \A k \in KeptOf(old, tasks) : k \in DOMAIN old
    BY DEF KeptOf
  <2>5. SavesInOrder'
    <3>1. \A k \in DOMAIN new : tasks[new[k]].kind \in {"save", "effort"}
      <4>1. \A k \in DOMAIN old : tasks[old[k]].kind \in {"save", "effort"}
        BY DEF BridgeInv, SavesInOrder, old
      <4>2. tasks[r].kind \in {"save", "effort"}
        BY <1>0, <1>2, <1>14 DEF BridgeInv, SavesInOrder
      <4> QED
        BY <2>1, <4>1, <4>2
    <3>2. \A k, l \in DOMAIN new : new[k] = new[l] => k = l
      <4>1. \A k, l \in DOMAIN old : new[k] = new[l] => k = l
        BY <2>1 DEF BridgeInv, SavesInOrder, old
      <4> QED
        BY <2>1, <2>2, <4>1
    <3>3. \A i \in DOMAIN toEngine' : \A k \in DOMAIN new : toEngine'[i].request # new[k]
      <4>1. \A i \in DOMAIN toEngine' : \A k \in DOMAIN old : toEngine'[i].request # old[k]
        BY <1>11 DEF old
      <4> QED
        BY <2>1, <4>1, <1>11
    <3>4. \A p \in DOMAIN toBridge' : SavedAnswer(toBridge'[p], toBridge'[p].request) =>
            \E k \in DOMAIN new : new[k] = toBridge'[p].request
      <4> SUFFICES ASSUME NEW p \in DOMAIN toBridge', SavedAnswer(toBridge'[p], toBridge'[p].request)
                   PROVE \E k \in DOMAIN new : new[k] = toBridge'[p].request
        OBVIOUS
      <4>1. CASE p \in DOMAIN toBridge
        <5>1. \E k \in DOMAIN old : old[k] = toBridge'[p].request
          BY <4>1, <1>5 DEF BridgeInv, SavesInOrder, old
        <5> QED
          BY <2>1, <5>1
      <4>2. CASE p = n
        BY <4>2, <2>1, <1>5
      <4> QED
        BY <1>12, <4>1, <4>2
    <3>5. \A q \in BridgeRequests : tasks[q].at = "save" /\ tasks[q].got = "ok" => \E k \in DOMAIN new : new[k] = q
      BY <1>11, <2>1 DEF old
    <3>6. \A k \in DOMAIN new : tasks[new[k]].at # "done" =>
            delivering = new[k] \/ \E p \in DOMAIN toBridge' : SavedAnswer(toBridge'[p], new[k])
      <4>1. \A k \in DOMAIN old : tasks[new[k]].at # "done" =>
            delivering = new[k] \/ \E p \in DOMAIN toBridge' : SavedAnswer(toBridge'[p], new[k])
        BY <2>1, <1>5 DEF BridgeInv, SavesInOrder, old
      <4>2. SavedAnswer(toBridge'[n], r)
        BY <1>5, <1>14 DEF SavedAnswer
      <4> QED
        BY <2>1, <4>1, <4>2, <1>5
    <3>7. \A p, q \in DOMAIN toBridge' : \A k, l \in DOMAIN new :
            p < q /\ SavedAnswer(toBridge'[p], new[k]) /\ SavedAnswer(toBridge'[q], new[l]) => k < l
      <4> SUFFICES ASSUME NEW p \in DOMAIN toBridge', NEW q \in DOMAIN toBridge', NEW k \in DOMAIN new, NEW l \in DOMAIN new,
                          p < q, SavedAnswer(toBridge'[p], new[k]), SavedAnswer(toBridge'[q], new[l])
                   PROVE k < l
        OBVIOUS
      <4>1. p \in DOMAIN toBridge /\ new[k] # r /\ SavedAnswer(toBridge[p], new[k])
        <5>1. p # n
          <6>1. ASSUME p = n PROVE FALSE
            <7>1. q = n \/ q \in DOMAIN toBridge
              BY <1>12
            <7> QED
              BY <6>1, <7>1, <1>5
          <6> QED
            BY <6>1
        <5> QED
          BY <1>12, <5>1
      <4>2. k \in DOMAIN old
        BY <2>1, <4>1
      <4>3. CASE l = m
        BY <2>1, <4>2, <4>3
      <4>4. CASE l # m
        <5>1. l \in DOMAIN old /\ new[l] # r
          BY <2>1, <2>2, <4>4
        <5>2. q \in DOMAIN toBridge /\ SavedAnswer(toBridge[q], new[l])
          BY <1>12, <5>1
        <5> QED
          BY <2>1, <4>1, <4>2, <5>1, <5>2 DEF BridgeInv, SavesInOrder, old
      <4> QED
        BY <4>3, <4>4
    <3>8. \A k, l \in DOMAIN new :
            delivering = new[k] /\ tasks[new[l]].at # "done" /\ l # k => k < l
      <4> SUFFICES ASSUME NEW k \in DOMAIN new, NEW l \in DOMAIN new,
                          delivering = new[k], tasks[new[l]].at # "done", l # k
                   PROVE k < l
        OBVIOUS
      <4>1. k \in DOMAIN old
        BY <2>1, <1>3
      <4>2. CASE l = m
        BY <2>1, <4>1, <4>2
      <4>3. CASE l \in DOMAIN old
        BY <2>1, <4>1, <4>3 DEF BridgeInv, SavesInOrder, old
      <4> QED
        BY <2>1, <4>2, <4>3
    <3>9. \A k \in KeptOf(old, tasks), l \in DOMAIN new : tasks[new[l]].at # "done" => k < l
      <4>1. \A k \in KeptOf(old, tasks), l \in DOMAIN old : tasks[new[l]].at # "done" => k < l
        BY <2>1 DEF BridgeInv, SavesInOrder, old
      <4> QED
        BY <2>1, <2>4, <4>1
    <3> QED
      BY <1>0, <1>11, <2>3, <3>1, <3>2, <3>3, <3>4, <3>5, <3>6, <3>7, <3>8, <3>9 DEF SavesInOrder, old, new
  <2> QED
    BY <2>5
<1>15. ResumesSucceed'
  <2>1. \A i \in DOMAIN toEngine' : toEngine'[i].what = "resume" => toEngine'[i].model = tasks[toEngine'[i].request].provider
    BY <1>2 DEF BridgeInv, ResumesSucceed
  <2>2. \A p \in DOMAIN toBridge' : toBridge'[p].what = "resume" => toBridge'[p].got = "ok"
    <3> SUFFICES ASSUME NEW p \in DOMAIN toBridge', toBridge'[p].what = "resume" PROVE toBridge'[p].got = "ok"
      OBVIOUS
    <3>1. CASE p = n
      BY <3>1, <1>5 DEF EngineTakes
    <3>2. CASE p \in DOMAIN toBridge
      BY <3>2, <1>5 DEF BridgeInv, ResumesSucceed
    <3> QED
      BY <1>6, <3>1, <3>2 DEF Calls
  <2> QED
    BY <1>0, <2>1, <2>2 DEF BridgeInv, ResumesSucceed
<1> QED
  <2>1. \/ engine'.saves = engine.saves /\ (c.what = "save" => got = "error")
        \/ Grown(engine.saves, engine'.saves, r) /\ c.what = "save" /\ got = "ok"
    BY DEF EngineTakes, r
  <2> QED
    BY <1>7, <1>8, <1>9, <1>10, <1>13, <1>14, <1>15, <2>1 DEF Ordering

\* The turn ends: who hears of it has the answer before.
LEMMA EngineCompletesKeeps ==
    ASSUME BridgeInv, engine.turn # NoTurn, engine'.turn = NoTurn, engine'.saves = engine.saves,
           Grown(toBridge, toBridge', Says(engine.turn, "completed", "ok")),
           UNCHANGED <<tasks, toEngine, delivering, selection, seen, lapses>>
    PROVE  Ordering'
<1> DEFINE n == Len(toBridge) + 1
<1>1. /\ \A p \in DOMAIN toBridge : p \in DOMAIN toBridge' /\ toBridge'[p] = toBridge[p]
      /\ \A p \in DOMAIN toBridge' : p \in DOMAIN toBridge \/ p = n
      /\ toBridge'[n].request = engine.turn /\ toBridge'[n].what = "completed"
  BY DEF Grown, Says
<1>2. \A p \in DOMAIN toBridge' : p \in DOMAIN toBridge
         \/ (p = n /\ toBridge'[p].what \notin Calls /\ \A q : ~SavedAnswer(toBridge'[p], q))
  BY <1>1 DEF Calls, SavedAnswer
<1>3. CallsInFlight'
  <2>1. \A p \in DOMAIN toBridge' : toBridge'[p].what \in Calls => p \in DOMAIN toBridge /\ toBridge'[p] = toBridge[p]
    BY <1>1, <1>2
  <2> QED
    BY <2>1 DEF BridgeInv, CallsInFlight
<1>4. ReaderWaits' /\ AnsweredOnce'
  BY DEF BridgeInv, ReaderWaits, AnsweredOnce
<1>5. TurnsAreTold'
  <2>1. ASSUME NEW q, NEW p, AnswerAt(toBridge, q, p) PROVE AnswerAt(toBridge', q, p)
    BY <2>1, <1>1 DEF AnswerAt
  <2>2. ASSUME NEW p \in DOMAIN toBridge', toBridge'[p].what \in {"started", "completed"}
        PROVE \/ tasks[toBridge'[p].request].at = "done" \/ delivering = toBridge'[p].request
              \/ AnswerAt(toBridge', toBridge'[p].request, p)
    <3>1. CASE p \in DOMAIN toBridge
      <4>1. \/ tasks[toBridge[p].request].at = "done" \/ delivering = toBridge[p].request
            \/ AnswerAt(toBridge, toBridge[p].request, p)
        BY <2>2, <3>1, <1>1 DEF BridgeInv, TurnsAreTold
      <4> QED
        BY <2>1, <3>1, <4>1, <1>1
    <3>2. CASE p = n
      <4>1. tasks[engine.turn].at = "done" \/ delivering = engine.turn \/ AnswerAt(toBridge, engine.turn, n)
        BY DEF BridgeInv, TurnsAreTold
      <4> HIDE DEF n
      <4> QED
        BY <2>1, <3>2, <4>1, <1>1
    <3> QED
      BY <3>1, <3>2, <1>1
  <2> QED
    BY <2>2 DEF TurnsAreTold
<1>6. SavesInOrder'
  <2>1. \A p \in DOMAIN toBridge' : \A q : SavedAnswer(toBridge'[p], q) => p \in DOMAIN toBridge /\ toBridge'[p] = toBridge[p]
    BY <1>1, <1>2
  <2>2. \A k \in DOMAIN engine.saves : tasks[engine.saves[k]].at # "done" =>
          delivering = engine.saves[k] \/ \E p \in DOMAIN toBridge' : SavedAnswer(toBridge'[p], engine.saves[k])
    BY <1>1 DEF BridgeInv, SavesInOrder
  <2>3. \A p, q \in DOMAIN toBridge' : \A k, l \in DOMAIN engine.saves :
          p < q /\ SavedAnswer(toBridge'[p], engine.saves[k]) /\ SavedAnswer(toBridge'[q], engine.saves[l]) => k < l
    BY <2>1 DEF BridgeInv, SavesInOrder
  <2>4. \A p \in DOMAIN toBridge' : SavedAnswer(toBridge'[p], toBridge'[p].request) =>
          \E k \in DOMAIN engine.saves : engine.saves[k] = toBridge'[p].request
    BY <2>1 DEF BridgeInv, SavesInOrder
  <2> QED
    BY <2>2, <2>3, <2>4 DEF BridgeInv, SavesInOrder
<1>8. ResumesSucceed'
  <2>1. \A p \in DOMAIN toBridge' : toBridge'[p].what = "resume" => p \in DOMAIN toBridge /\ toBridge'[p] = toBridge[p]
    BY <1>1, <1>2 DEF Calls
  <2> QED
    BY <2>1 DEF BridgeInv, ResumesSucceed
<1> QED
  BY <1>3, <1>4, <1>5, <1>6, <1>8 DEF Ordering


-----------------------------------------------------------------------------
(* The provider of the record and that of the engine.                      *)

LEMMA ProvidersStay ==
    ASSUME BridgeInv, BridgeTyped', lapses \subseteq lapses',
           \A q \in BridgeRequests :
              \/ /\ tasks'[q].kind = tasks[q].kind /\ tasks'[q].at = tasks[q].at /\ tasks'[q].record = tasks[q].record
                 /\ tasks'[q].provider = tasks[q].provider
                 /\ tasks'[q].at = "resume" /\ tasks'[q].got # "none" => tasks[q].got # "none" \/ AwaitsResume(toBridge, q)
              \/ tasks'[q].at \in {"done", "save"} /\ tasks[q].at # "resume",
           \A q \in BridgeRequests : AwaitsResume(toBridge', q) => AwaitsResume(toBridge, q),
           engine'.provider = engine.provider, Len(records') = Len(records),
           records'[Len(records)].provider = records[Len(records)].provider
    PROVE  ProvidersAgree'
<1> SUFFICES ASSUME OneAtATime' PROVE OneTurn' /\ RecordFits' /\ \A r \in BridgeRequests : TaskFits(r)'
  BY DEF ProvidersAgree
<1>1. OneTurn /\ RecordFits /\ \A r \in BridgeRequests : TaskFits(r)
  BY DEF OneAtATime, BridgeInv, ProvidersAgree
<1>2. \A q \in BridgeRequests : tasks'[q].at = "save" => tasks'[q].kind \in {"save", "effort"}
  BY DEF BridgeTyped, TaskIsOf
<1>3. OneTurn'
  <2>1. \A q \in BridgeRequests : tasks'[q].kind = "turn" /\ tasks'[q].at # "done"
            => tasks[q].kind = "turn" /\ tasks[q].at # "done"
    BY <1>2
  <2> QED
    BY <1>1, <2>1 DEF OneTurn
<1>4. RecordFits'
  <2>1. \A q \in BridgeRequests : tasks[q].at = "resume" => tasks'[q].at = "resume"
    OBVIOUS
  <2> QED
    BY <1>1, <2>1 DEF RecordFits
<1>5. ASSUME NEW q \in BridgeRequests PROVE TaskFits(q)'
  <2>1. CASE tasks'[q].at \in {"done", "save"}
    BY <2>1 DEF TaskFits
  <2>2. CASE tasks'[q].at \notin {"done", "save"}
    <3>1. /\ tasks'[q].at = tasks[q].at /\ tasks'[q].record = tasks[q].record /\ tasks'[q].provider = tasks[q].provider
          /\ tasks'[q].at = "resume" /\ tasks'[q].got # "none" => tasks[q].got # "none" \/ AwaitsResume(toBridge, q)
      BY <2>2
    <3> QED
      BY <1>1, <3>1 DEF TaskFits
  <2> QED
    BY <2>1, <2>2
<1> QED
  BY <1>3, <1>4, <1>5

\* Once a call is given up nothing is said of them.
LEMMA ProvidersLapse == ASSUME lapses' # {} PROVE ProvidersAgree'
BY DEF ProvidersAgree, OneAtATime

\* With one turn at a time, the others are not on their way to a provider.
LEMMA TurnIsAlone ==
    ASSUME BridgeInv, OneAtATime, NEW r \in BridgeRequests, tasks[r].kind = "turn", tasks[r].at # "done",
           NEW q \in BridgeRequests, q # r
    PROVE  tasks[q].at \notin {"lock", "unsubscribe", "resume", "turn"} /\ ~(tasks[q].kind = "turn" /\ tasks[q].at # "done")
<1>1. ~(tasks[q].kind = "turn" /\ tasks[q].at # "done")
  BY DEF BridgeInv, ProvidersAgree, OneTurn
<1> QED
  BY <1>1 DEF BridgeInv, BridgeTyped, TaskIsOf

\* The next call of the turn: to begin it, or to move it to the provider of its model.
LEMMA ProvidersOfTheTurn ==
    ASSUME BridgeInv, NEW r \in BridgeRequests, NEW t \in TaskStates, Moved(r, t),
           tasks[r].kind = "turn", tasks[r].at # "done", t.kind = "turn", t.got = "none", lapses \subseteq lapses',
           toBridge' = toBridge, engine' = engine, Quiet(r),
           OneAtATime =>
              /\ t.at \in {"lock", "unsubscribe"} => t.record = Len(records') /\ tasks[r].at # "resume"
                                                       /\ records'[Len(records')].provider = records[Len(records)].provider
              /\ t.at = "turn" => /\ t.provider = records'[Len(records')].provider
                                  /\ engine.provider = records'[Len(records')].provider
    PROVE  t.at \in {"lock", "unsubscribe", "resume", "turn"} => ProvidersAgree'
<1> SUFFICES ASSUME OneAtATime', t.at \in {"lock", "unsubscribe", "resume", "turn"}
             PROVE OneTurn' /\ RecordFits' /\ \A q \in BridgeRequests : TaskFits(q)'
  BY DEF ProvidersAgree
<1>1. OneAtATime
  BY DEF OneAtATime
<1>2. OneTurn /\ RecordFits /\ \A q \in BridgeRequests : TaskFits(q)
  BY <1>1 DEF BridgeInv, ProvidersAgree
<1>3. \A q \in BridgeRequests : q # r =>
         tasks'[q].at \notin {"lock", "unsubscribe", "resume", "turn"} /\ ~(tasks'[q].kind = "turn" /\ tasks'[q].at # "done")
         /\ tasks[q].at # "resume"
  BY <1>1, TurnIsAlone DEF Moved
<1>4. tasks'[r] = t
  BY DEF Moved
<1>5. OneTurn'
  BY <1>3 DEF OneTurn
<1>6. RecordFits'
  BY <1>1, <1>2, <1>3, <1>4 DEF RecordFits
<1>7. ~AwaitsResume(toBridge, r)
  BY DEF Quiet, AwaitsResume, Calls
<1>8. \A q \in BridgeRequests : TaskFits(q)'
  <2>1. TaskFits(r)'
    BY <1>1, <1>4, <1>7 DEF TaskFits
  <2>2. ASSUME NEW q \in BridgeRequests, q # r PROVE TaskFits(q)'
    BY <2>2, <1>3 DEF TaskFits
  <2> QED
    BY <2>1, <2>2
<1> QED
  BY <1>5, <1>6, <1>8

-----------------------------------------------------------------------------
(* The types.                                                              *)

LEMMA MovedTyped ==
    ASSUME BridgeTyped, NEW r \in BridgeRequests,
           NEW t \in TaskStates, Moved(r, t), Len(records') \in Nat, Len(records') >= Len(records),
           TaskIsOf(t, Len(records'))
    PROVE  tasks' \in [BridgeRequests -> TaskStates] /\ \A q \in BridgeRequests : TaskIsOf(tasks'[q], Len(records'))
<1>1. ASSUME NEW q \in BridgeRequests, q # r PROVE TaskIsOf(tasks'[q], Len(records'))
  <2>1. TaskIsOf(tasks[q], Len(records)) /\ tasks'[q] = tasks[q] /\ tasks[q] \in TaskStates /\ Len(records) \in Nat
    BY <1>1 DEF BridgeTyped, Moved
  <2>2. tasks[q].record \in Nat
    BY <2>1 DEF TaskStates
  <2>3. tasks[q].record \in 1 .. Len(records) => tasks[q].record \in 1 .. Len(records')
    BY <2>1, <2>2
  <2> QED
    BY <2>1, <2>3 DEF TaskIsOf
<1> QED
  BY <1>1 DEF Moved

\* Records of the same providers.
RecordsLike(rs) ==
    rs \in Seq(ChatRecords) /\ Len(rs) = Len(records) /\ \A i \in 1 .. Len(records) : rs[i].provider = records[i].provider
LEMMA RecordsAre ==
    ASSUME BridgeTyped
    PROVE  /\ Len(records) \in 1 .. Len(records) /\ Len(records) \in Nat /\ DOMAIN records = 1 .. Len(records)
           /\ \A i \in 1 .. Len(records) : records[i] \in ChatRecords
           /\ \A i \in 1 .. Len(records) : records[i].provider \in {"native", "local"}
<1>1. records \in Seq(ChatRecords) /\ Len(records) \in Nat \ {0}
  BY DEF BridgeTyped
<1>2. DOMAIN records = 1 .. Len(records) /\ \A i \in 1 .. Len(records) : records[i] \in ChatRecords
  BY <1>1, LenProperties, ElementOfSeq
<1> QED
  BY <1>1, <1>2 DEF ChatRecords
LEMMA LikeIs ==
    ASSUME BridgeTyped, NEW rs, rs \in [1 .. Len(records) -> ChatRecords], \A i \in 1 .. Len(records) : rs[i].provider = records[i].provider
    PROVE  RecordsLike(rs)
<1>1. Len(records) \in Nat
  BY RecordsAre
<1>2. rs \in Seq(ChatRecords)
  BY <1>1, SeqDef
<1>3. Len(rs) = Len(records)
  BY <1>1, <1>2, LenProperties
<1> QED
  BY <1>2, <1>3 DEF RecordsLike
LEMMA BusyIsLike ==
    ASSUME BridgeTyped, NEW i \in 1 .. Len(records), NEW b \in BOOLEAN, NEW rs, rs = [records EXCEPT ![i].busy = b]
    PROVE  RecordsLike(rs)
<1>1. records[i] \in ChatRecords /\ DOMAIN records = 1 .. Len(records) /\ \A j \in 1 .. Len(records) : records[j] \in ChatRecords
  BY RecordsAre
<1>2. [records[i] EXCEPT !.busy = b] \in ChatRecords /\ [records[i] EXCEPT !.busy = b].provider = records[i].provider
  BY <1>1 DEF ChatRecords
<1>3. /\ rs[i] = [records[i] EXCEPT !.busy = b] /\ DOMAIN rs = 1 .. Len(records) /\ rs = [j \in 1 .. Len(records) |-> rs[j]]
      /\ \A j \in 1 .. Len(records) : j # i => rs[j] = records[j]
  BY <1>1
<1> HIDE DEF RecordsLike
<1> QED
  BY <1>1, <1>2, <1>3, LikeIs
LEMMA LockedIsLike ==
    ASSUME BridgeTyped, NEW i \in 1 .. Len(records), NEW r \in BridgeRequests, NEW rs, rs = [records EXCEPT ![i].lock = r]
    PROVE  RecordsLike(rs)
<1>1. records[i] \in ChatRecords /\ DOMAIN records = 1 .. Len(records) /\ \A j \in 1 .. Len(records) : records[j] \in ChatRecords
  BY RecordsAre
<1>2. [records[i] EXCEPT !.lock = r] \in ChatRecords /\ [records[i] EXCEPT !.lock = r].provider = records[i].provider
  BY <1>1 DEF ChatRecords
<1>3. /\ rs[i] = [records[i] EXCEPT !.lock = r] /\ DOMAIN rs = 1 .. Len(records) /\ rs = [j \in 1 .. Len(records) |-> rs[j]]
      /\ \A j \in 1 .. Len(records) : j # i => rs[j] = records[j]
  BY <1>1
<1> QED
  BY <1>1, <1>2, <1>3, LikeIs
LEMMA UnlockedIsLike ==
    ASSUME BridgeTyped, NEW r
    PROVE  RecordsLike(Unlocked(r))
<1> DEFINE rs == Unlocked(r)
<1>1. DOMAIN records = 1 .. Len(records) /\ \A j \in 1 .. Len(records) : records[j] \in ChatRecords
  BY RecordsAre
<1>2. \A j \in 1 .. Len(records) : rs[j] \in ChatRecords /\ rs[j].provider = records[j].provider
  BY <1>1 DEF Unlocked, ChatRecords
<1>3. rs \in [1 .. Len(records) -> ChatRecords]
  BY <1>1, <1>2 DEF Unlocked
<1> HIDE DEF rs
<1>4. RecordsLike(rs)
  BY <1>2, <1>3, LikeIs
<1> QED
  BY <1>4 DEF rs
LEMMA RememberedIsOneMore ==
    ASSUME BridgeTyped, NEW r \in BridgeRequests, NEW provider \in {"native", "local"}, NEW rs, rs = RememberedChat(r, provider)
    PROVE  rs \in Seq(ChatRecords) /\ Len(rs) = Len(records) + 1 /\ Len(rs) \in Nat /\ rs[Len(rs)].provider = provider
<1> DEFINE new == [provider |-> provider, busy |-> TRUE, lock |-> NoTurn]
<1>1. Unlocked(r) \in Seq(ChatRecords) /\ Len(Unlocked(r)) = Len(records) /\ Len(records) \in Nat
  BY UnlockedIsLike, RecordsAre DEF RecordsLike
<1>2. new \in ChatRecords /\ new.provider = provider
  BY DEF ChatRecords
<1>3. rs = Append(Unlocked(r), new)
  BY DEF RememberedChat
<1> HIDE DEF new
<1>4. rs \in Seq(ChatRecords) /\ Len(rs) = Len(records) + 1 /\ rs[Len(records) + 1] = new
  BY <1>1, <1>2, <1>3, AppendProperties
<1> QED
  BY <1>1, <1>2, <1>4

-----------------------------------------------------------------------------
(* The steps.                                                              *)

LEMMA PartsMakeInv == ASSUME BridgeTyped', Ordering', ProvidersAgree' PROVE BridgeInv'
BY DEF BridgeInv, Ordering

LEMMA NothingMoves ==
    ASSUME BridgeInv, UNCHANGED <<tasks, records, toEngine, toBridge, delivering, engine, selection, seen, lapses>>
    PROVE  BridgeInv'
<1>1. BridgeTyped' /\ CallsInFlight' /\ ReaderWaits' /\ TurnsAreTold' /\ AnsweredOnce'
  BY DEF BridgeInv, BridgeTyped, CallsInFlight, ReaderWaits, TurnsAreTold, AnsweredOnce
<1>2. SavesInOrder' /\ ResumesSucceed'
  BY DEF BridgeInv, SavesInOrder, ResumesSucceed
<1>3. ProvidersAgree'
  BY DEF BridgeInv, ProvidersAgree, OneAtATime, OneTurn, RecordFits, TaskFits
<1> QED
  BY <1>1, <1>2, <1>3 DEF BridgeInv

\* A task that has begun and waits for nothing yet.
LEMMA TaskBeginsKeeps ==
    ASSUME BridgeInv, NEW r \in BridgeRequests, NEW t \in TaskStates, Moved(r, t), tasks[r].at = "idle", t.at = "lock",
           UNCHANGED <<toEngine, toBridge, delivering, engine, selection, seen, lapses>>
    PROVE  Ordering'
<1>0. tasks'[r] = t /\ (\A q \in BridgeRequests : q # r => tasks'[q] = tasks[q])
  BY DEF Moved
<1>1. Queued
  BY QueuedIs DEF BridgeInv
<1>2. Quiet(r)
  BY QuietIs DEF Calls
<1>3. /\ \A i \in DOMAIN toEngine : tasks'[toEngine[i].request] = tasks[toEngine[i].request]
      /\ \A j \in DOMAIN toBridge : toBridge[j].what \in Calls => tasks'[toBridge[j].request] = tasks[toBridge[j].request]
      /\ \A q \in lapses : tasks'[q] = tasks[q]
      /\ \A q \in BridgeRequests : tasks'[q].at = "done" <=> tasks[q].at = "done"
      /\ \A q \in BridgeRequests : tasks'[q].at \in {"turn", "save", "resume"} \/ tasks[q].at \in {"turn", "save", "resume"}
             => tasks'[q] = tasks[q]
  BY <1>0, <1>1, <1>2 DEF Quiet, Queued, BridgeInv, BridgeTyped
<1>4. \A k \in DOMAIN engine.saves : tasks'[engine.saves[k]] = tasks[engine.saves[k]]
  <2>1. \A k \in DOMAIN engine.saves : tasks[engine.saves[k]].kind \in {"save", "effort"}
    BY DEF BridgeInv, SavesInOrder
  <2>2. tasks[r].kind \notin {"save", "effort"}
    BY DEF BridgeInv, BridgeTyped, TaskIsOf
  <2> QED
    BY <2>1, <2>2, <1>0, <1>1 DEF Queued
<1>5. CallsInFlight'
  BY <1>3 DEF BridgeInv, CallsInFlight
<1>6. ReaderWaits'
  <2>1. \A q \in BridgeRequests : (tasks'[q].at \in {"turn", "save"} /\ tasks'[q].got # "none")
            <=> (tasks[q].at \in {"turn", "save"} /\ tasks[q].got # "none")
    BY <1>3
  <2> QED
    BY <2>1 DEF BridgeInv, ReaderWaits
<1>7. TurnsAreTold'
  <2>1. engine.turn # NoTurn => engine.turn \in BridgeRequests
    BY DEF BridgeInv, BridgeTyped
  <2> QED
    BY <1>1, <1>3, <2>1 DEF BridgeInv, TurnsAreTold, Queued
<1>8. AnsweredOnce'
  BY <1>1, <1>3 DEF BridgeInv, AnsweredOnce, Queued
<1>9. KeptOf(engine.saves, tasks') = KeptOf(engine.saves, tasks)
  BY <1>4 DEF KeptOf
<1>10. SavesInOrder'
  <2>1. \A q \in BridgeRequests : tasks'[q].at = "save" /\ tasks'[q].got = "ok"
            => \E k \in DOMAIN engine.saves : engine.saves[k] = q
    BY <1>3 DEF BridgeInv, SavesInOrder
  <2> QED
    BY <1>3, <1>4, <1>9, <2>1 DEF BridgeInv, SavesInOrder
<1>12. ResumesSucceed'
  BY <1>3 DEF BridgeInv, ResumesSucceed
<1> QED
  BY <1>5, <1>6, <1>7, <1>8, <1>10, <1>12 DEF Ordering

\* What an idle task is.
LEMMA IdleIs ==
    ASSUME NEW r, tasks[r] = Idle
    PROVE  tasks[r].at = "idle" /\ tasks[r].kind = "none" /\ tasks[r].model = "none" /\ tasks[r].provider = "none"
        /\ tasks[r].got = "none"
BY DEF Idle, Task

\* No turn is open when the app may ask for one more of one.
LEMMA NoneIsOpen ==
    ASSUME Cardinality(Unanswered("turn")) < 1
    PROVE  \A q \in BridgeRequests : ~(tasks[q].kind = "turn" /\ tasks[q].at \notin {"idle", "done"})
<1>1. IsFiniteSet(Unanswered("turn"))
  BY BridgeAssumption, FS_Subset DEF Unanswered
<1>2. Unanswered("turn") = {}
  BY <1>1, FS_CardinalityType, FS_EmptySet
<1> QED
  BY <1>2 DEF Unanswered

LEMMA TurnArrivesKeeps ==
    ASSUME BridgeInv, NEW r \in BridgeRequests, NEW model \in {"native", "local", "same"}, TurnArrives(r, model)
    PROVE  BridgeInv'
<1> DEFINE t == Task("lock", "turn", model, Current, "none")
<1>1. /\ t.at = "lock" /\ t.kind = "turn" /\ t.model = model /\ t.record = Len(records) /\ t.provider = "none" /\ t.got = "none"
      /\ t \in TaskStates
  <2>1. Len(records) \in Nat
    BY DEF BridgeInv, BridgeTyped
  <2> QED
    BY <2>1, TaskParts DEF Current, Calls
<1>2. tasks' = [tasks EXCEPT ![r] = t] /\ tasks[r] = Idle /\ Cardinality(Unanswered("turn")) < MaxTurnsAtOnce
      /\ UNCHANGED <<records, toEngine, toBridge, delivering, engine, selection, seen, lapses>>
  BY DEF TurnArrives
<1> HIDE DEF t
<1>3. Moved(r, t) /\ tasks[r].at = "idle" /\ tasks[r].kind = "none"
  BY <1>1, <1>2, MovedIs, IdleIs DEF BridgeInv
<1>4. Ordering'
  BY <1>1, <1>2, <1>3, TaskBeginsKeeps
<1>5. BridgeTyped'
  <2>1. Len(records) \in 1 .. Len(records) /\ Len(records) \in Nat
    BY RecordsAre DEF BridgeInv
  <2>2. TaskIsOf(t, Len(records'))
    BY <1>1, <1>2, <2>1 DEF TaskIsOf
  <2>3. Len(records') \in Nat /\ Len(records') >= Len(records)
    BY <1>2, <2>1
  <2>4. tasks' \in [BridgeRequests -> TaskStates] /\ \A q \in BridgeRequests : TaskIsOf(tasks'[q], Len(records'))
    BY <1>1, <1>3, <2>2, <2>3, MovedTyped DEF BridgeInv
  <2> QED
    BY <1>2, <2>4 DEF BridgeInv, BridgeTyped
<1>6. ProvidersAgree'
  <2> SUFFICES ASSUME OneAtATime' PROVE OneTurn' /\ RecordFits' /\ \A q \in BridgeRequests : TaskFits(q)'
    BY DEF ProvidersAgree
  <2>1. OneTurn /\ RecordFits /\ \A q \in BridgeRequests : TaskFits(q)
    BY <1>2 DEF BridgeInv, ProvidersAgree, OneAtATime
  <2>2. \A q \in BridgeRequests : ~(tasks[q].kind = "turn" /\ tasks[q].at \notin {"idle", "done"})
    BY <1>2, NoneIsOpen DEF OneAtATime
  <2>3. \A q \in BridgeRequests : /\ ~(tasks[q].kind = "turn" /\ tasks[q].at # "done")
                                  /\ tasks[q].at \notin {"lock", "unsubscribe", "resume", "turn"}
    BY <2>2 DEF BridgeInv, BridgeTyped, TaskIsOf
  <2>4. \A q \in BridgeRequests : q # r => tasks'[q] = tasks[q]
    BY <1>3 DEF Moved
  <2>5. tasks'[r] = t
    BY <1>3 DEF Moved
  <2>6. OneTurn' /\ RecordFits'
    BY <1>1, <1>2, <2>1, <2>3, <2>4, <2>5 DEF OneTurn, RecordFits
  <2>7. ASSUME NEW q \in BridgeRequests PROVE TaskFits(q)'
    <3>1. CASE q = r
      BY <3>1, <1>1, <1>2, <2>5 DEF TaskFits
    <3>2. CASE q # r
      BY <3>2, <2>3, <2>4 DEF TaskFits
    <3> QED
      BY <3>1, <3>2
  <2> QED
    BY <2>6, <2>7
<1> QED
  BY <1>4, <1>5, <1>6, PartsMakeInv

\* The records may have changed: what the types ask then.
LEMMA TypesStay ==
    ASSUME BridgeInv, NEW r \in BridgeRequests,
           NEW t \in TaskStates, Moved(r, t), RecordsLike(records'), TaskIsOf(t, Len(records)),
           toEngine' \in Seq(EngineCalls), seen' \in Seq(AppMessages), delivering' \in BridgeRequests \cup {NoTurn},
           selection' \in Selections, lapses' \subseteq BridgeRequests, UNCHANGED <<toBridge, engine>>
    PROVE  BridgeTyped'
<1>1. records' \in Seq(ChatRecords) /\ Len(records') = Len(records) /\ Len(records) \in Nat \ {0}
  BY DEF RecordsLike, BridgeInv, BridgeTyped
<1>2. Len(records') \in Nat /\ Len(records') >= Len(records) /\ TaskIsOf(t, Len(records'))
  BY <1>1
<1>3. tasks' \in [BridgeRequests -> TaskStates] /\ \A q \in BridgeRequests : TaskIsOf(tasks'[q], Len(records'))
  BY <1>2, MovedTyped DEF BridgeInv
<1> QED
  BY <1>1, <1>3 DEF BridgeInv, BridgeTyped

LEMMA SameIsLike == ASSUME BridgeTyped PROVE RecordsLike(records)
BY DEF RecordsLike, BridgeTyped

\* The queues with one more.
LEMMA CallIsQueued ==
    ASSUME BridgeTyped, NEW r \in BridgeRequests, NEW what \in Calls, NEW model \in {"native", "local"},
           toEngine' = Append(toEngine, Call(r, what, model))
    PROVE  toEngine' \in Seq(EngineCalls) /\ Grown(toEngine, toEngine', Call(r, what, model))
<1>1. Call(r, what, model) \in EngineCalls
  BY DEF Call, EngineCalls
<1> QED
  BY <1>1, GrownIs DEF BridgeTyped
LEMMA AnswerIsQueued ==
    ASSUME BridgeTyped, NEW r \in BridgeRequests, NEW how \in Answers \cup {"started", "completed"}, Answer(r, how)
    PROVE  seen' \in Seq(AppMessages) /\ Grown(seen, seen', [request |-> r, what |-> how])
<1>1. [request |-> r, what |-> how] \in AppMessages
  BY DEF AppMessages
<1> QED
  BY <1>1, GrownIs DEF BridgeTyped, Answer

\* A write to the settings: it goes to the engine, or is refused.
LEMMA SaveArrivesKeeps ==
    ASSUME BridgeInv, NEW r \in BridgeRequests, NEW named \in {"native", "local", "effort"}, SaveArrives(r, named)
    PROVE  BridgeInv'
<1> DEFINE kind == IF named = "effort" THEN "effort" ELSE "save"
           model == IF named = "effort" THEN selection.model ELSE named
<1>0. kind \in {"save", "effort"} /\ model \in {"native", "local"}
  BY DEF BridgeInv, BridgeTyped, Selections
<1>1. /\ tasks[r] = Idle /\ tasks[r].at = "idle" /\ tasks[r].kind = "none" /\ tasks[r].provider = "none" /\ tasks[r].got = "none"
      /\ UNCHANGED <<records, toBridge, delivering, engine, selection, lapses>> /\ BridgeTyped
  BY IdleIs DEF SaveArrives, BridgeInv
<1>2. Quiet(r)
  BY <1>1, QuietIs DEF Calls
<1>3. RecordsLike(records')
  BY <1>1, SameIsLike
<1>4. \A q \in BridgeRequests : AwaitsResume(toBridge', q) => AwaitsResume(toBridge, q)
  BY <1>1
<1>5. \A k \in DOMAIN engine.saves : engine.saves[k] # r
  BY <1>1 DEF BridgeInv, SavesInOrder
<1>6. ASSUME NEW t \in TaskStates, Moved(r, t), t.at \in {"save", "done"}, BridgeTyped' PROVE ProvidersAgree'
  <2>1. \A q \in BridgeRequests : tasks'[q] = tasks[q] \/ (tasks'[q].at \in {"done", "save"} /\ tasks[q].at # "resume")
    BY <1>1, <1>6 DEF Moved
  <2> QED
    BY <1>1, <1>4, <1>6, <2>1, ProvidersStay
<1> HIDE DEF kind, model
<1>7. ASSUME NEW provider \in {"kept", "none"}, tasks' = [tasks EXCEPT ![r] = Task("save", kind, model, 0, provider)],
             toEngine' = Append(toEngine, Call(r, "save", model)), seen' = seen
      PROVE  BridgeInv'
  <2> DEFINE t == Task("save", kind, model, 0, provider)
  <2>1. t.at = "save" /\ t.kind = kind /\ t.model = model /\ t.record = 0 /\ t.provider = provider /\ t.got = "none"
            /\ t \in TaskStates
    BY <1>0, TaskParts DEF Calls
  <2>2. tasks' = [tasks EXCEPT ![r] = t]
    BY <1>7
  <2> HIDE DEF t
  <2>3. Moved(r, t)
    BY <1>1, <2>1, <2>2, MovedIs
  <2>4. toEngine' \in Seq(EngineCalls) /\ Grown(toEngine, toEngine', Call(r, "save", model))
    BY <1>0, <1>1, <1>7, CallIsQueued DEF Calls
  <2>5. CallGoesOut(r, t, model)
    BY <1>0, <1>1, <1>5, <1>7, <2>1, <2>3, <2>4 DEF CallGoesOut, Calls
  <2>6. Ordering'
    BY <1>0, <1>1, <1>2, <2>1, <2>5, CallGoesOutKeeps
  <2>7. TaskIsOf(t, Len(records))
    BY <1>0, <2>1 DEF TaskIsOf
  <2>8. BridgeTyped'
    BY <1>1, <1>3, <1>7, <2>1, <2>3, <2>4, <2>7, TypesStay DEF BridgeInv, BridgeTyped
  <2> QED
    BY <1>6, <2>1, <2>3, <2>6, <2>8, PartsMakeInv
<1>8. ASSUME tasks' = [tasks EXCEPT ![r] = Task("done", kind, model, 0, "none")], Answer(r, "refused"), toEngine' = toEngine
      PROVE  BridgeInv'
  <2> DEFINE t == Task("done", kind, model, 0, "none")
  <2>1. t.at = "done" /\ t.kind = kind /\ t.model = model /\ t.record = 0 /\ t.provider = "none" /\ t.got = "none"
            /\ t \in TaskStates
    BY <1>0, TaskParts
  <2>2. tasks' = [tasks EXCEPT ![r] = t]
    BY <1>8
  <2> HIDE DEF t
  <2>3. Moved(r, t)
    BY <1>1, <2>1, <2>2, MovedIs
  <2>4. seen' \in Seq(AppMessages) /\ Grown(seen, seen', [request |-> r, what |-> "refused"])
    BY <1>1, <1>8, AnswerIsQueued DEF Answers
  <2>5. delivering # r
    BY <1>1 DEF BridgeInv, ReaderWaits
  <2>6. AnswerGoesOut(r, t, "refused")
    BY <1>0, <1>1, <1>2, <1>8, <2>1, <2>3, <2>4, <2>5 DEF AnswerGoesOut, Answers
  <2>7. Ordering'
    BY <1>1, <2>1, <2>6, AnswerGoesOutKeeps
  <2>8. TaskIsOf(t, Len(records))
    BY <1>0, <2>1 DEF TaskIsOf
  <2>9. BridgeTyped'
    BY <1>1, <1>3, <1>8, <2>1, <2>3, <2>4, <2>8, TypesStay DEF BridgeInv, BridgeTyped
  <2> QED
    BY <1>6, <2>1, <2>3, <2>7, <2>9, PartsMakeInv
<1> QED
  BY <1>7, <1>8 DEF SaveArrives, kind, model

\* A turn sends its next call, in the records it may have changed.
TurnSends(r, what, provider) ==
    /\ tasks[r].kind = "turn" /\ tasks[r].at \in {"lock", "unsubscribe", "resume"}
    /\ what \in {"unsubscribe", "resume", "turn"} /\ provider \in {"native", "local"}
    /\ Quiet(r) /\ Sends(r, what, provider) /\ UNCHANGED <<seen, toBridge, delivering, engine, selection, lapses>>
LEMMA TurnSendsKeeps ==
    ASSUME BridgeInv, NEW r \in BridgeRequests, NEW what, NEW provider, TurnSends(r, what, provider),
           records' \in Seq(ChatRecords), Len(records') \in Nat, Len(records') >= Len(records),
           OneAtATime =>
              /\ what = "unsubscribe" => tasks[r].record = Len(records') /\ tasks[r].at # "resume"
                                           /\ records'[Len(records')].provider = records[Len(records)].provider
              /\ what = "turn" => /\ provider = records'[Len(records')].provider
                                  /\ engine.provider = records'[Len(records')].provider
    PROVE  BridgeInv'
<1> DEFINE t == Calling(tasks[r], what, provider)
<1>1. /\ tasks[r].kind = "turn" /\ tasks[r].at \in {"lock", "unsubscribe", "resume"} /\ tasks[r].at # "done"
      /\ what \in {"unsubscribe", "resume", "turn"} /\ what \in Calls /\ provider \in {"native", "local"} /\ provider # "kept"
      /\ Quiet(r) /\ toEngine' = Append(toEngine, Call(r, what, provider)) /\ tasks' = [tasks EXCEPT ![r] = t]
      /\ UNCHANGED <<seen, toBridge, delivering, engine, selection, lapses>> /\ BridgeTyped
  BY DEF TurnSends, Sends, Calls, BridgeInv
<1>2. /\ t.at = what /\ t.kind = "turn" /\ t.record = tasks[r].record /\ t.provider = provider /\ t.got = "none"
             /\ t \in TaskStates
      /\ t.model = tasks[r].model
  <2>1. tasks[r] \in TaskStates
    BY <1>1 DEF BridgeTyped
  <2> QED
    BY <1>1, <2>1, CallingParts
<1> HIDE DEF t
<1>3. Moved(r, t)
  BY <1>1, <1>2, MovedIs
<1>4. toEngine' \in Seq(EngineCalls) /\ Grown(toEngine, toEngine', Call(r, what, provider))
  BY <1>1, CallIsQueued
<1>5. CallGoesOut(r, t, provider)
  BY <1>1, <1>2, <1>3, <1>4 DEF CallGoesOut
<1>6. Ordering'
  BY <1>1, <1>2, <1>5, CallGoesOutKeeps
<1>7. BridgeTyped'
  <2>1. tasks[r].record \in 1 .. Len(records) /\ Len(records) \in Nat
    BY <1>1, RecordsAre DEF BridgeTyped, TaskIsOf
  <2>2. tasks[r].record \in 1 .. Len(records') /\ Len(records') # 0
    BY <2>1
  <2>3. TaskIsOf(t, Len(records'))
    <3>1. tasks[r].model # "none"
      BY <1>1 DEF BridgeTyped, TaskIsOf
    <3> QED
      BY <1>1, <1>2, <2>2, <3>1 DEF TaskIsOf
  <2>4. tasks' \in [BridgeRequests -> TaskStates] /\ \A q \in BridgeRequests : TaskIsOf(tasks'[q], Len(records'))
    BY <1>1, <1>2, <1>3, <2>3, MovedTyped
  <2> QED
    BY <1>1, <1>4, <2>2, <2>4 DEF BridgeTyped
<1>8. ProvidersAgree'
  <2>1. OneAtATime =>
              /\ t.at \in {"lock", "unsubscribe"} => t.record = Len(records') /\ tasks[r].at # "resume"
                                                       /\ records'[Len(records')].provider = records[Len(records)].provider
              /\ t.at = "turn" => /\ t.provider = records'[Len(records')].provider
                                  /\ engine.provider = records'[Len(records')].provider
    BY <1>1, <1>2
  <2>2. t.at \in {"lock", "unsubscribe", "resume", "turn"} /\ lapses \subseteq lapses'
    BY <1>1, <1>2
  <2> QED
    BY <1>1, <1>2, <1>3, <2>1, <2>2, ProvidersOfTheTurn
<1> QED
  BY <1>6, <1>7, <1>8, PartsMakeInv

\* A request ends with an answer that the bridge makes.
BridgeRefuses(r) ==
    /\ tasks[r].at \in {"lock", "unsubscribe", "resume", "turn", "save"}
    /\ tasks[r].at \in {"turn", "save"} => tasks[r].got = "none"
    /\ Answer(r, "refused") /\ CallEnds(r) /\ RecordsLike(records')
    /\ \/ lapses' = lapses \cup {r} /\ tasks[r].got = "none"
       \/ lapses' = lapses /\ Quiet(r) /\ tasks[r].at # "resume"
    /\ UNCHANGED <<toEngine, toBridge, delivering, engine, selection>>

\* The task of a request is done.
LEMMA EndsIs ==
    ASSUME BridgeTyped, NEW r \in BridgeRequests, CallEnds(r), NEW t, t = [tasks[r] EXCEPT !.at = "done"]
    PROVE  /\ t.at = "done" /\ t.kind = tasks[r].kind /\ t.model = tasks[r].model /\ t.record = tasks[r].record
           /\ t.provider = tasks[r].provider /\ t.got = tasks[r].got /\ t \in TaskStates
           /\ Moved(r, t)
           /\ tasks[r].kind # "none" => TaskIsOf(t, Len(records))
<1>1. tasks[r] \in TaskStates /\ TaskIsOf(tasks[r], Len(records))
  BY DEF BridgeTyped
<1>2. /\ t.at = "done" /\ t.kind = tasks[r].kind /\ t.model = tasks[r].model /\ t.record = tasks[r].record
      /\ t.provider = tasks[r].provider /\ t.got = tasks[r].got /\ t \in TaskStates
  BY <1>1, EndedParts
<1>3. tasks' = [tasks EXCEPT ![r] = t]
  BY DEF CallEnds
<1>4. Moved(r, t)
  BY <1>2, <1>3, MovedIs
<1>5. tasks[r].kind # "none" => TaskIsOf(t, Len(records))
  BY <1>1, <1>2 DEF TaskIsOf
<1> QED
  BY <1>2, <1>4, <1>5

LEMMA BridgeRefusesKeeps ==
    ASSUME BridgeInv, NEW r \in BridgeRequests, BridgeRefuses(r)
    PROVE  BridgeInv'
<1> DEFINE t == [tasks[r] EXCEPT !.at = "done"]
<1>1. /\ tasks[r].at \in {"lock", "unsubscribe", "resume", "turn", "save"} /\ tasks[r].at # "done" /\ CallEnds(r)
             /\ RecordsLike(records')
      /\ \/ lapses' = lapses \cup {r} /\ tasks[r].got = "none"
         \/ lapses' = lapses /\ Quiet(r) /\ tasks[r].at # "resume"
      /\ UNCHANGED <<toEngine, toBridge, delivering, engine, selection>> /\ BridgeTyped
  BY DEF BridgeRefuses, BridgeInv
<1>2. tasks[r].kind # "none"
  BY <1>1 DEF BridgeTyped, TaskIsOf
<1>3. /\ t.at = "done" /\ t.kind = tasks[r].kind /\ t.model = tasks[r].model /\ t.record = tasks[r].record
      /\ t.provider = tasks[r].provider /\ t.got = tasks[r].got /\ t \in TaskStates
      /\ Moved(r, t) /\ TaskIsOf(t, Len(records))
  BY <1>1, <1>2, EndsIs
<1> HIDE DEF t
<1>4. seen' \in Seq(AppMessages) /\ Grown(seen, seen', [request |-> r, what |-> "refused"])
  BY <1>1, AnswerIsQueued DEF BridgeRefuses, Answers
<1>5. delivering # r
  BY DEF BridgeInv, ReaderWaits, BridgeRefuses
<1>6. AnswerGoesOut(r, t, "refused")
  <2>1. ~(t.got = "ok" /\ t.provider = "kept")
    <3>1. CASE tasks[r].got = "none"
      BY <1>3, <3>1
    <3>2. CASE tasks[r].at \in {"lock", "unsubscribe", "resume"}
      BY <1>1, <1>3, <3>2 DEF BridgeTyped, TaskIsOf
    <3> QED
      BY <1>1, <3>1, <3>2 DEF BridgeRefuses
  <2> QED
    BY <1>1, <1>3, <1>4, <1>5, <2>1 DEF AnswerGoesOut, Answers
<1>7. Ordering'
  BY <1>1, <1>3, <1>6, AnswerGoesOutKeeps
<1>8. BridgeTyped'
  <2>1. lapses' \subseteq BridgeRequests
    BY <1>1 DEF BridgeTyped
  <2> QED
    BY <1>1, <1>3, <1>4, <2>1, TypesStay DEF BridgeTyped
<1>9. ProvidersAgree'
  <2>1. CASE lapses' = lapses \cup {r}
    BY <2>1, ProvidersLapse
  <2>2. CASE lapses' = lapses /\ tasks[r].at # "resume"
    <3>1. \A q \in BridgeRequests : tasks'[q] = tasks[q] \/ (tasks'[q].at \in {"done", "save"} /\ tasks[q].at # "resume")
      BY <1>3, <2>2 DEF Moved
    <3>2. \A q \in BridgeRequests : AwaitsResume(toBridge', q) => AwaitsResume(toBridge, q)
      BY <1>1
    <3>3. Len(records') = Len(records) /\ records'[Len(records)].provider = records[Len(records)].provider
      BY <1>1, RecordsAre DEF RecordsLike
    <3> QED
      BY <1>1, <1>8, <2>2, <3>1, <3>2, <3>3, ProvidersStay
  <2> QED
    BY <1>1, <2>1, <2>2
<1> QED
  BY <1>7, <1>8, <1>9, PartsMakeInv

LEMMA PrepareTurnKeeps ==
    ASSUME BridgeInv, NEW r \in BridgeRequests, PrepareTurn(r)
    PROVE  BridgeInv'
<1> DEFINE at == tasks[r].record
           record == records[at]
           wanted == Wanted(r, record)
<1>1. /\ tasks[r].at = "lock" /\ UNCHANGED <<toBridge, delivering, engine, selection, lapses>> /\ BridgeTyped
      /\ tasks[r].kind = "turn" /\ at \in 1 .. Len(records) /\ tasks[r].at # "done" /\ tasks[r].at \notin Calls
  BY DEF PrepareTurn, BridgeInv, BridgeTyped, TaskIsOf, Calls
<1>2. Quiet(r)
  BY <1>1, QuietIs
<1>3. OneAtATime => at = Len(records)
  BY <1>1 DEF BridgeInv, ProvidersAgree, TaskFits
<1>4. record.provider \in {"native", "local"} /\ Len(records) \in Nat
  BY <1>1, RecordsAre
<1>5. CASE records' = [records EXCEPT ![at].busy = TRUE] /\ wanted = record.provider /\ Sends(r, "turn", wanted) /\ seen' = seen
  <2>1. RecordsLike(records')
    BY <1>1, <1>5, BusyIsLike
  <2>2. records' \in Seq(ChatRecords) /\ Len(records') = Len(records) /\ records'[at].provider = record.provider
    BY <1>1, <2>1 DEF RecordsLike
  <2>3. OneAtATime => engine.provider = record.provider
    <3>1. OneAtATime => \A q \in BridgeRequests : tasks[q].at # "resume"
      BY <1>1, TurnIsAlone
    <3> QED
      BY <1>3, <3>1 DEF BridgeInv, ProvidersAgree, RecordFits
  <2>4. TurnSends(r, "turn", wanted)
    BY <1>1, <1>2, <1>4, <1>5 DEF TurnSends
  <2>5. OneAtATime => /\ wanted = records'[Len(records')].provider /\ engine.provider = records'[Len(records')].provider
    BY <1>3, <1>5, <2>2, <2>3
  <2>6. Len(records') \in Nat /\ Len(records') >= Len(records)
    BY <1>4, <2>2
  <2> HIDE DEF at, record, wanted
  <2> QED
    BY <2>2, <2>4, <2>5, <2>6, TurnSendsKeeps
<1>6. CASE Answer(r, "refused") /\ CallEnds(r) /\ UNCHANGED <<records, toEngine>>
  <2>1. BridgeRefuses(r)
    BY <1>1, <1>2, <1>6, SameIsLike DEF BridgeRefuses
  <2> QED
    BY <2>1, BridgeRefusesKeeps
<1>7. CASE records' = [records EXCEPT ![at].lock = r] /\ Sends(r, "unsubscribe", wanted) /\ seen' = seen
          /\ wanted # record.provider
  <2>1. RecordsLike(records')
    BY <1>1, <1>7, LockedIsLike
  <2>2. records' \in Seq(ChatRecords) /\ Len(records') = Len(records) /\ Len(records') >= Len(records) /\ Len(records') \in Nat
        /\ records'[Len(records)].provider = records[Len(records)].provider
    BY <1>1, <1>4, <2>1, RecordsAre DEF RecordsLike
  <2>3. tasks[r].model \in {"native", "local"}
    <3>1. tasks[r].model \in {"none", "native", "local", "same"}
      BY <1>1 DEF BridgeTyped, TaskStates
    <3>2. tasks[r].model # "none"
      BY <1>1 DEF BridgeTyped, TaskIsOf
    <3> QED
      BY <1>7, <3>1, <3>2 DEF Wanted
  <2>4. wanted \in {"native", "local"}
    BY <2>3 DEF Wanted
  <2>5. TurnSends(r, "unsubscribe", wanted)
    BY <1>1, <1>2, <1>7, <2>4 DEF TurnSends
  <2>6. OneAtATime => tasks[r].record = Len(records') /\ tasks[r].at # "resume"
    BY <1>1, <1>3, <2>2
  <2> HIDE DEF at, record, wanted
  <2> QED
    BY <2>2, <2>5, <2>6, TurnSendsKeeps
<1> QED
  BY <1>5, <1>6, <1>7 DEF PrepareTurn

LEMMA RebindKeeps ==
    ASSUME BridgeInv, NEW r \in BridgeRequests, Rebind(r)
    PROVE  BridgeInv'
<1> DEFINE provider == tasks[r].provider
<1>1. /\ tasks[r].at \in {"unsubscribe", "resume"} /\ tasks[r].got # "none"
             /\ UNCHANGED <<toBridge, delivering, engine, selection, lapses>>
      /\ tasks[r].kind = "turn" /\ provider \in {"native", "local"} /\ tasks[r].at # "done" /\ BridgeTyped
  BY DEF Rebind, BridgeInv, BridgeTyped, TaskIsOf
<1>2. Quiet(r)
  BY <1>1, QuietIs
<1>3. Len(records) \in Nat
  BY <1>1, RecordsAre
<1>4. CASE tasks[r].at = "unsubscribe" /\ Sends(r, "resume", provider) /\ UNCHANGED <<records, seen>>
  <2>1. TurnSends(r, "resume", provider)
    BY <1>1, <1>2, <1>4 DEF TurnSends
  <2>2. records' \in Seq(ChatRecords) /\ Len(records') \in Nat /\ Len(records') >= Len(records)
    BY <1>1, <1>3, <1>4 DEF BridgeTyped
  <2> HIDE DEF provider
  <2> QED
    BY <2>1, <2>2, TurnSendsKeeps
<1>5. CASE tasks[r].at = "resume" /\ records' = RememberedChat(r, provider) /\ Sends(r, "turn", provider) /\ seen' = seen
  <2>1. records' \in Seq(ChatRecords) /\ Len(records') = Len(records) + 1 /\ Len(records') \in Nat
            /\ records'[Len(records')].provider = provider
    BY <1>1, <1>5, RememberedIsOneMore
  <2>2. Len(records') >= Len(records)
    BY <1>3, <2>1
  <2>3. TurnSends(r, "turn", provider)
    BY <1>1, <1>2, <1>5 DEF TurnSends
  <2>4. OneAtATime => engine.provider = provider
    BY <1>1, <1>5 DEF BridgeInv, ProvidersAgree, TaskFits
  <2> HIDE DEF provider
  <2> QED
    BY <2>1, <2>2, <2>3, <2>4, TurnSendsKeeps
<1>6. CASE tasks[r].got # "ok" /\ records' = Unlocked(r) /\ Answer(r, "refused") /\ CallEnds(r) /\ toEngine' = toEngine
  <2>1. tasks[r].got = "error"
    <3>1. tasks[r].got \in {"none", "ok", "error"}
      BY <1>1 DEF BridgeTyped, TaskStates
    <3> QED
      BY <1>1, <1>6, <3>1
  <2>2. tasks[r].at # "resume"
    BY <2>1 DEF BridgeInv, ResumesSucceed
  <2>3. BridgeRefuses(r)
    BY <1>1, <1>2, <1>6, <2>2, UnlockedIsLike DEF BridgeRefuses
  <2> QED
    BY <2>3, BridgeRefusesKeeps
<1> QED
  BY <1>4, <1>5, <1>6 DEF Rebind

LEMMA TimesOutKeeps ==
    ASSUME BridgeInv, NEW r \in BridgeRequests, TimesOut(r)
    PROVE  BridgeInv'
<1>1. BridgeRefuses(r)
  BY UnlockedIsLike DEF TimesOut, BridgeRefuses, Calls, BridgeInv
<1> QED
  BY <1>1, BridgeRefusesKeeps

\* What a write makes of the selection.
LEMMA SelectedIs ==
    ASSUME selection \in Selections, NEW r \in BridgeRequests, tasks[r].model \in {"native", "local"}
    PROVE  LET filed == [Selected(r) EXCEPT !.filed = tasks[r].model]
           IN  /\ Selected(r) \in Selections /\ Selected(r).model = tasks[r].model
               /\ Selected(r).filed = selection.filed /\ Selected(r).crossed = selection.crossed \cup Crossed(r)
               /\ filed \in Selections /\ filed.model = tasks[r].model
               /\ filed.filed = tasks[r].model /\ filed.crossed = selection.crossed \cup Crossed(r)
BY DEF Selections, Selected, Crossed

LEMMA PassOnKeeps ==
    ASSUME BridgeInv, NEW r \in BridgeRequests, PassOn(r)
    PROVE  BridgeInv'
<1> DEFINE t == [tasks[r] EXCEPT !.at = "done"]
<1>0. PICK how \in {tasks[r].got, "refused"} :
         /\ Answer(r, how) /\ selection' \in {selection, Selected(r), [Selected(r) EXCEPT !.filed = tasks[r].model]}
         /\ how = "refused" => tasks[r].provider = "kept" /\ tasks[r].got = "ok"
         /\ selection' = selection \/ tasks[r].provider = "kept"
  <2>1. CASE /\ tasks[r].provider = "kept" /\ tasks[r].got = "ok"
             /\ selection' = [Selected(r) EXCEPT !.filed = tasks[r].model] /\ Answer(r, "ok")
    BY <2>1
  <2>2. CASE /\ tasks[r].provider = "kept" /\ tasks[r].got = "ok"
             /\ selection' = Selected(r) /\ Answer(r, "refused")
    BY <2>2
  <2>3. CASE Answer(r, tasks[r].got) /\ selection' = selection
    <3>1. tasks[r].got # "refused"
      BY DEF BridgeInv, BridgeTyped, TaskStates
    <3>2. tasks[r].got \in {tasks[r].got, "refused"}
      OBVIOUS
    <3> QED
      BY <2>3, <3>1, <3>2
  <2> QED
    BY <2>1, <2>2, <2>3 DEF PassOn
<1>1. /\ tasks[r].at \in {"turn", "save"} /\ tasks[r].at # "done" /\ tasks[r].got # "none" /\ CallEnds(r)
             /\ Delivered(r)
      /\ UNCHANGED <<toEngine, toBridge, engine, lapses>> /\ BridgeTyped
  BY DEF PassOn, BridgeInv
<1>2. tasks[r].kind # "none" /\ how \in {"ok", "error", "refused"} /\ (how = "ok" => tasks[r].got = "ok")
  <2>1. tasks[r].kind # "none" /\ tasks[r] \in TaskStates
    BY <1>1 DEF BridgeTyped, TaskIsOf
  <2>2. tasks[r].got \in {"none", "ok", "error"}
    BY <2>1 DEF TaskStates
  <2> QED
    BY <1>0, <1>1, <2>1, <2>2
<1>3. /\ t.at = "done" /\ t.kind = tasks[r].kind /\ t.model = tasks[r].model /\ t.record = tasks[r].record
      /\ t.provider = tasks[r].provider /\ t.got = tasks[r].got /\ t \in TaskStates
      /\ Moved(r, t) /\ TaskIsOf(t, Len(records))
  BY <1>1, <1>2, EndsIs
<1> HIDE DEF t
<1>4. seen' \in Seq(AppMessages) /\ Grown(seen, seen', [request |-> r, what |-> how])
  BY <1>0, <1>1, <1>2, AnswerIsQueued DEF Answers
<1>5. Quiet(r)
  BY <1>1, QuietIs
<1>6. RecordsLike(records')
  <2>1. CASE records' = [records EXCEPT ![Current].busy = FALSE]
    <3>1. Current \in 1 .. Len(records)
      BY <1>1, RecordsAre DEF Current
    <3> QED
      BY <1>1, <2>1, <3>1, BusyIsLike
  <2>2. CASE records' = records
    BY <1>1, <2>2, SameIsLike
  <2> QED
    BY <2>1, <2>2 DEF PassOn
<1>7. AnswerGoesOut(r, t, how)
  BY <1>1, <1>2, <1>3, <1>4, <1>5 DEF AnswerGoesOut, Answers, Delivered
<1>8. Ordering'
  BY <1>1, <1>3, <1>7, AnswerGoesOutKeeps
<1>9. BridgeTyped'
  <2>1. delivering' \in BridgeRequests \cup {NoTurn} /\ lapses' \subseteq BridgeRequests
    BY <1>1 DEF BridgeTyped, Delivered
  <2>2. selection' \in Selections
    <3>1. CASE tasks[r].provider = "kept"
      <4>1. tasks[r].kind \in {"save", "effort"}
        <5>1. tasks[r].kind \in {"none", "turn", "save", "effort"}
          BY <1>1 DEF BridgeTyped, TaskStates
        <5> QED
          BY <1>2, <3>1, <5>1, <1>1 DEF BridgeTyped, TaskIsOf
      <4>2. tasks[r].model \in {"native", "local"}
        BY <4>1, <1>1 DEF BridgeTyped, TaskIsOf
      <4> QED
        BY <1>0, <1>1, <4>2, SelectedIs DEF BridgeTyped
    <3>2. CASE tasks[r].provider # "kept"
      BY <1>0, <1>1, <3>2 DEF BridgeTyped
    <3> QED
      BY <3>1, <3>2
  <2> QED
    BY <1>1, <1>3, <1>4, <1>6, <2>1, <2>2, TypesStay DEF BridgeTyped
<1>10. ProvidersAgree'
  <2>1. \A q \in BridgeRequests : tasks'[q] = tasks[q] \/ (tasks'[q].at \in {"done", "save"} /\ tasks[q].at # "resume")
    BY <1>1, <1>3 DEF Moved
  <2>2. \A q \in BridgeRequests : AwaitsResume(toBridge', q) => AwaitsResume(toBridge, q)
    BY <1>1
  <2>3. Len(records') = Len(records) /\ records'[Len(records)].provider = records[Len(records)].provider
    BY <1>1, <1>6, RecordsAre DEF RecordsLike
  <2> QED
    BY <1>1, <1>9, <2>1, <2>2, <2>3, ProvidersStay
<1> QED
  BY <1>8, <1>9, <1>10, PartsMakeInv

LEMMA ReadNativeKeeps ==
    ASSUME BridgeInv, ReadNative
    PROVE  BridgeInv'
<1> DEFINE m == toBridge[1]
           r == m.request
<1>1. /\ toBridge # <<>> /\ delivering = NoTurn /\ toBridge' = Tail(toBridge) /\ BridgeTyped /\ toBridge \in Seq(EngineMessages)
      /\ UNCHANGED <<toEngine, engine, selection, lapses>>
  BY DEF ReadNative, BridgeInv, BridgeTyped
<1>2. /\ toBridge' \in Seq(EngineMessages) /\ Shrunk(toBridge, toBridge') /\ Head(toBridge) = m /\ m \in EngineMessages
  BY <1>1, ShrunkIs
<1>3. r \in BridgeRequests /\ m.what \in Calls \cup {"started", "completed"} /\ m.got \in {"ok", "error"}
  BY <1>2 DEF EngineMessages
<1>4. /\ 1 \in DOMAIN toBridge
      /\ \A p \in DOMAIN toBridge' : p \in Nat /\ p + 1 \in DOMAIN toBridge /\ p + 1 > 1 /\ toBridge'[p] = toBridge[p + 1]
  BY <1>1, <1>2, ReadsOne
<1>5. \A q \in BridgeRequests : AwaitsResume(toBridge', q) => AwaitsResume(toBridge, q)
  BY <1>4 DEF AwaitsResume
<1>6. m.what \in Calls => Waits(tasks[r], r \in lapses, m.what)
  BY <1>4 DEF BridgeInv, CallsInFlight
<1>7. tasks[r] \in TaskStates /\ TaskIsOf(tasks[r], Len(records))
  BY <1>1, <1>3 DEF BridgeTyped
<1>8. \/ /\ m.what \in Calls /\ Pending(r, m.what) /\ tasks' = [tasks EXCEPT ![r].got = m.got]
         /\ delivering' = IF Ordered(m.what) THEN r ELSE NoTurn
         /\ UNCHANGED <<records, seen>>
      \/ m.what \in Calls /\ ~Pending(r, m.what) /\ UNCHANGED <<tasks, delivering, records, seen>>
      \/ /\ m.what \in {"started", "completed"} /\ records' = [records EXCEPT ![Current].busy = (m.what = "started")]
         /\ Answer(r, m.what) /\ UNCHANGED <<tasks, delivering>>
  BY <1>2 DEF ReadNative
<1> HIDE DEF m, r
<1>9. CASE /\ m.what \in Calls /\ Pending(r, m.what) /\ tasks' = [tasks EXCEPT ![r].got = m.got]
           /\ delivering' = IF Ordered(m.what) THEN r ELSE NoTurn
           /\ UNCHANGED <<records, seen>>
  <2> DEFINE t == [tasks[r] EXCEPT !.got = m.got]
  <2>1. /\ t.at = tasks[r].at /\ t.kind = tasks[r].kind /\ t.model = tasks[r].model /\ t.record = tasks[r].record
        /\ t.provider = tasks[r].provider /\ t.got = m.got /\ t \in TaskStates
    BY <1>3, <1>7, GotParts
  <2>2. tasks' = [tasks EXCEPT ![r] = t]
    BY <1>9
  <2> HIDE DEF t
  <2>3. Moved(r, t)
    BY <1>1, <1>3, <2>1, <2>2, MovedIs
  <2>4. tasks[r].at = m.what /\ tasks[r].got = "none" /\ tasks[r].at # "done"
            /\ delivering' = IF m.what \in {"turn", "save"} THEN r ELSE NoTurn
    BY <1>9 DEF Pending, Ordered, Calls
  <2>5. Reads(r)
    BY <1>1, <1>2, <1>9, <2>1, <2>3, <2>4 DEF Reads, Moved, m, r
  <2>6. Ordering'
    BY <1>3, <1>9, <2>1, <2>3, <2>4, <2>5, AnswerIsReadKeeps DEF Moved, m
  <2>7. BridgeTyped'
    <3>1. TaskIsOf(t, Len(records))
      BY <1>7, <2>1 DEF TaskIsOf
    <3>2. Len(records) \in Nat
      BY <1>1, RecordsAre
    <3>3. Len(records') \in Nat /\ Len(records') >= Len(records) /\ TaskIsOf(t, Len(records'))
      BY <1>9, <3>1, <3>2
    <3>4. tasks' \in [BridgeRequests -> TaskStates] /\ \A q \in BridgeRequests : TaskIsOf(tasks'[q], Len(records'))
      BY <1>1, <1>3, <2>1, <2>3, <3>3, MovedTyped
    <3>5. delivering' \in BridgeRequests \cup {NoTurn}
      BY <1>3, <2>4
    <3> QED
      BY <1>1, <1>2, <1>9, <3>4, <3>5 DEF BridgeTyped
  <2>8. ProvidersAgree'
    <3>1. \A q \in BridgeRequests :
              /\ tasks'[q].kind = tasks[q].kind /\ tasks'[q].at = tasks[q].at /\ tasks'[q].record = tasks[q].record
              /\ tasks'[q].provider = tasks[q].provider
              /\ tasks'[q].at = "resume" /\ tasks'[q].got # "none" => tasks[q].got # "none" \/ AwaitsResume(toBridge, q)
      <4> SUFFICES ASSUME NEW q \in BridgeRequests
                   PROVE  /\ tasks'[q].kind = tasks[q].kind /\ tasks'[q].at = tasks[q].at /\ tasks'[q].record = tasks[q].record
                          /\ tasks'[q].provider = tasks[q].provider
                          /\ tasks'[q].at = "resume" /\ tasks'[q].got # "none"
                                 => tasks[q].got # "none" \/ AwaitsResume(toBridge, q)
        OBVIOUS
      <4>1. CASE q # r
        BY <4>1, <2>3 DEF Moved
      <4>2. CASE q = r
        <5>1. tasks'[q].at = "resume" => AwaitsResume(toBridge, q)
          <6>1. tasks'[r].at = m.what
            BY <2>1, <2>3, <2>4 DEF Moved
          <6> QED
            BY <4>2, <6>1, <1>4 DEF AwaitsResume, m, r
        <5> QED
          BY <4>2, <5>1, <2>1, <2>3 DEF Moved
      <4> QED
        BY <4>1, <4>2
    <3> QED
      BY <1>1, <1>5, <1>9, <2>7, <3>1, ProvidersStay
  <2> QED
    BY <2>6, <2>7, <2>8, PartsMakeInv
<1>10. ASSUME tasks' = tasks, delivering' = delivering, RecordsLike(records'),
              \/ m.what \in Calls /\ ~Pending(r, m.what) /\ seen' = seen
              \/ m.what \in {"started", "completed"} /\ Answer(r, m.what)
       PROVE  BridgeInv'
  <2>1. \/ seen' = seen /\ m.what \in Calls
        \/ /\ m.what \in {"started", "completed"} /\ seen' \in Seq(AppMessages)
           /\ Grown(seen, seen', [request |-> r, what |-> m.what])
    <3>1. ASSUME m.what \in {"started", "completed"}, Answer(r, m.what)
          PROVE seen' \in Seq(AppMessages) /\ Grown(seen, seen', [request |-> r, what |-> m.what])
      BY <1>1, <1>3, <3>1, AnswerIsQueued
    <3> QED
      BY <3>1, <1>10
  <2>2. m.what \in {"turn", "save"} => tasks[r].at = "done"
    BY <1>6, <1>10 DEF Waits, Pending, Calls
  <2>3. Reads(r)
    BY <1>1, <1>2, <1>3, <1>10, <2>2 DEF Reads, m, r
  <2>4. Ordering'
    BY <1>1, <1>3, <1>10, <2>1, <2>3, RestIsReadKeeps DEF m
  <2>5. BridgeTyped'
    <3>1. records' \in Seq(ChatRecords) /\ Len(records') = Len(records)
      BY <1>10 DEF RecordsLike
    <3>2. seen' \in Seq(AppMessages)
      BY <1>1, <2>1 DEF BridgeTyped
    <3> QED
      BY <1>1, <1>2, <1>10, <3>1, <3>2 DEF BridgeTyped
  <2>6. Len(records') = Len(records) /\ records'[Len(records)].provider = records[Len(records)].provider
    BY <1>1, <1>10, RecordsAre DEF RecordsLike
  <2>7. ProvidersAgree'
    BY <1>1, <1>5, <1>10, <2>5, <2>6, ProvidersStay
  <2> QED
    BY <2>4, <2>5, <2>7, PartsMakeInv
<1>11. CASE m.what \in Calls /\ ~Pending(r, m.what) /\ UNCHANGED <<tasks, delivering, records, seen>>
  BY <1>1, <1>10, <1>11, SameIsLike
<1>12. CASE /\ m.what \in {"started", "completed"} /\ records' = [records EXCEPT ![Current].busy = (m.what = "started")]
            /\ Answer(r, m.what) /\ UNCHANGED <<tasks, delivering>>
  <2>1. Current \in 1 .. Len(records) /\ (m.what = "started") \in BOOLEAN
    BY <1>1, RecordsAre DEF Current
  <2>2. RecordsLike(records')
    BY <1>1, <1>12, <2>1, BusyIsLike
  <2> QED
    BY <1>10, <1>12, <2>2
<1> QED
  BY <1>8, <1>9, <1>11, <1>12

\* An engine with its parts.
EngineIs(e) ==
    /\ e = [provider |-> e.provider, loaded |-> e.loaded, turn |-> e.turn, saves |-> e.saves]
    /\ e.provider \in {"native", "local"} /\ e.turn \in BridgeRequests \cup {NoTurn} /\ e.saves \in Seq(BridgeRequests)

\* The parts of the engine, as it answers.
LEMMA EngineSaves ==
    ASSUME NEW e, EngineIs(e), NEW r \in BridgeRequests, NEW f, f = [e EXCEPT !.saves = Append(@, r)]
    PROVE  EngineIs(f) /\ f.provider = e.provider /\ f.turn = e.turn /\ f.saves = Append(e.saves, r) /\ Grown(e.saves, f.saves, r)
<1>1. f = [provider |-> e.provider, loaded |-> e.loaded, turn |-> e.turn, saves |-> Append(e.saves, r)]
  BY Zenon DEF EngineIs
<1>2. Append(e.saves, r) \in Seq(BridgeRequests) /\ Grown(e.saves, Append(e.saves, r), r)
  BY GrownIs DEF EngineIs
<1>3. f.provider = e.provider /\ f.loaded = e.loaded /\ f.turn = e.turn /\ f.saves = Append(e.saves, r)
  BY <1>1
<1> QED
  BY <1>1, <1>2, <1>3 DEF EngineIs
LEMMA EngineUnloads ==
    ASSUME NEW e, EngineIs(e), NEW f, f = [e EXCEPT !.loaded = FALSE]
    PROVE  EngineIs(f) /\ f.provider = e.provider /\ f.turn = e.turn /\ f.saves = e.saves
<1>1. f = [provider |-> e.provider, loaded |-> FALSE, turn |-> e.turn, saves |-> e.saves]
  BY DEF EngineIs
<1> QED
  BY <1>1 DEF EngineIs
LEMMA EngineResumes ==
    ASSUME NEW e, EngineIs(e), NEW provider \in {"native", "local"}, NEW f, f = [e EXCEPT !.loaded = TRUE, !.provider = provider]
    PROVE  EngineIs(f) /\ f.provider = provider /\ f.turn = e.turn /\ f.saves = e.saves
<1>1. f = [provider |-> provider, loaded |-> TRUE, turn |-> e.turn, saves |-> e.saves]
  BY DEF EngineIs
<1> QED
  BY <1>1 DEF EngineIs
LEMMA EngineTurns ==
    ASSUME NEW e, EngineIs(e), NEW r \in BridgeRequests \cup {NoTurn}, NEW f, f = [e EXCEPT !.turn = r]
    PROVE  EngineIs(f) /\ f.provider = e.provider /\ f.turn = r /\ f.saves = e.saves
<1>1. f = [provider |-> e.provider, loaded |-> e.loaded, turn |-> r, saves |-> e.saves]
  BY DEF EngineIs
<1> QED
  BY <1>1 DEF EngineIs

\* What the engine says goes to the reader.
LEMMA SaysOne ==
    ASSUME BridgeTyped, NEW r \in BridgeRequests, NEW what \in Calls \cup {"completed"}, NEW got \in {"ok", "error"},
           toBridge' = Append(toBridge, Says(r, what, got))
    PROVE  /\ toBridge' \in Seq(EngineMessages) /\ Grown(toBridge, toBridge', Says(r, what, got))
           /\ Spoken(toBridge, toBridge', Says(r, what, got))
<1>1. Says(r, what, got) \in EngineMessages
  BY DEF Says, EngineMessages
<1>2. toBridge' \in Seq(EngineMessages) /\ Grown(toBridge, toBridge', Says(r, what, got))
  BY <1>1, GrownIs DEF BridgeTyped
<1>3. Len(toBridge') \in Nat
  BY <1>2, LenProperties
<1> QED
  BY <1>2, <1>3 DEF Grown, Spoken
LEMMA SaysTwo ==
    ASSUME BridgeTyped, NEW r \in BridgeRequests,
           toBridge' = toBridge \o <<Says(r, "turn", "ok"), Says(r, "started", "ok")>>
    PROVE  toBridge' \in Seq(EngineMessages) /\ Spoken(toBridge, toBridge', Says(r, "turn", "ok"))
<1> DEFINE a == Says(r, "turn", "ok")
           b == Says(r, "started", "ok")
           two == <<a, b>>
<1>1. a \in EngineMessages /\ b \in EngineMessages /\ a.what = "turn" /\ b.what = "started" /\ a.request = r /\ b.request = r
  BY DEF Says, EngineMessages, Calls
<1>2. toBridge \in Seq(EngineMessages) /\ toBridge' = toBridge \o two
  BY DEF BridgeTyped
<1> HIDE DEF a, b
<1>3. two \in Seq(EngineMessages) /\ Len(two) = 2 /\ two[1] = a /\ two[2] = b
  BY <1>1
<1> HIDE DEF two
<1>4. /\ toBridge' \in Seq(EngineMessages) /\ Len(toBridge') = Len(toBridge) + 2
      /\ \A i \in 1 .. Len(toBridge) + 2 : toBridge'[i] = IF i <= Len(toBridge) THEN toBridge[i] ELSE two[i - Len(toBridge)]
  <2> DEFINE old == toBridge
             new == toBridge'
  <2>1. old \in Seq(EngineMessages) /\ new = old \o two
    BY <1>2
  <2> HIDE DEF old, new
  <2>2. /\ new \in Seq(EngineMessages) /\ Len(new) = Len(old) + Len(two)
        /\ \A i \in 1 .. Len(old) + Len(two) : new[i] = IF i <= Len(old) THEN old[i] ELSE two[i - Len(old)]
    BY <1>3, <2>1, ConcatProperties
  <2> QED
    BY <1>3, <2>2 DEF old, new
<1>5. Len(toBridge) \in Nat /\ DOMAIN toBridge = 1 .. Len(toBridge) /\ DOMAIN toBridge' = 1 .. Len(toBridge')
  BY <1>2, <1>4, LenProperties
<1>6. \A i \in 1 .. Len(toBridge) : toBridge'[i] = toBridge[i]
  BY <1>4, <1>5
<1>7. toBridge'[Len(toBridge) + 1] = a /\ toBridge'[Len(toBridge) + 2] = b
  BY <1>3, <1>4, <1>5
<1>8. Spoken(toBridge, toBridge', a)
  BY <1>1, <1>4, <1>5, <1>6, <1>7 DEF Spoken
<1> QED
  BY <1>4, <1>8 DEF a

LEMMA EngineAnswersKeeps ==
    ASSUME BridgeInv, EngineAnswers
    PROVE  BridgeInv'
<1> DEFINE c == toEngine[1]
           r == c.request
<1>1. /\ toEngine # <<>> /\ toEngine' = Tail(toEngine) /\ BridgeTyped /\ toEngine \in Seq(EngineCalls) /\ EngineIs(engine)
      /\ UNCHANGED <<tasks, records, delivering, switch, selection, seen, lapses>>
  BY DEF EngineAnswers, BridgeInv, BridgeTyped, EngineIs
<1>2. toEngine' \in Seq(EngineCalls) /\ Shrunk(toEngine, toEngine') /\ Head(toEngine) = c /\ c \in EngineCalls
  BY <1>1, ShrunkIs
<1>3. r \in BridgeRequests /\ c.what \in Calls /\ c.model \in {"native", "local"} /\ 1 \in DOMAIN toEngine
  BY <1>2 DEF EngineCalls, Shrunk
<1>4. /\ \/ /\ c.what = "save" /\ engine' = [engine EXCEPT !.saves = Append(@, r)]
                   /\ toBridge' = Append(toBridge, Says(r, c.what, "ok"))
         \/ /\ c.what = "unsubscribe" /\ engine' = [engine EXCEPT !.loaded = FALSE]
                   /\ toBridge' = Append(toBridge, Says(r, c.what, "ok"))
         \/ /\ c.what = "resume" /\ engine' = [engine EXCEPT !.loaded = TRUE, !.provider = c.model]
            /\ toBridge' = Append(toBridge, Says(r, c.what, "ok"))
         \/ /\ c.what = "turn" /\ engine' = [engine EXCEPT !.turn = r]
            /\ toBridge' = toBridge \o <<Says(r, "turn", "ok"), Says(r, "started", "ok")>>
         \/ /\ c.what \in {"unsubscribe", "turn", "save"} /\ engine' = engine
                   /\ toBridge' = Append(toBridge, Says(r, c.what, "error"))
  BY <1>2 DEF EngineAnswers
<1>5. ASSUME NEW got \in {"ok", "error"}, Spoken(toBridge, toBridge', Says(r, c.what, got)), toBridge' \in Seq(EngineMessages),
             c.what = "resume" => got = "ok", EngineIs(engine'),
             engine'.turn = engine.turn \/ (c.what = "turn" /\ engine'.turn = r),
             (engine'.saves = engine.saves /\ (c.what = "save" => got = "error"))
               \/ (Grown(engine.saves, engine'.saves, r) /\ c.what = "save" /\ got = "ok"),
             IF c.what = "resume" THEN engine'.provider = c.model ELSE engine'.provider = engine.provider
      PROVE  BridgeInv'
  <2>1. EngineTakes(c, got)
    BY <1>1, <1>2, <1>5 DEF EngineTakes
  <2> HIDE DEF c
  <2>2. Ordering'
    BY <2>1, EngineTakesKeeps
  <2>3. BridgeTyped'
    BY <1>1, <1>2, <1>5 DEF BridgeTyped, EngineIs
  <2>4. ProvidersAgree'
    <3>1. CASE c.what # "resume"
      <4>1. \A q \in BridgeRequests : AwaitsResume(toBridge', q) => AwaitsResume(toBridge, q)
        <5>1. /\ \A p \in DOMAIN toBridge : toBridge'[p] = toBridge[p]
              /\ \A p \in DOMAIN toBridge' : p \in DOMAIN toBridge \/ toBridge'[p].what \in {c.what, "started"}
          <6>1. Says(r, c.what, got).what = c.what
            BY DEF Says
          <6> DEFINE n == Len(toBridge) + 1
          <6>2. /\ \A p \in DOMAIN toBridge : p \in DOMAIN toBridge' /\ p \in Nat /\ p < n /\ toBridge'[p] = toBridge[p]
                /\ n \in DOMAIN toBridge' /\ n \in Nat /\ toBridge'[n] = Says(r, c.what, got)
                /\ \A p \in DOMAIN toBridge' : \/ p \in DOMAIN toBridge
                                               \/ p = n
                                               \/ p = n + 1 /\ Says(r, c.what, got).what = "turn" /\ toBridge'[p].what = "started"
                                                            /\ toBridge'[p].request = Says(r, c.what, got).request
                /\ Len(toBridge') \in Nat /\ Len(toBridge') >= n
            BY <1>5, SaidIs
          <6> HIDE DEF n
          <6> QED
            BY <6>1, <6>2
        <5> QED
          BY <3>1, <5>1 DEF AwaitsResume
      <4> QED
        BY <1>1, <1>5, <2>3, <3>1, <4>1, ProvidersStay
    <3>2. CASE c.what = "resume"
      <4> SUFFICES ASSUME OneAtATime' PROVE OneTurn' /\ RecordFits' /\ \A q \in BridgeRequests : TaskFits(q)'
        BY DEF ProvidersAgree
      <4>1. OneAtATime
        BY <1>1 DEF OneAtATime
      <4>2. OneTurn /\ \A q \in BridgeRequests : TaskFits(q)
        BY <4>1 DEF BridgeInv, ProvidersAgree
      <4>3. tasks[r].at = "resume" /\ tasks[r].kind = "turn" /\ tasks[r].at # "done"
        <5>1. Waits(tasks[r], r \in lapses, "resume")
          BY <1>3, <3>2 DEF BridgeInv, CallsInFlight, c, r
        <5>2. tasks[r].at = "resume"
          BY <4>1, <5>1 DEF OneAtATime, Waits
        <5> QED
          BY <1>1, <1>3, <5>2 DEF BridgeTyped, TaskIsOf
      <4>4. engine'.provider = tasks[r].provider
        <5>1. c.model = tasks[r].provider
          BY <1>3, <3>2 DEF BridgeInv, ResumesSucceed, c, r
        <5> QED
          BY <1>5, <3>2, <5>1
      <4>5. OneTurn' /\ RecordFits'
        BY <1>1, <1>3, <4>2, <4>3 DEF OneTurn, RecordFits
      <4>6. ASSUME NEW q \in BridgeRequests PROVE TaskFits(q)'
        <5>1. CASE q = r
          BY <5>1, <1>1, <4>3, <4>4 DEF TaskFits
        <5>2. CASE q # r
          <6> HIDE DEF r
          <6>1. tasks[q].at \notin {"lock", "unsubscribe", "resume", "turn"}
            BY <5>2, <1>3, <4>1, <4>3, TurnIsAlone
          <6> QED
            BY <6>1, <1>1 DEF TaskFits
        <5> QED
          BY <5>1, <5>2
      <4> QED
        BY <4>5, <4>6
    <3> QED
      BY <3>1, <3>2
  <2> QED
    BY <2>2, <2>3, <2>4, PartsMakeInv
<1> HIDE DEF c, r
<1>6. CASE c.what = "save" /\ engine' = [engine EXCEPT !.saves = Append(@, r)]
          /\ toBridge' = Append(toBridge, Says(r, c.what, "ok"))
  <2>1. toBridge' \in Seq(EngineMessages) /\ Spoken(toBridge, toBridge', Says(r, c.what, "ok"))
    BY <1>1, <1>3, <1>6, SaysOne
  <2>2. EngineIs(engine') /\ engine'.provider = engine.provider /\ engine'.turn = engine.turn
            /\ Grown(engine.saves, engine'.saves, r)
    BY <1>1, <1>3, <1>6, EngineSaves
  <2> QED
    BY <1>5, <1>6, <2>1, <2>2
<1>7. CASE c.what = "unsubscribe" /\ engine' = [engine EXCEPT !.loaded = FALSE]
          /\ toBridge' = Append(toBridge, Says(r, c.what, "ok"))
  <2>1. toBridge' \in Seq(EngineMessages) /\ Spoken(toBridge, toBridge', Says(r, c.what, "ok"))
    BY <1>1, <1>3, <1>7, SaysOne
  <2>2. EngineIs(engine') /\ engine'.provider = engine.provider /\ engine'.turn = engine.turn /\ engine'.saves = engine.saves
    BY <1>1, <1>3, <1>7, EngineUnloads
  <2> QED
    BY <1>5, <1>7, <2>1, <2>2
<1>8. CASE c.what = "resume" /\ engine' = [engine EXCEPT !.loaded = TRUE, !.provider = c.model]
          /\ toBridge' = Append(toBridge, Says(r, c.what, "ok"))
  <2>1. toBridge' \in Seq(EngineMessages) /\ Spoken(toBridge, toBridge', Says(r, c.what, "ok"))
    BY <1>1, <1>3, <1>8, SaysOne
  <2>2. EngineIs(engine') /\ engine'.provider = c.model /\ engine'.turn = engine.turn /\ engine'.saves = engine.saves
    BY <1>1, <1>3, <1>8, EngineResumes
  <2> QED
    BY <1>5, <1>8, <2>1, <2>2
<1>9. CASE c.what = "turn" /\ engine' = [engine EXCEPT !.turn = r]
          /\ toBridge' = toBridge \o <<Says(r, "turn", "ok"), Says(r, "started", "ok")>>
  <2>1. toBridge' \in Seq(EngineMessages) /\ Spoken(toBridge, toBridge', Says(r, "turn", "ok"))
    BY <1>1, <1>3, <1>9, SaysTwo
  <2>2. EngineIs(engine') /\ engine'.provider = engine.provider /\ engine'.turn = r /\ engine'.saves = engine.saves
    BY <1>1, <1>3, <1>9, EngineTurns
  <2> QED
    BY <1>5, <1>9, <2>1, <2>2
<1>10. CASE c.what \in {"unsubscribe", "turn", "save"} /\ engine' = engine
           /\ toBridge' = Append(toBridge, Says(r, c.what, "error"))
  <2>1. toBridge' \in Seq(EngineMessages) /\ Spoken(toBridge, toBridge', Says(r, c.what, "error"))
    BY <1>1, <1>3, <1>10, SaysOne
  <2> QED
    BY <1>1, <1>5, <1>10, <2>1
<1> QED
  BY <1>4, <1>6, <1>7, <1>8, <1>9, <1>10

LEMMA EngineCompletesStep ==
    ASSUME BridgeInv, EngineCompletes
    PROVE  BridgeInv'
<1>1. /\ engine.turn # NoTurn /\ engine' = [engine EXCEPT !.turn = NoTurn]
             /\ toBridge' = Append(toBridge, Says(engine.turn, "completed", "ok"))
      /\ UNCHANGED <<tasks, records, toEngine, delivering, switch, selection, seen, lapses>> /\ BridgeTyped /\ EngineIs(engine)
      /\ engine.turn \in BridgeRequests
  BY DEF EngineCompletes, BridgeInv, BridgeTyped, EngineIs
<1>2. toBridge' \in Seq(EngineMessages) /\ Grown(toBridge, toBridge', Says(engine.turn, "completed", "ok"))
  BY <1>1, SaysOne
<1>3. EngineIs(engine') /\ engine'.provider = engine.provider /\ engine'.turn = NoTurn /\ engine'.saves = engine.saves
  BY <1>1, EngineTurns
<1>4. Ordering'
  BY <1>1, <1>2, <1>3, EngineCompletesKeeps
<1>5. BridgeTyped'
  BY <1>1, <1>2, <1>3 DEF BridgeTyped, EngineIs
<1>6. \A q \in BridgeRequests : AwaitsResume(toBridge', q) => AwaitsResume(toBridge, q)
  <2>1. /\ \A p \in DOMAIN toBridge : toBridge'[p] = toBridge[p]
        /\ \A p \in DOMAIN toBridge' : p \in DOMAIN toBridge \/ toBridge'[p].what = "completed"
    BY <1>2 DEF Grown, Says
  <2> QED
    BY <2>1 DEF AwaitsResume
<1>7. ProvidersAgree'
  BY <1>1, <1>3, <1>5, <1>6, ProvidersStay
<1> QED
  BY <1>4, <1>5, <1>7, PartsMakeInv

-----------------------------------------------------------------------------
LEMMA BridgeStarts == BridgeInit => BridgeInv
<1> SUFFICES ASSUME BridgeInit PROVE BridgeInv
  OBVIOUS
<1>1. /\ tasks = [request \in BridgeRequests |-> Idle] /\ toEngine = <<>> /\ toBridge = <<>> /\ delivering = NoTurn
      /\ records = <<[provider |-> "native", busy |-> FALSE, lock |-> NoTurn]>>
      /\ engine = [provider |-> "native", loaded |-> TRUE, turn |-> NoTurn, saves |-> <<>>]
      /\ selection = [model |-> SavedBefore, filed |-> SavedBefore, crossed |-> {}] /\ seen = <<>> /\ lapses = {}
  BY DEF BridgeInit
<1>2. /\ DOMAIN toEngine = {} /\ DOMAIN toBridge = {} /\ DOMAIN engine.saves = {} /\ DOMAIN seen = {}
      /\ toEngine \in Seq(EngineCalls) /\ toBridge \in Seq(EngineMessages) /\ engine.saves \in Seq(BridgeRequests)
             /\ seen \in Seq(AppMessages)
  BY <1>1
<1>3. /\ engine.provider = "native" /\ engine.turn = NoTurn
      /\ engine = [provider |-> engine.provider, loaded |-> engine.loaded, turn |-> engine.turn, saves |-> engine.saves]
  BY <1>1
<1>4. Idle.at = "idle" /\ Idle.kind = "none" /\ Idle.model = "none" /\ Idle.provider = "none" /\ Idle.got = "none"
          /\ Idle \in TaskStates
  BY TaskParts DEF Idle
<1>5. \A q \in BridgeRequests : tasks[q] = Idle
  BY <1>1
<1>6. records \in Seq(ChatRecords) /\ Len(records) = 1 /\ records[1].provider = "native"
  <2>1. [provider |-> "native", busy |-> FALSE, lock |-> NoTurn] \in ChatRecords
    BY DEF ChatRecords
  <2> QED
    BY <1>1, <2>1
<1>7. BridgeTyped
  <2>1. selection \in Selections
    BY <1>1, BridgeAssumption DEF Selections
  <2> QED
    BY <1>1, <1>2, <1>3, <1>4, <1>5, <1>6, <2>1 DEF BridgeTyped, TaskIsOf
<1>8. CallsInFlight /\ ReaderWaits /\ TurnsAreTold /\ AnsweredOnce
  BY <1>1, <1>2, <1>3, <1>4, <1>5, BridgeAssumption DEF CallsInFlight, ReaderWaits, TurnsAreTold, AnsweredOnce
<1>9. SavesInOrder /\ ResumesSucceed
  <2>1. KeptOf(engine.saves, tasks) = {}
    BY <1>2 DEF KeptOf
  <2> QED
    BY <1>1, <1>2, <1>4, <1>5, <2>1 DEF SavesInOrder, ResumesSucceed
<1>10. ProvidersAgree
  BY <1>3, <1>4, <1>5, <1>6 DEF ProvidersAgree, OneTurn, RecordFits, TaskFits
<1> QED
  BY <1>7, <1>8, <1>9, <1>10 DEF BridgeInv

LEMMA BridgeGoesOn == BridgeInv /\ [BridgeNext]_bridgeVars => BridgeInv'
<1> SUFFICES ASSUME BridgeInv, [BridgeNext]_bridgeVars PROVE BridgeInv'
  OBVIOUS
<1>1. ASSUME NEW r \in BridgeRequests, NEW model \in {"native", "local", "same"}, TurnArrives(r, model) PROVE BridgeInv'
  BY <1>1, TurnArrivesKeeps
<1>2. ASSUME NEW r \in BridgeRequests, NEW named \in {"native", "local", "effort"}, SaveArrives(r, named) PROVE BridgeInv'
  BY <1>2, SaveArrivesKeeps
<1>3. ASSUME NEW r \in BridgeRequests, PrepareTurn(r) \/ Rebind(r) \/ PassOn(r) \/ TimesOut(r) PROVE BridgeInv'
  BY <1>3, PrepareTurnKeeps, RebindKeeps, PassOnKeeps, TimesOutKeeps
<1>4. CASE SwitchOff \/ UNCHANGED bridgeVars
  BY <1>4, NothingMoves DEF SwitchOff, bridgeVars
<1>5. CASE ReadNative \/ EngineAnswers \/ EngineCompletes
  BY <1>5, ReadNativeKeeps, EngineAnswersKeeps, EngineCompletesStep
<1> QED
  BY <1>1, <1>2, <1>3, <1>4, <1>5 DEF BridgeNext

\* One answer to a request, before anything of its turn.
LEMMA AnswersComeFirst == BridgeInv => AnswerComesFirst
<1> SUFFICES ASSUME BridgeInv, NEW request \in BridgeRequests
             PROVE  /\ Cardinality(Written(request, Answers)) <= 1
                    /\ \A i \in Written(request, {"started", "completed"}) : \E j \in Written(request, Answers) : j < i
  BY DEF AnswerComesFirst
<1>1. Cardinality(Written(request, Answers)) <= 1
  <2>1. CASE Written(request, Answers) = {}
    BY <2>1, FS_EmptySet
  <2>2. CASE Written(request, Answers) # {}
    <3>1. PICK i : i \in Written(request, Answers)
      BY <2>2
    <3>2. Written(request, Answers) = {i}
      BY <3>1 DEF Written, BridgeInv, AnsweredOnce
    <3>3. Cardinality({i}) = 1
      BY FS_Singleton
    <3> QED
      BY <3>2, <3>3
  <2> QED
    BY <2>1, <2>2
<1>2. ASSUME NEW i \in Written(request, {"started", "completed"}) PROVE \E j \in Written(request, Answers) : j < i
  BY <1>2 DEF Written, BridgeInv, AnsweredOnce
<1> QED
  BY <1>1, <1>2

-----------------------------------------------------------------------------
(* The selection, against the writes the engine made.                      *)

IsLast(model, writes, saves, ts) ==
    IF writes = {} THEN model = SavedBefore
    ELSE \E k \in writes : (\A l \in writes : l <= k) /\ model = ts[saves[k]].model
ToldOf(list, request) == \E i \in DOMAIN list : list[i].request = request /\ list[i].what = "ok"
FiledOf(saves, ts, list) == {k \in KeptOf(saves, ts) : ToldOf(list, saves[k])}
NamedOf(saves, ts, crossed) == {k \in KeptOf(saves, ts) : ts[saves[k]].kind = "save" \/ saves[k] \in crossed}

\* A write of the effort alone waits, and carries the selection.
Carries(task) == task.kind = "effort" /\ task.at = "save" /\ task.provider = "kept"

\* It carries the model in effect until another write goes by.
CarriesIt == \A r \in BridgeRequests : Carries(tasks[r]) => r \in selection.crossed \/ tasks[r].model = selection.model

SelectionIsKept ==
    /\ IsLast(selection.filed, FiledOf(engine.saves, tasks, seen), engine.saves, tasks)
    /\ IsLast(selection.model, NamedOf(engine.saves, tasks, selection.crossed), engine.saves, tasks)
    /\ CarriesIt

LEMMA SelectionStarts == BridgeInit => SelectionIsKept
<1> SUFFICES ASSUME BridgeInit PROVE SelectionIsKept
  OBVIOUS
<1>1. selection.filed = SavedBefore /\ selection.model = SavedBefore /\ engine.saves = <<>>
  BY DEF BridgeInit
<1>2. KeptOf(engine.saves, tasks) = {}
  BY <1>1 DEF KeptOf
<1>3. FiledOf(engine.saves, tasks, seen) = {} /\ NamedOf(engine.saves, tasks, selection.crossed) = {}
  BY <1>2 DEF FiledOf, NamedOf
<1>4. \A r \in BridgeRequests : tasks[r].kind = "none"
  BY DEF BridgeInit, Idle, Task
<1> QED
  BY <1>1, <1>3, <1>4 DEF SelectionIsKept, IsLast, CarriesIt, Carries

\* While no write is passed on, the writes that were kept stay as they are.
LEMMA SelectionStands ==
    ASSUME BridgeInv, SelectionIsKept, UNCHANGED selection,
           \/ engine'.saves = engine.saves
           \/ \E r \in BridgeRequests : Grown(engine.saves, engine'.saves, r) /\ ~KeptTask(tasks'[r]),
           \A q \in BridgeRequests : /\ KeptTask(tasks[q]) <=> KeptTask(tasks'[q])
                                     /\ KeptTask(tasks[q]) => /\ tasks'[q].kind = tasks[q].kind
                                                              /\ tasks'[q].model = tasks[q].model
                                                              /\ ToldOf(seen', q) <=> ToldOf(seen, q)
                                     /\ Carries(tasks'[q]) => \/ Carries(tasks[q]) /\ tasks'[q].model = tasks[q].model
                                                              \/ tasks'[q].model = selection.model
    PROVE  SelectionIsKept'
<1> DEFINE old == engine.saves
           new == engine'.saves
<1>1. \A k \in DOMAIN old : k \in DOMAIN new /\ new[k] = old[k] /\ old[k] \in BridgeRequests
  BY QueuedIs DEF BridgeInv, Queued, Grown
<1>2. \A k \in DOMAIN new : k \in DOMAIN old \/ ~KeptTask(tasks'[new[k]])
  BY DEF Grown
<1> HIDE DEF old, new
<1>3. KeptOf(new, tasks') = KeptOf(old, tasks)
  BY <1>1, <1>2 DEF KeptOf
<1>4. \A k \in KeptOf(old, tasks) :
         /\ new[k] = old[k] /\ tasks'[new[k]].kind = tasks[old[k]].kind /\ tasks'[new[k]].model = tasks[old[k]].model
         /\ ToldOf(seen', new[k]) <=> ToldOf(seen, old[k])
  BY <1>1 DEF KeptOf
<1>5. /\ FiledOf(new, tasks', seen') = FiledOf(old, tasks, seen)
      /\ NamedOf(new, tasks', selection.crossed) = NamedOf(old, tasks, selection.crossed)
  BY <1>3, <1>4 DEF FiledOf, NamedOf
<1>6. ASSUME NEW writes \in SUBSET KeptOf(old, tasks), NEW model, IsLast(model, writes, old, tasks)
      PROVE  IsLast(model, writes, new, tasks')
  BY <1>4, <1>6 DEF IsLast
<1>7. CarriesIt'
  BY DEF SelectionIsKept, CarriesIt
<1>8. IsLast(selection.filed, FiledOf(old, tasks, seen), new, tasks')
  BY <1>6 DEF SelectionIsKept, FiledOf, old
<1>9. IsLast(selection.model, NamedOf(old, tasks, selection.crossed), new, tasks')
  BY <1>6 DEF SelectionIsKept, NamedOf, old
<1> QED
  BY <1>5, <1>7, <1>8, <1>9 DEF SelectionIsKept, new

\* So they do when a task moves that was not one of them and does not become one.
LEMMA SelectionOfATask ==
    ASSUME BridgeInv, SelectionIsKept, NEW r \in BridgeRequests, NEW t, Moved(r, t), ~KeptTask(tasks[r]), ~KeptTask(t),
           Carries(t) => (Carries(tasks[r]) /\ t.model = tasks[r].model) \/ t.model = selection.model,
           seen' = seen \/ \E what : Answer(r, what), UNCHANGED <<engine, selection>>
    PROVE  SelectionIsKept'
<1>1. tasks'[r] = t /\ \A q \in BridgeRequests : q # r => tasks'[q] = tasks[q]
  BY DEF Moved
<1>2. \A q \in BridgeRequests : KeptTask(tasks[q]) => q # r /\ (ToldOf(seen', q) <=> ToldOf(seen, q))
  <2>1. CASE seen' = seen
    BY <2>1
  <2>2. ASSUME NEW what, Answer(r, what), NEW q \in BridgeRequests, q # r PROVE ToldOf(seen', q) <=> ToldOf(seen, q)
    <3>1. seen \in Seq(AppMessages)
      BY DEF BridgeInv, BridgeTyped
    <3>2. /\ DOMAIN seen = 1 .. Len(seen) /\ Len(seen) \in Nat /\ DOMAIN seen' = 1 .. Len(seen) + 1
          /\ \A i \in 1 .. Len(seen) : seen'[i] = seen[i]
          /\ seen'[Len(seen) + 1].request = r
      BY <2>2, <3>1 DEF Answer
    <3> QED
      BY <2>2, <3>2 DEF ToldOf
  <2> QED
    BY <2>1, <2>2
<1> QED
  BY <1>1, <1>2, SelectionStands

\* A write is passed on that the bridge keeps: it is the last so far.
LEMMA SelectionOfAWrite ==
    ASSUME BridgeInv, SelectionIsKept, NEW r \in BridgeRequests, PassOn(r), tasks[r].provider = "kept", tasks[r].got = "ok"
    PROVE  SelectionIsKept'
<1> DEFINE t == [tasks[r] EXCEPT !.at = "done"]
           saves == engine.saves
<1>1. PICK how \in {"ok", "refused"} :
         /\ Answer(r, how)
         /\ selection' = IF how = "ok" THEN [Selected(r) EXCEPT !.filed = tasks[r].model] ELSE Selected(r)
  BY DEF PassOn
<1>2. tasks[r].kind \in {"save", "effort"} /\ tasks[r].at = "save" /\ tasks[r].model \in {"native", "local"}
  <2>1. tasks[r] \in TaskStates /\ TaskIsOf(tasks[r], Len(records)) /\ tasks[r].at \in {"turn", "save"}
    BY DEF BridgeInv, BridgeTyped, PassOn
  <2> QED
    BY <2>1 DEF TaskIsOf
<1>3. /\ t.at = "done" /\ t.kind = tasks[r].kind /\ t.model = tasks[r].model /\ t.provider = "kept" /\ t.got = "ok"
      /\ Moved(r, t) /\ BridgeTyped
  BY EndsIs DEF PassOn, BridgeInv
<1>4. /\ selection \in Selections /\ selection'.model = tasks[r].model /\ selection'.crossed = selection.crossed \cup Crossed(r)
      /\ how = "ok" => selection'.filed = tasks[r].model
      /\ how # "ok" => selection'.filed = selection.filed
  BY <1>1, <1>2, <1>3, SelectedIs DEF BridgeTyped
<1> HIDE DEF t, saves
<1>5. PICK latest \in DOMAIN saves : saves[latest] = r
  BY <1>2 DEF BridgeInv, SavesInOrder, saves
<1>6. tasks'[r] = t /\ (\A q \in BridgeRequests : q # r => tasks'[q] = tasks[q]) /\ saves' = saves
  BY <1>3 DEF Moved, PassOn, saves
<1>7. /\ \A k \in DOMAIN saves : k \in Nat /\ saves[k] \in BridgeRequests /\ (saves[k] = r => k = latest)
      /\ \A k \in KeptOf(saves, tasks) : k \in DOMAIN saves /\ k < latest /\ saves[k] # r /\ tasks[saves[k]].at = "done"
  <2>1. \A k \in DOMAIN saves : k \in Nat /\ saves[k] \in BridgeRequests /\ (saves[k] = r => k = latest)
    BY <1>3, <1>5, QueuedIs DEF BridgeInv, SavesInOrder, Queued, saves
  <2>2. \A k \in KeptOf(saves, tasks) : k \in DOMAIN saves /\ tasks[saves[k]].at = "done"
    BY DEF KeptOf, KeptTask
  <2>3. \A k \in KeptOf(saves, tasks) : k < latest
    BY <1>2, <1>5 DEF BridgeInv, SavesInOrder, saves
  <2> QED
    BY <1>2, <2>1, <2>2, <2>3
<1>8. KeptOf(saves, tasks') = KeptOf(saves, tasks) \cup {latest}
  <2>1. KeptTask(t)
    BY <1>3 DEF KeptTask
  <2> QED
    BY <1>5, <1>6, <1>7, <2>1 DEF KeptOf
<1>9. /\ DOMAIN seen = 1 .. Len(seen) /\ Len(seen) \in Nat /\ DOMAIN seen' = 1 .. Len(seen) + 1
      /\ \A i \in 1 .. Len(seen) : seen'[i] = seen[i]
      /\ seen'[Len(seen) + 1].request = r /\ seen'[Len(seen) + 1].what = how
  <2>1. seen \in Seq(AppMessages)
    BY <1>3 DEF BridgeTyped
  <2> QED
    BY <1>1, <2>1 DEF Answer
<1>10. /\ \A q \in BridgeRequests : q # r => (ToldOf(seen', q) <=> ToldOf(seen, q))
       /\ ToldOf(seen', r) <=> how = "ok"
  <2>1. \A q \in BridgeRequests : q # r => (ToldOf(seen', q) <=> ToldOf(seen, q))
    BY <1>9 DEF ToldOf
  <2>2. \A i \in DOMAIN seen : seen[i].what = "ok" => seen[i].request # r
    BY <1>2 DEF BridgeInv, AnsweredOnce, Answers
  <2> QED
    BY <1>9, <2>1, <2>2 DEF ToldOf
<1>11. ASSUME NEW writes \in SUBSET KeptOf(saves, tasks), NEW model, IsLast(model, writes, saves, tasks)
       PROVE  IsLast(model, writes, saves, tasks')
  BY <1>6, <1>7, <1>11 DEF IsLast
<1>12. ASSUME NEW writes \in SUBSET KeptOf(saves, tasks)
       PROVE  IsLast(tasks[r].model, writes \cup {latest}, saves, tasks')
  <2>1. \A l \in writes \cup {latest} : l <= latest
    BY <1>7
  <2> QED
    BY <1>3, <1>5, <1>6, <2>1 DEF IsLast
<1>13. IsLast(selection'.filed, FiledOf(saves, tasks', seen'), saves, tasks')
  <2> DEFINE writes == FiledOf(saves, tasks, seen)
  <2>1. FiledOf(saves, tasks', seen') = IF how = "ok" THEN writes \cup {latest} ELSE writes
    BY <1>5, <1>7, <1>8, <1>10 DEF FiledOf
  <2>2. writes \in SUBSET KeptOf(saves, tasks) /\ IsLast(selection.filed, writes, saves, tasks)
    BY DEF FiledOf, SelectionIsKept, saves
  <2> HIDE DEF writes
  <2> QED
    BY <1>4, <1>11, <1>12, <2>1, <2>2
<1>14. IsLast(selection'.model, NamedOf(saves, tasks', selection'.crossed), saves, tasks')
  <2> DEFINE writes == NamedOf(saves, tasks, selection.crossed)
             names == tasks[r].kind = "save" \/ r \in selection.crossed
  <2>1. \A q \in BridgeRequests : q = r \/ tasks[q].at = "done" => q \notin Crossed(r)
    BY DEF Crossed
  <2>2. NamedOf(saves, tasks', selection'.crossed) = IF names THEN writes \cup {latest} ELSE writes
    BY <1>3, <1>4, <1>5, <1>6, <1>7, <1>8, <2>1 DEF NamedOf
  <2>3. writes \in SUBSET KeptOf(saves, tasks) /\ IsLast(selection.model, writes, saves, tasks)
    BY DEF NamedOf, SelectionIsKept, saves
  <2>4. ~names => tasks[r].model = selection.model
    BY <1>2 DEF SelectionIsKept, CarriesIt, Carries
  <2> HIDE DEF writes, names
  <2> QED
    BY <1>4, <1>11, <1>12, <2>2, <2>3, <2>4
<1>15. CarriesIt'
  <2> SUFFICES ASSUME NEW q \in BridgeRequests, Carries(tasks'[q]) PROVE q \in selection'.crossed
    BY DEF CarriesIt
  <2>1. q # r
    BY <1>3, <1>6 DEF Carries
  <2>2. Carries(tasks[q])
    BY <1>6, <2>1
  <2> QED
    BY <1>4, <2>1, <2>2 DEF Carries, Crossed
<1> QED
  BY <1>6, <1>13, <1>14, <1>15 DEF SelectionIsKept, saves

LEMMA SelectionGoesOn == BridgeInv /\ SelectionIsKept /\ [BridgeNext]_bridgeVars => SelectionIsKept'
<1> SUFFICES ASSUME BridgeInv, SelectionIsKept, [BridgeNext]_bridgeVars PROVE SelectionIsKept'
  OBVIOUS
<1>1. BridgeTyped /\ \A r \in BridgeRequests : tasks[r] \in TaskStates /\ TaskIsOf(tasks[r], Len(records))
  BY DEF BridgeInv, BridgeTyped
<1>2. ASSUME UNCHANGED <<tasks, seen, selection>>, engine'.saves = engine.saves PROVE SelectionIsKept'
  BY <1>2, SelectionStands
<1>3. ASSUME NEW r \in BridgeRequests, NEW t \in TaskStates, tasks' = [tasks EXCEPT ![r] = t], ~KeptTask(tasks[r]),
             ~KeptTask(t), Carries(t) => (Carries(tasks[r]) /\ t.model = tasks[r].model) \/ t.model = selection.model,
             seen' = seen \/ \E what : Answer(r, what), UNCHANGED <<engine, selection>>
      PROVE  SelectionIsKept'
  BY <1>1, <1>3, MovedIs, SelectionOfATask
<1>4. ASSUME NEW r \in BridgeRequests, NEW model \in {"native", "local", "same"}, TurnArrives(r, model) PROVE SelectionIsKept'
  <2> DEFINE t == Task("lock", "turn", model, Current, "none")
  <2>1. t.at = "lock" /\ t.kind = "turn" /\ t \in TaskStates
    <3>1. Len(records) \in Nat
      BY <1>1 DEF BridgeTyped
    <3> QED
      BY <3>1, TaskParts DEF Current, Calls
  <2>2. tasks' = [tasks EXCEPT ![r] = t] /\ tasks[r].at = "idle" /\ UNCHANGED <<engine, selection, seen>>
    BY <1>4, IdleIs DEF TurnArrives
  <2> HIDE DEF t
  <2> QED
    BY <1>3, <2>1, <2>2 DEF KeptTask, Carries
<1>5. ASSUME NEW r \in BridgeRequests, NEW named \in {"native", "local", "effort"}, SaveArrives(r, named) PROVE SelectionIsKept'
  <2> DEFINE kind == IF named = "effort" THEN "effort" ELSE "save"
             model == IF named = "effort" THEN selection.model ELSE named
  <2>1. kind \in {"save", "effort"} /\ model \in {"native", "local"} /\ (kind = "effort" => model = selection.model)
    BY <1>1 DEF BridgeTyped, Selections
  <2>2. PICK at \in {"save", "done"}, provider \in {"kept", "none"} : tasks' = [tasks EXCEPT ![r] = Task(at, kind, model, 0, provider)]
    BY <1>5 DEF SaveArrives
  <2> HIDE DEF kind, model
  <2> DEFINE t == Task(at, kind, model, 0, provider)
  <2>3. t.got = "none" /\ t.kind = kind /\ t.model = model /\ t \in TaskStates
    BY <2>1, TaskParts DEF Calls
  <2>4. tasks' = [tasks EXCEPT ![r] = t] /\ tasks[r].at = "idle" /\ UNCHANGED <<engine, selection>>
        /\ (seen' = seen \/ Answer(r, "refused"))
    BY <1>5, <2>2, IdleIs DEF SaveArrives
  <2> HIDE DEF t
  <2> QED
    BY <1>3, <2>1, <2>3, <2>4 DEF KeptTask, Carries
<1>6. ASSUME NEW r \in BridgeRequests, CallEnds(r), Answer(r, "refused"), UNCHANGED <<engine, selection>>,
             tasks[r].at # "done", tasks[r].kind = "turn" \/ tasks[r].got = "none"
      PROVE  SelectionIsKept'
  <2> DEFINE t == [tasks[r] EXCEPT !.at = "done"]
  <2>1. t.at = "done" /\ t.kind = tasks[r].kind /\ t.provider = tasks[r].provider /\ t.got = tasks[r].got /\ t \in TaskStates
    BY <1>1, EndedParts
  <2>2. tasks[r].kind = "turn" => tasks[r].provider # "kept"
    BY <1>1 DEF TaskIsOf
  <2>3. tasks' = [tasks EXCEPT ![r] = t]
    BY <1>6 DEF CallEnds
  <2> HIDE DEF t
  <2> QED
    BY <1>3, <1>6, <2>1, <2>2, <2>3 DEF KeptTask, Carries
<1>7. ASSUME NEW r \in BridgeRequests, NEW what \in {"unsubscribe", "resume", "turn"}, NEW provider \in {"native", "local"},
             Sends(r, what, provider), UNCHANGED <<engine, selection, seen>>, tasks[r].at # "done"
      PROVE  SelectionIsKept'
  <2> DEFINE t == Calling(tasks[r], what, provider)
  <2>1. t.at = what /\ t \in TaskStates
    BY <1>1, CallingParts DEF Calls
  <2>2. tasks' = [tasks EXCEPT ![r] = t]
    BY <1>7 DEF Sends
  <2> HIDE DEF t
  <2> QED
    BY <1>3, <1>7, <2>1, <2>2 DEF KeptTask, Carries
<1>8. ASSUME NEW r \in BridgeRequests, PrepareTurn(r) PROVE SelectionIsKept'
  <2> DEFINE wanted == Wanted(r, records[tasks[r].record])
  <2>1. tasks[r].at = "lock" /\ tasks[r].kind = "turn" /\ tasks[r].record \in 1 .. Len(records)
    BY <1>1, <1>8 DEF PrepareTurn, TaskIsOf
  <2>2. wanted \in {"native", "local"}
    <3>1. tasks[r].model \in {"native", "local", "same"}
      BY <1>1, <2>1 DEF TaskStates, TaskIsOf
    <3> QED
      BY <1>1, <2>1, <3>1, RecordsAre DEF Wanted
  <2>3. \/ Sends(r, "turn", wanted) /\ seen' = seen
        \/ Sends(r, "unsubscribe", wanted) /\ seen' = seen
        \/ Answer(r, "refused") /\ CallEnds(r)
    BY <1>8 DEF PrepareTurn
  <2>4. UNCHANGED <<engine, selection>>
    BY <1>8 DEF PrepareTurn
  <2> HIDE DEF wanted
  <2> QED
    BY <1>6, <1>7, <2>1, <2>2, <2>3, <2>4
<1>9. ASSUME NEW r \in BridgeRequests, Rebind(r) PROVE SelectionIsKept'
  <2> DEFINE provider == tasks[r].provider
  <2>1. tasks[r].at \in {"unsubscribe", "resume"} /\ tasks[r].kind = "turn" /\ provider \in {"native", "local"}
        /\ tasks[r].at # "done"
    BY <1>1, <1>9 DEF Rebind, TaskIsOf
  <2>2. \/ Sends(r, "resume", provider) /\ seen' = seen
        \/ Sends(r, "turn", provider) /\ seen' = seen
        \/ Answer(r, "refused") /\ CallEnds(r)
    BY <1>9 DEF Rebind
  <2>3. UNCHANGED <<engine, selection>>
    BY <1>9 DEF Rebind
  <2> HIDE DEF provider
  <2> QED
    BY <1>6, <1>7, <2>1, <2>2, <2>3
<1>10. ASSUME NEW r \in BridgeRequests, TimesOut(r) PROVE SelectionIsKept'
  <2>1. tasks[r].at # "done"
    BY <1>10 DEF TimesOut, Calls
  <2> QED
    BY <1>6, <1>10, <2>1 DEF TimesOut
<1>11. ASSUME NEW r \in BridgeRequests, PassOn(r) PROVE SelectionIsKept'
  <2>1. CASE tasks[r].provider = "kept" /\ tasks[r].got = "ok"
    BY <1>11, <2>1, SelectionOfAWrite
  <2>2. CASE ~(tasks[r].provider = "kept" /\ tasks[r].got = "ok")
    <3> DEFINE t == [tasks[r] EXCEPT !.at = "done"]
    <3>1. t.at = "done" /\ t.provider = tasks[r].provider /\ t.got = tasks[r].got /\ t \in TaskStates
      BY <1>1, EndedParts
    <3>2. tasks' = [tasks EXCEPT ![r] = t] /\ tasks[r].at # "done" /\ UNCHANGED <<engine, selection>> /\ Answer(r, tasks[r].got)
      BY <1>11, <2>2 DEF PassOn, CallEnds
    <3> HIDE DEF t
    <3> QED
      BY <1>3, <2>2, <3>1, <3>2 DEF KeptTask, Carries
  <2> QED
    BY <2>1, <2>2
<1>12. CASE ReadNative
  <2> DEFINE m == toBridge[1]
             r == m.request
  <2>1. toBridge # <<>> /\ toBridge \in Seq(EngineMessages) /\ UNCHANGED <<engine, selection>>
    BY <1>1, <1>12 DEF ReadNative, BridgeTyped
  <2>2. Head(toBridge) = m /\ m \in EngineMessages
    BY <2>1, ShrunkIs
  <2>3. r \in BridgeRequests /\ m.got \in {"ok", "error"}
    BY <2>2 DEF EngineMessages
  <2>4. \/ m.what \in Calls /\ Pending(r, m.what) /\ tasks' = [tasks EXCEPT ![r].got = m.got] /\ seen' = seen
        \/ UNCHANGED <<tasks, seen>>
        \/ m.what \in {"started", "completed"} /\ Answer(r, m.what) /\ tasks' = tasks
    BY <1>12, <2>2 DEF ReadNative
  <2> HIDE DEF m, r
  <2>5. CASE m.what \in Calls /\ Pending(r, m.what) /\ tasks' = [tasks EXCEPT ![r].got = m.got] /\ seen' = seen
    <3> DEFINE t == [tasks[r] EXCEPT !.got = m.got]
    <3>1. t.at = tasks[r].at /\ t.kind = tasks[r].kind /\ t.model = tasks[r].model /\ t.provider = tasks[r].provider
          /\ t \in TaskStates
      BY <1>1, <2>3, GotParts
    <3>2. tasks[r].at # "done" /\ tasks' = [tasks EXCEPT ![r] = t]
      BY <2>5 DEF Pending, Calls
    <3> HIDE DEF t
    <3> QED
      BY <1>3, <2>1, <2>3, <2>5, <3>1, <3>2 DEF KeptTask, Carries
  <2>6. CASE UNCHANGED <<tasks, seen>>
    BY <1>2, <2>1, <2>6
  <2>7. CASE m.what \in {"started", "completed"} /\ Answer(r, m.what) /\ tasks' = tasks
    <3>1. \A q \in BridgeRequests : ToldOf(seen', q) <=> ToldOf(seen, q)
      <4>1. seen \in Seq(AppMessages)
        BY <1>1 DEF BridgeTyped
      <4>2. /\ DOMAIN seen = 1 .. Len(seen) /\ Len(seen) \in Nat /\ DOMAIN seen' = 1 .. Len(seen) + 1
            /\ \A i \in 1 .. Len(seen) : seen'[i] = seen[i]
            /\ seen'[Len(seen) + 1].what # "ok"
        BY <2>7, <4>1 DEF Answer
      <4> QED
        BY <4>2 DEF ToldOf
    <3> QED
      BY <2>1, <2>7, <3>1, SelectionStands
  <2> QED
    BY <2>4, <2>5, <2>6, <2>7
<1>13. CASE EngineAnswers
  <2> DEFINE c == toEngine[1]
             r == c.request
  <2>1. /\ toEngine # <<>> /\ toEngine \in Seq(EngineCalls) /\ EngineIs(engine) /\ UNCHANGED <<tasks, seen, selection>>
    BY <1>1, <1>13 DEF EngineAnswers, BridgeTyped, EngineIs
  <2>2. Head(toEngine) = c /\ 1 \in DOMAIN toEngine
    BY <2>1, ShrunkIs DEF Shrunk
  <2>3. r \in BridgeRequests /\ ~KeptTask(tasks[r])
    BY <2>2, CallIsOpen
  <2>4. \/ engine' = [engine EXCEPT !.saves = Append(@, r)] \/ engine' = [engine EXCEPT !.loaded = FALSE]
        \/ engine' = [engine EXCEPT !.loaded = TRUE, !.provider = c.model]
        \/ engine' = [engine EXCEPT !.turn = r] \/ engine' = engine
    BY <1>13, <2>2 DEF EngineAnswers
  <2> HIDE DEF c, r
  <2>5. engine'.saves = engine.saves \/ engine'.saves = Append(engine.saves, r)
    BY <2>1, <2>4 DEF EngineIs
  <2>6. CASE engine'.saves = engine.saves
    BY <1>2, <2>1, <2>6
  <2>7. CASE engine'.saves = Append(engine.saves, r)
    <3>1. Grown(engine.saves, engine'.saves, r)
      BY <2>1, <2>3, <2>7, GrownIs DEF EngineIs
    <3> QED
      BY <2>1, <2>3, <3>1, SelectionStands
  <2> QED
    BY <2>5, <2>6, <2>7
<1>14. CASE EngineCompletes
  <2>1. EngineIs(engine) /\ engine' = [engine EXCEPT !.turn = NoTurn] /\ UNCHANGED <<tasks, seen, selection>>
    BY <1>1, <1>14 DEF EngineCompletes, BridgeTyped, EngineIs
  <2>2. engine'.saves = engine.saves
    BY <2>1 DEF EngineIs
  <2> QED
    BY <1>2, <2>1, <2>2
<1>15. CASE SwitchOff \/ UNCHANGED bridgeVars
  BY <1>2, <1>15 DEF SwitchOff, bridgeVars
<1> QED
  BY <1>4, <1>5, <1>8, <1>9, <1>10, <1>11, <1>12, <1>13, <1>14, <1>15 DEF BridgeNext

\* The default on file is that of the last write it was told had succeeded, and so on.
LEMMA SavesAreKept == BridgeInv /\ SelectionIsKept => SavedIsKept
<1> SUFFICES ASSUME BridgeInv, SelectionIsKept PROVE SavedIsKept
  OBVIOUS
<1>1. Kept = KeptOf(engine.saves, tasks)
  BY DEF Kept, KeptOf, KeptTask
<1>2. Filed = FiledOf(engine.saves, tasks, seen)
  BY <1>1 DEF Filed, FiledOf, ToldOf, Written
<1>3. {i \in Kept : tasks[engine.saves[i]].kind = "save" \/ engine.saves[i] \in selection.crossed}
        = NamedOf(engine.saves, tasks, selection.crossed)
  BY <1>1 DEF NamedOf
<1>4. \A k \in DOMAIN engine.saves : k \in Nat
  BY QueuedIs DEF BridgeInv, Queued
<1>5. ASSUME NEW writes \in SUBSET KeptOf(engine.saves, tasks), NEW model, IsLast(model, writes, engine.saves, tasks)
      PROVE  model = LastCarried(writes)
  <2>1. CASE writes = {}
    BY <1>5, <2>1 DEF IsLast, LastCarried
  <2>2. CASE writes # {}
    <3> DEFINE latest == CHOOSE i \in writes : \A j \in writes : j <= i
    <3>1. PICK k \in writes : (\A l \in writes : l <= k) /\ model = tasks[engine.saves[k]].model
      BY <1>5, <2>2 DEF IsLast
    <3>2. \A i \in writes : i \in Nat
      BY <1>4 DEF KeptOf
    <3>3. latest \in writes /\ \A j \in writes : j <= latest
      BY <3>1
    <3> HIDE DEF latest
    <3>4. latest = k
      BY <3>1, <3>2, <3>3
    <3>5. LastCarried(writes) = tasks[engine.saves[latest]].model
      BY <2>2 DEF LastCarried, latest
    <3> QED
      BY <3>1, <3>4, <3>5
  <2> QED
    BY <2>1, <2>2
<1>6. selection.filed = LastCarried(FiledOf(engine.saves, tasks, seen))
  BY <1>5 DEF SelectionIsKept, FiledOf
<1>7. selection.model = LastCarried(NamedOf(engine.saves, tasks, selection.crossed))
  BY <1>5 DEF SelectionIsKept, NamedOf
<1> QED
  BY <1>2, <1>3, <1>6, <1>7 DEF SavedIsKept

\* A turn the engine begins is one whose provider is that of the record, and so of the engine.
LEMMA TurnsFit ==
    BridgeInv /\ [BridgeNext]_bridgeVars =>
      [(lapses = {} /\ MaxTurnsAtOnce = 1 /\ engine'.turn \notin {engine.turn, NoTurn}) =>
         engine'.provider = tasks[engine'.turn].provider]_bridgeVars
<1> SUFFICES ASSUME BridgeInv, BridgeNext, lapses = {}, MaxTurnsAtOnce = 1, engine'.turn \notin {engine.turn, NoTurn}
             PROVE  engine'.provider = tasks[engine'.turn].provider
  BY DEF bridgeVars
<1>1. engine' # engine
  OBVIOUS
<1>2. ~EngineCompletes
  <2>1. ASSUME EngineCompletes PROVE FALSE
    <3>1. EngineIs(engine) /\ engine' = [engine EXCEPT !.turn = NoTurn]
      BY <2>1 DEF EngineCompletes, BridgeInv, BridgeTyped, EngineIs
    <3>2. engine'.turn = NoTurn
      BY <3>1, EngineTurns
    <3> QED
      BY <3>2
  <2> QED
    BY <2>1
<1>3. EngineAnswers
  BY <1>1, <1>2 DEF BridgeNext, TurnArrives, SaveArrives, PrepareTurn, Rebind, PassOn, TimesOut, SwitchOff, ReadNative
<1> DEFINE c == toEngine[1]
           r == c.request
<1>4. /\ toEngine # <<>> /\ toEngine \in Seq(EngineCalls) /\ EngineIs(engine)
  BY <1>3 DEF EngineAnswers, BridgeInv, BridgeTyped, EngineIs
<1>5. Head(toEngine) = c /\ c \in EngineCalls /\ 1 \in DOMAIN toEngine
  BY <1>4, ShrunkIs DEF Shrunk
<1>6. r \in BridgeRequests /\ c.model \in {"native", "local"}
  BY <1>5 DEF EngineCalls
<1>7. \/ engine' = [engine EXCEPT !.saves = Append(@, r)] \/ engine' = [engine EXCEPT !.loaded = FALSE]
      \/ engine' = [engine EXCEPT !.loaded = TRUE, !.provider = c.model]
      \/ c.what = "turn" /\ engine' = [engine EXCEPT !.turn = r]
  BY <1>1, <1>3, <1>5 DEF EngineAnswers
<1> HIDE DEF c, r
<1>8. engine' # [engine EXCEPT !.saves = Append(@, r)]
  BY <1>4, <1>6, EngineSaves
<1>9. engine' # [engine EXCEPT !.loaded = FALSE]
  BY <1>4, EngineUnloads
<1>10. engine' # [engine EXCEPT !.loaded = TRUE, !.provider = c.model]
  <2>1. ASSUME engine' = [engine EXCEPT !.loaded = TRUE, !.provider = c.model] PROVE FALSE
    <3>1. engine'.turn = engine.turn
      BY <1>4, <1>6, <2>1, EngineResumes
    <3> QED
      BY <3>1
  <2> QED
    BY <2>1
<1>11. c.what = "turn" /\ engine'.provider = engine.provider /\ engine'.turn = r
  BY <1>4, <1>6, <1>7, <1>8, <1>9, <1>10, EngineTurns
<1>12. tasks[r].at = "turn"
  <2>1. Waits(tasks[r], r \in lapses, c.what)
    BY <1>5 DEF BridgeInv, CallsInFlight, c, r
  <2> QED
    BY <1>11, <2>1 DEF Waits
<1>13. OneAtATime /\ tasks[r].kind = "turn" /\ tasks[r].at # "done"
  BY <1>6, <1>12 DEF OneAtATime, BridgeInv, BridgeTyped, TaskIsOf
<1>14. tasks[r].provider = records[Len(records)].provider /\ RecordFits
  BY <1>6, <1>12, <1>13 DEF BridgeInv, ProvidersAgree, TaskFits
<1>15. \A q \in BridgeRequests : tasks[q].at # "resume"
  BY <1>6, <1>12, <1>13, TurnIsAlone
<1> QED
  BY <1>11, <1>14, <1>15 DEF RecordFits

\* What handle, read_native, prepare_turn and filter_selection_write of codex_app_bridge.py keep together: a request
\* is answered at most once, and before anything of its turn; the default on file is what the last write carried that
\* the app was told had succeeded, and the one in effect is the model that the last write named, or that one of the
\* effort alone brought back, having waited while another was answered; and with one turn at a time and no call given
\* up, a turn runs under the provider of its model.
THEOREM BridgeIsSoundHolds == BridgeSpec => BridgeIsSound
<1>1. BridgeInit => BridgeInv /\ SelectionIsKept
  BY BridgeStarts, SelectionStarts
<1>2. BridgeInv /\ SelectionIsKept /\ [BridgeNext]_bridgeVars => BridgeInv' /\ SelectionIsKept'
  BY BridgeGoesOn, SelectionGoesOn
<1>3. BridgeInv /\ SelectionIsKept => AnswerComesFirst /\ SavedIsKept
  BY AnswersComeFirst, SavesAreKept
<1>4. BridgeInv /\ [BridgeNext]_bridgeVars =>
      [(lapses = {} /\ MaxTurnsAtOnce = 1 /\ engine'.turn \notin {engine.turn, NoTurn}) =>
         engine'.provider = tasks[engine'.turn].provider]_bridgeVars
  BY TurnsFit
<1> QED
  BY <1>1, <1>2, <1>3, <1>4, PTL DEF BridgeSpec, BridgeIsSound, TurnFitsItsProvider

===============================================================================
