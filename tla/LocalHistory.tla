----------------------------- MODULE LocalHistory -----------------------------
(***************************************************************************)
(* Opt-in history on the user's device (hormuz/local_history.py and the    *)
(* capture of it, hormuz/local_history_capture.py): request handlers take  *)
(* the consent at their ingress and append what they captured much later,  *)
(* while the user enables, disables, deletes and reads in other processes. *)
(*                                                                         *)
(* Every operation runs under one file lock and is one action; because a   *)
(* process may be killed in the middle, or a write may fail, each action   *)
(* also has the outcomes of doing only the first of its file operations.   *)
(* The retention period stays what it is; time passes for the oldest       *)
(* first.                                                                  *)
(***************************************************************************)
EXTENDS Naturals, FiniteSetsExt, Functions

CONSTANTS
    Captures,       \* provider attempts, and the ids of their entries
    HistoryActors,
    ActorOf,        \* who a request authenticated as
    LengthOf,       \* bytes of a capture's encrypted entry
    MaxHistory,     \* _MAX_ENTRIES
    MaxHistoryBytes,\* _MAX_TOTAL_BYTES
    MaxConsents,    \* bound: generations that are ever drawn
    Nobody

ASSUME HistoryAssumption ==
    /\ ActorOf \in [Captures -> HistoryActors] /\ Nobody \notin HistoryActors
    /\ {MaxHistory, MaxHistoryBytes, MaxConsents} \subseteq Nat \ {0}
    /\ LengthOf \in [Captures -> 1 .. MaxHistoryBytes]

VARIABLES
    directory,  \* the profile's directory exists
    deviceKey,  \* device.key exists
    settings,   \* settings.enc, or Nobody
    drawn,      \* how many generations were drawn: the next one is new
    stored,     \* the entries on disk
    outdated,   \* captures recorded before the retention cutoff
    recorded,   \* recorded_at of a capture, 0 before it has started
    consent,    \* the generation and actor a handler took at its ingress
    progress,   \* a handler: "new", "admitted", "captured" or "done"
    withdrawn   \* history: captures in flight when the user changed something

historyVars == <<directory, deviceKey, settings, drawn, stored, outdated, recorded,
                 consent, progress, withdrawn>>

Settings == [on : BOOLEAN, actor : HistoryActors \cup {Nobody}, gen : 0 .. MaxConsents]

ASSUME SettingsAssumption == Nobody \notin Settings

HistoryTypeOK ==
    /\ directory \in BOOLEAN /\ deviceKey \in BOOLEAN
    /\ settings \in Settings \cup {Nobody}
    /\ drawn \in 0 .. MaxConsents
    /\ stored \subseteq Captures /\ outdated \subseteq Captures
    /\ recorded \in [Captures -> Nat]
    /\ consent \in [Captures -> [gen : 0 .. MaxConsents, actor : HistoryActors] \cup {Nobody}]
    /\ progress \in [Captures -> {"new", "admitted", "captured", "done"}]
    /\ withdrawn \subseteq Captures

HistoryInit ==
    /\ directory = FALSE /\ deviceKey = FALSE /\ settings = Nobody
    /\ drawn = 0 /\ stored = {} /\ outdated = {}
    /\ recorded = [c \in Captures |-> 0]
    /\ consent = [c \in Captures |-> Nobody]
    /\ progress = [c \in Captures |-> "new"]
    /\ withdrawn = {}

InFlight == {c \in Captures : progress[c] \in {"admitted", "captured"} /\ consent[c] # Nobody}

\* _state: without a file, nothing is enabled.
State == IF settings = Nobody THEN [on |-> FALSE, actor |-> Nobody, gen |-> 0] ELSE settings

\* _entries removes what retention no longer covers, file by file.
Purging == {stored \ gone : gone \in SUBSET (stored \cap outdated)}

(***************************************************************************)
(* What the user does.                                                     *)
(***************************************************************************)

DrawGeneration == drawn < MaxConsents /\ drawn' = drawn + 1

UserOnly == UNCHANGED <<outdated, recorded, consent, progress>>

EnableHistory(a) ==
    /\ DrawGeneration
    /\ directory' = TRUE
    /\ \/ deviceKey' \in {deviceKey, TRUE}
          /\ UNCHANGED <<settings, stored, withdrawn>>
       \/ /\ deviceKey' = TRUE
          /\ settings' = [on |-> TRUE, actor |-> a, gen |-> drawn']
          /\ stored' \in Purging
          /\ withdrawn' = withdrawn \cup InFlight
    /\ UserOnly

\* Settings cannot be written before the key is there.
DisableHistory ==
    /\ DrawGeneration
    /\ directory /\ deviceKey
    /\ settings' = [State EXCEPT !.on = FALSE, !.gen = drawn']
    /\ stored' \in Purging
    /\ withdrawn' = withdrawn \cup InFlight
    /\ UNCHANGED <<directory, deviceKey>> /\ UserOnly

\* Mistake: starts by removing the settings.
DeleteHistory_SettingsFirst ==
    /\ DrawGeneration
    /\ directory /\ deviceKey
    /\ \/ settings' = Nobody /\ stored' \in SUBSET stored
       \/ settings' = [State EXCEPT !.gen = drawn'] /\ stored' = {}
    /\ withdrawn' = withdrawn \cup InFlight
    /\ UNCHANGED <<directory, deviceKey>> /\ UserOnly

\* Mistake: removes the entries first and draws a new generation at the end.
DeleteHistory_EntriesFirst ==
    /\ DrawGeneration
    /\ directory /\ deviceKey
    /\ \/ stored' \in SUBSET stored /\ UNCHANGED settings
       \/ stored' = {} /\ settings' = [State EXCEPT !.gen = drawn']
    /\ withdrawn' = withdrawn \cup InFlight
    /\ UNCHANGED <<directory, deviceKey>> /\ UserOnly

\* The new generation is saved before the first entry is removed.
DeleteHistory ==
    /\ DrawGeneration
    /\ directory /\ deviceKey
    /\ settings' = [State EXCEPT !.gen = drawn']
    /\ stored' \in SUBSET stored
    /\ withdrawn' = withdrawn \cup InFlight
    /\ UNCHANGED <<directory, deviceKey>> /\ UserOnly

DeleteEntry(c) ==
    /\ DrawGeneration
    /\ directory /\ deviceKey
    /\ settings' = [State EXCEPT !.gen = drawn']
    /\ stored' \in Purging \cup {(stored \ outdated) \ {c}}
    /\ withdrawn' = withdrawn \cup InFlight
    /\ UNCHANGED <<directory, deviceKey>> /\ UserOnly

\* status, list, get, export and insights clean up as they read.
ReviewHistory ==
    /\ directory
    /\ stored' \in Purging
    /\ UNCHANGED <<directory, deviceKey, settings, drawn, withdrawn>> /\ UserOnly

(***************************************************************************)
(* What a request handler does.                                            *)
(***************************************************************************)

HandlerOnly == UNCHANGED <<directory, deviceKey, settings, drawn, withdrawn>>

\* Mistake: takes whatever consent is stored.
TakeConsent_Anybody(c) ==
    /\ progress[c] = "new"
    /\ progress' = [progress EXCEPT ![c] = "admitted"]
    /\ IF directory
       THEN consent' = [consent EXCEPT ![c] = [gen |-> State.gen, actor |-> State.actor]]
       ELSE UNCHANGED consent
    /\ UNCHANGED <<stored, outdated, recorded>> /\ HandlerOnly

\* history_consent, once, right after authentication.
TakeConsent(c) ==
    /\ progress[c] = "new"
    /\ progress' = [progress EXCEPT ![c] = "admitted"]
    /\ IF directory /\ State.on /\ State.actor = ActorOf[c]
       THEN /\ consent' = [consent EXCEPT ![c] = [gen |-> State.gen, actor |-> ActorOf[c]]]
            /\ stored' \in Purging
       ELSE UNCHANGED <<consent, stored>>
    /\ UNCHANGED <<outdated, recorded>> /\ HandlerOnly

\* HistoryCapture.begin notes the time; without consent nothing is captured.
BeginCapture(c) ==
    /\ progress[c] = "admitted"
    /\ progress' = [progress EXCEPT ![c] = IF consent[c] = Nobody THEN "done" ELSE "captured"]
    /\ recorded' = [recorded EXCEPT ![c] = IF consent[c] = Nobody THEN 0
                                           ELSE 1 + Max({recorded[d] : d \in Captures})]
    /\ UNCHANGED <<stored, outdated, consent>> /\ HandlerOnly

TotalLength(entries) == SumFunctionOnSet(LengthOf, entries)
Older(left, kept) == \A c \in left, d \in kept : recorded[c] < recorded[d]
Accepts(entries, c) ==
    /\ Cardinality(entries) < MaxHistory
    /\ TotalLength(entries) + LengthOf[c] <= MaxHistoryBytes

\* Mistake: makes room for the entry without its own bytes.
MakeRoom_Late(entries, c) ==
    {kept \in SUBSET entries : /\ Older(entries \ kept, kept)
                               /\ Cardinality(kept) < MaxHistory
                               /\ TotalLength(kept) <= MaxHistoryBytes}

\* The sets that are left after the oldest entries went until the new one fits.
MakeRoom(entries, c) ==
    {kept \in SUBSET entries : Older(entries \ kept, kept) /\ Accepts(kept, c)}

\* What is there when making room was cut off.
PartlyMade(entries, most) ==
    {kept \in SUBSET entries : most \subseteq kept /\ Older(entries \ kept, kept)}

\* Mistake: looks at the actor only.
Admits_Actor(c) == directory /\ State.on /\ State.actor = ActorOf[c]
Admits(c) ==
    /\ directory /\ State.on
    /\ consent[c] = [gen |-> State.gen, actor |-> State.actor]

\* finish() calls append only for an attempt that was sent; append takes the
\* entry only under the consent the handler began with.
AppendEntry(c) ==
    /\ progress[c] = "captured"
    /\ progress' = [progress EXCEPT ![c] = "done"]
    /\ \/ UNCHANGED stored
       \/ /\ Admits(c)
          /\ \/ stored' \in Purging
             \/ /\ c \notin outdated
                /\ \E most \in MakeRoom(stored \ outdated, c) :
                       /\ \A other \in MakeRoom(stored \ outdated, c) : other \subseteq most
                       /\ stored' \in {most \cup {c}} \cup PartlyMade(stored \ outdated, most)
    /\ UNCHANGED <<outdated, recorded, consent>> /\ HandlerOnly

\* Time passes, for the oldest first.
OutliveRetention(c) ==
    /\ recorded[c] > 0 /\ c \notin outdated
    /\ \A d \in Captures \ outdated : recorded[d] > 0 => recorded[c] <= recorded[d]
    /\ outdated' = outdated \cup {c}
    /\ UNCHANGED <<stored, recorded, consent, progress>> /\ HandlerOnly

HistoryNext ==
    \/ \E a \in HistoryActors : EnableHistory(a)
    \/ DisableHistory \/ DeleteHistory \/ ReviewHistory
    \/ \E c \in Captures : DeleteEntry(c) \/ TakeConsent(c) \/ BeginCapture(c) \/ AppendEntry(c) \/ OutliveRetention(c)

HistorySpec == HistoryInit /\ [][HistoryNext]_historyVars

(***************************************************************************)
(* What the user was promised.                                             *)
(***************************************************************************)

\* A capture that was under way when the user disabled, deleted, or enabled
\* history for somebody, is never stored afterwards, also when that operation
\* was cut off (begin and append compare the generation).
WithdrawnIsNotStored == stored \cap withdrawn = {}

\* What is on disk can be read again, whatever was cut off: no entry without
\* the settings and the key, and never more than the limits beyond which _files
\* refuses the whole directory.
HistoryIsReadable ==
    /\ stored # {} => settings # Nobody
    /\ settings # Nobody => deviceKey
    /\ Cardinality(stored) <= MaxHistory /\ TotalLength(stored) <= MaxHistoryBytes

\* What was withdrawn is not stored, and what is stored stays readable.
HistoryIsSound == WithdrawnIsNotStored /\ HistoryIsReadable

=============================================================================
