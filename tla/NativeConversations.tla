-------------------------- MODULE NativeConversations --------------------------
(***************************************************************************)
(* Native Codex requests (hormuz/native_codex_state.py and the handler in  *)
(* hormuz/native_codex_responses.py): a bounded number of handlers, one    *)
(* provider attempt per conversation, and a memory of what completed       *)
(* answers contained, without which a continuation is not sent.            *)
(*                                                                         *)
(* Each section under _lock is one step.  An answer's items are known by   *)
(* the request that got them, and a continuation by the answer it carries; *)
(* the several keys of one answer stand and fall together.                 *)
(***************************************************************************)
EXTENDS Naturals, SequencesExt, Subsequences

CONSTANTS
    Natives,      \* native requests
    Bindings,     \* identity, credential, destination, model and session
    BindingOf,
    Identified,   \* bindings with a conversation identifier
    MaxSlots,     \* native_catalog_slots
    MaxAffinity,  \* 1024 in the code
    Fresh         \* a request that continues nothing

ASSUME NativeAssumption ==
    /\ BindingOf \in [Natives -> Bindings] /\ Identified \subseteq Bindings
    /\ Fresh \notin Natives
    /\ MaxSlots \in Nat /\ MaxAffinity \in Nat \ {0}

VARIABLES
    native,    \* where the handler of a request stands
    carries,   \* the answer a request continues, or Fresh
    slots,     \* handlers that hold a slot
    leases,    \* _active
    affinity,  \* _affinity, the oldest deadline first; a key is its answer,
               \* the binding and whether the deadline has passed
    tally      \* the counters of the identity

nativeVars == <<native, carries, slots, leases, affinity, tally>>

Outcomes == {"succeeded", "failed", "outcome_unknown"}
NativePCs == {"new", "read", "permitted", "active", "completed", "done"} \cup Outcomes
Ending == Outcomes \cup {"completed"}
HasAttempt(r) == native[r] \in {"active"} \cup Ending

\* begin: the conversation's lease, or one nobody else can have.
LeaseOf(r) == IF BindingOf[r] \in Identified \/ carries[r] # Fresh THEN BindingOf[r] ELSE r

NativeTypeOK ==
    /\ native \in [Natives -> NativePCs]
    /\ carries \in [Natives -> Natives \cup {Fresh}]
    /\ slots \in 0 .. MaxSlots
    /\ leases \subseteq Bindings \cup Natives
    /\ affinity \in Seq([answer : Natives, binding : Bindings, old : BOOLEAN])
    /\ tally \in [{"requests", "active"} \cup Outcomes -> Nat]

NativeInit ==
    /\ native = [r \in Natives |-> "new"]
    /\ carries = [r \in Natives |-> Fresh]
    /\ slots = 0 /\ leases = {} /\ affinity = <<>>
    /\ tally = [c \in {"requests", "active"} \cup Outcomes |-> 0]

NativeGoto(r, label) == native' = [native EXCEPT ![r] = label]

\* Mistake: the slots are not counted against their limit.
AcceptNative_Unbounded(r) ==
    /\ native[r] = "new"
    /\ slots' = slots + 1
    /\ \E answer \in Natives \cup {Fresh} : carries' = [carries EXCEPT ![r] = answer]
    /\ NativeGoto(r, "read")
    /\ UNCHANGED <<leases, affinity, tally>>

\* Without a slot the request is answered 429 at once.
AcceptNative(r) ==
    /\ native[r] = "new"
    /\ \/ /\ slots < MaxSlots /\ slots' = slots + 1
          /\ \E answer \in Natives \cup {Fresh} : carries' = [carries EXCEPT ![r] = answer]
          /\ NativeGoto(r, "read")
       \/ /\ slots = MaxSlots /\ NativeGoto(r, "done")
          /\ UNCHANGED <<slots, carries>>
    /\ UNCHANGED <<leases, affinity, tally>>

\* The finally block of handle_native_responses.
ReleaseSlot(r) == slots' = slots - 1 /\ NativeGoto(r, "done")

\* Mistake: the memory is not bound to who was answered.
IsRetained_Anybody(r) ==
    \/ carries[r] = Fresh
    \/ \E i \in DOMAIN affinity : affinity[i].answer = carries[r] /\ ~affinity[i].old
IsRetained(r) ==
    \/ carries[r] = Fresh
    \/ \E i \in DOMAIN affinity : affinity[i] = [answer |-> carries[r],
                                                 binding |-> BindingOf[r], old |-> FALSE]

\* permits; validation, policy and redaction may refuse the request as well.
PermitNative(r) ==
    /\ native[r] = "read"
    /\ \/ IsRetained(r) /\ NativeGoto(r, "permitted") /\ UNCHANGED slots
       \/ ReleaseSlot(r)
    /\ UNCHANGED <<carries, leases, affinity, tally>>

\* Mistake: every attempt has a lease of its own.
BeginNative_OwnLease(r) ==
    /\ native[r] = "permitted"
    /\ leases' = leases \cup {r} /\ NativeGoto(r, "active") /\ UNCHANGED slots
    /\ tally' = [tally EXCEPT !["requests"] = @ + 1, !["active"] = @ + 1]
    /\ UNCHANGED <<carries, affinity>>

BeginNative(r) ==
    /\ native[r] = "permitted"
    /\ IF LeaseOf(r) \in leases
       THEN ReleaseSlot(r) /\ UNCHANGED <<leases, tally>>
       ELSE /\ leases' = leases \cup {LeaseOf(r)}
            /\ tally' = [tally EXCEPT !["requests"] = @ + 1, !["active"] = @ + 1]
            /\ NativeGoto(r, "active") /\ UNCHANGED slots
    /\ UNCHANGED <<carries, affinity>>

\* The terminal event of the stream, an error status, or a stream that is cut.
EndNative(r) ==
    /\ native[r] = "active"
    /\ \E label \in {"completed", "failed", "outcome_unknown"} : NativeGoto(r, label)
    /\ UNCHANGED <<carries, slots, leases, affinity, tally>>

\* The keys of other answers that have not expired.
Alive(key) ==
    SubsequenceAt(affinity, {i \in DOMAIN affinity : ~affinity[i].old /\ affinity[i].answer # key.answer})

\* Mistake: forgets the oldest before it adds the new ones.
Remembered_Early(key) ==
    Append(IF Len(Alive(key)) > MaxAffinity THEN Tail(Alive(key)) ELSE Alive(key), key)

\* The key becomes the newest, expired ones go, then the oldest beyond 1024.
Remembered(key) ==
    LET keys == Append(Alive(key), key)
    IN  IF Len(keys) > MaxAffinity THEN Tail(keys) ELSE keys

\* remember, before the outcome is counted; it may refuse what the answer holds.
RememberAnswer(r) ==
    /\ native[r] = "completed"
    /\ affinity' \in {affinity, Remembered([answer |-> r, binding |-> BindingOf[r], old |-> FALSE])}
    /\ NativeGoto(r, "succeeded")
    /\ UNCHANGED <<carries, slots, leases, tally>>

\* Mistake: a stream that was cut keeps its conversation.
FinishNative_KeepsUnknown(r) ==
    /\ native[r] \in Outcomes
    /\ leases' = IF native[r] = "outcome_unknown" THEN leases ELSE leases \ {LeaseOf(r)}
    /\ tally' = [tally EXCEPT !["active"] = @ - 1, ![native[r]] = @ + 1]
    /\ ReleaseSlot(r)
    /\ UNCHANGED <<carries, affinity>>

FinishNative(r) ==
    /\ native[r] \in Outcomes
    /\ leases' = leases \ {LeaseOf(r)}
    /\ tally' = [tally EXCEPT !["active"] = @ - 1, ![native[r]] = @ + 1]
    /\ ReleaseSlot(r)
    /\ UNCHANGED <<carries, affinity>>

\* 900 seconds pass for the oldest key that is still good.
ForgetOldest ==
    /\ \E i \in DOMAIN affinity :
           /\ \A k \in DOMAIN affinity : affinity[k].old <=> k < i
           /\ affinity' = [affinity EXCEPT ![i].old = TRUE]
    /\ UNCHANGED <<native, carries, slots, leases, tally>>

NativeNext ==
    \/ \E r \in Natives : \/ AcceptNative(r) \/ PermitNative(r) \/ BeginNative(r) \/ EndNative(r)
                          \/ RememberAnswer(r) \/ FinishNative(r)
    \/ ForgetOldest

NativeSpec == NativeInit /\ [][NativeNext]_nativeVars

(***************************************************************************)
(* What the native path promises.                                          *)
(***************************************************************************)

\* A conversation that can be recognized, by its identifier or by what it
\* continues, has one provider attempt at a time (begin and finish, over every
\* way an attempt ends).
OneAttemptPerConversation ==
    \A r, s \in Natives :
        HasAttempt(r) /\ HasAttempt(s) /\ r # s /\ BindingOf[r] = BindingOf[s] =>
            /\ BindingOf[r] \notin Identified
            /\ carries[r] = Fresh \/ carries[s] = Fresh

\* No way out of a handler leaves its slot, its lease or its count behind, so
\* that none is ever refused for an attempt that is over.
NothingIsLeaked ==
    /\ leases = {LeaseOf(r) : r \in {s \in Natives : HasAttempt(s)}}
    /\ tally["active"] = Cardinality({r \in Natives : HasAttempt(r)})
    /\ tally["requests"] = tally["active"] + tally["succeeded"] + tally["failed"]
                               + tally["outcome_unknown"]
    /\ slots = Cardinality({r \in Natives : native[r] \notin {"new", "done"}})

\* What is sent on continues an answer that was completed for the same binding,
\* and the memory that says so is bounded.
ContinuesItsOwn ==
    /\ \A r \in Natives : HasAttempt(r) /\ carries[r] # Fresh =>
           /\ BindingOf[carries[r]] = BindingOf[r]
           /\ native[carries[r]] \in {"succeeded", "done"}
    /\ Len(affinity) <= MaxAffinity

\* No slot, lease or attempt outlives its handler, and an answer is continued by its own conversation only.
NativeIsSound == NothingIsLeaked /\ ContinuesItsOwn

================================================================================
