----------------------------- MODULE AnswerCache -----------------------------
(***************************************************************************)
(* Exact answer reuse (hormuz/work_runtime.py 1594-1706 and its callers in *)
(* hormuz/work_gateway.py): handler threads look an answer up, or ask the  *)
(* provider and keep what it said, while corrections, stops and repeated   *)
(* use retire the answers of a job.  A database transaction and a section  *)
(* under _cache_lock are each one step; between them anything may happen.  *)
(*                                                                         *)
(* Every request asks the same question, so an entry is known by its job   *)
(* and the generation in its key.                                          *)
(***************************************************************************)
EXTENDS Naturals, SequencesExt, Subsequences

CONSTANTS
    Jobs,
    Requests,    \* requests that may be answered from the cache
    JobOf,       \* the job of a request
    SizeOf,      \* bytes of the answer a request gets
    MaxEntries, MaxBytes,
    MaxGen,      \* bound: generations of a job
    None

ASSUME CacheAssumption ==
    /\ JobOf \in [Requests -> Jobs] /\ None \notin Requests
    /\ MaxEntries \in Nat \ {0} /\ {MaxBytes, MaxGen} \subseteq Nat
    /\ SizeOf \in [Requests -> 1 .. MaxBytes]

VARIABLES
    gen,       \* cache_generation of a job, in the ledger
    active,    \* state = 'active', in the ledger
    evictions, \* evictions of a job that are still to come after their commit
    cache,     \* _cache, the least recently used entry first
    size,      \* _cache_size
    closed,    \* _closed
    cleared,   \* close() has emptied the cache
    pc, asked, \* the handler; the generation it was prepared in
    key,       \* the generation in the cache key it computed
    found      \* the entry's origin, or None

memory == <<cache, size, closed, cleared>>
handler == <<pc, asked, key, found>>
cacheVars == <<gen, active, evictions, cache, size, closed, cleared, pc, asked, key, found>>

\* Whose answer it is, and whether its time to live has passed.
Entry == [job : Jobs, gen : 0 .. MaxGen, by : Requests, old : BOOLEAN]

PCs == {"new", "identify", "get", "reserve", "served", "provider", "put", "store", "done"}

CacheTypeOK ==
    /\ gen \in [Jobs -> 0 .. MaxGen]
    /\ active \in [Jobs -> BOOLEAN]
    /\ evictions \in [Jobs -> 0 .. MaxGen]
    /\ cache \in Seq(Entry)
    /\ size \in Nat
    /\ closed \in BOOLEAN /\ cleared \in BOOLEAN
    /\ pc \in [Requests -> PCs]
    /\ asked \in [Requests -> 0 .. MaxGen]
    /\ key \in [Requests -> 0 .. MaxGen]
    /\ found \in [Requests -> Requests \cup {None}]

CacheInit ==
    /\ gen = [j \in Jobs |-> 0]
    /\ active = [j \in Jobs |-> TRUE]
    /\ evictions = [j \in Jobs |-> 0]
    /\ cache = <<>>
    /\ size = 0
    /\ closed = FALSE /\ cleared = FALSE
    /\ pc = [r \in Requests |-> "new"]
    /\ asked = [r \in Requests |-> 0]
    /\ key = [r \in Requests |-> 0]
    /\ found = [r \in Requests |-> None]

Goto(r, label) == pc' = [pc EXCEPT ![r] = label]

Bytes(entries) ==
    SumFunctionOnSet([i \in DOMAIN entries |-> SizeOf[entries[i].by]], DOMAIN entries)

PlacesOf(j) == {i \in DOMAIN cache : cache[i].job = j}

(***************************************************************************)
(* What retires the answers of a job.                                      *)
(***************************************************************************)

\* The commit of a correction, a reopening, a cancellation, a stop, an
\* invalidation or a repeated request; the caller evicts afterwards.
Retire(j) ==
    /\ gen[j] < MaxGen
    /\ gen' = [gen EXCEPT ![j] = @ + 1]
    /\ active' \in {active, [active EXCEPT ![j] = ~@]}
    /\ evictions' = [evictions EXCEPT ![j] = @ + 1]
    /\ UNCHANGED <<memory, handler>>

\* Pause, resume, completion.
ChangeState(j) ==
    /\ active' = [active EXCEPT ![j] = ~@]
    /\ UNCHANGED <<gen, evictions, memory, handler>>

\* Mistake: resets the count of bytes although other jobs keep their entries.
EvictWork_ResetsSize(j) ==
    /\ evictions[j] > 0
    /\ evictions' = [evictions EXCEPT ![j] = @ - 1]
    /\ cache' = SubsequenceAt(cache, DOMAIN cache \ PlacesOf(j))
    /\ size' = 0
    /\ UNCHANGED <<gen, active, closed, cleared, handler>>

EvictWork(j) ==
    /\ evictions[j] > 0
    /\ evictions' = [evictions EXCEPT ![j] = @ - 1]
    /\ cache' = SubsequenceAt(cache, DOMAIN cache \ PlacesOf(j))
    /\ size' = size - Bytes(SubsequenceAt(cache, PlacesOf(j)))
    /\ UNCHANGED <<gen, active, closed, cleared, handler>>

\* Time passes an entry's time to live.
Expire(i) ==
    /\ i \in DOMAIN cache
    /\ ~cache[i].old
    /\ cache' = [cache EXCEPT ![i].old = TRUE]
    /\ UNCHANGED <<gen, active, evictions, size, closed, cleared, handler>>

(***************************************************************************)
(* A request.                                                              *)
(***************************************************************************)

\* prepare captures the generation before anything is sent.
Prepare(r) ==
    /\ pc[r] = "new"
    /\ asked' = [asked EXCEPT ![r] = gen[JobOf[r]]]
    /\ Goto(r, "identify")
    /\ UNCHANGED <<gen, active, evictions, memory, key, found>>

\* cache_get: the key is computed in one transaction ...
Identify(r) ==
    /\ pc[r] = "identify"
    /\ key' = [key EXCEPT ![r] = gen[JobOf[r]]]
    /\ Goto(r, IF active[JobOf[r]] THEN "get" ELSE "provider")
    /\ UNCHANGED <<gen, active, evictions, memory, asked, found>>

Match(e, r) == e.job = JobOf[r] /\ e.gen = key[r]

Without(r) == SubsequenceAt(cache, {i \in DOMAIN cache : ~Match(cache[i], r)})

Usable(r) == SubsequenceAt(cache, {i \in DOMAIN cache : ~Match(cache[i], r) /\ ~cache[i].old})

\* ... and the entry is read under the lock, which deletes it once it expired.
Get(r) ==
    /\ pc[r] = "get"
    /\ \/ /\ \A i \in DOMAIN cache : ~Match(cache[i], r)
          /\ Goto(r, "provider")
          /\ UNCHANGED <<cache, size, found>>
       \/ \E i \in DOMAIN cache :
             /\ Match(cache[i], r) /\ cache[i].old
             /\ cache' = Without(r)
             /\ size' = size - SizeOf[cache[i].by]
             /\ Goto(r, "provider")
             /\ UNCHANGED found
       \/ \E i \in DOMAIN cache :
             /\ Match(cache[i], r) /\ ~cache[i].old
             /\ cache' = Append(Without(r), cache[i])
             /\ found' = [found EXCEPT ![r] = cache[i].by]
             /\ Goto(r, "reserve")
             /\ UNCHANGED size
    /\ UNCHANGED <<gen, active, evictions, closed, cleared, asked, key>>

\* Mistake: the answer is served without asking whether it was retired meanwhile.
ReserveHit_Unchecked(r) ==
    /\ pc[r] = "reserve"
    /\ Goto(r, IF active[JobOf[r]] THEN "served" ELSE "done")
    /\ key' = [key EXCEPT ![r] = gen[JobOf[r]]]
    /\ UNCHANGED <<gen, active, evictions, memory, asked, found>>

\* The hit is admitted in a transaction that compares the generation again; a
\* changed one sends the request to the provider, an inactive job refuses it.
ReserveHit(r) ==
    /\ pc[r] = "reserve"
    /\ Goto(r, IF gen[JobOf[r]] # key[r] THEN "provider"
               ELSE IF active[JobOf[r]] THEN "served" ELSE "done")
    /\ UNCHANGED <<gen, active, evictions, memory, asked, key, found>>

\* The provider's answer is in; the reservation needed an active job.
Answer(r) ==
    /\ pc[r] = "provider"
    /\ \/ Goto(r, "put")
       \/ Goto(r, "done")   \* refused, failed, or an answer that is not reused
    /\ UNCHANGED <<gen, active, evictions, memory, asked, key, found>>

\* cache_put: the key, if the generation the request was prepared in still holds.
IdentifyPut(r) ==
    /\ pc[r] = "put"
    /\ LET j == JobOf[r]
       IN  IF gen[j] = asked[r] /\ active[j]
           THEN /\ key' = [key EXCEPT ![r] = gen[j]]
                /\ Goto(r, "store")
           ELSE Goto(r, "done") /\ UNCHANGED key
    /\ UNCHANGED <<gen, active, evictions, memory, asked, found>>

\* Mistake: makes room for the entry but not for its bytes.
Room_CountOnly(entries, r) ==
    SubSeq(entries, Max({0, Len(entries) - MaxEntries + 1}) + 1, Len(entries))

\* The least recently used entries go until there is room for one more.
Room(entries, r) ==
    LET fits == {n \in 0 .. Len(entries) :
                    LET rest == SubSeq(entries, n + 1, Len(entries))
                    IN  Len(rest) < MaxEntries /\ Bytes(rest) + SizeOf[r] <= MaxBytes}
    IN  SubSeq(entries, Min(fits) + 1, Len(entries))

\* Mistake: trusts the generation that was read before.
Store_Unchecked(r) ==
    /\ pc[r] = "store"
    /\ LET kept == Room(Usable(r), r)
       IN  IF closed THEN UNCHANGED <<cache, size>>
           ELSE /\ cache' = Append(kept, [job |-> JobOf[r], gen |-> key[r], by |-> r, old |-> FALSE])
                /\ size' = Bytes(kept) + SizeOf[r]
    /\ Goto(r, "done")
    /\ UNCHANGED <<gen, active, evictions, closed, cleared, asked, key, found>>

\* Mistake: a closed runtime still takes an answer.
Store_AfterClose(r) ==
    /\ pc[r] = "store"
    /\ LET kept == Room(Usable(r), r)
           j    == JobOf[r]
       IN  IF gen[j] # key[r] \/ ~active[j] THEN UNCHANGED <<cache, size>>
           ELSE /\ cache' = Append(kept, [job |-> j, gen |-> key[r], by |-> r, old |-> FALSE])
                /\ size' = Bytes(kept) + SizeOf[r]
    /\ Goto(r, "done")
    /\ UNCHANGED <<gen, active, evictions, closed, cleared, asked, key, found>>

\* The lock is taken inside a write transaction that compares the generation
\* again: no correction commits between the comparison and the insertion.
Store(r) ==
    /\ pc[r] = "store"
    /\ LET kept == Room(Usable(r), r)
           gone == Bytes(cache) - Bytes(kept)
           j    == JobOf[r]
       IN  IF gen[j] # key[r] \/ ~active[j] \/ closed THEN UNCHANGED <<cache, size>>
           ELSE /\ cache' = Append(kept, [job |-> j, gen |-> key[r], by |-> r, old |-> FALSE])
                /\ size' = (size - gone) + SizeOf[r]
    /\ Goto(r, "done")
    /\ UNCHANGED <<gen, active, evictions, closed, cleared, asked, key, found>>

(***************************************************************************)
(* The end of the runtime.                                                 *)
(***************************************************************************)

Close ==
    /\ ~closed
    /\ closed' = TRUE
    /\ UNCHANGED <<gen, active, evictions, cache, size, cleared, handler>>

Clear ==
    /\ closed /\ ~cleared
    /\ cleared' = TRUE
    /\ cache' = <<>>
    /\ size' = 0
    /\ UNCHANGED <<gen, active, evictions, closed, handler>>

CacheNext ==
    \/ \E j \in Jobs : Retire(j) \/ ChangeState(j) \/ EvictWork(j)
    \/ \E r \in Requests :
          \/ Prepare(r) \/ Identify(r) \/ Get(r) \/ ReserveHit(r)
          \/ Answer(r) \/ IdentifyPut(r) \/ Store(r)
    \/ \E i \in 1 .. MaxEntries : Expire(i)
    \/ Close \/ Clear

CacheSpec == CacheInit /\ [][CacheNext]_cacheVars

(***************************************************************************)
(* What reuse promises.                                                    *)
(***************************************************************************)

\* A request admitted as a cache hit gets an answer that was asked for in the
\* very generation it is admitted in: no correction, stop or repetition lies
\* between the two, wherever the two handlers were when it committed.
RetiredAnswerIsNotServed == \A r \in Requests : pc[r] = "served" => asked[found[r]] = key[r]

\* Once the caller that retired a job's answers has evicted, none of them is in
\* memory, not even one that was being stored meanwhile.
RetiredAnswerIsNotKept ==
    \A j \in Jobs : evictions[j] = 0 =>
        \A i \in DOMAIN cache : cache[i].job = j => cache[i].gen = gen[j]

\* The count of bytes is exact and within its bound, as is the number of entries,
\* and no key is there twice; what close() has released, no late answer brings
\* back.
MemoryIsBounded ==
    /\ size = Bytes(cache) /\ size <= MaxBytes
    /\ Len(cache) <= MaxEntries
    /\ \A i, k \in DOMAIN cache :
          i # k => <<cache[i].job, cache[i].gen>> # <<cache[k].job, cache[k].gen>>
    /\ cleared => cache = <<>>

\* The cache neither serves nor keeps a retired answer, and its memory is bounded and counted.
CacheIsSound == RetiredAnswerIsNotServed /\ RetiredAnswerIsNotKept /\ MemoryIsBounded

==============================================================================
