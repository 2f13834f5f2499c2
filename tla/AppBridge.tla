------------------------------- MODULE AppBridge -------------------------------
(***************************************************************************)
(* The adapter that sits between the Codex app and its unchanged engine.   *)
(* Every request of the app is a task of its own; one reader takes what    *)
(* the engine writes.  A turn whose model belongs to another provider than *)
(* its chat is bound to unloads the chat and resumes it under that         *)
(* provider.  A choice of a local model as the default is kept beside the  *)
(* engine's own settings.  Calls to the engine can time out and be         *)
(* answered later.                                                         *)
(*                                                                         *)
(* One chat; a request is the index of its task.  The record a chat has in *)
(* the bridge is an object with a lock: `records` is the objects made so   *)
(* far, the last one being the one the bridge looks up.                    *)
(***************************************************************************)
EXTENDS Naturals, FiniteSets, Sequences

CONSTANTS
    BridgeRequests,     \* requests of the app
    NoTurn,             \* no request
    MaxBridgeTimeouts,  \* bound: calls that time out
    MaxRecords,         \* bound: records of the chat
    MaxTurnsAtOnce,     \* turns of the chat the app leaves unanswered at a time
    SavedBefore         \* the default on file when the bridge starts

ASSUME BridgeAssumption ==
    /\ NoTurn \notin BridgeRequests /\ IsFiniteSet(BridgeRequests)
    /\ MaxBridgeTimeouts \in Nat /\ MaxRecords \in Nat /\ MaxTurnsAtOnce \in Nat
    /\ SavedBefore \in {"native", "local"}

VARIABLES
    tasks,       \* per request, the task that handles it
    records,     \* the records of the chat
    toEngine,    \* what the engine has not read yet
    toBridge,    \* what the reader has not read yet
    delivering,  \* the request whose answer the reader waits for
    engine,      \* the chat in the engine: provider, loaded, the turn that runs, the writes it made
    switch,      \* the manifest says enabled; the bridge believes so ("file", "known")
    selection,   \* the local default, "local" or none ("native"): in effect, on file (`model`, `filed`);
                 \* history: the writes of the effort alone that another write went by (`crossed`)
    seen,        \* what the app was sent, in order
    lapses       \* history: calls that timed out

bridgeVars == <<tasks, records, toEngine, toBridge, delivering, engine, switch, selection, seen, lapses>>

Task(at, kind, model, record, provider) ==
    [at |-> at, kind |-> kind, model |-> model, record |-> record, provider |-> provider, got |-> "none"]
Idle == Task("idle", "none", "none", 0, "none")
Calls == {"unsubscribe", "resume", "turn", "save"}
Current == Len(records)
Call(request, what, model) == [request |-> request, what |-> what, model |-> model]

\* The identifiers that are pending: one call per task.
Pending(request, what) == tasks[request].at = what /\ tasks[request].got = "none"

\* Mistake: the reader does not wait until an answer is passed on.
Ordered_Never(what) == FALSE
Ordered(what) == what \in {"turn", "save"}

-----------------------------------------------------------------------------
BridgeInit ==
    /\ tasks = [request \in BridgeRequests |-> Idle]
    /\ records = <<[provider |-> "native", busy |-> FALSE, lock |-> NoTurn]>>
    /\ toEngine = <<>> /\ toBridge = <<>> /\ delivering = NoTurn
    /\ engine = [provider |-> "native", loaded |-> TRUE, turn |-> NoTurn, saves |-> <<>>]
    /\ switch = [file |-> TRUE, known |-> TRUE]
    /\ selection = [model |-> SavedBefore, filed |-> SavedBefore, crossed |-> {}]
    /\ seen = <<>> /\ lapses = {}

Unanswered(kind) == {request \in BridgeRequests : tasks[request].kind = kind
                       /\ tasks[request].at \notin {"idle", "done"}}

-----------------------------------------------------------------------------
(* handle: a request arrives and runs to its first wait.                   *)

Answer(request, how) == seen' = Append(seen, [request |-> request, what |-> how])
CallEnds(request) == tasks' = [tasks EXCEPT ![request].at = "done"]
Delivered(request) == delivering' = IF delivering = request THEN NoTurn ELSE delivering

\* Whatever arrives, the manifest is read again first.
Refreshed == switch' = [switch EXCEPT !.known = switch.file]

\* A turn looks its chat up before it waits for the lock of the record.
TurnArrives(request, model) ==
    /\ tasks[request] = Idle /\ Cardinality(Unanswered("turn")) < MaxTurnsAtOnce
    /\ tasks' = [tasks EXCEPT ![request] = Task("lock", "turn", model, Current, "none")]
    /\ Refreshed
    /\ UNCHANGED <<records, toEngine, toBridge, delivering, engine, selection, seen, lapses>>

\* filter_selection_write: a local model stays here, a native one goes to the engine's settings.  A
\* write of the effort alone goes with the model it finds, and if that is local it carries the whole
\* selection, model included.  Once the bridge is off, a local model is refused and the rest is none of
\* its business; a local preference that it does not know is refused too.
SaveArrives(request, named) ==
    LET carried == IF named = "effort" THEN selection.model ELSE named
        kept == switch.file /\ (named = "effort" => carried = "local")
        kind == IF named = "effort" THEN "effort" ELSE "save"
    IN  /\ tasks[request] = Idle /\ Refreshed
        /\ \/ /\ switch.file \/ named # "local"
              /\ tasks' = [tasks EXCEPT ![request] =
                   Task("save", kind, carried, 0, IF kept THEN "kept" ELSE "none")]
              /\ toEngine' = Append(toEngine, Call(request, "save", carried)) /\ UNCHANGED seen
           \/ /\ carried = "local" /\ (switch.file \/ named = "local")
              /\ tasks' = [tasks EXCEPT ![request] = Task("done", kind, carried, 0, "none")]
              /\ Answer(request, "refused") /\ UNCHANGED toEngine
        /\ UNCHANGED <<records, toBridge, delivering, engine, selection, lapses>>

\* disable_bridge, in another process.
SwitchOff ==
    /\ switch.file /\ switch' = [switch EXCEPT !.file = FALSE]
    /\ UNCHANGED <<tasks, records, toEngine, toBridge, delivering, engine, selection, seen, lapses>>

\* prepare_turn: under the lock, the model of the turn decides on the provider.
Wanted(request, record) == IF tasks[request].model = "same" THEN record.provider ELSE tasks[request].model

\* The next call of a turn goes out, and its task waits for the answer.
Calling(task, what, provider) == [task EXCEPT !.at = what, !.provider = provider, !.got = "none"]
Sends(request, what, provider) ==
    /\ tasks' = [tasks EXCEPT ![request] = Calling(tasks[request], what, provider)]
    /\ toEngine' = Append(toEngine, Call(request, what, provider))

PrepareTurn(request) ==
    LET at == tasks[request].record
        record == records[at]
        wanted == Wanted(request, record)
        allowed == wanted = "local" => switch.known
    IN  /\ tasks[request].at = "lock" /\ record.lock = NoTurn
        /\ \/ /\ allowed /\ wanted = record.provider
              /\ records' = [records EXCEPT ![at].busy = TRUE]
              /\ Sends(request, "turn", wanted)
              /\ UNCHANGED seen
           \/ /\ ~allowed \/ (wanted # record.provider /\ record.busy)
              /\ Answer(request, "refused") /\ CallEnds(request) /\ UNCHANGED <<records, toEngine>>
           \/ /\ allowed /\ wanted # record.provider /\ ~record.busy /\ Len(records) < MaxRecords
              /\ records' = [records EXCEPT ![at].lock = request]
              /\ Sends(request, "unsubscribe", wanted)
              /\ UNCHANGED seen
        /\ UNCHANGED <<toBridge, delivering, engine, switch, selection, lapses>>

Unlocked(request) == [i \in DOMAIN records |->
                        [records[i] EXCEPT !.lock = IF @ = request THEN NoTurn ELSE @]]

\* Mistake: a chat that was resumed keeps the record it had.
RememberedChat_Old(request, provider) == [i \in DOMAIN records |->
    [Unlocked(request)[i] EXCEPT !.busy = IF i = tasks[request].record THEN TRUE ELSE @]]

\* remember makes a new record; the turn then goes on with it, and marks that one busy.
RememberedChat(request, provider) ==
    Append(Unlocked(request), [provider |-> provider, busy |-> TRUE, lock |-> NoTurn])

\* An answer that is not what was asked for ends the request; the lock is released.
Rebind(request) ==
    LET task == tasks[request]
        ok == task.got = "ok"
    IN  /\ task.at \in {"unsubscribe", "resume"} /\ task.got # "none"
        /\ \/ /\ ok /\ task.at = "unsubscribe"
              /\ Sends(request, "resume", task.provider)
              /\ UNCHANGED <<records, seen>>
           \/ /\ ok /\ task.at = "resume"
              /\ records' = RememberedChat(request, task.provider)
              /\ Sends(request, "turn", task.provider)
              /\ UNCHANGED seen
           \/ /\ ~ok /\ records' = Unlocked(request)
              /\ Answer(request, "refused") /\ CallEnds(request) /\ UNCHANGED toEngine
        /\ UNCHANGED <<toBridge, delivering, engine, switch, selection, lapses>>

\* What a write carried comes into effect, and every write of the effort that waits has found another.
Crossed(request) == {other \in BridgeRequests \ {request} : tasks[other].kind = "effort" /\ tasks[other].at = "save"}
Selected(request) ==
    [selection EXCEPT !.model = tasks[request].model, !.crossed = @ \cup Crossed(request)]

\* The answer to the call that carries the request: passed on, and what it settles is noted.  A selection
\* is in effect before it is filed, and when it cannot be the app is sent an error.
PassOn(request) ==
    LET task == tasks[request]
    IN  /\ task.at \in {"turn", "save"} /\ task.got # "none"
        /\ records' = IF task.at = "turn" /\ task.got = "error"
                      THEN [records EXCEPT ![Current].busy = FALSE] ELSE records
        /\ \/ /\ task.provider = "kept" /\ task.got = "ok"
              /\ \/ /\ selection' = [Selected(request) EXCEPT !.filed = task.model]
                    /\ Answer(request, "ok")
                 \/ selection' = Selected(request) /\ Answer(request, "refused")
           \/ /\ ~(task.provider = "kept" /\ task.got = "ok")
              /\ Answer(request, task.got) /\ UNCHANGED selection
        /\ CallEnds(request) /\ Delivered(request)
        /\ UNCHANGED <<toEngine, toBridge, engine, switch, lapses>>

\* Forty-five seconds without an answer: the request is refused, and the call stays with the engine.
TimesOut(request) ==
    /\ tasks[request].at \in Calls /\ tasks[request].got = "none"
    /\ Cardinality(lapses) < MaxBridgeTimeouts
    /\ lapses' = lapses \cup {request}
    /\ records' = Unlocked(request)
    /\ Answer(request, "refused") /\ CallEnds(request)
    /\ UNCHANGED <<toEngine, toBridge, delivering, engine, switch, selection>>

-----------------------------------------------------------------------------
(* read_native: one message at a time.                                     *)

ReadNative ==
    LET message == Head(toBridge)
        request == message.request
    IN  /\ toBridge # <<>> /\ delivering = NoTurn
        /\ toBridge' = Tail(toBridge)
        /\ \/ /\ message.what \in Calls /\ Pending(request, message.what)
              /\ tasks' = [tasks EXCEPT ![request].got = message.got]
              /\ delivering' = IF Ordered(message.what) THEN request ELSE NoTurn
              /\ UNCHANGED <<records, seen>>
           \/ /\ message.what \in Calls /\ ~Pending(request, message.what)
              /\ UNCHANGED <<tasks, delivering, records, seen>>
           \/ /\ message.what \in {"started", "completed"}
              /\ records' = [records EXCEPT ![Current].busy = (message.what = "started")]
              /\ Answer(request, message.what)
              /\ UNCHANGED <<tasks, delivering>>
        /\ UNCHANGED <<toEngine, engine, switch, selection, lapses>>

-----------------------------------------------------------------------------
(* The engine, as the bridge uses it: requests in order, answers in order. *)

Says(request, what, got) == [request |-> request, what |-> what, got |-> got]

EngineAnswers ==
    LET call == Head(toEngine)
        Done(got) == toBridge' = Append(toBridge, Says(call.request, call.what, got))
    IN  /\ toEngine # <<>> /\ toEngine' = Tail(toEngine)
        /\ \/ /\ call.what = "save"
              /\ engine' = [engine EXCEPT !.saves = Append(@, call.request)]
              /\ Done("ok")
           \/ /\ call.what = "unsubscribe" /\ engine.loaded
              /\ engine' = [engine EXCEPT !.loaded = FALSE] /\ Done("ok")
           \/ /\ call.what = "resume"
              /\ engine' = [engine EXCEPT !.loaded = TRUE, !.provider = call.model] /\ Done("ok")
           \/ /\ call.what = "turn" /\ engine.loaded /\ engine.turn = NoTurn
              /\ engine' = [engine EXCEPT !.turn = call.request]
              /\ toBridge' = toBridge \o <<Says(call.request, "turn", "ok"), Says(call.request, "started", "ok")>>
           \/ /\ call.what = "unsubscribe" => ~engine.loaded
              /\ call.what \in {"unsubscribe", "turn", "save"}
              /\ UNCHANGED engine /\ Done("error")
        /\ UNCHANGED <<tasks, records, delivering, switch, selection, seen, lapses>>

EngineCompletes ==
    /\ engine.turn # NoTurn
    /\ engine' = [engine EXCEPT !.turn = NoTurn]
    /\ toBridge' = Append(toBridge, Says(engine.turn, "completed", "ok"))
    /\ UNCHANGED <<tasks, records, toEngine, delivering, switch, selection, seen, lapses>>

BridgeNext ==
    \/ \E request \in BridgeRequests, model \in {"native", "local", "same"} : TurnArrives(request, model)
    \/ \E request \in BridgeRequests, named \in {"native", "local", "effort"} : SaveArrives(request, named)
    \/ \E request \in BridgeRequests : PrepareTurn(request) \/ Rebind(request) \/ PassOn(request)
                                         \/ TimesOut(request)
    \/ SwitchOff \/ ReadNative \/ EngineAnswers \/ EngineCompletes

BridgeSpec == BridgeInit /\ [][BridgeNext]_bridgeVars

-----------------------------------------------------------------------------
BridgeTypeOK ==
    /\ \A request \in BridgeRequests :
         /\ tasks[request].at \in {"idle", "lock", "done"} \cup Calls
         /\ tasks[request].record \in 0..Len(records)
    /\ \A i \in DOMAIN records : records[i].provider \in {"native", "local"} /\ records[i].busy \in BOOLEAN
    /\ delivering \in BridgeRequests \cup {NoTurn}
    /\ switch \in [file : BOOLEAN, known : BOOLEAN]
    /\ {selection.model, selection.filed} \subseteq {"native", "local"} /\ selection.crossed \subseteq BridgeRequests
    /\ lapses \subseteq BridgeRequests

Written(request, whats) == {i \in DOMAIN seen : seen[i].request = request /\ seen[i].what \in whats}
Answers == {"ok", "error", "refused"}

\* The app gets one answer to a request, and has it before it hears that the turn it asked for has
\* begun or ended, whether the answer came in time or the call had been given up by then.
AnswerComesFirst ==
    \A request \in BridgeRequests :
       /\ Cardinality(Written(request, Answers)) <= 1
       /\ \A i \in Written(request, {"started", "completed"}) : \E j \in Written(request, Answers) : j < i

\* While no call has been given up and the app waits for the answer to a turn before it sends the
\* next, the engine runs every turn under the provider of the model it names.
TurnFitsItsProvider ==
    [][(lapses = {} /\ MaxTurnsAtOnce = 1 /\ engine'.turn \notin {engine.turn, NoTurn}) =>
         engine'.provider = tasks[engine'.turn].provider]_bridgeVars

\* What "Provider changes require an idle persistent chat" (codex_app_bridge.py:246) means, and
\* turns that overlap break: the end of one turn, or its error, clears the mark of another that
\* runs.  It is stated here and is not a promise of the bridge.
RebindsIdleChats == [][engine'.provider # engine.provider => engine.turn = NoTurn]_bridgeVars

\* What the last of some of the engine's writes carried, or what there was before.
LastCarried(writes) ==
    IF writes = {} THEN SavedBefore ELSE tasks[engine.saves[CHOOSE i \in writes : \A j \in writes : j <= i]].model

\* The writes that the engine made and the bridge kept, and those of them the app was told had succeeded.
Kept == {i \in DOMAIN engine.saves : LET task == tasks[engine.saves[i]]
                                     IN  task.at = "done" /\ task.got = "ok" /\ task.provider = "kept"}
Filed == {i \in Kept : Written(engine.saves[i], {"ok"}) # {}}

\* In the order the engine made the writes, though each decides on its own part before it waits: the
\* default on file is what the last write carried that the app was told had succeeded, and the default
\* in effect is the model that the last write named, told or not, for want of a file, an error.  A write
\* of the effort alone changes no model; but one that waited while another write was answered brings
\* back the model it found when it arrived, and is then the last.
SavedIsKept ==
    /\ selection.filed = LastCarried(Filed)
    /\ selection.model = LastCarried({i \in Kept : \/ tasks[engine.saves[i]].kind = "save"
                                                  \/ engine.saves[i] \in selection.crossed})

\* The bridge keeps the order of an answer and its notifications, what it saved, and the provider of a turn.
BridgeIsSound == [](AnswerComesFirst /\ SavedIsKept) /\ TurnFitsItsProvider

================================================================================
