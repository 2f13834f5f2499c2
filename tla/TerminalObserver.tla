---------------------------- MODULE TerminalObserver ----------------------------
(***************************************************************************)
(* The two observers that decide, while an answer streams past, whether it *)
(* was a complete successful response: the one of AI work, for the three   *)
(* protocols, and the one of native Codex, which also ends the stream.     *)
(* Both read lines as they come: the header and the data of an event, and  *)
(* the blank line that closes it.  The data of an event are one line, as   *)
(* the three protocols send them; events of several are left out.          *)
(*                                                                         *)
(* A datum is its kind.  Whether the tokens and the pricing mode of the    *)
(* answer are known is FinanceEvidence's question: here they are, unless a *)
(* datum cannot be read.                                                   *)
(***************************************************************************)
EXTENDS Naturals, Sequences

CONSTANTS
    Streams,        \* protocols observed: "responses", "chat", "messages"
    MaxEvents       \* bound: events of an answer

ASSUME ObserverAssumption == Streams \subseteq {"responses", "chat", "messages"} /\ MaxEvents \in Nat

VARIABLES
    stream,     \* the protocol of this answer
    events,     \* history: what was sent, an event each
    work,       \* the work observer
    nativeState      \* the native Codex observer: its terminal state, response and pending event

observerVars == <<stream, events, work, nativeState>>

\* What a datum can be.  "foreign" is an event of another response; "other" is no event of the
\* protocol; "garbled" cannot be read; "cut" ends an answer that was cut short.
Data == [responses |-> {"progress", "foreign", "other", "completed", "cut", "garbled", "done"},
         chat |-> {"chunk", "finish", "cut", "usage", "empty", "other", "garbled", "done"},
         messages |-> {"start", "block", "delta", "final", "cut", "stop", "ping", "other", "garbled", "done"}]
Silent == "none"

ObserverInit ==
    /\ stream \in Streams
    /\ events = <<>>
    /\ work = [observed |-> FALSE, invalid |-> FALSE, phase |-> "awaiting", done |-> FALSE,
               suffix |-> FALSE, completed |-> FALSE, open |-> FALSE]
    /\ nativeState = [state |-> "open", invalid |-> FALSE, response |-> "unknown", header |-> Silent, datum |-> Silent]

Latest == events[Len(events)]

-----------------------------------------------------------------------------
(* WorkUsageParser, over the lines.                                        *)

\* Mistake: a header of a further event is read over once an answer is finished.
HeaderRejected_Never(header) == header = "error"

\* A header after the end of an answer, or of a failure, disqualifies it.
HeaderRejected(header) ==
    \/ header = "error"
    \/ stream = "responses" /\ work.observed
    \/ stream = "messages" /\ work.phase = "stopped"
    \/ stream = "messages" /\ work.phase = "terminal" /\ header \notin {"ping", "stop"}
    \/ stream = "chat" /\ (work.observed \/ work.done)

Rejected(observer) == [observer EXCEPT !.invalid = TRUE]
RejectedIf(observer, condition) == IF condition THEN Rejected(observer) ELSE observer
Finished(observer) == [observer EXCEPT !.observed = TRUE]
Completed(observer) == [observer EXCEPT !.completed = TRUE]

\* [DONE] ends a chat, once, after its choice has finished; no other protocol has it.
Done(observer) ==
    LET done == [observer EXCEPT !.done = TRUE]
    IN  RejectedIf(Completed(done), stream # "chat" \/ ~observer.observed \/ observer.done)

\* One completed response, with nothing of it after.
ObserveResponses(observer, datum) ==
    IF observer.observed \/ datum = "other" THEN Rejected(observer)
    ELSE IF datum \in {"progress", "foreign"} THEN observer
    ELSE IF datum = "cut" THEN Rejected(Finished(observer)) ELSE Completed(Finished(observer))

\* Chunks of one choice until it finishes; then at most one that only has the usage.
ObserveChat(observer, datum) ==
    LET suffixed == [observer EXCEPT !.suffix = TRUE]
    IN  IF observer.done \/ datum = "other" THEN Rejected(observer)
        ELSE IF datum \in {"usage", "empty"}
        THEN RejectedIf(suffixed, ~observer.observed \/ observer.suffix \/ datum = "empty")
        ELSE IF observer.observed THEN Rejected(observer)
        ELSE IF datum = "chunk" THEN observer ELSE RejectedIf(Finished(observer), datum = "cut")

\* The phases of a message, and what may come in each; a ping may always come but after the end.
Phases == [awaiting |-> [start |-> "active"],
           active |-> [block |-> "active", delta |-> "metadata", final |-> "terminal", cut |-> "terminal"],
           metadata |-> [delta |-> "metadata", final |-> "terminal", cut |-> "terminal"],
           terminal |-> [stop |-> "stopped"], stopped |-> <<>>]

ObserveMessages(observer, datum) ==
    LET next == Phases[observer.phase]
        after == IF datum = "stop" THEN Completed(observer) ELSE observer
        moved == [after EXCEPT !.phase = next[datum]]
    IN  IF datum = "ping" THEN RejectedIf(observer, observer.phase = "stopped")
        ELSE IF datum \notin DOMAIN next THEN Rejected(after)
        ELSE IF datum \in {"final", "cut"} THEN RejectedIf(Finished(moved), datum = "cut") ELSE moved

Observe(observer, datum) ==
    CASE datum = Silent -> observer
      [] datum = "done" -> Done(observer)
      [] datum = "garbled" -> Rejected(observer)
      [] OTHER -> CASE stream = "responses" -> ObserveResponses(observer, datum)
                    [] stream = "chat" -> ObserveChat(observer, datum)
                    [] stream = "messages" -> ObserveMessages(observer, datum)

\* A header, the provider's own or that of an error, then the datum: the event is open.
Sees(header, datum) ==
    LET opened == [work EXCEPT !.open = TRUE]
        headed == IF header = Silent THEN opened ELSE RejectedIf(opened, HeaderRejected(header))
        \* The header alone tells the finance parser that the answer has ended.
        told == IF header \in {"completed", "stop"} THEN Completed(headed) ELSE headed
    IN  Observe(told, datum)

\* work_connection_complete.
WorkComplete ==
    /\ work.observed /\ ~work.invalid /\ work.completed /\ ~work.open
    /\ stream = "chat" => work.done
    /\ stream = "messages" => work.phase = "stopped"

-----------------------------------------------------------------------------
(* NativeCodexStream, which reads an event when it is closed.              *)

\* Mistake: the events of an answer need not be of one response.
OfOneResponse_Any(response, datum) == TRUE

OfOneResponse(response, datum) ==
    response \in {"unknown", IF datum = "foreign" THEN "another" ELSE "its own"}

PendingEvent(header, datum) ==
    [state |-> nativeState.state, invalid |-> nativeState.invalid, response |-> nativeState.response,
     header |-> header, datum |-> datum]

Dispatched ==
    LET datum == nativeState.datum
        names == datum \in {"progress", "foreign", "completed", "cut"}
        refused == /\ datum \notin {Silent, "done"}
                   /\ \/ datum = "garbled" \/ nativeState.header \notin {Silent, datum}
                      \/ names /\ ~OfOneResponse(nativeState.response, datum)
        accepted == names /\ ~refused
    IN  [state |-> IF accepted /\ datum = "completed" THEN "completed"
                   ELSE IF accepted /\ datum = "cut" THEN "incomplete" ELSE nativeState.state,
         invalid |-> nativeState.invalid \/ refused,
         response |-> IF ~accepted THEN nativeState.response
                      ELSE IF datum = "foreign" THEN "another" ELSE "its own",
         header |-> Silent, datum |-> Silent]

\* It stops at a terminal event, and at one it cannot accept.
Listens == stream = "responses" /\ nativeState.state = "open" /\ ~nativeState.invalid

\* feed has returned and finish finds nothing pending.
NativeSucceeds == nativeState.state = "completed" /\ ~nativeState.invalid

-----------------------------------------------------------------------------
\* Bound: an answer both have given up is followed no further.
Followed == ~work.invalid \/ Listens

SendEvent(header, datum) ==
    /\ Len(events) < MaxEvents /\ ~work.open /\ Followed
    /\ ~(header = Silent /\ datum = Silent)
    /\ events' = Append(events, [header |-> header, datum |-> datum, closed |-> FALSE])
    /\ work' = Sees(header, datum)
    /\ nativeState' = IF Listens THEN PendingEvent(header, datum) ELSE nativeState
    /\ UNCHANGED stream

CloseEvent ==
    /\ work.open
    /\ events' = [events EXCEPT ![Len(events)] =
                     [header |-> Latest.header, datum |-> Latest.datum, closed |-> TRUE]]
    /\ work' = [work EXCEPT !.open = FALSE]
    /\ nativeState' = IF Listens THEN Dispatched ELSE nativeState
    /\ UNCHANGED stream

ObserverNext ==
    \/ \E datum \in Data[stream] \cup {Silent} : \E header \in {Silent, datum, "error"} : SendEvent(header, datum)
    \/ CloseEvent

ObserverSpec == ObserverInit /\ [][ObserverNext]_observerVars

-----------------------------------------------------------------------------
ObserverTypeOK ==
    /\ stream \in Streams /\ Len(events) <= MaxEvents
    /\ work.phase \in DOMAIN Phases /\ nativeState.state \in {"open", "completed", "incomplete"}

Sent == [i \in DOMAIN events |-> events[i].datum]
AreAll(sent, from, to, kinds) == \A i \in from..to : sent[i] \in kinds

\* The complete answers of each protocol, as the providers describe them.
CompleteResponse(sent, n) ==
    n > 0 /\ sent[n] = "completed" /\ AreAll(sent, 1, n - 1, {"progress", "foreign"})
CompleteChat(sent, n) ==
    /\ n > 1 /\ sent[n] = "done"
    /\ \E end \in {n - 1, n - 2} : /\ end > 0 /\ sent[end] = "finish" /\ AreAll(sent, 1, end - 1, {"chunk"})
                                   /\ AreAll(sent, end + 1, n - 1, {"usage"})

\* A message starts, has its blocks, then changes of its metadata; pings may come anywhere.
Begun(sent, n) == \E start \in 1..n :
    /\ sent[start] = "start" /\ AreAll(sent, 1, start - 1, {"ping"})
    /\ \E k \in start..n : AreAll(sent, start + 1, k, {"block", "ping"}) /\ AreAll(sent, k + 1, n, {"delta", "ping"})
CompleteMessage(sent, n) ==
    /\ n > 0 /\ sent[n] = "stop"
    /\ \E end \in 1..n - 1 : sent[end] = "final" /\ Begun(sent, end - 1) /\ AreAll(sent, end + 1, n - 1, {"ping"})

\* An answer counts as a complete one, for its route's evidence and for reuse, exactly when it is one
\* of its protocol, whole and closed, with no event that failed or has no datum.  (A chat has no
\* headers once its choice has finished.)
CompleteIsComplete ==
    WorkComplete <=>
      /\ \A i \in DOMAIN events : events[i].closed /\ events[i].header # "error"
      /\ \/ stream = "responses" /\ CompleteResponse(Sent, Len(events))
         \/ stream = "chat" /\ CompleteChat(Sent, Len(events))
              /\ \A i, j \in DOMAIN events : (i < j /\ Sent[i] = "finish") => events[j].header = Silent
         \/ stream = "messages" /\ CompleteMessage(Sent, Len(events))

AcceptedEvent(event) ==
    /\ event.closed /\ event.datum \notin {"garbled", "cut"}
    /\ event.datum \in {Silent, "done"} \/ event.header \in {Silent, event.datum}
OneResponse(sent, n) == ~\E i, j \in 1..n : sent[i] = "foreign" /\ sent[j] \in {"progress", "completed"}

\* A native turn is a success exactly when the first terminal event sent is a completion, it and all
\* before it were closed and readable, named as they are headed, and of one response.  What is sent
\* after it does not matter.
NativeSuccessIsTerminal == stream = "responses" =>
    (NativeSucceeds <=> \E n \in DOMAIN events :
        Sent[n] = "completed" /\ (\A i \in 1..n : AcceptedEvent(events[i])) /\ OneResponse(Sent, n))

\* A stream counts as complete only when its provider ended it, and one native response has one end.
ObserverIsSound == CompleteIsComplete /\ NativeSuccessIsTerminal

=============================================================================
