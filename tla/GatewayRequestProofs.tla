------------------------- MODULE GatewayRequestProofs -------------------------
(***************************************************************************)
(* What the handlers guarantee for every number of requests, attempts and  *)
(* local routes: they use the ledger by its transactions, never ask a      *)
(* provider without a hold, never lose a cost they were told, and share    *)
(* the local slot one at a time.                                           *)
(***************************************************************************)
EXTENDS GatewayRequest, AttemptLedgerProofs

Open == {"pending", "outcome_unknown"}

\* A handler that owes an outcome holds an open attempt whose cost nobody knows,
Owned ==
    \A r \in Requests :
        /\ pc[r] \in Owing =>
               att[r] \in Attempts /\ event[att[r]] \in Open /\ due[att[r]] = None
        /\ pc[r] \in {"failover429", "failover529"} => att[r] \in Attempts

\* and no other handler holds that attempt.
Apart ==
    \A r, q \in Requests :
        r # q /\ pc[r] \in Owing /\ pc[q] \in Owing => att[r] # att[q]

IInv == TypeOK /\ HoldIffOpen /\ Owned /\ Apart /\ CostIsCovered

(***************************************************************************)
(* The kinds of steps.                                                     *)
(***************************************************************************)

\* r opens a new attempt.
Opens(r) ==
    \E a \in Attempts :
        /\ LedgerNext
        /\ event[a] = "none" /\ event'[a] = "pending" /\ UNCHANGED usage
        /\ \A b \in Attempts : event[b] \in Open => event'[b] \in Open
        /\ pc' = [pc EXCEPT ![r] = "admit"]
        /\ att' = [att EXCEPT ![r] = a]
        /\ UNCHANGED due

\* r goes on or gives up, and nothing is recorded.
Moves(r) ==
    \E label \in PCs :
        /\ label \in Owing => pc[r] \in Owing
        /\ label \notin {"failover429", "failover529"}
        /\ pc' = [pc EXCEPT ![r] = label]
        /\ UNCHANGED <<ledger, att, due>>

\* r records something of its own attempt, if the store lets it, and is done with it.
Ends(r) ==
    \E label \in {"done", "failover429", "failover529"} :
        /\ pc[r] \in Owing
        /\ \/ \E state \in Settled, cost \in Charges :
                  /\ Finalize(att[r], state, cost)
                  /\ due' = due \/ due' = [due EXCEPT ![att[r]] = cost]
           \/ MarkUnknown(att[r]) /\ due' = due
           \/ \E cost \in Charges : UNCHANGED ledger /\ due' = [due EXCEPT ![att[r]] = cost]
           \/ UNCHANGED ledger /\ due' = due
        /\ pc' = [pc EXCEPT ![r] = label]
        /\ UNCHANGED att

\* Time, a refresh, a sweep or a crash: no attempt is opened or settled.
Passes ==
    /\ LedgerNext \/ UNCHANGED ledger
    /\ \A a \in Attempts : event[a] \in Open => event'[a] \in Open
    /\ UNCHANGED <<usage, att, due>>
    /\ \A r \in Requests : pc'[r] \in {pc[r], "done"}

\* What a transaction that inserts a row does to the attempts that are open.
LEMMA BeginOpens ==
    ASSUME TypeOK, NEW r \in Requests, NEW pred \in Attempts \cup {None},
           NEW status \in {429, 529}, Begin(r, pred, status)
    PROVE  Opens(r)
<1>1. PICK a \in Attempts, cost \in Costs :
          BeginAttempt(a, who[r], cost, pred, status) /\ att' = [att EXCEPT ![r] = a]
  BY DEF Begin
<1>2. LedgerNext
  BY <1>1 DEF LedgerNext, TypeOK
<1>3. /\ event[a] = "none" /\ event' = [Swept EXCEPT ![a] = "pending"] /\ UNCHANGED usage
  BY <1>1 DEF BeginAttempt, Insert
<1>4. LedgerTypeOK /\ a \in Ids /\ \A b \in Attempts : b \in Ids
  BY DEF TypeOK, Ids
<1>5. event'[a] = "pending"
  BY <1>3, <1>4, SweptOnlyPending
<1>6. \A b \in Attempts : event[b] \in Open => event'[b] \in Open
  BY <1>3, <1>4, <1>5, SweptOnlyPending DEF Open
<1> QED
  BY <1>1, <1>2, <1>3, <1>5, <1>6 DEF Opens, Begin, Goto

LEMMA ProgressKinds ==
    ASSUME TypeOK, Owned, NEW r \in Requests, Start(r) \/ Progress(r)
    PROVE  Opens(r) \/ Moves(r) \/ Ends(r)
<1> USE DEF Goto, Leave, Rest
<1>0. 0 \in Charges /\ {"failed", "rate_limited"} \subseteq Settled
  BY AmountsAssumption DEF Settled
<1>1. CASE Start(r)
  BY <1>1, BeginOpens DEF Start
<1>2. CASE Denied(r)
  BY <1>2 DEF Denied, Moves, PCs, Owing, Egress
<1>3. CASE Admit(r)
  BY <1>0, <1>3 DEF Admit, Settle, Moves, Ends, PCs, Owing, Egress, Working
<1>4. CASE Enter(r)
  BY <1>0, <1>4 DEF Enter, Settle, Moves, Ends, PCs, Owing, Egress, Working
<1>5. CASE Check(r)
  BY <1>0, <1>5 DEF Check, Settle, Moves, Ends, PCs, Owing, Egress, Working
<1>6. CASE Ambiguous(r)
  BY <1>6 DEF Ambiguous, GiveUpOn, Ends, Owing, Egress
<1>7. CASE Limited(r)
  BY <1>0, <1>7 DEF Limited, Ends, Owing, Egress
<1>8. CASE Failover(r)
  <2>1. att[r] \in Attempts \cup {None}
    BY DEF TypeOK
  <2> QED
    BY <1>8, <2>1, BeginOpens DEF Failover
<1>9. CASE Answered(r)
  BY <1>9 DEF Answered, Moves, PCs, Owing, Egress, Working
<1>10. CASE Headers(r)
  BY <1>10 DEF Headers, GiveUpOn, Moves, Ends, PCs, Owing, Egress, Working
<1>11. CASE StreamUnknown(r)
  BY <1>11 DEF StreamUnknown, GiveUpOn, Ends, Owing, Egress
<1>12. CASE StreamKnown(r)
  BY <1>12 DEF StreamKnown, Settle, Ends, Owing, Egress
<1>13. CASE Raises(r)
  BY <1>13 DEF Raises, Moves, PCs, Owing, Egress
<1> QED
  BY <1>1, <1>2, <1>3, <1>4, <1>5, <1>6, <1>7, <1>8, <1>9, <1>10, <1>11, <1>12, <1>13
     DEF Progress

LEMMA StepKinds ==
    ASSUME TypeOK, Owned, [Next]_vars
    PROVE  Passes \/ \E r \in Requests : Opens(r) \/ Moves(r) \/ Ends(r)
<1>0. LedgerTypeOK /\ Attempts \subseteq Ids
  BY DEF TypeOK, Ids
<1>1. ASSUME NEW r \in Requests, Start(r) \/ Progress(r)
      PROVE  Opens(r) \/ Moves(r) \/ Ends(r)
  BY <1>1, ProgressKinds
<1>2. ASSUME NEW r \in Requests, StreamRefresh(r) PROVE Passes
  <2>1. att[r] \in Attempts
    BY <1>2 DEF StreamRefresh, Owned, Owing, Egress
  <2>2. Refresh(att[r]) /\ LedgerNext
    BY <1>0, <1>2, <2>1 DEF StreamRefresh, LedgerNext
  <2> QED
    BY <1>2, <2>2 DEF StreamRefresh, Refresh, Passes, handler
<1>3. CASE Crash
  BY <1>3 DEF Crash, Passes, ledger, TypeOK
<1>4. CASE Restart
  <2>1. Sweep /\ UNCHANGED <<pc, att, due>>
    BY <1>4 DEF Restart
  <2>2. \A a \in Attempts : event[a] \in Open => event'[a] \in Open
    BY <1>0, <2>1, SweptOnlyPending DEF Sweep, Open
  <2> QED
    BY <2>1, <2>2 DEF Passes, LedgerNext, Sweep
<1>5. CASE Clock
  <2>1. LedgerNext /\ UNCHANGED <<event, usage, pc, att, due>>
    BY <1>0, <1>5 DEF Clock, LedgerNext, NewMonth, Expire, handler
  <2> QED
    BY <2>1 DEF Passes
<1>6. CASE UNCHANGED vars
  BY <1>6 DEF vars, ledger, Passes
<1> QED
  BY <1>1, <1>2, <1>3, <1>4, <1>5, <1>6 DEF Next

\* Whatever the handlers do is a ledger transaction or leaves the ledger alone.
LEMMA LedgerStep ==
    ASSUME TypeOK, Owned, [Next]_vars
    PROVE  [LedgerNext]_ledger
<1>1. ASSUME NEW r \in Requests, Ends(r) PROVE [LedgerNext]_ledger
  <2>1. att[r] \in Attempts
    BY <1>1 DEF Ends, Owned
  <2> QED
    BY <1>1, <2>1 DEF Ends, LedgerNext
<1> QED
  BY <1>1, StepKinds DEF Passes, Opens, Moves

(***************************************************************************)
(* The inductive invariant.                                                *)
(***************************************************************************)

LEMMA HandlerTypes ==
    ASSUME TypeOK, [Next]_vars
    PROVE  /\ alt' \in [Requests -> BOOLEAN] /\ who' \in [Requests -> Actors]
           /\ lease' \in Requests \cup {None} /\ up' \in BOOLEAN
<1> USE DEF TypeOK, Leave, Rest
<1>1. ASSUME NEW r \in Requests, NEW pred, NEW status, Begin(r, pred, status)
      PROVE  /\ alt' \in [Requests -> BOOLEAN]
             /\ UNCHANGED <<who, lease, up>>
  BY <1>1 DEF Begin
<1>2. ASSUME NEW r \in Requests, Start(r) \/ Progress(r)
      PROVE  /\ alt' \in [Requests -> BOOLEAN]
             /\ UNCHANGED <<who, up>>
             /\ lease' \in Requests \cup {None}
  BY <1>1, <1>2 DEF Start, Progress, Denied, Admit, Enter, Check, Ambiguous, Limited, Failover,
     Answered, Headers, StreamUnknown, StreamKnown, Raises
<1> QED
  BY <1>2 DEF Next, StreamRefresh, Crash, Restart, Clock, handler, vars

LEMMA TypeOKStep ==
    ASSUME TypeOK, Owned, [Next]_vars
    PROVE  TypeOK'
<1>1. LedgerTypeOK'
  BY LedgerStep, TypesStep DEF TypeOK
<1>2. pc' \in [Requests -> PCs]
  <2>1. CASE Crash
    BY <2>1 DEF Crash, TypeOK, PCs
  <2>2. CASE UNCHANGED pc
    BY <2>2 DEF TypeOK
  <2>3. ASSUME NEW r \in Requests, Start(r) \/ Progress(r) PROVE pc' \in [Requests -> PCs]
    BY <2>3, ProgressKinds DEF Opens, Moves, Ends, TypeOK, PCs, Working, Owing
  <2> QED
    BY <2>1, <2>2, <2>3 DEF Next, vars, StreamRefresh, Restart, Clock, handler
<1>3. att' \in [Requests -> Attempts \cup {None}]
  BY StepKinds DEF Passes, Opens, Moves, Ends, TypeOK
<1>4. due' \in [Attempts -> Charges \cup {None}]
  BY StepKinds DEF Passes, Opens, Moves, Ends, TypeOK
<1> QED
  BY <1>1, <1>2, <1>3, <1>4, HandlerTypes DEF TypeOK

LEMMA HoldIffOpenStep ==
    ASSUME LedgerTypeOK, HoldIffOpen, [LedgerNext]_ledger
    PROVE  HoldIffOpen'
  BY EveryStep DEF HoldIffOpen, AttemptStep, Settled

\* A covered cost stays covered by any step that neither settles the attempt nor
\* learns a cost for it.
LEMMA StaysCovered ==
    ASSUME LedgerTypeOK, HoldIffOpen, HoldIffOpen', [LedgerNext]_ledger, CostIsCovered,
           NEW a \in Attempts, due'[a] = due[a], due[a] # None,
           event[a] \in Open => event'[a] \in Open
    PROVE  \/ event'[a] \in Settled /\ usage'[a].cost = due'[a]
           \/ a \in hold'
<1>1. CASE event[a] \in Settled /\ usage[a].cost = due[a]
  BY <1>1, EveryStep DEF AttemptStep, Settled
<1>2. CASE a \in hold
  BY <1>2 DEF HoldIffOpen, Open
<1> QED
  BY <1>1, <1>2 DEF CostIsCovered

\* A handler that ends may only change its own attempt.
LEMMA EndsTouchesOwn ==
    ASSUME TypeOK, NEW r \in Requests, Ends(r), NEW a \in Attempts, a # att[r]
    PROVE  event'[a] = event[a] /\ usage'[a] = usage[a] /\ due'[a] = due[a]
  BY DEF Ends, Finalize, MarkUnknown, ledger, TypeOK, LedgerTypeOK, Ids

LEMMA OwnedStep ==
    ASSUME IInv, [Next]_vars
    PROVE  Owned' /\ Apart'
<1>0. TypeOK /\ HoldIffOpen /\ Owned /\ Apart /\ CostIsCovered
  BY DEF IInv
<1>1. CASE Passes
  <2>1. \A r \in Requests : pc'[r] \in Owing \cup {"failover429", "failover529"} => pc'[r] = pc[r]
    BY <1>1 DEF Passes, Owing, Egress
  <2> QED
    BY <1>0, <1>1, <2>1 DEF Passes, Owned, Apart
<1>2. ASSUME NEW r \in Requests, Opens(r) PROVE Owned' /\ Apart'
  <2>1. PICK a \in Attempts :
           /\ event[a] = "none" /\ event'[a] = "pending"
           /\ pc' = [pc EXCEPT ![r] = "admit"] /\ att' = [att EXCEPT ![r] = a]
    BY <1>2 DEF Opens
  <2>2. due'[a] = None
    BY <1>0, <1>2, <2>1 DEF CostIsCovered, HoldIffOpen, Settled, Opens
  <2>3. pc'[r] = "admit" /\ att'[r] = a
    BY <1>0, <2>1 DEF TypeOK
  <2>4. ASSUME NEW q \in Requests, q # r
        PROVE  /\ pc'[q] = pc[q] /\ att'[q] = att[q]
               /\ pc[q] \in Owing => event'[att[q]] \in Open /\ due'[att[q]] = None /\ att[q] # a
    BY <1>0, <1>2, <2>1, <2>4 DEF TypeOK, Owned, Opens, Open
  <2>5. Owned'
    BY <1>0, <2>1, <2>2, <2>3, <2>4 DEF Owned, Open
  <2>6. Apart'
    BY <1>0, <2>3, <2>4 DEF Apart
  <2> QED
    BY <2>5, <2>6
<1>3. ASSUME NEW r \in Requests, Moves(r) PROVE Owned' /\ Apart'
  <2>1. \A q \in Requests : /\ pc'[q] \in Owing => pc[q] \in Owing
                            /\ pc'[q] \in {"failover429", "failover529"} => pc'[q] = pc[q]
    BY <1>0, <1>3 DEF Moves, TypeOK
  <2>2. UNCHANGED <<event, att, due>>
    BY <1>3 DEF Moves, ledger
  <2> QED
    BY <1>0, <2>1, <2>2 DEF Owned, Apart
<1>4. ASSUME NEW r \in Requests, Ends(r) PROVE Owned' /\ Apart'
  <2>1. /\ pc[r] \in Owing /\ pc'[r] \notin Owing /\ att' = att
        /\ \A q \in Requests \ {r} : pc'[q] = pc[q]
    BY <1>0, <1>4 DEF Ends, TypeOK, Owing, Egress
  <2>2. \A q \in Requests \ {r} : pc[q] \in Owing =>
            event'[att[q]] \in Open /\ due'[att[q]] = None
    BY <1>0, <1>4, <2>1, EndsTouchesOwn DEF Owned, Apart
  <2>3. Owned'
    BY <1>0, <2>1, <2>2 DEF Owned
  <2>4. Apart'
    BY <1>0, <2>1 DEF Apart
  <2> QED
    BY <2>3, <2>4
<1> QED
  BY <1>0, <1>1, <1>2, <1>3, <1>4, StepKinds

LEMMA CoveredStep ==
    ASSUME IInv, [Next]_vars
    PROVE  CostIsCovered'
<1>0. /\ TypeOK /\ LedgerTypeOK /\ HoldIffOpen /\ Owned /\ CostIsCovered
      /\ [LedgerNext]_ledger /\ HoldIffOpen'
  BY LedgerStep, HoldIffOpenStep DEF IInv, TypeOK
<1>1. ASSUME Passes \/ \E r \in Requests : Opens(r) \/ Moves(r)
      PROVE  CostIsCovered'
  <2>1. due' = due /\ \A a \in Attempts : event[a] \in Open => event'[a] \in Open
    BY <1>1 DEF Passes, Opens, Moves, ledger
  <2> QED
    BY <1>0, <2>1, StaysCovered DEF CostIsCovered
<1>2. ASSUME NEW r \in Requests, Ends(r), NEW a \in Attempts, due'[a] # None
      PROVE  \/ event'[a] \in Settled /\ usage'[a].cost = due'[a]
             \/ a \in hold'
  <2>1. CASE a # att[r]
    BY <1>0, <1>2, <2>1, EndsTouchesOwn, StaysCovered
  <2>2. CASE a = att[r]
    <3>1. event[a] \in Open /\ a \in hold /\ due[a] = None
      BY <1>0, <1>2, <2>2 DEF Ends, Owned, HoldIffOpen, Open
    <3>2. ASSUME NEW state \in Settled, NEW cost \in Charges, Finalize(a, state, cost),
                 due' = [due EXCEPT ![a] = cost]
          PROVE  event'[a] \in Settled /\ usage'[a].cost = due'[a]
      BY <1>0, <3>2 DEF Finalize, TypeOK, LedgerTypeOK, Ids
    <3>3. CASE due' = due
      BY <1>2, <3>1, <3>3
    <3>4. CASE UNCHANGED ledger
      BY <3>1, <3>4 DEF ledger
    <3> QED
      BY <1>2, <2>2, <3>2, <3>3, <3>4 DEF Ends
  <2> QED
    BY <2>1, <2>2
<1> QED
  BY <1>0, <1>1, <1>2, StepKinds DEF CostIsCovered

(***************************************************************************)
(* Failovers.                                                              *)
(***************************************************************************)

Failovers == {"failover429", "failover529"}

\* What a failover replaces: settled at no cost, and not a failover itself.
FreeOriginal(a) == event[a] \in Settled /\ usage[a].cost = 0 /\ root[a].pred = None

\* The original of a failover, the attempt that a handler is about to replace, and the one it
\* may still have to replace because it holds an alternate route.
Replacing ==
    /\ \A a \in Attempts : root[a] # None /\ root[a].pred # None => FreeOriginal(root[a].pred)
    /\ \A r \in Requests : pc[r] \in Failovers => FreeOriginal(att[r])
    /\ \A r \in Requests : pc[r] \in Owing /\ alt[r] => root[att[r]].pred = None

\* What was recorded of an attempt when it began stays.
LEMMA RootKept ==
    ASSUME LedgerTypeOK, [LedgerNext]_ledger, NEW a \in Attempts, event[a] # "none"
    PROVE  root'[a] = root[a]
<1>1. ASSUME NEW i, NEW state, NEW r, Insert(i, state, r) PROVE root'[a] = root[a]
  BY <1>1 DEF Insert, LedgerTypeOK, Ids
<1>2. CASE UNCHANGED root
  BY <1>2
<1> QED
  BY <1>1, <1>2, ZenonT(60) DEF LedgerNext, BeginAttempt, ReserveBudget, Finalize, MarkUnknown, Sweep, Release,
     Refresh, Expire, NewMonth, ledger

LEMMA OriginalKept ==
    ASSUME TypeOK, Owned, [Next]_vars, NEW a \in Attempts, FreeOriginal(a)
    PROVE  FreeOriginal(a)'
<1>1. [LedgerNext]_ledger /\ LedgerTypeOK
  BY LedgerStep DEF TypeOK
<1>2. event'[a] = event[a] /\ usage'[a] = usage[a]
  BY <1>1, EveryStep DEF AttemptStep, FreeOriginal, Settled
<1>3. root'[a] = root[a]
  BY <1>1, RootKept DEF FreeOriginal, Settled
<1> QED
  BY <1>2, <1>3 DEF FreeOriginal

\* The predecessor of an attempt is an attempt.
LEMMA PredIsAttempt ==
    ASSUME LedgerTypeOK, NEW a \in Attempts, root[a] # None, root[a].pred # None
    PROVE  root[a].pred \in Attempts
  BY DEF LedgerTypeOK, Roots, Ids

\* A handler that opens an attempt replaces a free original or none.
LEMMA BeginReplaces ==
    ASSUME TypeOK, Owned, Replacing, [Next]_vars,
           NEW r \in Requests, NEW pred \in Attempts \cup {None}, NEW status \in {429, 529},
           Begin(r, pred, status), pred # None => FreeOriginal(pred)
    PROVE  Replacing'
<1>1. PICK a \in Attempts, cost \in Costs :
          BeginAttempt(a, who[r], cost, pred, status) /\ att' = [att EXCEPT ![r] = a]
  BY DEF Begin
<1>2. /\ event[a] = "none"
      /\ root' = [root EXCEPT ![a] = [who |-> who[r], cost |-> cost, pred |-> pred]]
      /\ a \in Ids /\ LedgerTypeOK
  BY <1>1 DEF BeginAttempt, Insert, Ids, TypeOK
<1>3. root'[a].pred = pred /\ \A b \in Attempts \ {a} : root'[b] = root[b]
  BY <1>2 DEF LedgerTypeOK, Ids
<1>4. ASSUME NEW b \in Attempts, root'[b] # None, root'[b].pred # None
      PROVE  \E p \in Attempts : p = root'[b].pred /\ FreeOriginal(p)'
  <2>1. CASE b = a
    BY <1>3, <1>4, <2>1, OriginalKept
  <2>2. CASE b # a
    BY <1>2, <1>3, <1>4, <2>2, OriginalKept, PredIsAttempt DEF Replacing
  <2> QED
    BY <2>1, <2>2
<1>5. ASSUME NEW q \in Requests, pc'[q] \in Failovers
      PROVE  \E p \in Attempts : p = att'[q] /\ FreeOriginal(p)'
  <2>1. q # r /\ pc'[q] = pc[q] /\ att'[q] = att[q]
    BY <1>1, <1>5 DEF Begin, Goto, TypeOK, Failovers
  <2> QED
    BY <1>5, <2>1, OriginalKept DEF Replacing, Owned, Failovers
<1>6. ASSUME NEW q \in Requests, pc'[q] \in Owing, alt'[q]
      PROVE  root'[att'[q]].pred = None
  <2>1. CASE q = r
    <3>1. pred = None
      <4> SUFFICES ASSUME pred # None PROVE FALSE
        OBVIOUS
      <4>1. (alt[r] /\ pred = None) = FALSE
        OBVIOUS
      <4>2. alt' = [alt EXCEPT ![r] = FALSE]
        BY <4>1 DEF Begin
      <4>3. alt'[r] = FALSE
        BY <4>2 DEF TypeOK
      <4> QED
        BY <1>6, <2>1, <4>3
    <3>2. att'[r] = a
      BY <1>1 DEF TypeOK
    <3> QED
      BY <1>3, <1>6, <2>1, <3>1, <3>2
  <2>2. CASE q # r
    <3>1. pc'[q] = pc[q] /\ att'[q] = att[q] /\ alt'[q] = alt[q]
      BY <1>1, <2>2 DEF Begin, Goto, TypeOK
    <3>2. att[q] \in Attempts \ {a}
      BY <1>2, <1>6, <3>1 DEF Owned, Open
    <3> QED
      BY <1>3, <1>6, <3>1, <3>2 DEF Replacing
  <2> QED
    BY <2>1, <2>2
<1> QED
  BY <1>4, <1>5, <1>6 DEF Replacing, FreeOriginal

\* A step that records no attempt and brings no handler to a failover.
LEMMA OthersKeepReplacing ==
    ASSUME TypeOK, Owned, Replacing, [Next]_vars, UNCHANGED <<root, att, alt>>,
           \A q \in Requests : /\ pc'[q] \in Failovers => pc'[q] = pc[q] \/ FreeOriginal(att[q])'
                               /\ pc'[q] \in Owing => pc[q] \in Owing
    PROVE  Replacing'
<1>1. ASSUME NEW b \in Attempts, root'[b] # None, root'[b].pred # None
      PROVE  \E p \in Attempts : p = root'[b].pred /\ FreeOriginal(p)'
  BY <1>1, OriginalKept, PredIsAttempt DEF Replacing, TypeOK
<1>2. ASSUME NEW q \in Requests, pc'[q] \in Failovers, pc'[q] = pc[q]
      PROVE  \E p \in Attempts : p = att'[q] /\ FreeOriginal(p)'
  BY <1>2, OriginalKept DEF Replacing, Owned, Failovers
<1> QED
  BY <1>1, <1>2 DEF Replacing, FreeOriginal

LEMMA ReplacingStep ==
    ASSUME TypeOK, Owned, Replacing, [Next]_vars
    PROVE  Replacing'
<1> USE DEF Owing, Egress, Failovers
<1>1. ASSUME NEW r \in Requests, Start(r) PROVE Replacing'
  BY <1>1, BeginReplaces DEF Start
<1>2. ASSUME NEW r \in Requests, Failover(r) PROVE Replacing'
  <2>1. pc[r] \in Failovers /\ att[r] \in Attempts /\ FreeOriginal(att[r])
    BY <1>2 DEF Failover, Owned, Replacing
  <2> QED
    BY <1>2, <2>1, BeginReplaces DEF Failover
<1>3. ASSUME NEW r \in Requests, Limited(r) PROVE Replacing'
  <2>1. att[r] \in Attempts /\ root[att[r]].pred = None
    BY <1>3 DEF Limited, Owned, Replacing
  <2>2. CASE Leave(r)
    BY <1>3, <2>2, OthersKeepReplacing DEF Limited, Finalize, Leave, Goto, Rest, ledger, TypeOK
  <2>3. ASSUME NEW state \in Settled, NEW label \in Failovers, Finalize(att[r], state, 0), Goto(r, label)
        PROVE  Replacing'
    <3>1. FreeOriginal(att[r])'
      BY <1>3, <2>1, <2>3 DEF Limited, Rest, Finalize, FreeOriginal, TypeOK, LedgerTypeOK, Ids
    <3>2. \A q \in Requests : q # r => pc'[q] = pc[q]
      BY <2>3 DEF Goto, TypeOK
    <3>3. UNCHANGED <<root, att, alt>> /\ pc[r] \in Owing /\ pc'[r] = label
      BY <1>3, <2>3 DEF Limited, Rest, Finalize, Goto, TypeOK
    <3> QED
      BY <3>1, <3>2, <3>3, OthersKeepReplacing
  <2>4. {"rate_limited", "failed"} \subseteq Settled
    BY DEF Settled
  <2> QED
    BY <1>3, <2>2, <2>3, <2>4 DEF Limited
<1>4. ASSUME NEW r \in Requests,
             \/ Denied(r) \/ Admit(r) \/ Enter(r) \/ Check(r) \/ Ambiguous(r) \/ Answered(r)
             \/ Headers(r) \/ StreamUnknown(r) \/ StreamKnown(r) \/ Raises(r)
      PROVE  Replacing'
  <2>1. /\ UNCHANGED <<root, att, alt>>
        /\ \E label \in PCs \ Failovers :
              pc' = [pc EXCEPT ![r] = label] /\ (label \in Owing => pc[r] \in Owing)
    BY <1>4 DEF Denied, Admit, Enter, Check, Ambiguous, Answered, Headers, StreamUnknown,
       StreamKnown, Raises, Leave, Goto, Rest, Settle, GiveUpOn, Finalize, MarkUnknown, ledger,
       PCs, Working
  <2>2. \A q \in Requests : /\ pc'[q] \in Failovers => pc'[q] = pc[q]
                            /\ pc'[q] \in Owing => pc[q] \in Owing
    BY <2>1 DEF TypeOK
  <2> QED
    BY <2>1, <2>2, OthersKeepReplacing
<1>5. CASE Crash
  BY <1>5, OthersKeepReplacing DEF Crash, ledger
<1>6. CASE (\E r \in Requests : StreamRefresh(r)) \/ Restart \/ Clock \/ UNCHANGED vars
  <2>1. UNCHANGED <<root, att, alt, pc>>
    BY <1>6 DEF StreamRefresh, Refresh, Restart, Sweep, Clock, NewMonth, Expire, handler, vars
  <2> QED
    BY <2>1, OthersKeepReplacing
<1> QED
  BY <1>1, <1>2, <1>3, <1>4, <1>5, <1>6 DEF Next, Progress

(***************************************************************************)
(* The theorems.                                                           *)
(***************************************************************************)

LEMMA Invariant == Spec => []IInv
<1>1. Init => IInv
  BY TypesInit DEF Init, LedgerInit, IInv, TypeOK, HoldIffOpen, Owned, Apart, CostIsCovered,
     PCs, Owing, Egress, Ids
<1>2. IInv /\ [Next]_vars => IInv'
  BY TypeOKStep, LedgerStep, HoldIffOpenStep, OwnedStep, CoveredStep DEF IInv, TypeOK
<1> QED
  BY <1>1, <1>2, PTL DEF Spec

\* Handlers, slot and ledger keep their types in every interleaving.
THEOREM GatewayTyping == Spec => []TypeOK
  BY Invariant, PTL DEF IInv

\* Every handler of server.py changes the accounting tables by the transactions
\* of store.py alone, so what is proved of the ledger holds of the gateway.
THEOREM UsesLedgerHolds == Spec => UsesLedger
<1>1. Init => LedgerInit
  BY DEF Init
<1>2. IInv /\ [Next]_vars => [LedgerNext]_ledger
  BY LedgerStep DEF IInv
<1> QED
  BY <1>1, <1>2, Invariant, PTL DEF Spec, UsesLedger, LedgerSpec

\* _forward_admitted writes to a provider only between the commit of
\* begin_request_attempt and the handler's own terminal event: a sweep, an
\* expiry or a restart of another handler cannot take the hold away.
THEOREM EgressIsHeldHolds == Spec => []EgressIsHeld
<1>1. IInv => EgressIsHeld
  BY DEF IInv, Owned, HoldIffOpen, EgressIsHeld, Owing, Open
<1> QED
  BY <1>1, Invariant, PTL

\* A cost a handler was told is charged by its finalize or stays held, also when
\* the finalize finds the attempt swept, the store fails or the server dies.
THEOREM CostIsCoveredHolds == Spec => []CostIsCovered
  BY Invariant, PTL DEF IInv

\* RouteAdmission.lease takes the slot without waiting and its finally block
\* frees it: never two local requests at once, never a slot without a handler.
THEOREM LeaseIsExclusiveHolds == Spec => []LeaseIsExclusive
<1>1. Init => LeaseIsExclusive
  BY LocalAssumption DEF Init, LeaseIsExclusive, Egress, Working, Owing
<1>2. ASSUME TypeOK, LeaseIsExclusive, [Next]_vars
      PROVE  LeaseIsExclusive'
  <2> USE LocalAssumption DEF TypeOK, LeaseIsExclusive, Working, Owing, Egress, Goto, Leave, Rest
  <2>1. ASSUME NEW r \in Requests, NEW pred, NEW status, Begin(r, pred, status)
        PROVE  LeaseIsExclusive'
    BY <1>2, <2>1 DEF Begin
  <2>2. ASSUME NEW r \in Requests, Denied(r) \/ Admit(r) \/ Check(r) \/ Ambiguous(r) \/ Limited(r)
                                   \/ Answered(r)
        PROVE  LeaseIsExclusive'
    BY <1>2, <2>2 DEF Denied, Admit, Check, Ambiguous, Limited, Answered
  <2>3. ASSUME NEW r \in Requests, Enter(r) PROVE LeaseIsExclusive'
    BY <1>2, <2>3 DEF Enter
  <2>4. ASSUME NEW r \in Requests, Headers(r) \/ StreamUnknown(r) \/ StreamKnown(r) \/ Raises(r)
        PROVE  LeaseIsExclusive'
    BY <1>2, <2>4 DEF Headers, StreamUnknown, StreamKnown, Raises
  <2>5. CASE Crash
    BY <1>2, <2>5 DEF Crash
  <2>6. CASE UNCHANGED <<pc, lease>>
    BY <1>2, <2>6
  <2> QED
    BY <1>2, <2>1, <2>2, <2>3, <2>4, <2>5, <2>6
       DEF Next, Progress, Start, Failover, StreamRefresh, Restart, Clock, handler, vars
<1> QED
  BY <1>1, <1>2, GatewayTyping, PTL DEF Spec

\* No handler of server.py writes to a provider without a hold, nor lets go of a
\* hold whose cost it was told without charging it.
THEOREM EgressIsCoveredHolds == Spec => []EgressIsCovered
  BY EgressIsHeldHolds, CostIsCoveredHolds, PTL DEF EgressIsCovered

\* _forward_admitted begins a failover only from an attempt whose 429 or 529 it has recorded at
\* no cost, and leaves the failover without an alternate of its own.
THEOREM FailoverOnceAndFreeHolds == Spec => []FailoverOnceAndFree
<1>1. Init => Replacing
  BY DEF Init, LedgerInit, Replacing, Failovers, Owing, Egress, Ids
<1>2. Replacing /\ IInv /\ [Next]_vars => Replacing'
  BY ReplacingStep DEF IInv
<1>3. Replacing => FailoverOnceAndFree
  BY DEF Replacing, FreeOriginal, FailoverOnceAndFree
<1> QED
  BY <1>1, <1>2, <1>3, Invariant, PTL DEF Spec

\* The limits are those of the ledger, whatever handlers, sweeps and restarts do.
THEOREM GatewayWithinLimits == Spec => []WithinLimits
  BY UsesLedgerHolds, WithinLimitsHolds, PTL DEF UsesLedger

==============================================================================
