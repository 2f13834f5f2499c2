------------------------------ MODULE GatewayLifetime ------------------------------
(***************************************************************************)
(* The lifetime of a gateway process around the requests it serves         *)
(* (hormuz/server.py GatewayServer, work_gateway.py, work_recovery.py):    *)
(* what it does before it listens, what it reports while it drains, and    *)
(* in which order it lets go of the port, its handler threads and the AI   *)
(* work ledger, of which one process at a time is the owner.               *)
(*                                                                         *)
(* Processes overlap: a supervisor starts the next one while the last is   *)
(* still draining, and may kill any of them.  What a request asks and what *)
(* it costs are the questions of GatewayRequest and WorkLedger.            *)
(***************************************************************************)
EXTENDS FiniteSets

CONSTANTS
    Gateways,       \* processes that may run a gateway over the same ledger and port
    Exchanges,      \* requests, each sent once
    NoGateway

ASSUME LifetimeAssumption == NoGateway \notin Gateways

VARIABLES
    gateways,       \* each process: its phase, and the marker _accepting_requests
    probes,         \* the /ready request each process is answering, or its last answer
    ledgerOwner,    \* the process that holds the owner lock of the work ledger
    portOwner,      \* the process that listens
    exchanges,      \* each request: its handler thread and what its client has received
    rows,           \* each request's row in the work ledger
    storage         \* whether the databases can be read and written

lifetimeVars == <<gateways, probes, ledgerOwner, portOwner, exchanges, rows, storage>>

Down == [phase |-> "down", accepting |-> FALSE]
Unsent == [at |-> "unsent", by |-> NoGateway, response |-> "none"]

LifetimeInit ==
    /\ gateways = [g \in Gateways |-> Down]
    /\ probes = [g \in Gateways |-> "none"]
    /\ ledgerOwner = NoGateway /\ portOwner = NoGateway
    /\ exchanges = [x \in Exchanges |-> Unsent]
    /\ rows = [x \in Exchanges |-> "none"]
    /\ storage = TRUE

Handled(x) == exchanges[x].at \in {"arrived", "admitted", "relaying"}
HandledBy(g) == {x \in Exchanges : Handled(x) /\ exchanges[x].by = g}
Probing(g) == probes[g] \in {"asked", "verified"}

Phase(g, phase) == gateways' = [gateways EXCEPT ![g].phase = phase]

-----------------------------------------------------------------------------
(* Starting: the store, the owner lock, the work ledger and last the port. *)

OpenStore(g) ==
    /\ gateways[g].phase = "down" /\ storage
    /\ Phase(g, "opened")
    /\ UNCHANGED <<probes, ledgerOwner, portOwner, exchanges, rows, storage>>

OwnLedger(g) ==
    /\ gateways[g].phase = "opened" /\ ledgerOwner = NoGateway
    /\ ledgerOwner' = g
    /\ Phase(g, "owning")
    /\ UNCHANGED <<probes, portOwner, exchanges, rows, storage>>

\* The ledger of a running process: a row still pending was another's, and cannot be proved to
\* progress.
OpenLedger(g) ==
    /\ gateways[g].phase = "owning" /\ storage
    /\ rows' = [x \in Exchanges |-> IF rows[x] = "pending" THEN "unknown" ELSE rows[x]]
    /\ Phase(g, "ledger")
    /\ UNCHANGED <<probes, ledgerOwner, portOwner, exchanges, storage>>

Listen(g) ==
    /\ gateways[g].phase = "ledger" /\ portOwner = NoGateway
    /\ portOwner' = g
    /\ Phase(g, "bound")
    /\ UNCHANGED <<probes, ledgerOwner, exchanges, rows, storage>>

\* Only now does it report that it is ready.
BeginServing(g) ==
    /\ gateways[g].phase = "bound"
    /\ gateways' = [gateways EXCEPT ![g] = [phase |-> "serving", accepting |-> TRUE]]
    /\ UNCHANGED <<probes, ledgerOwner, portOwner, exchanges, rows, storage>>

\* What a process that stops, however it stops, no longer holds.
RemovedFrom(owner, g) == IF owner = g THEN NoGateway ELSE owner

\* Another process owns the ledger, the databases fail, or the port is taken: all that has
\* been taken is given back.
FailToStart(g) ==
    /\ \/ gateways[g].phase = "opened" /\ ledgerOwner # NoGateway
       \/ gateways[g].phase = "owning" /\ ~storage
       \/ gateways[g].phase = "ledger" /\ portOwner # NoGateway
    /\ gateways' = [gateways EXCEPT ![g] = Down]
    /\ ledgerOwner' = RemovedFrom(ledgerOwner, g)
    /\ UNCHANGED <<probes, portOwner, exchanges, rows, storage>>

-----------------------------------------------------------------------------
(* Requests, each on a thread of its own.                                  *)

\* The listener accepts until its loop ends, whatever the process reports.
Arrive(g, x) ==
    /\ gateways[g].phase = "serving" /\ portOwner = g /\ exchanges[x].at = "unsent"
    /\ exchanges' = [exchanges EXCEPT ![x] = [at |-> "arrived", by |-> g, response |-> "none"]]
    /\ UNCHANGED <<gateways, probes, ledgerOwner, portOwner, rows, storage>>

\* An attempt is in the ledger before the provider is asked.
Admit(x) ==
    /\ exchanges[x].at = "arrived" /\ storage
    /\ rows' = [rows EXCEPT ![x] = "pending"]
    /\ exchanges' = [exchanges EXCEPT ![x].at = "admitted"]
    /\ UNCHANGED <<gateways, probes, ledgerOwner, portOwner, storage>>

StartResponse(x) ==
    /\ exchanges[x].at = "admitted"
    /\ exchanges' = [exchanges EXCEPT ![x].at = "relaying", ![x].response = "started"]
    /\ UNCHANGED <<gateways, probes, ledgerOwner, portOwner, rows, storage>>

\* The final evidence is written after the last byte of the response, or before an error that
\* takes the place of a response.
SettleExchange(x) ==
    /\ exchanges[x].at \in {"admitted", "relaying"} /\ storage
    /\ rows' = [rows EXCEPT ![x] = "settled"]
    /\ exchanges' = [exchanges EXCEPT ![x].at = "ended", ![x].response = IF @ = "none" THEN "error" ELSE "complete"]
    /\ UNCHANGED <<gateways, probes, ledgerOwner, portOwner, storage>>

\* A storage failure is answered only if no response has begun; the row stays as it is.
FailExchange(x) ==
    /\ Handled(x) /\ ~storage
    /\ exchanges' = [exchanges EXCEPT ![x].at = "ended", ![x].response = IF @ = "none" THEN "error" ELSE @]
    /\ UNCHANGED <<gateways, probes, ledgerOwner, portOwner, rows, storage>>

-----------------------------------------------------------------------------
(* GET /ready, on a thread too: the marker, the dependencies, the marker.  *)

AskReady(g) ==
    /\ gateways[g].phase = "serving" /\ ~Probing(g)
    /\ probes' = [probes EXCEPT ![g] = IF gateways[g].accepting THEN "asked" ELSE "draining"]
    /\ UNCHANGED <<gateways, ledgerOwner, portOwner, exchanges, rows, storage>>

VerifyDependencies(g) ==
    /\ probes[g] = "asked"
    /\ probes' = [probes EXCEPT ![g] = IF storage THEN "verified" ELSE "unavailable"]
    /\ UNCHANGED <<gateways, ledgerOwner, portOwner, exchanges, rows, storage>>

\* Mistake: what was found before the dependencies were verified still holds.
ReportReady_Unchecked(g) ==
    /\ probes[g] = "verified"
    /\ probes' = [probes EXCEPT ![g] = "ready"]
    /\ UNCHANGED <<gateways, ledgerOwner, portOwner, exchanges, rows, storage>>

ReportReady(g) ==
    /\ probes[g] = "verified"
    /\ probes' = [probes EXCEPT ![g] = IF gateways[g].accepting THEN "ready" ELSE "draining"]
    /\ UNCHANGED <<gateways, ledgerOwner, portOwner, exchanges, rows, storage>>

-----------------------------------------------------------------------------
(* Stopping: the marker, the loop, the port, the threads and the ledger.   *)

BeginDrain(g) ==
    /\ gateways[g] = [phase |-> "serving", accepting |-> TRUE]
    /\ gateways' = [gateways EXCEPT ![g].accepting = FALSE]
    /\ UNCHANGED <<probes, ledgerOwner, portOwner, exchanges, rows, storage>>

\* shutdown ends the loop, and server_close closes the listening socket.
CloseListener(g) ==
    /\ gateways[g] = [phase |-> "serving", accepting |-> FALSE]
    /\ portOwner' = NoGateway
    /\ Phase(g, "joining")
    /\ UNCHANGED <<probes, ledgerOwner, exchanges, rows, storage>>

\* Mistake: the handler threads are daemons, which server_close does not wait for.
HandlersEnded_Daemons(g) == TRUE

HandlersEnded(g) == HandledBy(g) = {} /\ ~Probing(g)

\* The threads are joined before the runtime is closed and the ledger let go.
CloseRuntime(g) ==
    /\ gateways[g].phase = "joining" /\ HandlersEnded(g)
    /\ Phase(g, "closed")
    /\ UNCHANGED <<probes, ledgerOwner, portOwner, exchanges, rows, storage>>

ReleaseLedger(g) ==
    /\ gateways[g].phase = "closed"
    /\ ledgerOwner' = NoGateway
    /\ gateways' = [gateways EXCEPT ![g] = Down]
    /\ UNCHANGED <<probes, portOwner, exchanges, rows, storage>>

\* The process ends at once: its threads, its lock and its port with it.
KillGateway(g) ==
    /\ gateways[g].phase # "down"
    /\ gateways' = [gateways EXCEPT ![g] = Down]
    /\ probes' = [probes EXCEPT ![g] = "none"]
    /\ ledgerOwner' = RemovedFrom(ledgerOwner, g) /\ portOwner' = RemovedFrom(portOwner, g)
    /\ exchanges' = [x \in Exchanges |-> IF x \in HandledBy(g) THEN [exchanges[x] EXCEPT !.at = "ended"]
                                         ELSE exchanges[x]]
    /\ UNCHANGED <<rows, storage>>

StorageChanges ==
    /\ storage' = ~storage
    /\ UNCHANGED <<gateways, probes, ledgerOwner, portOwner, exchanges, rows>>

LifetimeNext ==
    \/ \E g \in Gateways :
          \/ OpenStore(g) \/ OwnLedger(g) \/ OpenLedger(g) \/ Listen(g) \/ BeginServing(g) \/ FailToStart(g)
          \/ \E x \in Exchanges : Arrive(g, x)
          \/ AskReady(g) \/ VerifyDependencies(g) \/ ReportReady(g)
          \/ BeginDrain(g) \/ CloseListener(g) \/ CloseRuntime(g) \/ ReleaseLedger(g) \/ KillGateway(g)
    \/ \E x \in Exchanges : Admit(x) \/ StartResponse(x) \/ SettleExchange(x) \/ FailExchange(x)
    \/ StorageChanges

LifetimeSpec == LifetimeInit /\ [][LifetimeNext]_lifetimeVars

-----------------------------------------------------------------------------
\* The types of the variables.
LifetimeTypeOK ==
    /\ gateways \in [Gateways -> [phase : {"down", "opened", "owning", "ledger", "bound", "serving",
                                           "joining", "closed"}, accepting : BOOLEAN]]
    /\ probes \in [Gateways -> {"none", "asked", "verified", "ready", "draining", "unavailable"}]
    /\ {ledgerOwner, portOwner} \subseteq Gateways \cup {NoGateway}
    /\ exchanges \in [Exchanges -> [at : {"unsent", "arrived", "admitted", "relaying", "ended"},
                                    by : Gateways \cup {NoGateway},
                                    response : {"none", "error", "started", "complete"}]]
    /\ rows \in [Exchanges -> {"none", "pending", "settled", "unknown"}]
    /\ storage \in BOOLEAN

\* A start marks as unknown only what nobody works on any more: an attempt whose handler still
\* runs, in whatever process, stays pending until that handler settles it.  The next process
\* may open the ledger only when the last one's threads have all ended (server.py:360).
LiveAttemptStaysPending ==
    [][\A x \in Exchanges : rows[x] = "pending" /\ rows'[x] = "unknown" => ~Handled(x)]_lifetimeVars

\* A process never reports that it is ready after its drain has begun, though the drain may
\* begin while the dependencies are being verified (server.py readiness_reason).
NeverReadyWhileDraining ==
    [][\A g \in Gateways : probes'[g] = "ready" /\ probes[g] # "ready" => gateways[g].accepting]_lifetimeVars

\* A gateway that stops, crashes or starts anew settles no live attempt and reports no false readiness.
LifetimeIsSound == LiveAttemptStaysPending /\ NeverReadyWhileDraining

====
