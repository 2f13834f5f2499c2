---------------------------- MODULE LocalAcquisition ----------------------------
(***************************************************************************)
(* `acquire local`: the pinned runtime and model of one catalog, fetched   *)
(* into a generation directory of their own.  A command takes the          *)
(* generation's lock, looks at what is there, fetches what is missing in a *)
(* worker process, and publishes each file by linking a private name to    *)
(* the final one.  Commands are killed or interrupted anywhere; a worker   *)
(* outlives its command for a while and keeps the lock it inherited.       *)
(*                                                                         *)
(* An artifact is one file of ArtifactSize parts under one or two names;   *)
(* its content is the number of parts it has and whether they are all the  *)
(* pinned ones.  Other programs leave the generation alone.                *)
(***************************************************************************)
EXTENDS Naturals, FiniteSets, Sequences

CONSTANTS
    Commands,       \* runs of the command, each started once
    Operations,     \* what a command may be asked for: "download", "offline", "preview"
    ArtifactSize    \* parts of an artifact

ASSUME AcquisitionAssumption == ArtifactSize \in Nat \ {0}

VARIABLES
    commands,    \* per command: stage, step, what it was asked for and how it ended
    workers,     \* per command, its worker: alive, what it fetches and where it writes
    generation,  \* the directory: made, its lock file, documents, private names left, runtime
    artifacts,   \* per role: parts, whether pinned, and the names it has
    torn         \* history: a command was stopped between two steps of a publication

acquisitionVars == <<commands, workers, generation, artifacts, torn>>

Roles == {"runtime", "model"}
Documents == {"catalog", "qualification", "receipt"}

\* What a download does, in order.
Stages == <<"mkdir", "catalog", "runtime", "model", "extract", "qualification", "verify", "receipt", "done">>
After(stage) == Stages[1 + CHOOSE i \in 1..8 : Stages[i] = stage]

\* Mistake: the worker does not inherit the lock of the generation.
HoldsLock_NotInherited(c) == commands[c].step \notin {"new", "lock", "ended"}

\* A command keeps the lock from the moment it has it; its worker has the same open lock.
HoldsLock(c) == commands[c].step \notin {"new", "lock", "ended"} \/ workers[c].alive

AcquisitionInit ==
    /\ commands = [c \in Commands |-> [stage |-> "none", step |-> "new", operation |-> "none",
                                       present |-> FALSE, outcome |-> "none"]]
    /\ workers = [c \in Commands |-> [alive |-> FALSE, role |-> "none", at |-> 0]]
    /\ generation = [made |-> FALSE, lock |-> FALSE, documents |-> {}, strays |-> 0, runtime |-> FALSE]
    /\ artifacts = [role \in Roles |-> [parts |-> 0, pinned |-> TRUE, names |-> {}]]
    /\ torn = FALSE

-----------------------------------------------------------------------------
Ended(c, outcome) == [commands[c] EXCEPT !.step = "ended", !.outcome = outcome]
CommandEnds(c, outcome) == commands' = [commands EXCEPT ![c] = Ended(c, outcome)]
GoesTo(c, stage, step) == commands' = [commands EXCEPT ![c].stage = stage, ![c].step = step]
NextStage(c) == GoesTo(c, After(commands[c].stage), "begin")

\* acquire_local: whether the generation exists is looked up before the lock.
StartCommand(c, operation) ==
    /\ commands[c].step = "new"
    /\ commands' = [commands EXCEPT ![c].step = "lock", ![c].operation = operation,
                                    ![c].present = generation.made]
    /\ UNCHANGED <<workers, generation, artifacts, torn>>

\* Without a lock file nothing is inspected: a command that does not download reports what a fresh
\* generation needs, or that it is missing.
LockIsFree(c) ==
    LET command == commands[c]
    IN  IF command.present THEN "installation_changed"
        ELSE IF command.operation = "preview" THEN "planned" ELSE "offline_missing"

TakeLock(c) ==
    LET command == commands[c]
        creates == command.operation = "download" /\ ~command.present
    IN  /\ command.step = "lock"
        /\ \/ /\ ~generation.lock /\ ~creates
              /\ CommandEnds(c, LockIsFree(c)) /\ UNCHANGED generation
           \/ /\ generation.lock \/ creates
              /\ generation' = [generation EXCEPT !.lock = TRUE]
              /\ IF \E other \in Commands : HoldsLock(other)
                 THEN CommandEnds(c, "busy") ELSE GoesTo(c, "inspect", "begin")
        /\ UNCHANGED <<workers, artifacts, torn>>

\* A directory that holds a private name, or a file with a second one, was not left by a command
\* that ended; without its catalog it cannot be told what it is.
Changed == /\ generation.made
           /\ generation.strays > 0 \/ \E role \in Roles : Cardinality(artifacts[role].names) = 2
Unmarked == generation.made /\ "catalog" \notin generation.documents
Installed == "receipt" \in generation.documents

Whole(role) == artifacts[role].parts = ArtifactSize /\ artifacts[role].pinned
\* The files of the runtime are those of its archive, which is the pinned one.
RuntimeMatches == generation.runtime /\ Whole("runtime")
Verified == /\ RuntimeMatches /\ "qualification" \in generation.documents
            /\ \A role \in Roles : "file" \in artifacts[role].names /\ Whole(role)

Inspect(c) ==
    LET operation == commands[c].operation
    IN  /\ commands[c].stage = "inspect" /\ commands[c].step = "begin"
        /\ \/ Changed /\ CommandEnds(c, "installation_changed")
           \/ ~Changed /\ Unmarked /\ CommandEnds(c, "directory_unsafe")
           \/ ~Changed /\ ~Unmarked /\ Installed
                /\ CommandEnds(c, IF Verified THEN (IF operation = "preview" THEN "ready" ELSE "reuse")
                                       ELSE "installation_changed")
           \/ ~Changed /\ ~Unmarked /\ ~Installed /\ operation = "preview" /\ CommandEnds(c, "planned")
           \/ ~Changed /\ ~Unmarked /\ ~Installed /\ operation = "offline" /\ CommandEnds(c, "offline_missing")
           \/ ~Changed /\ ~Unmarked /\ ~Installed /\ operation = "download"
                /\ \/ GoesTo(c, IF generation.made THEN "runtime" ELSE "mkdir", "begin")
                   \/ CommandEnds(c, "space_unavailable")
        /\ UNCHANGED <<workers, generation, artifacts, torn>>

MakeGeneration(c) ==
    /\ commands[c].stage = "mkdir" /\ commands[c].step = "begin"
    /\ generation' = [generation EXCEPT !.made = TRUE]
    /\ NextStage(c)
    /\ UNCHANGED <<workers, artifacts, torn>>

-----------------------------------------------------------------------------
(* _write_new: a document is written under a private name, linked, and the *)
(* private name removed.  One that is there already is left.               *)

PublishDocument(c) ==
    LET document == commands[c].stage
        step == commands[c].step
    IN  /\ document \in Documents
        /\ \/ /\ step = "begin" /\ document \in generation.documents
              /\ NextStage(c) /\ UNCHANGED generation
           \/ /\ step = "begin" /\ document \notin generation.documents
              /\ generation' = [generation EXCEPT !.strays = @ + 1] /\ GoesTo(c, document, "link")
           \/ /\ step = "link"
              /\ generation' = [generation EXCEPT !.documents = @ \cup {document}]
              /\ GoesTo(c, document, "unlink")
           \/ /\ step = "unlink"
              /\ generation' = [generation EXCEPT !.strays = @ - 1] /\ NextStage(c)
        /\ UNCHANGED <<workers, artifacts, torn>>

-----------------------------------------------------------------------------
(* _download and the worker that fetches.                                  *)

\* A published file is checked again and never written; a partial one that is short goes on.
OpenPartial(c) ==
    LET role == commands[c].stage
        artifact == artifacts[role]
    IN  /\ role \in Roles /\ commands[c].step = "begin"
        /\ \/ /\ "file" \in artifact.names
              /\ IF Whole(role) THEN NextStage(c) ELSE CommandEnds(c, "installation_changed")
              /\ UNCHANGED <<workers, artifacts>>
           \/ /\ "file" \notin artifact.names
              /\ artifacts' = [artifacts EXCEPT ![role].names = {"part"}]
              /\ IF artifact.parts < ArtifactSize
                 THEN /\ GoesTo(c, role, "fetch")
                      /\ workers' = [workers EXCEPT ![c] = [alive |-> TRUE, role |-> role, at |-> artifact.parts]]
                 ELSE GoesTo(c, role, "match") /\ UNCHANGED workers
        /\ UNCHANGED <<generation, torn>>

\* A source that ignores the range starts the file over.
Restart(c) ==
    LET worker == workers[c]
    IN  /\ worker.alive /\ worker.at > 0
        /\ artifacts' = [artifacts EXCEPT ![worker.role].parts = 0, ![worker.role].pinned = TRUE]
        /\ workers' = [workers EXCEPT ![c].at = 0]
        /\ UNCHANGED <<commands, generation, torn>>

\* A part arrives, the pinned one or not, and is written where the worker is.
Receive(c, pinned) ==
    LET worker == workers[c]
        artifact == artifacts[worker.role]
    IN  /\ worker.alive /\ worker.at < ArtifactSize
        /\ artifacts' = [artifacts EXCEPT
             ![worker.role].parts = IF worker.at + 1 > @ THEN worker.at + 1 ELSE @,
             ![worker.role].pinned = @ /\ pinned /\ worker.at <= artifact.parts]
        /\ workers' = [workers EXCEPT ![c].at = @ + 1]
        /\ UNCHANGED <<commands, generation, torn>>

\* The worker ends: with all it was to fetch, or because the source failed it, or the time is over.
\* One whose command died has nobody to tell.
WorkerEnds(c) ==
    LET worker == workers[c]
    IN  /\ worker.alive
        /\ workers' = [workers EXCEPT ![c].alive = FALSE]
        /\ \/ commands[c].step = "ended" /\ UNCHANGED commands
           \/ commands[c].step = "fetch" /\ worker.at = ArtifactSize /\ GoesTo(c, worker.role, "match")
           \/ commands[c].step = "fetch" /\ CommandEnds(c, "download_unavailable")
        /\ UNCHANGED <<generation, artifacts, torn>>

\* The digest decides: the file gets its name, or what was fetched is dropped; reading it may take
\* longer than it may.
Match(c) ==
    LET role == commands[c].stage
    IN  /\ role \in Roles /\ commands[c].step = "match"
        /\ \/ /\ Whole(role)
              /\ artifacts' = [artifacts EXCEPT ![role].names = {"part", "file"}] /\ GoesTo(c, role, "linked")
           \/ /\ ~Whole(role)
              /\ artifacts' = [artifacts EXCEPT ![role].parts = 0, ![role].pinned = TRUE]
              /\ CommandEnds(c, "download_invalid")
           \/ CommandEnds(c, "download_unavailable") /\ UNCHANGED artifacts
        /\ UNCHANGED <<workers, generation, torn>>

DropPartial(c) ==
    LET role == commands[c].stage
    IN  /\ role \in Roles /\ commands[c].step = "linked"
        /\ artifacts' = [artifacts EXCEPT ![role].names = {"file"}]
        /\ NextStage(c)
        /\ UNCHANGED <<workers, generation, torn>>

\* extract_runtime: into a private directory, which is then renamed.
Extract(c) ==
    /\ commands[c].stage = "extract"
    /\ \/ /\ commands[c].step = "begin" /\ generation.runtime
          /\ NextStage(c) /\ UNCHANGED generation
       \/ /\ commands[c].step = "begin" /\ ~generation.runtime
          /\ generation' = [generation EXCEPT !.strays = @ + 1] /\ GoesTo(c, "extract", "rename")
       \/ /\ commands[c].step = "rename"
          /\ generation' = [generation EXCEPT !.strays = @ - 1, !.runtime = TRUE] /\ NextStage(c)
    /\ UNCHANGED <<workers, artifacts, torn>>

Verify(c) ==
    /\ commands[c].stage = "verify" /\ commands[c].step = "begin"
    /\ IF Verified THEN NextStage(c) ELSE CommandEnds(c, "installation_changed")
    /\ UNCHANGED <<workers, generation, artifacts, torn>>

Finish(c) ==
    /\ commands[c].stage = "done" /\ commands[c].step = "begin"
    /\ CommandEnds(c, "acquired")
    /\ UNCHANGED <<workers, generation, artifacts, torn>>

-----------------------------------------------------------------------------
(* A command is stopped.                                                   *)

\* The directory as a command at this step leaves it can be told from one it finished: a directory
\* without its catalog, a private name, or a second name.
InPublication(c) ==
    \/ commands[c].stage = "catalog"
    \/ commands[c].step \in {"link", "unlink", "linked", "rename"}

\* Killed: nothing is cleaned up, and the worker does not know yet.
Kill(c) ==
    /\ commands[c].step \notin {"new", "ended"}
    /\ CommandEnds(c, "killed")
    /\ torn' = (torn \/ InPublication(c))
    /\ UNCHANGED <<workers, generation, artifacts>>

\* Mistake: what was written under a private name is left where it is.
Tidied_Not(c) == generation

\* The private name, or the directory of an extraction, is removed.
Tidied(c) == [generation EXCEPT
    !.strays = IF commands[c].step \in {"link", "unlink", "rename"} THEN @ - 1 ELSE @]

\* Interrupted: it tidies up, and stops and reaps its worker.
Interrupt(c) ==
    /\ commands[c].step \notin {"new", "ended"}
    /\ CommandEnds(c, "interrupted")
    /\ workers' = [workers EXCEPT ![c].alive = FALSE]
    /\ generation' = Tidied(c)
    /\ torn' = (torn \/ commands[c].step = "linked"
                     \/ (commands[c].stage = "catalog" /\ commands[c].step # "unlink"))
    /\ UNCHANGED artifacts

AcquisitionNext == \E c \in Commands :
    \/ \E operation \in Operations : StartCommand(c, operation)
    \/ TakeLock(c) \/ Inspect(c) \/ MakeGeneration(c) \/ PublishDocument(c)
    \/ OpenPartial(c) \/ Restart(c) \/ (\E pinned \in BOOLEAN : Receive(c, pinned)) \/ WorkerEnds(c)
    \/ Match(c) \/ DropPartial(c) \/ Extract(c) \/ Verify(c) \/ Finish(c)
    \/ Kill(c) \/ Interrupt(c)

AcquisitionSpec == AcquisitionInit /\ [][AcquisitionNext]_acquisitionVars

-----------------------------------------------------------------------------
AcquisitionTypeOK ==
    /\ generation.documents \subseteq Documents /\ generation.strays \in Nat
    /\ \A role \in Roles : /\ artifacts[role].parts \in 0..ArtifactSize
                           /\ artifacts[role].names \subseteq {"part", "file"}
    /\ \A c \in Commands : workers[c].at \in 0..ArtifactSize

\* What has its final name is whole, pinned, and stays so, whoever still writes: the file a worker
\* of a killed command writes to is the one the next command publishes.
PublishedIsPinned == \A role \in Roles : "file" \in artifacts[role].names => Whole(role)

\* A command that is stopped outside a publication costs nothing but time: the next one is not
\* refused because of what it left, and never finds a receipt it cannot vouch for.
TransfersAreResumed ==
    \A c \in Commands : commands[c].outcome \in {"installation_changed", "directory_unsafe"} => torn

\* What is published is the pinned file, and an interrupted transfer is resumed or discarded.
AcquisitionIsSound == PublishedIsPinned /\ TransfersAreResumed

=============================================================================
