-------------------------------- MODULE LocalSetup --------------------------------
(***************************************************************************)
(* hormuz setup-local (hormuz/local_setup.py): a credential and a          *)
(* configuration that refers to it are each written to a private staging   *)
(* file, published under their names by a link, and the staging name is    *)
(* removed.  The process may end between any two of these steps; the same  *)
(* command is given again, by one caller or by several.                    *)
(*                                                                         *)
(* A file is the number of its names: one once it is whole, two while its  *)
(* staging name is still there.  A file with two names is not read.  The   *)
(* search for a staging name gives up after so many entries of the         *)
(* directory, which other files and abandoned staging files fill.          *)
(***************************************************************************)
EXTENDS Naturals

CONSTANTS
    Setups,         \* callers of setup for one configuration path
    ModeOf,         \* "managed": with a credential of its own; "environment": with one given
    MaxCredentials, \* bound: credentials made
    ScanLimit       \* entries of a directory that are searched for a staging name (256)

ASSUME SetupAssumption ==
    ModeOf \in [Setups -> {"managed", "environment"}] /\ MaxCredentials \in Nat /\ ScanLimit \in Nat \ 0 .. 2

VARIABLES
    setups,         \* each caller: where it stands, whether it only previews, how it ended
    credential,     \* the published credential
    configuration,  \* the published configuration
    entries,        \* per directory, the most entries it has had beside the file, counted up to the limit
    intervened      \* history: the user has removed or written one of them

setupVars == <<setups, credential, configuration, entries, intervened>>

Directories == {"credential", "configuration"}

Caller(at, preview, existing, result) ==
    [at |-> at, preview |-> preview, existing |-> existing, result |-> result]
Rest == Caller("idle", FALSE, FALSE, "none")

SetupInit ==
    /\ setups = [s \in Setups |-> Rest]
    /\ credential = [names |-> 0, token |-> 0]
    /\ configuration = [names |-> 0, text |-> "none"]
    /\ entries = [directory \in Directories |-> 0]
    /\ intervened = FALSE

LockHolder(s) == setups[s].at # "idle"
Goes(s, at) == setups' = [setups EXCEPT ![s].at = at]
SetupEnds(s, result) == setups' = [setups EXCEPT ![s] = Caller("idle", FALSE, FALSE, result)]

\* The command removes the staging name it has.
Unstaged(names) == IF names = 2 THEN 1 ELSE names

\* The staging name need not be among the entries that are searched.
Crowded(directory) == entries[directory] + 2 > ScanLimit
OneMore(count) == IF count < ScanLimit - 1 THEN count + 1 ELSE count

\* Mistake: a staging name that an interruption left is not removed.
Recovered_Not(directory, names) == {names}

\* _recover_publication: the names a file can have after the staging name of a published one is looked for.
Recovered(directory, names) ==
    IF names # 2 THEN {names} ELSE IF Crowded(directory) THEN {1, 2} ELSE {1}

\* The text a command writes differs with what it is asked for.
TextOf(s) == ModeOf[s]

\* The ports of a configuration that is there are kept, if it has them.
ReadsPorts(text) == text # "edited"

IsReadable(file) == file.names = 1

-----------------------------------------------------------------------------
LockConfiguration(s, preview) ==
    /\ \A t \in Setups : ~LockHolder(t)
    /\ setups' = [setups EXCEPT ![s] = Caller("locked", preview, FALSE, "none")]
    /\ UNCHANGED <<credential, configuration, entries, intervened>>

\* A configuration that is there must be the one this command would write.
ReadConfiguration(s) ==
    \E names \in Recovered("configuration", configuration.names) :
    LET found == [configuration EXCEPT !.names = names]
    IN  /\ setups[s].at = "locked"
        /\ configuration' = found
        /\ CASE found.names > 1 -> SetupEnds(s, "unsafe")
             [] found.names < 2 /\ ~ReadsPorts(found.text) -> SetupEnds(s, "changed")
             [] found.names = 1 /\ ReadsPorts(found.text) /\ found.text # TextOf(s) -> SetupEnds(s, "changed")
             [] OTHER -> setups' = [setups EXCEPT ![s] = Caller("read", setups[s].preview, found.names > 0, "none")]
        /\ UNCHANGED <<credential, entries, intervened>>

\* A credential that is there is used; one that a configuration refers to is never made again.
FindCredential(s) ==
    \E names \in Recovered("credential", credential.names) :
    LET found == [credential EXCEPT !.names = names]
    IN  /\ setups[s].at = "read" /\ ModeOf[s] = "managed"
        /\ credential' = found
        /\ CASE IsReadable(found) -> Goes(s, "ready")
             [] found.names > 1 -> SetupEnds(s, "unreadable")
             [] found.names = 0 /\ setups[s].existing -> SetupEnds(s, "missing")
             [] OTHER -> credential.token < MaxCredentials /\ Goes(s, "staged")
        /\ UNCHANGED <<configuration, entries, intervened>>

UseEnvironment(s) ==
    /\ setups[s].at = "read" /\ ModeOf[s] = "environment"
    /\ Goes(s, "ready")
    /\ UNCHANGED <<credential, configuration, entries, intervened>>

\* The connection is made with the configuration that is there, or tried with the staged one.
ConnectExisting(s) ==
    /\ setups[s].at = "ready" /\ setups[s].existing
    /\ SetupEnds(s, "reused")
    /\ UNCHANGED <<credential, configuration, entries, intervened>>

PreviewConnection(s) ==
    /\ setups[s].at \in {"ready", "staged"} /\ ~setups[s].existing
    /\ IF setups[s].preview THEN SetupEnds(s, "previewed")
       ELSE Goes(s, IF setups[s].at = "staged" THEN "credential" ELSE "configuration")
    /\ UNCHANGED <<credential, configuration, entries, intervened>>

LinkCredential(s) ==
    /\ setups[s].at = "credential"
    /\ IF credential.names > 0
       THEN SetupEnds(s, "failed") /\ UNCHANGED credential
       ELSE Goes(s, "linked") /\ credential' = [names |-> 2, token |-> credential.token + 1]
    /\ UNCHANGED <<configuration, entries, intervened>>

UnlinkCredential(s) ==
    /\ setups[s].at = "linked"
    /\ credential' = [credential EXCEPT !.names = Unstaged(@)]
    /\ Goes(s, "configuration")
    /\ UNCHANGED <<configuration, entries, intervened>>

\* Mistake: the staged configuration takes the place of one that is there.
LinkConfiguration_Replacing(s) ==
    /\ setups[s].at = "configuration"
    /\ Goes(s, "published")
    /\ configuration' = [names |-> 2, text |-> TextOf(s)]
    /\ UNCHANGED <<credential, entries, intervened>>

\* With the credential it refers to published, the configuration is; an existing file is never
\* replaced.
LinkConfiguration(s) ==
    /\ setups[s].at = "configuration"
    /\ IF configuration.names > 0
       THEN SetupEnds(s, "changed") /\ UNCHANGED configuration
       ELSE Goes(s, "published") /\ configuration' = [names |-> 2, text |-> TextOf(s)]
    /\ UNCHANGED <<credential, entries, intervened>>

UnlinkConfiguration(s) ==
    /\ setups[s].at = "published"
    /\ configuration' = [configuration EXCEPT !.names = Unstaged(@)]
    /\ Goes(s, "connecting")
    /\ UNCHANGED <<credential, entries, intervened>>

ConnectCreated(s) ==
    /\ setups[s].at = "connecting"
    /\ SetupEnds(s, "created")
    /\ UNCHANGED <<credential, configuration, entries, intervened>>

\* A connection fails: what was staged is removed, what was published stays.
FailSetup(s) ==
    /\ setups[s].at \in {"ready", "staged", "connecting"}
    /\ SetupEnds(s, "failed")
    /\ UNCHANGED <<credential, configuration, entries, intervened>>

\* Where a command has a staging file that it has not published.
Staging(s) ==
    {directory \in Directories :
       \/ directory = "credential" /\ setups[s].at \in {"staged", "credential"}
       \/ /\ directory = "configuration" /\ ~setups[s].existing
          /\ setups[s].at \in {"ready", "staged", "credential", "linked", "configuration"}}
Fill(left) == entries' = [directory \in Directories |->
                            IF directory \in left THEN OneMore(entries[directory]) ELSE entries[directory]]

\* The process ends, and its staging files stay where the user does not remove them.
CrashSetup(s) ==
    /\ LockHolder(s)
    /\ SetupEnds(s, "none")
    /\ \E left \in SUBSET Staging(s) : Fill(left)
    /\ UNCHANGED <<credential, configuration, intervened>>

\* Other files come to lie in a directory.
FilesAppear(directory) == Fill({directory}) /\ UNCHANGED <<setups, credential, configuration, intervened>>

\* The user removes a file, or writes a configuration of their own, once.
Intervene ==
    /\ ~intervened /\ intervened' = TRUE
    /\ \/ credential' = [credential EXCEPT !.names = 0] /\ UNCHANGED configuration
       \/ configuration' = [names |-> 0, text |-> "none"] /\ UNCHANGED credential
       \/ configuration' = [names |-> 1, text |-> "edited"] /\ UNCHANGED credential
    /\ UNCHANGED <<setups, entries>>

SetupNext ==
    \/ \E s \in Setups :
          \/ \E preview \in BOOLEAN : LockConfiguration(s, preview)
          \/ ReadConfiguration(s) \/ FindCredential(s) \/ UseEnvironment(s)
          \/ ConnectExisting(s) \/ PreviewConnection(s)
          \/ LinkCredential(s) \/ UnlinkCredential(s)
          \/ LinkConfiguration(s) \/ UnlinkConfiguration(s) \/ ConnectCreated(s)
          \/ FailSetup(s) \/ CrashSetup(s)
    \/ Intervene
    \/ \E directory \in Directories : FilesAppear(directory)

SetupSpec == SetupInit /\ [][SetupNext]_setupVars

-----------------------------------------------------------------------------
\* The types of the variables.
SetupTypeOK ==
    /\ \A s \in Setups : setups[s].preview \in BOOLEAN /\ setups[s].existing \in BOOLEAN
    /\ credential.names \in 0 .. 2 /\ credential.token \in 0 .. MaxCredentials
    /\ configuration.names \in 0 .. 2 /\ configuration.text \in {"none", "managed", "environment", "edited"}
    /\ entries \in [Directories -> 0 .. ScanLimit - 1] /\ intervened \in BOOLEAN

\* Wherever earlier setups were interrupted, the same command can be given again: unless the user
\* has changed something, it is refused only where another command's configuration is, or a file that
\* an interruption left half published lies in a directory with more entries than are searched ("a
\* match within at most 256 directory entries", docs/SHARED_LOCAL_SETUP.md:107-113), and never for a
\* credential that was never published.
SetupCanBeRepeated ==
    ~intervened => \A s \in Setups :
        /\ setups[s].result # "missing"
        /\ setups[s].result = "unsafe" => Crowded("configuration")
        /\ setups[s].result = "unreadable" => Crowded("credential")
        /\ setups[s].result = "changed" => configuration.names > 0 /\ configuration.text # TextOf(s)

\* A setup changes no credential and no configuration that is there (setup_local: "an existing
\* file is never replaced").
SetupKeepsWhatIsThere ==
    [][intervened' = intervened =>
         /\ credential.names > 0 => credential'.token = credential.token /\ credential'.names > 0
         /\ configuration.names > 0 => configuration'.text = configuration.text]_setupVars

\* A setup that failed anywhere can be run again, and never replaces what the user has.
SetupIsSound == []SetupCanBeRepeated /\ SetupKeepsWhatIsThere

====
