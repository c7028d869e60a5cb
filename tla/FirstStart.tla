----------------------------- MODULE FirstStart -----------------------------
(***************************************************************************)
(* A process starts: it reads the secret of the deployment or publishes    *)
(* one of its own, then opens the store and migrates its schema, one       *)
(* transaction per version. Processes start at the same time, fail and     *)
(* die; a command of the operator opens the store without the secret.      *)
(* With the runs that clients create it is all that exists once only.      *)
(***************************************************************************)
EXTENDS Creation

CONSTANTS
    Processes,        \* processes that start
    FirstVersions,    \* schema versions the database may have at first
    MaxAttempts,      \* bound on the starts
    MaxStartFaults    \* bound on failed steps and deaths

VARIABLES
    secretFile,      \* oauth-token-secret.hex: the candidate published
    schemaVersion,   \* user_version of the database
    schemas,         \* the versions whose tables exist
    process,         \* what each process is doing
    attempts,        \* starts begun
    startFaults,     \* failed steps and deaths
    firstVersion,    \* ghost: the version at first
    overlapped       \* ghost: two processes had read the version at a time

firstVars == <<secretFile, schemaVersion, schemas, process, attempts, startFaults, firstVersion, overlapped>>

StateSchemaVersion == 8
ASSUME FirstAssumption == FirstVersions \subseteq 0..StateSchemaVersion

NoSecret == 0
NotStarted == [pc |-> "down", secret |-> NoSecret, version |-> 0]

FirstInit ==
    /\ firstVersion \in FirstVersions
    /\ schemaVersion = firstVersion /\ schemas = 1..firstVersion
    /\ secretFile = NoSecret
    /\ process = [p \in Processes |-> NotStarted]
    /\ attempts = 0 /\ startFaults = 0 /\ overlapped = FALSE

At(p, pc) == process[p].pc = pc
Goes(p, pc) == process' = [process EXCEPT ![p].pc = pc]
Down(p) == process' = [process EXCEPT ![p] = NotStarted]
StartFails(p) == startFaults < MaxStartFaults /\ startFaults' = startFaults + 1 /\ Down(p)

-----------------------------------------------------------------------------
(* A start, or a command that opens the store only.                        *)
BeginStart(p) ==
    /\ At(p, "down") /\ attempts < MaxAttempts
    /\ attempts' = attempts + 1
    /\ \E pc \in {"secret", "open"} : Goes(p, pc)
    /\ UNCHANGED <<secretFile, schemaVersion, schemas, startFaults, firstVersion, overlapped>>

(* load_or_create_secret: a candidate is drawn when there is no secret.    *)
ReadSecret(p) ==
    /\ At(p, "secret")
    /\ process' = IF secretFile # NoSecret
                  THEN [process EXCEPT ![p].pc = "open", ![p].secret = secretFile]
                  ELSE [process EXCEPT ![p].pc = "publish", ![p].secret = attempts]
    /\ UNCHANGED <<secretFile, schemaVersion, schemas, attempts, startFaults, firstVersion, overlapped>>

(* publish_secret_candidate: the synced temporary file is linked, never    *)
(* over a secret; the start may fail before or after that.                 *)
PublishSecret(p) ==
    LET published == IF secretFile = NoSecret THEN process[p].secret ELSE secretFile
    IN /\ At(p, "publish")
       /\ \/ secretFile' = published /\ Goes(p, "reread") /\ UNCHANGED startFaults
          \/ secretFile' \in {secretFile, published} /\ StartFails(p)
       /\ UNCHANGED <<schemaVersion, schemas, attempts, firstVersion, overlapped>>

RereadSecret(p) ==
    /\ At(p, "reread")
    /\ process' = [process EXCEPT ![p].pc = "open", ![p].secret = secretFile]
    /\ UNCHANGED <<secretFile, schemaVersion, schemas, attempts, startFaults, firstVersion, overlapped>>

-----------------------------------------------------------------------------
(* initialize: the version is read once, before any transaction.           *)
ReadVersion(p) ==
    /\ At(p, "open")
    /\ process' = [process EXCEPT ![p].pc = "migrate", ![p].version = schemaVersion]
    /\ overlapped' = (overlapped \/ \E q \in Processes \ {p} : At(q, "migrate"))
    /\ UNCHANGED <<secretFile, schemaVersion, schemas, attempts, startFaults, firstVersion>>

(* The tables of the first two versions are created if they do not exist,  *)
(* those of the others only if they do not.                                *)
Creatable(version) == version <= 2 \/ version \notin schemas

Migrate(p) ==
    LET next == process[p].version + 1
    IN /\ At(p, "migrate") /\ next <= StateSchemaVersion
       /\ \/ /\ Creatable(next)
             /\ schemas' = schemas \cup {next}
             /\ schemaVersion' = next
             /\ process' = [process EXCEPT ![p].version = next]
             /\ UNCHANGED startFaults
          \/ /\ ~Creatable(next) /\ Down(p)
             /\ UNCHANGED <<schemas, schemaVersion, startFaults>>
          \/ StartFails(p) /\ UNCHANGED <<schemas, schemaVersion>>
       /\ UNCHANGED <<secretFile, attempts, firstVersion, overlapped>>

Opened(p) ==
    /\ At(p, "migrate") /\ process[p].version = StateSchemaVersion
    /\ Goes(p, "up")
    /\ UNCHANGED <<secretFile, schemaVersion, schemas, attempts, startFaults, firstVersion, overlapped>>

Stops(p) ==
    /\ At(p, "up") /\ Down(p)
    /\ UNCHANGED <<secretFile, schemaVersion, schemas, attempts, startFaults, firstVersion, overlapped>>

Dies(p) ==
    /\ ~At(p, "down") /\ StartFails(p)
    /\ UNCHANGED <<secretFile, schemaVersion, schemas, attempts, firstVersion, overlapped>>

FirstNext == \E p \in Processes :
    \/ BeginStart(p) \/ ReadSecret(p) \/ PublishSecret(p) \/ RereadSecret(p)
    \/ ReadVersion(p) \/ Migrate(p) \/ Opened(p)
    \/ Stops(p) \/ Dies(p)

FirstSpec == FirstInit /\ [][FirstNext]_firstVars

-----------------------------------------------------------------------------
(* All that are up have the one secret on disk, and every table; a version *)
(* is never ahead of its tables, and is behind them only when two          *)
(* processes had read a version below 2 at a time (publish_secret_-        *)
(* candidate, initialize).                                                 *)
StartsAgree ==
    /\ \A p \in Processes : At(p, "up") =>
          process[p].secret \in {secretFile, NoSecret} /\ schemas = 1..StateSchemaVersion
    /\ 1..schemaVersion \subseteq schemas
    /\ schemas = 1..schemaVersion \/ (overlapped /\ firstVersion < 2)

(* What is there to be created once is: the run of a creation key, whole,  *)
(* the secret of a deployment and every table of its database, whatever    *)
(* fails (start_idempotent, materialize_secrets, initialize).              *)
CreatedOnce == CreationSound /\ StartsAgree
=============================================================================
