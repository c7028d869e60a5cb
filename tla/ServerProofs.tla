----------------------------- MODULE ServerProofs -----------------------------
(***************************************************************************)
(* Proofs about the server as its clients meet it. Its processes agree on  *)
(* the secret and on the tables of the database, for any number of         *)
(* processes, starts and faults; the events of its quick tunnel come in    *)
(* order, for any number of lines and origins and however start, close and *)
(* exit meet; a reply of /mcp tells what ran; a token is what the operator *)
(* approved; a keyed write is done once while its slot is remembered; and  *)
(* the readers of a command's output are shown its characters in their     *)
(* places, for any buffers and any text; a command is never left without a *)
(* handle, and its end is news to one caller, for any number of both.      *)
(***************************************************************************)
EXTENDS
    FirstStart, McpHttp, OAuth, NativeReplay, ChildOutput, CommandManager,
    FiniteSetTheorems, SequenceTheorems, WellFoundedInduction, TLAPS

(***************************************************************************)
(* The first start.                                                        *)
(***************************************************************************)

Places == {"down", "secret", "publish", "reread", "open", "migrate", "up"}
Versions == 0..StateSchemaVersion

FirstType ==
    /\ secretFile \in Nat /\ schemaVersion \in Versions /\ schemas \in SUBSET (1..StateSchemaVersion)
    /\ process \in [Processes -> [pc : Places, secret : Nat, version : Versions]]
    /\ attempts \in Nat /\ startFaults \in Nat
    /\ firstVersion \in Versions /\ overlapped \in BOOLEAN

(* A process past the reading of the secret has the one on disk, or none   *)
(* when it is a command; one that is down has none.                        *)
SecretsAgree == \A p \in Processes :
    process[p].pc \in {"down", "open", "migrate", "up"} => process[p].secret \in {secretFile, NoSecret}

(* Tables are never dropped: those of every version that was read remain.  *)
TablesStay ==
    /\ 1..schemaVersion \subseteq schemas
    /\ \A p \in Processes : process[p].pc \in {"migrate", "up"} => 1..process[p].version \subseteq schemas
    /\ \A p \in Processes : process[p].pc = "up" => process[p].version = StateSchemaVersion

(* The version is exact as long as no two processes had read it at a time, *)
(* and even then when the tables of the next versions are not created      *)
(* twice.                                                                  *)
VersionExact == schemas = 1..schemaVersion \/ (overlapped /\ firstVersion < 2)

ReadersBehind == \A p \in Processes : process[p].pc = "migrate" =>
    /\ firstVersion >= 2 => process[p].version \in 2..schemaVersion
    /\ ~overlapped => process[p].version = schemaVersion

ReadersAlone == ~overlapped => \A p, q \in Processes :
    process[p].pc = "migrate" /\ process[q].pc = "migrate" => p = q

FirstInv ==
    /\ FirstType /\ SecretsAgree /\ TablesStay /\ VersionExact /\ ReadersBehind /\ ReadersAlone
    /\ firstVersion <= schemaVersion \/ firstVersion < 2

-----------------------------------------------------------------------------
LEMMA InitFirst == FirstInit => FirstInv
  <1> USE FirstAssumption DEF NoSecret, StateSchemaVersion
  <1>. SUFFICES ASSUME FirstInit PROVE FirstInv
    OBVIOUS
  <1>1. FirstType
    <2>1. firstVersion \in Versions /\ schemaVersion \in Versions
      BY DEF FirstInit, Versions
    <2>2. schemas \in SUBSET (1..StateSchemaVersion)
      BY <2>1 DEF FirstInit, Versions
    <2>3. process \in [Processes -> [pc : Places, secret : Nat, version : Versions]]
      <3>1. NotStarted \in [pc : Places, secret : Nat, version : Versions]
        BY DEF NotStarted, Places, Versions
      <3>. QED
        BY <3>1 DEF FirstInit
    <2>. QED
      BY <2>1, <2>2, <2>3 DEF FirstInit, FirstType
  <1>2. \A p \in Processes : process[p].pc = "down" /\ process[p].secret = NoSecret
    BY DEF FirstInit, NotStarted
  <1>. QED
    BY <1>1, <1>2 DEF FirstInit, FirstInv, SecretsAgree, TablesStay, VersionExact, ReadersBehind, ReadersAlone

(* A step that moves one process to a place before the reading of the      *)
(* version and leaves the database alone.                                  *)
LEMMA QuietStart ==
    ASSUME FirstInv, NEW p \in Processes,
           FirstType', UNCHANGED <<schemaVersion, schemas, firstVersion, overlapped>>,
           secretFile' = secretFile \/ secretFile = NoSecret,
           \A q \in Processes \ {p} : process'[q] = process[q],
           \/ process'[p].pc \in {"secret", "publish", "reread"}
           \/ process'[p].pc \in {"down", "open"} /\ process'[p].secret \in {secretFile', NoSecret}
           \/ /\ process'[p].pc = "up" /\ process[p].pc = "migrate"
              /\ process'[p].secret = process[p].secret /\ process'[p].version = process[p].version
              /\ process[p].version = StateSchemaVersion
    PROVE  FirstInv'
  <1> USE DEF NoSecret, StateSchemaVersion
  <1>1. SecretsAgree'
    BY DEF FirstInv, SecretsAgree
  <1>2. TablesStay'
    BY DEF FirstInv, TablesStay
  <1>3. VersionExact' /\ ReadersBehind' /\ ReadersAlone'
    BY DEF FirstInv, VersionExact, ReadersBehind, ReadersAlone
  <1>. QED
    BY <1>1, <1>2, <1>3 DEF FirstInv

LEMMA ReadVersionInv == ASSUME FirstInv, NEW p \in Processes, ReadVersion(p) PROVE FirstInv'
  <1> USE DEF NoSecret, StateSchemaVersion
  <1>1. FirstType'
    BY DEF FirstInv, FirstType, ReadVersion, At, Places, Versions
  <1>2. /\ process'[p].pc = "migrate" /\ process'[p].version = schemaVersion
        /\ process'[p].secret = process[p].secret /\ process[p].pc = "open"
        /\ \A q \in Processes \ {p} : process'[q] = process[q]
    BY DEF FirstInv, FirstType, ReadVersion, At
  <1>3. SecretsAgree' /\ TablesStay' /\ VersionExact'
    BY <1>2 DEF FirstInv, ReadVersion, SecretsAgree, TablesStay, VersionExact
  <1>4. ReadersBehind'
    BY <1>2 DEF FirstInv, FirstType, Versions, ReadVersion, ReadersBehind
  <1>5. ReadersAlone'
    <2>. SUFFICES ASSUME ~overlapped', NEW q1 \in Processes, NEW q2 \in Processes,
                         process'[q1].pc = "migrate", process'[q2].pc = "migrate"
                  PROVE  q1 = q2
      BY DEF ReadersAlone
    <2>1. ~overlapped /\ \A q \in Processes \ {p} : process[q].pc # "migrate"
      BY DEF ReadVersion, At
    <2>. QED
      BY <1>2, <2>1
  <1>. QED
    BY <1>1, <1>3, <1>4, <1>5 DEF FirstInv, ReadVersion

LEMMA MigrateInv == ASSUME FirstInv, NEW p \in Processes, Migrate(p) PROVE FirstInv'
  <1> DEFINE next == process[p].version + 1
  <1> USE DEF NoSecret, StateSchemaVersion
  <1>1. CASE /\ Creatable(next) /\ schemas' = schemas \cup {next} /\ schemaVersion' = next
             /\ process' = [process EXCEPT ![p].version = next] /\ UNCHANGED startFaults
    <2>1. /\ process[p].pc = "migrate" /\ process'[p].pc = "migrate" /\ process'[p].version = next
          /\ process'[p].secret = process[p].secret
          /\ \A q \in Processes \ {p} : process'[q] = process[q]
          /\ next \in 1..8 /\ process[p].version \in 0..7
      BY <1>1 DEF FirstInv, FirstType, Migrate, At, Versions
    <2>2. FirstType'
      BY <1>1, <2>1 DEF FirstInv, FirstType, Migrate, Versions, Places
    <2>3. SecretsAgree'
      BY <1>1, <2>1 DEF FirstInv, SecretsAgree, Migrate
    <2>4. 1..next \subseteq schemas'
      BY <1>1, <2>1 DEF FirstInv, TablesStay
    <2>5. TablesStay'
      BY <1>1, <2>1, <2>4 DEF FirstInv, TablesStay
    <2>6. ~overlapped \/ firstVersion >= 2 => next = schemaVersion + 1
      <3>1. CASE ~overlapped
        BY <2>1, <3>1 DEF FirstInv, ReadersBehind
      <3>2. CASE firstVersion >= 2
        <4>1. process[p].version \in 2..schemaVersion /\ schemas = 1..schemaVersion
          BY <2>1, <3>2 DEF FirstInv, ReadersBehind, VersionExact, FirstType, Versions
        <4>2. next \notin schemas
          BY <1>1, <2>1, <4>1 DEF Creatable
        <4>. QED
          BY <2>1, <4>1, <4>2 DEF FirstInv, FirstType, Versions
      <3>. QED
        BY <3>1, <3>2
    <2>7. VersionExact'
      BY <1>1, <2>1, <2>6 DEF FirstInv, VersionExact, Migrate, FirstType, Versions
    <2>8. ReadersBehind'
      <3>. SUFFICES ASSUME NEW q \in Processes, process'[q].pc = "migrate"
                    PROVE  /\ firstVersion >= 2 => process'[q].version \in 2..next
                           /\ ~overlapped => process'[q].version = next
        BY <1>1 DEF ReadersBehind, Migrate
      <3>1. CASE q = p
        BY <2>1, <3>1 DEF FirstInv, ReadersBehind
      <3>2. CASE q # p
        <4>1. process'[q] = process[q] /\ process[q].pc = "migrate"
          BY <2>1, <3>2
        <4>2. overlapped
          BY <2>1, <3>2, <4>1 DEF FirstInv, ReadersAlone
        <4>3. firstVersion >= 2 => process[q].version \in 2..schemaVersion
          BY <4>1 DEF FirstInv, ReadersBehind
        <4>. QED
          BY <2>1, <2>6, <4>1, <4>2, <4>3 DEF FirstInv, FirstType, Versions
      <3>. QED
        BY <3>1, <3>2
    <2>9. ReadersAlone'
      BY <2>1 DEF FirstInv, ReadersAlone, Migrate
    <2>10. firstVersion' <= schemaVersion' \/ firstVersion' < 2
      BY <1>1, <2>1, <2>6 DEF FirstInv, FirstType, Versions, Migrate
    <2>. QED
      BY <2>2, <2>3, <2>5, <2>7, <2>8, <2>9, <2>10 DEF FirstInv
  <1>2. CASE Down(p) /\ UNCHANGED <<schemas, schemaVersion>> /\ (UNCHANGED startFaults \/ startFaults' = startFaults + 1)
    <2>1. FirstType'
      BY <1>2 DEF FirstInv, FirstType, Migrate, Down, NotStarted, Places, Versions
    <2>2. process'[p].pc = "down" /\ process'[p].secret = NoSecret /\ \A q \in Processes \ {p} : process'[q] = process[q]
      BY <1>2 DEF Down, NotStarted, FirstInv, FirstType
    <2>. QED
      BY <1>2, <2>1, <2>2, QuietStart DEF Migrate
  <1>. QED
    BY <1>1, <1>2 DEF Migrate, StartFails

LEMMA NextFirst == FirstInv /\ [FirstNext]_firstVars => FirstInv'
  <1> USE DEF NoSecret
  <1>. SUFFICES ASSUME FirstInv, [FirstNext]_firstVars PROVE FirstInv'
    OBVIOUS
  <1>1. CASE UNCHANGED firstVars
    BY <1>1 DEF firstVars, FirstInv, FirstType, SecretsAgree, TablesStay, VersionExact, ReadersBehind, ReadersAlone
  <1>2. ASSUME NEW p \in Processes,
               \/ BeginStart(p) \/ ReadSecret(p) \/ PublishSecret(p) \/ RereadSecret(p)
               \/ Opened(p) \/ Stops(p) \/ Dies(p)
        PROVE  FirstInv'
    <2>1. FirstType'
      <3> USE DEF FirstInv, FirstType, Places, StateSchemaVersion, Versions, Goes, Down, NotStarted
      <3>1. CASE BeginStart(p) \/ ReadSecret(p) \/ RereadSecret(p) \/ Opened(p)
        <4>1. CASE BeginStart(p)
          BY <4>1 DEF BeginStart
        <4>2. CASE ReadSecret(p)
          BY <4>2 DEF ReadSecret
        <4>3. CASE RereadSecret(p)
          BY <4>3 DEF RereadSecret
        <4>4. CASE Opened(p)
          BY <4>4 DEF Opened
        <4>. QED
          BY <3>1, <4>1, <4>2, <4>3, <4>4
      <3>2. CASE PublishSecret(p)
        <4>1. secretFile' \in Nat /\ startFaults' \in Nat
          BY <3>2 DEF PublishSecret, StartFails
        <4>2. Goes(p, "reread") \/ Down(p)
          BY <3>2 DEF PublishSecret, StartFails
        <4>3. process' \in [Processes -> [pc : Places, secret : Nat, version : Versions]]
          BY <4>2
        <4>. QED
          BY <3>2, <4>1, <4>3 DEF PublishSecret
      <3>3. CASE Stops(p) \/ Dies(p)
        <4>1. Down(p) /\ (UNCHANGED startFaults \/ startFaults' = startFaults + 1)
          BY <3>3 DEF Stops, Dies, StartFails
        <4>2. process' \in [Processes -> [pc : Places, secret : Nat, version : Versions]]
          BY <4>1
        <4>3. startFaults' \in Nat
          BY <4>1
        <4>4. UNCHANGED <<secretFile, schemaVersion, schemas, attempts, firstVersion, overlapped>>
          BY <3>3 DEF Stops, Dies
        <4>. QED
          BY <4>2, <4>3, <4>4
      <3>. QED
        BY <1>2, <3>1, <3>2, <3>3
    <2>2. UNCHANGED <<schemaVersion, schemas, firstVersion, overlapped>>
      BY <1>2 DEF BeginStart, ReadSecret, PublishSecret, RereadSecret, Opened, Stops, Dies
    <2>3. secretFile' = secretFile \/ secretFile = NoSecret
      BY <1>2 DEF BeginStart, ReadSecret, PublishSecret, RereadSecret, Opened, Stops, Dies
    <2>4. \A q \in Processes \ {p} : process'[q] = process[q]
      BY <1>2 DEF FirstInv, FirstType, BeginStart, ReadSecret, PublishSecret, RereadSecret, Opened, Stops, Dies,
                  Goes, Down, StartFails
    <2>5. CASE BeginStart(p)
      <3>1. process'[p].pc \in {"secret", "open"} /\ process'[p].secret = process[p].secret
        BY <2>5 DEF FirstInv, FirstType, BeginStart, Goes
      <3>2. process[p].secret \in {secretFile, NoSecret} /\ secretFile' = secretFile
        BY <2>5 DEF BeginStart, At, FirstInv, SecretsAgree
      <3>. QED
        BY <2>1, <2>2, <2>3, <2>4, <3>1, <3>2, QuietStart
    <2>6. CASE ReadSecret(p)
      <3>1. \/ process'[p].pc = "open" /\ process'[p].secret = secretFile'
            \/ process'[p].pc = "publish"
        BY <2>6 DEF FirstInv, FirstType, ReadSecret
      <3>. QED
        BY <2>1, <2>2, <2>3, <2>4, <3>1, QuietStart
    <2>7. CASE PublishSecret(p) \/ Stops(p) \/ Dies(p)
      <3>1. process'[p].pc = "reread" \/ (process'[p].pc = "down" /\ process'[p].secret = NoSecret)
        BY <2>7 DEF FirstInv, FirstType, PublishSecret, Stops, Dies, Goes, Down, StartFails, NotStarted
      <3>. QED
        BY <2>1, <2>2, <2>3, <2>4, <3>1, QuietStart
    <2>8. CASE RereadSecret(p)
      <3>1. process'[p].pc = "open" /\ process'[p].secret = secretFile'
        BY <2>8 DEF FirstInv, FirstType, RereadSecret
      <3>. QED
        BY <2>1, <2>2, <2>3, <2>4, <3>1, QuietStart
    <2>9. CASE Opened(p)
      <3>1. /\ process'[p].pc = "up" /\ process[p].pc = "migrate"
            /\ process'[p].secret = process[p].secret /\ process'[p].version = process[p].version
            /\ process[p].version = StateSchemaVersion
        BY <2>9 DEF FirstInv, FirstType, Opened, At, Goes
      <3>. QED
        BY <2>1, <2>2, <2>3, <2>4, <3>1, QuietStart
    <2>. QED
      BY <1>2, <2>5, <2>6, <2>7, <2>8, <2>9
  <1>. QED
    BY <1>1, <1>2, ReadVersionInv, MigrateInv DEF FirstNext

(* Whatever starts at the same time, fails or dies: all processes that are *)
(* up have the one secret on disk and every table, and the version of the  *)
(* database is behind its tables only after two processes had read a       *)
(* version below 2 at a time.                                              *)
THEOREM StartsAlwaysAgree == FirstSpec => []StartsAgree
  <1>1. FirstInv => StartsAgree
    <2>. SUFFICES ASSUME FirstInv PROVE StartsAgree
      OBVIOUS
    <2>1. \A p \in Processes : At(p, "up") =>
             process[p].secret \in {secretFile, NoSecret} /\ schemas = 1..StateSchemaVersion
      BY DEF FirstInv, FirstType, SecretsAgree, TablesStay, At
    <2>. QED
      BY <2>1 DEF FirstInv, TablesStay, VersionExact, StartsAgree
  <1>. QED
    BY <1>1, InitFirst, NextFirst, PTL DEF FirstSpec

-----------------------------------------------------------------------------
(***************************************************************************)
(* The quick tunnel.                                                       *)
(***************************************************************************)

TunnelStates == {"starting", "connected", "disconnected", "unavailable", "closed"}
Reading == {"receive", "look", "last", "report"}

TunnelType ==
    /\ events \in Seq(TunnelStates)
    /\ tunnelChild \in [proc : {"none", "running", "exited"}, doomed : BOOLEAN, stubborn : BOOLEAN]
    /\ tunnelOwner \in {"idle", "term", "wait", "join", "closed"}
    /\ reader.pc \in Reading \cup {"none", "joinable"} /\ DOMAIN reader = {"pc", "published"}

(* A reader runs beside a child that was started, and while it runs the    *)
(* last event is its own: what it published, or the start.                 *)
ReaderLast ==
    /\ reader.pc # "none" => tunnelChild.proc # "none"
    /\ reader.pc \in Reading =>
        /\ Len(events) > 0
        /\ events[Len(events)] = IF reader.published = "none" THEN "starting" ELSE "connected"

(* Once closed nothing is left that could speak.                           *)
ClosedSilent ==
    /\ \A i \in DOMAIN events : events[i] = "closed" => i = Len(events) /\ tunnelOwner = "closed"
    /\ tunnelOwner = "closed" => reader.pc \in {"none", "joinable"}

EndsPaired ==
    /\ \A i \in DOMAIN events :
        events[i] \in {"connected", "disconnected"} => i > 1 /\ events[i-1] \in {"starting", "connected"}
    /\ \A i \in DOMAIN events : events[i] = "disconnected" => events[i-1] = "connected"

TunnelInv == TunnelType /\ ReaderLast /\ ClosedSilent /\ EndsPaired

-----------------------------------------------------------------------------
LEMMA InitTunnel == TunnelInit => TunnelInv
  BY DEF TunnelInit, TunnelInv, TunnelType, ReaderLast, ClosedSilent, EndsPaired, TunnelStates, Reading

(* An event is added while the tunnel is not closed, and one of a          *)
(* connection only after what it continues.                                *)
LEMMA Emitting ==
    ASSUME TunnelInv, NEW e \in TunnelStates, Emit(e), tunnelOwner # "closed",
           e = "closed" => tunnelOwner' = "closed",
           e \in {"connected", "disconnected"} =>
                Len(events) > 0 /\ events[Len(events)] \in {"starting", "connected"},
           e = "disconnected" => events[Len(events)] = "connected"
    PROVE  /\ events' \in Seq(TunnelStates) /\ Len(events') = Len(events) + 1 /\ events'[Len(events')] = e
           /\ \A i \in DOMAIN events' : events'[i] = "closed" => i = Len(events') /\ tunnelOwner' = "closed"
           /\ EndsPaired'
  <1>1. /\ events \in Seq(TunnelStates) /\ events' = Append(events, e)
        /\ Len(events') = Len(events) + 1 /\ Len(events) \in Nat
        /\ DOMAIN events' = 1..(Len(events) + 1) /\ DOMAIN events = 1..Len(events)
        /\ \A i \in 1..Len(events) : events'[i] = events[i]
        /\ events'[Len(events) + 1] = e
    BY DEF TunnelInv, TunnelType, Emit
  <1>2. \A i \in DOMAIN events : events[i] # "closed"
    BY DEF TunnelInv, ClosedSilent
  <1>3. events' \in Seq(TunnelStates)
    BY <1>1
  <1>4. \A i \in DOMAIN events' : events'[i] = "closed" => i = Len(events') /\ tunnelOwner' = "closed"
    BY <1>1, <1>2
  <1>5. EndsPaired'
    <2>1. ASSUME NEW i \in DOMAIN events', events'[i] \in {"connected", "disconnected"}
          PROVE  /\ i > 1 /\ events'[i-1] \in {"starting", "connected"}
                 /\ events'[i] = "disconnected" => events'[i-1] = "connected"
      <3>1. CASE i = Len(events) + 1
        <4>1. events'[i] = e /\ i - 1 = Len(events)
          BY <1>1, <3>1
        <4>2. Len(events) > 0 /\ events[Len(events)] \in {"starting", "connected"}
          BY <2>1, <4>1
        <4>3. events'[i-1] = events[Len(events)]
          BY <1>1, <4>1, <4>2
        <4>4. events'[i] = "disconnected" => events[Len(events)] = "connected"
          BY <4>1
        <4>5. i > 1
          BY <1>1, <3>1, <4>2
        <4>. QED
          BY <4>2, <4>3, <4>4, <4>5
      <3>2. CASE i \in 1..Len(events)
        <4>1. events[i] = events'[i] /\ i > 1 /\ events'[i-1] = events[i-1]
          BY <1>1, <2>1, <3>2 DEF TunnelInv, EndsPaired
        <4>. QED
          BY <1>1, <2>1, <3>2, <4>1 DEF TunnelInv, EndsPaired
      <3>. QED
        BY <1>1, <3>1, <3>2
    <2>. QED
      BY <2>1 DEF EndsPaired
  <1>. QED
    BY <1>1, <1>3, <1>4, <1>5

LEMMA StartInv == ASSUME TunnelInv, NEW stubborn \in BOOLEAN, StartTunnel(stubborn) PROVE TunnelInv'
  <1>1. Emit("starting") /\ tunnelOwner = "idle" /\ tunnelOwner' = tunnelOwner
    BY DEF StartTunnel
  <1>2. /\ events' \in Seq(TunnelStates) /\ Len(events') = Len(events) + 1 /\ events'[Len(events')] = "starting"
        /\ \A i \in DOMAIN events' : events'[i] = "closed" => i = Len(events') /\ tunnelOwner' = "closed"
        /\ EndsPaired'
    BY <1>1, Emitting DEF TunnelStates
  <1>3. Len(events) \in Nat
    BY DEF TunnelInv, TunnelType
  <1>. QED
    BY <1>1, <1>2, <1>3 DEF StartTunnel, TunnelInv, TunnelType, ReaderLast, ClosedSilent, Reading

LEMMA UnavailableInv == ASSUME TunnelInv, StartUnavailable PROVE TunnelInv'
  <1>1. Emit("unavailable") /\ tunnelOwner = "idle" /\ tunnelOwner' = tunnelOwner /\ reader.pc = "none"
    BY DEF StartUnavailable, TunnelInv, ReaderLast
  <1>2. /\ events' \in Seq(TunnelStates)
        /\ \A i \in DOMAIN events' : events'[i] = "closed" => i = Len(events') /\ tunnelOwner' = "closed"
        /\ EndsPaired'
    BY <1>1, Emitting DEF TunnelStates
  <1>. QED
    BY <1>1, <1>2 DEF StartUnavailable, TunnelInv, TunnelType, ReaderLast, ClosedSilent, Reading

LEMMA ReceiveInv == ASSUME TunnelInv, Receive PROVE TunnelInv'
  <1>1. CASE events' = events /\ reader' = [reader EXCEPT !.pc = IF lines = <<>> /\ ~logged THEN "last" ELSE "look"]
    BY <1>1 DEF Receive, TunnelInv, TunnelType, ReaderLast, ClosedSilent, EndsPaired, Reading
  <1>2. CASE /\ Emit("connected") /\ reader' = [pc |-> "look", published |-> Head(lines)]
             /\ Head(lines) \notin {"none", reader.published}
    <2>1. /\ tunnelOwner # "closed" /\ tunnelOwner' = tunnelOwner /\ Len(events) \in Nat /\ Len(events) > 0
          /\ events[Len(events)] \in {"starting", "connected"}
      BY DEF Receive, TunnelInv, TunnelType, ReaderLast, ClosedSilent, Reading
    <2>2. /\ events' \in Seq(TunnelStates) /\ Len(events') = Len(events) + 1 /\ events'[Len(events')] = "connected"
          /\ \A i \in DOMAIN events' : events'[i] = "closed" => i = Len(events') /\ tunnelOwner' = "closed"
          /\ EndsPaired'
      BY <1>2, <2>1, Emitting DEF TunnelStates
    <2>3. tunnelChild' = tunnelChild /\ tunnelChild.proc # "none"
      BY DEF Receive, TunnelInv, ReaderLast
    <2>4. TunnelType' /\ ClosedSilent'
      BY <1>2, <2>1, <2>2, <2>3 DEF TunnelInv, TunnelType, ClosedSilent, Reading
    <2>5. ReaderLast'
      BY <1>2, <2>1, <2>2, <2>3 DEF ReaderLast
    <2>. QED
      BY <2>2, <2>4, <2>5 DEF TunnelInv
  <1>3. lines = <<>> => events' = events /\ reader' = [reader EXCEPT !.pc = IF logged THEN "look" ELSE "last"]
    BY DEF Receive
  <1>4. CASE lines = <<>>
    <2>1. CASE logged
      BY <1>1, <1>3, <1>4, <2>1
    <2>2. CASE ~logged
      BY <1>1, <1>3, <1>4, <2>2
    <2>. QED
      BY <2>1, <2>2
  <1>5. CASE lines # <<>>
    BY <1>1, <1>2, <1>5 DEF Receive
  <1>. QED
    BY <1>4, <1>5

LEMMA ReportInv == ASSUME TunnelInv, ReportExit PROVE TunnelInv'
  <1> DEFINE e == IF reader.published = "none" THEN "unavailable" ELSE "disconnected"
  <1>1. /\ Emit(e) /\ tunnelOwner # "closed" /\ tunnelOwner' = tunnelOwner
        /\ e = "disconnected" => Len(events) > 0 /\ events[Len(events)] = "connected"
        /\ e \in TunnelStates /\ e \notin {"closed", "connected"}
    BY DEF ReportExit, TunnelInv, ReaderLast, ClosedSilent, Reading, TunnelStates
  <1>2. /\ events' \in Seq(TunnelStates)
        /\ \A i \in DOMAIN events' : events'[i] = "closed" => i = Len(events') /\ tunnelOwner' = "closed"
        /\ EndsPaired'
    BY <1>1, Emitting
  <1>. QED
    BY <1>1, <1>2 DEF ReportExit, TunnelInv, TunnelType, ReaderLast, ClosedSilent, Reading

LEMMA JoinInv == ASSUME TunnelInv, JoinReader PROVE TunnelInv'
  <1>1. Emit("closed") /\ tunnelOwner = "join" /\ tunnelOwner' = "closed" /\ reader.pc \in {"none", "joinable"}
    BY DEF JoinReader
  <1>2. /\ events' \in Seq(TunnelStates)
        /\ \A i \in DOMAIN events' : events'[i] = "closed" => i = Len(events') /\ tunnelOwner' = "closed"
        /\ EndsPaired'
    BY <1>1, Emitting DEF TunnelStates
  <1>. QED
    BY <1>1, <1>2 DEF JoinReader, TunnelInv, TunnelType, ReaderLast, ClosedSilent, Reading

(* A step that adds no event and starts no reader.                         *)
LEMMA Silent ==
    ASSUME TunnelInv, events' = events, tunnelChild' \in [proc : {"none", "running", "exited"}, doomed : BOOLEAN, stubborn : BOOLEAN],
           tunnelChild.proc # "none" => tunnelChild'.proc # "none",
           tunnelOwner' \in {"idle", "term", "wait", "join", "closed"},
           tunnelOwner = "closed" <=> tunnelOwner' = "closed",
           reader'.pc \in Reading \cup {"none", "joinable"}, DOMAIN reader' = {"pc", "published"},
           reader'.published = reader.published,
           \/ reader'.pc = reader.pc
           \/ reader.pc \in Reading /\ reader'.pc \in Reading \cup {"joinable"}
    PROVE  TunnelInv'
  BY DEF TunnelInv, TunnelType, ReaderLast, ClosedSilent, EndsPaired, Reading

LEMMA NextTunnel == TunnelInv /\ [TunnelNext]_tunnelVars => TunnelInv'
  <1>. SUFFICES ASSUME TunnelInv, [TunnelNext]_tunnelVars PROVE TunnelInv'
    OBVIOUS
  <1>1. CASE UNCHANGED tunnelVars \/ LogEnds \/ (\E o \in TunnelOrigins \cup {"none"} : WriteLine(o))
    BY <1>1, Silent DEF tunnelVars, LogEnds, WriteLine, TunnelInv, TunnelType
  <1>2. CASE TunnelExits \/ SendTerm \/ SendKill
    BY <1>2, Silent DEF TunnelExits, SendTerm, SendKill, TunnelInv, TunnelType, TunnelRuns
  <1>3. CASE LookAtChild \/ Leave \/ LeaveLast
    BY <1>3, Silent DEF LookAtChild, Leave, LeaveLast, TunnelInv, TunnelType, Reading
  <1>4. CASE CloseTunnel
    BY <1>4, Silent DEF CloseTunnel, TunnelInv, TunnelType
  <1>. QED
    BY <1>1, <1>2, <1>3, <1>4, StartInv, UnavailableInv, ReceiveInv, ReportInv, JoinInv DEF TunnelNext

(* However a close meets a line on its way, the end of the child or a      *)
(* failed start: the sink hears "closed" last and once, and a connection   *)
(* only between its start and its end.                                     *)
THEOREM TunnelAlwaysOrdered == TunnelSpec => []TunnelEventsOrdered
  <1>1. TunnelInv => TunnelEventsOrdered
    <2>. SUFFICES ASSUME TunnelInv PROVE TunnelEventsOrdered
      OBVIOUS
    <2>1. \A i, j \in DOMAIN events : events[i] = "closed" => j <= i
      BY DEF TunnelInv, TunnelType, ClosedSilent
    <2>. QED
      BY <2>1 DEF TunnelInv, EndsPaired, TunnelEventsOrdered
  <1>. QED
    BY <1>1, InitTunnel, NextTunnel, PTL DEF TunnelSpec

(***************************************************************************)
(* POST /mcp.                                                              *)
(***************************************************************************)

Outcomes == {"complete", "input_required", "error"}
Errors == {"http_error", "header_mismatch", "invalid_request", "unsupported_version", "invalid_params",
           "method_not_found", "missing_capability", "internal", "result", "empty", "none"} \cup Outcomes
Posts == [pc : {"accept", "read", "mirror", "dispatch", "call", "replied", "panicked"},
          era : Eras \cup {"none"}, method : Methods \cup {"none"}, id : BOOLEAN,
          named : {"none", "known", "unknown"}, elicits : BOOLEAN,
          mirror : {"none", "known", "unknown", "missing", "error", "panic", "different"}, status : Nat, body : Errors]

McpType == post \in [McpHandlers -> Posts] /\ toolRuns \in [McpHandlers -> Outcomes \cup {"none"}]

(* Nothing has run before the backend is called, and by then a modern call *)
(* has been compared with its header.                                      *)
RunsLate == \A h \in McpHandlers :
    /\ post[h].pc # "replied" => toolRuns[h] = "none" /\ post[h].body = "none"
    /\ post[h].pc \in {"dispatch", "call"} /\ post[h].era = "modern" /\ post[h].method = "tools/call" =>
        post[h].mirror = post[h].named
    /\ post[h].pc = "call" => post[h].method = "tools/call"
    /\ post[h].elicits => post[h].era = "modern" /\ post[h].pc \in {"call", "replied"}

McpInv == McpType /\ RunsLate /\ RepliesSound

-----------------------------------------------------------------------------
(* A handler that changes only what it knows of its request, before the    *)
(* backend is called.                                                      *)
Concerns(h) == /\ post'[h] \in Posts /\ UNCHANGED toolRuns
               /\ \A g \in McpHandlers \ {h} : post'[g] = post[g]

LEMMA BeforeCall ==
    ASSUME McpInv, NEW h \in McpHandlers, post[h].pc # "replied", Concerns(h),
           post' \in [McpHandlers -> Posts],
           post'[h].pc \in {"dispatch", "call"} /\ post'[h].era = "modern" /\ post'[h].method = "tools/call" =>
               post'[h].mirror = post'[h].named,
           post'[h].pc = "call" => post'[h].method = "tools/call",
           post'[h].elicits => post'[h].era = "modern" /\ post'[h].pc \in {"call", "replied"},
           post'[h].body # "input_required", post'[h].pc # "replied" => post'[h].body = "none"
    PROVE  McpInv'
  <1>1. McpType'
    BY DEF McpInv, McpType, Concerns
  <1>2. toolRuns[h] = "none"
    BY DEF McpInv, RunsLate
  <1>3. RunsLate'
    BY <1>2 DEF McpInv, RunsLate, Concerns
  <1>. QED
    BY <1>1, <1>2, <1>3 DEF McpInv, McpType, RunsLate, RepliesSound, RefusalRanNothing, RunsWhatIsMirrored,
       QuestionsAnswerable, Concerns

LEMMA Statuses == \A e \in {"legacy", "modern", "none"}, x \in Errors : RpcStatus(e, x) \in Nat
  BY SMT DEF RpcStatus, Errors, Outcomes

LEMMA InitMcp == McpInit => McpInv
  BY DEF McpInit, McpInv, McpType, RunsLate, RepliesSound, RefusalRanNothing, RunsWhatIsMirrored,
     QuestionsAnswerable, Quiet, Posts, Errors, Outcomes

(* An answer of the handler itself.                                        *)
LEMMA Replying ==
    ASSUME McpType, NEW h \in McpHandlers, NEW s \in Nat, NEW b \in Errors, Reply(h, s, b)
    PROVE  /\ post' \in [McpHandlers -> Posts] /\ post'[h] \in Posts
           /\ \A g \in McpHandlers \ {h} : post'[g] = post[g]
           /\ post'[h].pc = "replied" /\ post'[h].status = s /\ post'[h].body = b
           /\ post'[h].era = post[h].era /\ post'[h].elicits = post[h].elicits
           /\ post'[h].mirror = post[h].mirror /\ post'[h].named = post[h].named
  <1>1. PICK p \in Posts : p = post[h]
    BY DEF McpType
  <1>0. PICK r : r = [p EXCEPT !.pc = "replied", !.status = s, !.body = b]
    OBVIOUS
  <1>2. /\ r \in Posts /\ r.pc = "replied" /\ r.status = s /\ r.body = b
        /\ r.era = p.era /\ r.elicits = p.elicits /\ r.mirror = p.mirror /\ r.named = p.named
    BY <1>0 DEF Posts
  <1>3. post' = [post EXCEPT ![h] = r]
    BY <1>0, <1>1 DEF Reply
  <1>. QED
    BY <1>1, <1>2, <1>3 DEF McpType

LEMMA Codes ==
    /\ StatusOf("permission") = 403 /\ StatusOf("unauthorized") = 401 /\ StatusOf("validation") = 400
    /\ "http_error" \in Errors \ {"input_required"}
  BY DEF StatusOf, Errors, Outcomes

LEMMA Refuses ==
    ASSUME McpInv, NEW h \in McpHandlers, post[h].pc # "replied", NEW s \in Nat,
           NEW b \in Errors \ {"input_required"}, Reply(h, s, b), UNCHANGED toolRuns
    PROVE  McpInv'
  <1>1. /\ Concerns(h) /\ post' \in [McpHandlers -> Posts]
        /\ post'[h].pc = "replied" /\ post'[h].body = b
        /\ post'[h].elicits = post[h].elicits /\ post'[h].era = post[h].era
    BY Replying DEF McpInv, Concerns
  <1>. QED
    BY <1>1, BeforeCall DEF McpInv, RunsLate

LEMMA AdmitInv ==
    ASSUME McpInv, NEW h \in McpHandlers, NEW o, NEW t, Admit(h, o, t) PROVE McpInv'
  <1>1. CASE Reply(h, StatusOf("permission"), "http_error")
    BY <1>1, Refuses, Codes DEF Admit
  <1>2. CASE Reply(h, StatusOf("unauthorized"), "http_error")
    BY <1>2, Refuses, Codes DEF Admit
  <1>3. CASE post' = [post EXCEPT ![h].pc = "read"]
    <2>1. PICK p \in Posts : p = post[h]
      BY DEF McpInv, McpType
    <2>2. PICK r : r = [p EXCEPT !.pc = "read"]
      OBVIOUS
    <2>3. r \in Posts /\ r.pc = "read" /\ r.body = p.body /\ r.elicits = p.elicits /\ r.era = p.era
      BY <2>2 DEF Posts
    <2>4. post' = [post EXCEPT ![h] = r]
      BY <1>3, <2>1, <2>2
    <2>5. /\ Concerns(h) /\ post' \in [McpHandlers -> Posts] /\ post'[h] = r
      BY <2>3, <2>4 DEF Admit, McpInv, McpType, Concerns
    <2>. QED
      BY <2>1, <2>3, <2>5, BeforeCall DEF Admit, McpInv, RunsLate
  <1>. QED
    BY <1>1, <1>2, <1>3 DEF Admit

LEMMA ReadBodyInv ==
    ASSUME McpInv, NEW h \in McpHandlers, NEW c, NEW d, NEW a, NEW j, ReadBody(h, c, d, a, j) PROVE McpInv'
  <1>0. post[h].pc = "read" /\ UNCHANGED toolRuns
    BY DEF ReadBody
  <1>1. CASE Reply(h, StatusOf("validation"), "http_error")
    BY <1>0, <1>1, Refuses, Codes
  <1>2. ASSUME NEW era \in Eras, NEW m \in Methods, NEW i \in BOOLEAN, NEW n \in {"none", "known", "unknown"},
               post' = [post EXCEPT ![h] = Parsed(h, IF m = "initialize" THEN "legacy" ELSE era, m, i, n)]
        PROVE  McpInv'
    <2>1. PICK p \in Posts : p = post[h]
      BY DEF McpInv, McpType
    <2>2. PICK e \in Eras : e = IF m = "initialize" THEN "legacy" ELSE era
      BY DEF Eras
    <2>3. PICK r : r = [p EXCEPT !.pc = "mirror", !.method = m, !.id = i, !.named = n, !.era = e]
      OBVIOUS
    <2>4. r \in Posts /\ r.pc = "mirror" /\ r.body = p.body /\ r.elicits = p.elicits
      BY <2>3 DEF Posts
    <2>5. post' = [post EXCEPT ![h] = r]
      BY <1>2, <2>1, <2>2, <2>3 DEF Parsed
    <2>6. /\ Concerns(h) /\ post' \in [McpHandlers -> Posts] /\ post'[h] = r
      BY <1>0, <2>4, <2>5 DEF McpInv, McpType, Concerns
    <2>. QED
      BY <2>1, <1>0, <2>4, <2>6, BeforeCall DEF McpInv, RunsLate
  <1>. QED
    BY <1>1, <1>2 DEF ReadBody

LEMMA CheckMirrorInv ==
    ASSUME McpInv, NEW h \in McpHandlers, NEW e, NEW m, NEW d, NEW v, NEW w,
           NEW n \in {"absent", "same", "other", "undecodable", "overlapping"}, CheckMirror(h, e, m, d, v, w, n)
    PROVE  McpInv'
  <1>0. post[h].pc = "mirror" /\ UNCHANGED toolRuns
    BY DEF CheckMirror
  <1>1. ASSUME NEW x \in {"header_mismatch", "invalid_request", "unsupported_version", "invalid_params"},
               Reply(h, RpcStatus(post[h].era, x), x)
        PROVE  McpInv'
    <2>1. RpcStatus(post[h].era, x) \in Nat /\ x \in Errors \ {"input_required"}
      BY Statuses DEF McpInv, McpType, Posts, Eras, Errors, Outcomes
    <2>. QED
      BY <1>0, <1>1, <2>1, Refuses
  <1>2. CASE Reply(h, 400, "header_mismatch")
    BY <1>0, <1>2, Refuses DEF Errors
  <1>3. PICK p \in Posts : p = post[h]
    BY DEF McpInv, McpType
  <1>4. CASE post[h].era # "modern" /\ post' = [post EXCEPT ![h].pc = "dispatch"]
    <2>1. PICK r : r = [p EXCEPT !.pc = "dispatch"]
      OBVIOUS
    <2>2. r \in Posts /\ r.pc = "dispatch" /\ r.body = p.body /\ r.elicits = p.elicits /\ r.era = p.era
      BY <2>1 DEF Posts
    <2>3. post' = [post EXCEPT ![h] = r]
      BY <1>4, <1>3, <2>1
    <2>4. /\ Concerns(h) /\ post' \in [McpHandlers -> Posts] /\ post'[h] = r
      BY <1>0, <2>2, <2>3 DEF McpInv, McpType, Concerns
    <2>. QED
      BY <1>0, <1>3, <1>4, <2>2, <2>4, BeforeCall DEF McpInv, RunsLate
  <1>5. CASE post' = [post EXCEPT ![h].pc = "panicked"]
    <2>1. PICK r : r = [p EXCEPT !.pc = "panicked"]
      OBVIOUS
    <2>2. r \in Posts /\ r.pc = "panicked" /\ r.body = p.body /\ r.elicits = p.elicits /\ r.era = p.era
      BY <2>1 DEF Posts
    <2>3. post' = [post EXCEPT ![h] = r]
      BY <1>5, <1>3, <2>1
    <2>4. /\ Concerns(h) /\ post' \in [McpHandlers -> Posts] /\ post'[h] = r
      BY <1>0, <2>2, <2>3 DEF McpInv, McpType, Concerns
    <2>. QED
      BY <1>0, <1>3, <1>5, <2>2, <2>4, BeforeCall DEF McpInv, RunsLate
  <1>6. CASE ModernMirror(h, v, w, n)
             /\ post' = [post EXCEPT ![h].pc = "dispatch", ![h].mirror = Decoded(n, post[h].named)]
    <2>1. PICK q \in {"none", "known", "unknown", "missing", "error", "panic", "different"} :
              q = Decoded(n, p.named)
      BY DEF Decoded, Posts
    <2>2. PICK r : r = [p EXCEPT !.pc = "dispatch", !.mirror = q]
      OBVIOUS
    <2>3. /\ r \in Posts /\ r.pc = "dispatch" /\ r.body = p.body /\ r.elicits = p.elicits
          /\ r.mirror = q /\ r.named = p.named /\ r.method = p.method
      BY <2>2 DEF Posts
    <2>4. post' = [post EXCEPT ![h] = r]
      BY <1>6, <1>3, <2>1, <2>2 DEF McpInv, McpType
    <2>5. /\ Concerns(h) /\ post' \in [McpHandlers -> Posts] /\ post'[h] = r
      BY <1>0, <2>3, <2>4 DEF McpInv, McpType, Concerns
    <2>6. r.method = "tools/call" => r.mirror = r.named
      BY <1>3, <1>6, <2>1, <2>3 DEF ModernMirror
    <2>. QED
      BY <1>0, <1>3, <2>3, <2>5, <2>6, BeforeCall DEF McpInv, RunsLate
  <1>. QED
    BY <1>1, <1>2, <1>4, <1>5, <1>6 DEF CheckMirror

LEMMA Delivers ==
    ASSUME McpInv, NEW h \in McpHandlers, post[h].pc # "replied", NEW x \in Errors \ {"input_required"},
           Deliver(h, x), UNCHANGED toolRuns
    PROVE  McpInv'
  <1>1. RpcStatus(post[h].era, x) \in Nat
    BY Statuses DEF McpInv, McpType, Posts, Eras
  <1>2. "empty" \in Errors \ {"input_required"}
    BY DEF Errors
  <1>. QED
    BY <1>1, <1>2, Refuses DEF Deliver

LEMMA DispatchInv ==
    ASSUME McpInv, NEW h \in McpHandlers, NEW r, NEW a, Dispatch(h, r, a) PROVE McpInv'
  <1>0. post[h].pc = "dispatch" /\ UNCHANGED toolRuns
    BY DEF Dispatch
  <1>1. {"empty", "invalid_params", "method_not_found", "result"} \subseteq Errors \ {"input_required"}
    BY DEF Errors
  <1>2. CASE Deliver(h, "invalid_params") \/ Deliver(h, "method_not_found") \/ Deliver(h, "result")
    BY <1>0, <1>1, <1>2, Delivers
  <1>3. CASE Reply(h, 202, "empty")
    BY <1>0, <1>1, <1>3, Refuses
  <1>4. ASSUME NEW e \in IF post[h].era = "modern" THEN BOOLEAN ELSE {FALSE}, post[h].method = "tools/call",
               post' = [post EXCEPT ![h].pc = "call", ![h].elicits = e]
        PROVE  McpInv'
    <2>1. PICK p \in Posts : p = post[h]
      BY DEF McpInv, McpType
    <2>2. PICK x : x = [p EXCEPT !.pc = "call", !.elicits = e]
      OBVIOUS
    <2>0. e \in BOOLEAN
      BY <1>4
    <2>3. /\ x \in Posts /\ x.pc = "call" /\ x.body = p.body /\ x.elicits = e /\ x.era = p.era
          /\ x.mirror = p.mirror /\ x.named = p.named /\ x.method = p.method
      BY <2>0, <2>2 DEF Posts
    <2>4. post' = [post EXCEPT ![h] = x]
      BY <1>4, <2>1, <2>2 DEF McpInv, McpType
    <2>5. /\ Concerns(h) /\ post' \in [McpHandlers -> Posts] /\ post'[h] = x
      BY <1>0, <2>3, <2>4 DEF McpInv, McpType, Concerns
    <2>6. e => post[h].era = "modern"
      BY <1>4
    <2>. QED
      BY <1>0, <1>4, <2>1, <2>3, <2>5, <2>6, BeforeCall DEF McpInv, RunsLate
  <1>. QED
    BY <1>2, <1>3, <1>4 DEF Dispatch

(* The backend has run; an error it gives becomes an answer, a question    *)
(* nobody can be shown becomes an error.                                   *)
LEMMA CallInv ==
    ASSUME McpInv, NEW h \in McpHandlers, NEW b \in Outcomes, CallBackend(h, b) PROVE McpInv'
  <1>1. /\ post[h].pc = "call" /\ toolRuns' = [toolRuns EXCEPT ![h] = b]
        /\ Deliver(h, Resolve(h, b))
    BY DEF CallBackend
  <1>2. PICK x \in {"internal", "missing_capability", "input_required", "complete"} : x = Resolve(h, b)
    BY DEF Resolve, Outcomes
  <1>3. x = "input_required" => post[h].elicits
    BY <1>2 DEF Resolve
  <1>4. x = "missing_capability" => b = "input_required"
    BY <1>2 DEF Resolve, Outcomes
  <1>5. PICK s \in Nat, y \in Errors :
            /\ Reply(h, s, y)
            /\ y = "input_required" => x = "input_required"
            /\ s >= 400 => x = "missing_capability"
    <2>1. RpcStatus(post[h].era, x) \in Nat /\ x \in Errors
      BY Statuses DEF McpInv, McpType, Posts, Eras, Errors, Outcomes
    <2>2. RpcStatus(post[h].era, x) >= 400 => x = "missing_capability"
      BY DEF RpcStatus
    <2>3. "empty" \in Errors
      BY DEF Errors
    <2>4. CASE post[h].id
      BY <1>1, <1>2, <2>1, <2>2, <2>4 DEF Deliver
    <2>5. CASE ~post[h].id
      BY <1>1, <1>2, <2>3, <2>5 DEF Deliver
    <2>. QED
      BY <2>4, <2>5
  <1>6. /\ post' \in [McpHandlers -> Posts]
        /\ \A g \in McpHandlers \ {h} : post'[g] = post[g] /\ toolRuns'[g] = toolRuns[g]
        /\ post'[h].pc = "replied" /\ post'[h].status = s /\ post'[h].body = y
        /\ post'[h].era = post[h].era /\ post'[h].elicits = post[h].elicits
        /\ post'[h].mirror = post[h].mirror /\ post'[h].named = post[h].named
        /\ toolRuns'[h] = b /\ toolRuns' \in [McpHandlers -> Outcomes \cup {"none"}]
    BY <1>1, <1>5, Replying DEF McpInv, McpType
  <1>7. RefusalRanNothing'
    BY <1>4, <1>5, <1>6 DEF McpInv, RepliesSound, RefusalRanNothing
  <1>8. RunsWhatIsMirrored'
    BY <1>1, <1>6 DEF McpInv, RunsLate, RepliesSound, RunsWhatIsMirrored
  <1>9. QuestionsAnswerable'
    BY <1>1, <1>3, <1>5, <1>6 DEF McpInv, RunsLate, RepliesSound, QuestionsAnswerable
  <1>. QED
    BY <1>6, <1>7, <1>8, <1>9 DEF McpInv, McpType, RunsLate, RepliesSound

LEMMA SettleInv == ASSUME McpInv, NEW h \in McpHandlers, Settle(h) PROVE McpInv'
  <1>1. Quiet \in Posts /\ Quiet.pc = "accept" /\ Quiet.era = "none" /\ ~Quiet.elicits /\ Quiet.body = "none"
    BY DEF Quiet, Posts, Errors
  <1>2. post' = [post EXCEPT ![h] = Quiet] /\ toolRuns' = [toolRuns EXCEPT ![h] = "none"]
    BY DEF Settle
  <1>. QED
    BY <1>1, <1>2 DEF McpInv, McpType, RunsLate, RepliesSound, RefusalRanNothing, RunsWhatIsMirrored,
       QuestionsAnswerable

LEMMA NextMcp == McpInv /\ [McpNext]_mcpVars => McpInv'
  <1>. SUFFICES ASSUME McpInv, [McpNext]_mcpVars PROVE McpInv'
    OBVIOUS
  <1>1. CASE UNCHANGED mcpVars
    BY <1>1 DEF mcpVars, McpInv, McpType, RunsLate, RepliesSound, RefusalRanNothing, RunsWhatIsMirrored,
       QuestionsAnswerable
  <1>2. CASE McpNext
    BY <1>2, AdmitInv, ReadBodyInv, CheckMirrorInv, DispatchInv, CallInv, SettleInv DEF McpNext, Outcomes
  <1>. QED
    BY <1>1, <1>2

(* Whatever a request is made of, and however many handlers there are: a   *)
(* 4xx answer means that no tool ran to an end, a modern call ran the tool *)
(* its header names, and a question reaches only who declared it can       *)
(* answer (handle_post, dispatch_modern, call_tool).                       *)
THEOREM RepliesAlwaysSound == McpSpec => []RepliesSound
  <1>1. McpInv => RepliesSound
    BY DEF McpInv
  <1>. QED
    BY <1>1, InitMcp, NextMcp, PTL DEF McpSpec

(***************************************************************************)
(* The authorization server.                                               *)
(***************************************************************************)

Rows == [client : ClientIds, proof : Proofs, resource : Resources, expires : Nat]
Redemptions == [pc : {"consume", "bind"}, client : ClientIds, code : CodeIds, row : Rows \cup {NoRow}]
Tokens == [client : ClientIds, issuer : Origins, audience : Resources, expires : Nat,
           from : CodeIds, proof : Proofs]

OAuthType ==
    /\ client \in [ClientIds -> AuthMethods \cup {"absent"}]
    /\ code \in [CodeIds -> Rows \cup {NoRow}] /\ granted \in [CodeIds -> Rows \cup {NoRow}]
    /\ tokens \subseteq Tokens
    /\ redemption \in [TokenHandlers -> Redemptions \cup {Waiting}]
    /\ guesses \in [CodeIds -> Nat] /\ clock \in Nat

(* A code is in one place: not drawn yet, in the table, in the hands of    *)
(* one handler, or compared with a request; the table and the handler have *)
(* what the operator approved.                                             *)
InTable == \A d \in CodeIds : code[d] # NoRow => code[d] = granted[d] /\ guesses[d] = 0

InHand == \A h \in TokenHandlers : redemption[h].pc = "bind" =>
    LET d == redemption[h].code
    IN /\ redemption[h].row = granted[d] /\ granted[d] # NoRow /\ code[d] = NoRow /\ guesses[d] = 0
       /\ \A i \in TokenHandlers : redemption[i].pc = "bind" /\ redemption[i].code = d => i = h

Undrawn == \A d \in CodeIds : granted[d] = NoRow => code[d] = NoRow /\ guesses[d] = 0

Compared ==
    /\ \A d \in CodeIds : guesses[d] <= 1
    /\ \A t \in tokens : guesses[t.from] # 0
    /\ \A s, t \in tokens : s.from = t.from => s = t

TokensBought == \A t \in tokens :
    LET g == granted[t.from]
    IN /\ g # NoRow /\ g.client = t.client /\ g.proof = t.proof /\ g.resource = t.audience
       /\ t.expires <= g.expires + TokenTtl

OAuthInv == OAuthType /\ InTable /\ InHand /\ Undrawn /\ Compared /\ TokensBought

-----------------------------------------------------------------------------
LEMMA RowExists == \A r \in Rows : r # NoRow
  BY DEF Rows, NoRow

LEMMA BaseIsOrigin == \A o \in Origins : BaseOf(o) \in Origins
  BY OAuthSizes DEF OAuthSizes, BaseOf

LEMMA InitOAuth == OAuthInit => OAuthInv
  <1>. SUFFICES ASSUME OAuthInit PROVE OAuthInv
    OBVIOUS
  <1>1. Waiting.pc = "waiting"
    BY DEF Waiting
  <1>2. OAuthType
    BY DEF OAuthInit, OAuthType, AuthMethods
  <1>. QED
    BY <1>1, <1>2 DEF OAuthInit, OAuthInv, InTable, InHand, Undrawn, Compared, TokensBought

LEMMA RegisterInv == ASSUME OAuthInv, NEW m \in AuthMethods, Register(m) PROVE OAuthInv'
  BY DEF Register, OAuthInv, OAuthType, InTable, InHand, Undrawn, Compared, TokensBought

LEMMA AuthorizeInv ==
    ASSUME OAuthInv, NEW c \in ClientIds, NEW p \in Proofs, NEW o \in Origins, NEW r \in Resources,
           Authorize(c, p, o, r)
    PROVE  OAuthInv' /\ \A d \in CodeIds : code[d] # NoRow /\ code'[d] = NoRow => code[d].expires < clock
  <1>1. PICK row \in Rows : row = [client |-> c, proof |-> p, resource |-> r, expires |-> clock + CodeTtl]
    <2>1. CodeTtl \in Nat
      BY OAuthSizes DEF OAuthSizes
    <2>2. clock + CodeTtl \in Nat
      BY <2>1 DEF OAuthInv, OAuthType
    <2>. QED
      BY <2>2 DEF Rows
  <1>2. PICK d \in CodeIds \ UsedCodes :
            code' = [Purged(code) EXCEPT ![d] = row] /\ granted' = [granted EXCEPT ![d] = row]
    BY <1>1 DEF Authorize, FreshIds
  <1>3. granted[d] = NoRow /\ row # NoRow
    BY <1>1, <1>2, RowExists DEF UsedCodes
  <1>4. \A i \in CodeIds : /\ code'[i] = IF i = d THEN row ELSE Purged(code)[i]
                           /\ granted'[i] = IF i = d THEN row ELSE granted[i]
                           /\ Purged(code)[i] \in {code[i], NoRow}
                           /\ Purged(code)[i] # code[i] => code[i].expires < clock
    BY <1>2 DEF OAuthInv, OAuthType, Purged
  <1>5. code' \in [CodeIds -> Rows \cup {NoRow}] /\ granted' \in [CodeIds -> Rows \cup {NoRow}]
    BY <1>2, <1>4 DEF OAuthInv, OAuthType, Purged
  <1>6. UNCHANGED <<client, tokens, redemption, guesses, clock>>
    BY DEF Authorize
  <1>7. OAuthType'
    BY <1>5, <1>6 DEF OAuthInv, OAuthType
  <1>8. InTable' /\ Undrawn'
    BY <1>3, <1>4, <1>6 DEF OAuthInv, InTable, Undrawn
  <1>9. InHand'
    BY <1>3, <1>4, <1>6 DEF OAuthInv, OAuthType, InHand, Redemptions, Waiting
  <1>10. Compared' /\ TokensBought'
    BY <1>3, <1>4, <1>6 DEF OAuthInv, OAuthType, Tokens, Compared, TokensBought
  <1>11. \A i \in CodeIds : code[i] # NoRow /\ code'[i] = NoRow => code[i].expires < clock
    BY <1>3, <1>4
  <1>. QED
    BY <1>7, <1>8, <1>9, <1>10, <1>11 DEF OAuthInv

LEMMA PresentInv ==
    ASSUME OAuthInv, NEW h \in TokenHandlers, NEW c \in ClientIds, NEW m \in AuthMethods, NEW d \in CodeIds,
           PresentCode(h, c, m, d)
    PROVE  OAuthInv'
  <1>1. PICK x \in Redemptions : x = [pc |-> "consume", client |-> c, code |-> d, row |-> NoRow]
    BY DEF Redemptions
  <1>2. redemption' = [redemption EXCEPT ![h] = x] /\ x.pc = "consume"
    BY <1>1 DEF PresentCode
  <1>3. UNCHANGED <<client, code, granted, tokens, guesses, clock>>
    BY DEF PresentCode
  <1>4. OAuthType'
    BY <1>2, <1>3 DEF OAuthInv, OAuthType
  <1>5. InHand'
    BY <1>2, <1>3 DEF OAuthInv, OAuthType, InHand
  <1>. QED
    BY <1>3, <1>4, <1>5 DEF OAuthInv, InTable, Undrawn, Compared, TokensBought

(* The row leaves the table and enters one hand.                           *)
LEMMA ConsumeInv ==
    ASSUME OAuthInv, NEW h \in TokenHandlers, ConsumeCode(h)
    PROVE  /\ OAuthInv'
           /\ \A d \in CodeIds : code[d] # NoRow /\ code'[d] = NoRow =>
                redemption[h].pc = "consume" /\ redemption'[h].pc = "bind"
  <1>1. PICK x \in Redemptions : x = redemption[h] /\ x.pc = "consume"
    BY DEF ConsumeCode, OAuthInv, OAuthType, Waiting
  <1>2. x.code \in CodeIds /\ code' = [code EXCEPT ![x.code] = NoRow]
    BY <1>1 DEF ConsumeCode, Redemptions
  <1>3. UNCHANGED <<client, granted, tokens, guesses, clock>>
    BY DEF ConsumeCode
  <1>4. PICK y \in Redemptions \cup {Waiting} :
            /\ redemption' = [redemption EXCEPT ![h] = y]
            /\ IF code[x.code] = NoRow THEN y.pc = "waiting"
               ELSE y.pc = "bind" /\ y.code = x.code /\ y.row = code[x.code]
    <2>1. CASE code[x.code] = NoRow
      <3>1. redemption' = [redemption EXCEPT ![h] = Waiting]
        BY <1>1, <2>1 DEF ConsumeCode
      <3>2. Waiting.pc = "waiting"
        BY DEF Waiting
      <3>. QED
        BY <2>1, <3>1, <3>2
    <2>2. CASE code[x.code] # NoRow
      <3>1. PICK y : y = [x EXCEPT !.pc = "bind", !.row = code[x.code]]
        OBVIOUS
      <3>2. y \in Redemptions /\ y.pc = "bind" /\ y.code = x.code /\ y.row = code[x.code]
        BY <1>2, <3>1 DEF OAuthInv, OAuthType, Redemptions
      <3>3. redemption' = [redemption EXCEPT ![h] = y]
        BY <1>1, <2>2, <3>1 DEF ConsumeCode, Holding
      <3>. QED
        BY <2>2, <3>2, <3>3
    <2>. QED
      BY <2>1, <2>2
  <1>5. \A i \in TokenHandlers : redemption'[i] = IF i = h THEN y ELSE redemption[i]
    BY <1>4 DEF OAuthInv, OAuthType
  <1>6. \A d \in CodeIds : code'[d] = IF d = x.code THEN NoRow ELSE code[d]
    BY <1>2 DEF OAuthInv, OAuthType
  <1>7. OAuthType'
    BY <1>2, <1>3, <1>4 DEF OAuthInv, OAuthType
  <1>8. InTable' /\ Undrawn'
    BY <1>3, <1>6 DEF OAuthInv, InTable, Undrawn
  <1>9. InHand'
    <2>1. \A i \in TokenHandlers \ {h} : redemption[i].pc = "bind" => redemption[i].code # x.code \/ y.pc # "bind"
      BY <1>2, <1>4 DEF OAuthInv, InHand
    <2>2. ASSUME NEW i \in TokenHandlers \ {h}, redemption[i].pc = "bind"
          PROVE  redemption[i].code \in CodeIds /\ code'[redemption[i].code] = NoRow
      BY <1>6, <2>2 DEF OAuthInv, OAuthType, InHand, Redemptions, Waiting
    <2>3. y.pc = "bind" => /\ code[x.code] # NoRow /\ y.code = x.code /\ y.row = granted[x.code]
                           /\ code'[x.code] = NoRow /\ guesses[x.code] = 0
      BY <1>2, <1>4, <1>6 DEF OAuthInv, InTable
    <2>. QED
      BY <1>2, <1>3, <1>5, <2>1, <2>2, <2>3 DEF OAuthInv, InHand, InTable
  <1>10. \A d \in CodeIds : code[d] # NoRow /\ code'[d] = NoRow =>
            redemption[h].pc = "consume" /\ redemption'[h].pc = "bind"
    BY <1>1, <1>4, <1>5, <1>6
  <1>. QED
    BY <1>3, <1>7, <1>8, <1>9, <1>10 DEF OAuthInv, Compared, TokensBought

LEMMA BindInv ==
    ASSUME OAuthInv, NEW h \in TokenHandlers, NEW p \in Proofs, NEW o \in Origins, NEW r \in Resources,
           BindCode(h, p, o, r)
    PROVE  OAuthInv'
  <1>1. PICK x \in Redemptions : x = redemption[h] /\ x.pc = "bind"
    BY DEF BindCode, OAuthInv, OAuthType, Waiting
  <1>2. /\ x.code \in CodeIds /\ x.client \in ClientIds /\ x.row = granted[x.code] /\ granted[x.code] # NoRow
        /\ code[x.code] = NoRow /\ guesses[x.code] = 0
        /\ \A i \in TokenHandlers : redemption[i].pc = "bind" /\ redemption[i].code = x.code => i = h
    BY <1>1 DEF OAuthInv, InHand, Redemptions
  <1>3. /\ redemption' = [redemption EXCEPT ![h] = Waiting] /\ UNCHANGED <<client, code, granted, clock>>
        /\ guesses' = [guesses EXCEPT ![x.code] = @ + 1]
    BY <1>1 DEF BindCode
  <1>4. Waiting.pc = "waiting"
    BY DEF Waiting
  <1>5. PICK t \in Tokens :
            /\ tokens' \in {tokens, tokens \cup {t}} /\ t.from = x.code
            /\ tokens' # tokens => /\ granted[x.code].client = t.client /\ granted[x.code].proof = t.proof
                                  /\ granted[x.code].resource = t.audience
                                  /\ t.expires <= granted[x.code].expires + TokenTtl
    <2>1. clock \in Nat /\ TokenTtl \in Nat
      BY OAuthSizes DEF OAuthSizes, OAuthInv, OAuthType
    <2>2. BaseOf(o) \in Origins
      BY BaseIsOrigin
    <2>3. PICK t \in Tokens : t = [client |-> x.client, issuer |-> BaseOf(o), audience |-> r,
                                  expires |-> clock + TokenTtl, from |-> x.code, proof |-> p]
      <3>1. clock + TokenTtl \in Nat
        BY <2>1
      <3>. QED
        BY <1>2, <2>2, <3>1 DEF Tokens
    <2>4. tokens' = IF ~Bound(x, p, BaseOf(o), r) THEN tokens ELSE tokens \cup {t}
      BY <1>1, <2>3 DEF BindCode
    <2>5. granted[x.code] \in Rows
      BY <1>2 DEF OAuthInv, OAuthType
    <2>6. Bound(x, p, BaseOf(o), r) =>
              /\ granted[x.code].client = t.client /\ granted[x.code].proof = t.proof
              /\ granted[x.code].resource = t.audience
              /\ t.expires <= granted[x.code].expires + TokenTtl
      BY <1>2, <2>1, <2>3, <2>5 DEF Bound, Rows
    <2>7. t.from = x.code
      BY <2>3
    <2>. QED
      BY <2>4, <2>6, <2>7
  <1>6. \A d \in CodeIds : guesses'[d] = IF d = x.code THEN 1 ELSE guesses[d]
    BY <1>2, <1>3 DEF OAuthInv, OAuthType
  <1>7. OAuthType'
    <2>1. tokens' \subseteq Tokens
      BY <1>5 DEF OAuthInv, OAuthType
    <2>2. guesses' \in [CodeIds -> Nat]
      BY <1>2, <1>3 DEF OAuthInv, OAuthType
    <2>. QED
      BY <1>3, <2>1, <2>2 DEF OAuthInv, OAuthType
  <1>8. InTable' /\ Undrawn'
    BY <1>2, <1>3, <1>6 DEF OAuthInv, InTable, Undrawn
  <1>9. InHand'
    <2>1. \A i \in TokenHandlers : redemption'[i] = IF i = h THEN Waiting ELSE redemption[i]
      BY <1>3 DEF OAuthInv, OAuthType
    <2>2. \A i \in TokenHandlers : redemption[i].pc = "bind" => redemption[i].code \in CodeIds
      BY DEF OAuthInv, OAuthType, Redemptions, Waiting
    <2>. QED
      BY <1>2, <1>3, <1>4, <1>6, <2>1, <2>2 DEF OAuthInv, InHand
  <1>10. \A s \in tokens : s.from \in CodeIds /\ s.from # x.code
    BY <1>2 DEF OAuthInv, OAuthType, Tokens, Compared
  <1>11. Compared'
    <2>1. \A s \in tokens' : s \in tokens \/ s = t
      BY <1>5
    <2>2. \A s \in tokens' : guesses'[s.from] # 0
      BY <1>2, <1>5, <1>6, <1>10, <2>1 DEF OAuthInv, Compared
    <2>3. \A s, u \in tokens' : s.from = u.from => s = u
      BY <1>5, <1>10, <2>1 DEF OAuthInv, Compared
    <2>4. \A d \in CodeIds : guesses'[d] <= 1
      BY <1>6 DEF OAuthInv, Compared
    <2>. QED
      BY <2>2, <2>3, <2>4 DEF Compared
  <1>12. TokensBought'
    BY <1>2, <1>3, <1>5 DEF OAuthInv, TokensBought
  <1>. QED
    BY <1>7, <1>8, <1>9, <1>11, <1>12 DEF OAuthInv

LEMMA RestartInv == ASSUME OAuthInv, GatewayRestarts PROVE OAuthInv'
  <1>1. Waiting.pc = "waiting"
    BY DEF Waiting
  <1>. QED
    BY <1>1 DEF GatewayRestarts, OAuthInv, OAuthType, InTable, InHand, Undrawn, Compared, TokensBought

LEMMA TickInv == ASSUME OAuthInv, Tick \/ UNCHANGED oauthVars PROVE OAuthInv'
  BY DEF Tick, oauthVars, OAuthInv, OAuthType, InTable, InHand, Undrawn, Compared, TokensBought

LEMMA NextOAuth ==
    ASSUME OAuthInv, [OAuthNext]_oauthVars
    PROVE  /\ OAuthInv'
           /\ \A d \in CodeIds : code[d] # NoRow /\ code'[d] = NoRow =>
                \/ code[d].expires < clock
                \/ \E h \in TokenHandlers : redemption[h].pc = "consume" /\ redemption'[h].pc = "bind"
  <1>1. CASE Tick \/ UNCHANGED oauthVars
    BY <1>1, TickInv DEF Tick, oauthVars
  <1>2. CASE GatewayRestarts
    BY <1>2, RestartInv DEF GatewayRestarts
  <1>3. ASSUME NEW m \in AuthMethods, Register(m)
        PROVE  OAuthInv' /\ UNCHANGED code
    BY <1>3, RegisterInv DEF Register
  <1>4. ASSUME NEW h \in TokenHandlers, NEW c \in ClientIds, NEW m \in AuthMethods, NEW d \in CodeIds,
               PresentCode(h, c, m, d)
        PROVE  OAuthInv' /\ UNCHANGED code
    BY <1>4, PresentInv DEF PresentCode
  <1>5. ASSUME NEW h \in TokenHandlers, NEW p \in Proofs, NEW o \in Origins, NEW r \in Resources,
               BindCode(h, p, o, r)
        PROVE  OAuthInv' /\ UNCHANGED code
    BY <1>5, BindInv DEF BindCode
  <1>. QED
    BY <1>1, <1>2, <1>3, <1>4, <1>5, AuthorizeInv, ConsumeInv DEF OAuthNext

(* A code in the hands of several requests at once, a restart, a slow      *)
(* redirect, a wrong verifier: a token is what the operator approved, a    *)
(* code buys one at most, and the purge takes no code that could still buy *)
(* one; for any number of clients, codes, requests and lifetimes.          *)
THEOREM GrantsAlwaysSound == OAuthSpec => GrantsSound
  <1>1. OAuthInv => CodeUsedOnce
    <2>. SUFFICES ASSUME OAuthInv, NEW d \in CodeIds
                  PROVE  guesses[d] <= 1 /\ Cardinality({t \in tokens : t.from = d}) <= 1
      BY DEF CodeUsedOnce
    <2>1. CASE {t \in tokens : t.from = d} = {}
      BY <2>1, FS_EmptySet DEF OAuthInv, Compared
    <2>2. ASSUME NEW s \in tokens, s.from = d
          PROVE  Cardinality({t \in tokens : t.from = d}) = 1
      <3>1. {t \in tokens : t.from = d} = {s}
        BY <2>2 DEF OAuthInv, Compared
      <3>. QED
        BY <3>1, FS_Singleton
    <2>. QED
      BY <2>1, <2>2 DEF OAuthInv, Compared
  <1>2. OAuthInv => TokensGranted
    <2>. SUFFICES ASSUME OAuthInv, NEW t \in tokens, NEW o \in Origins, TokenAccepted(t, o)
                  PROVE  LET g == granted[t.from]
                         IN /\ g # NoRow /\ g.client = t.client /\ g.proof = t.proof
                            /\ g.resource = t.audience /\ g.resource.origin = BaseOf(o)
                            /\ clock <= g.expires + TokenTtl
      BY DEF TokensGranted
    <2>1. t \in Tokens /\ t.expires \in Nat /\ clock \in Nat /\ TokenTtl \in Nat
      BY OAuthSizes DEF OAuthSizes, OAuthInv, OAuthType, Tokens
    <2>2. granted[t.from] \in Rows /\ granted[t.from].expires \in Nat
      BY <2>1 DEF OAuthInv, OAuthType, TokensBought, Tokens, Rows
    <2>3. clock <= t.expires /\ t.audience.origin = BaseOf(o)
      BY <2>1 DEF TokenAccepted, ResourceMatches
    <2>4. clock <= granted[t.from].expires + TokenTtl
      BY <2>1, <2>2, <2>3 DEF OAuthInv, TokensBought
    <2>. QED
      BY <2>3, <2>4 DEF OAuthInv, TokensBought
  <1>3. OAuthInv /\ [OAuthNext]_oauthVars =>
            [\A d \in CodeIds : code[d] # NoRow /\ code'[d] = NoRow =>
                \/ code[d].expires < clock
                \/ \E h \in TokenHandlers : redemption[h].pc = "consume" /\ redemption'[h].pc = "bind"]_oauthVars
    BY NextOAuth
  <1>. QED
    BY <1>1, <1>2, <1>3, InitOAuth, NextOAuth, PTL DEF OAuthSpec, GrantsSound, PurgeSparesLive

(***************************************************************************)
(* The replay memory of keyed native writes.                               *)
(***************************************************************************)

Entries == [slot : Slots, work : Works, outcome : {"pending", "complete", "unknown"}]
Calls == [pc : {"free", "writing", "record"}, slot : Slots \cup {"none"}, work : Works \cup {"none"},
          result : {"none", "applied", "unkept", "runtime_error", "refused"}]

ReplayType ==
    /\ entries \in Seq(Entries) /\ Len(entries) <= ReplayCapacity
    /\ writer \in [NativeCallers -> Calls]
    /\ applied \in [Slots -> Seq(Works)] /\ displaced \in [Slots -> Nat]

OneEntryPerSlot == \A i, j \in DOMAIN entries : entries[i].slot = entries[j].slot => i = j

(* A write that is in progress has its own pending entry, and until it has *)
(* changed files nothing stands under its slot that was not displaced.     *)
WritersPend ==
    /\ \A c \in NativeCallers : writer[c].pc # "free" =>
        /\ writer[c].slot \in Slots /\ writer[c].work \in Works
        /\ \E i \in DOMAIN entries :
            entries[i] = [slot |-> writer[c].slot, work |-> writer[c].work, outcome |-> "pending"]
        /\ writer[c].pc = "writing" \/ writer[c].result = "refused" =>
            Len(applied[writer[c].slot]) <= displaced[writer[c].slot]
        /\ writer[c].pc = "record" => writer[c].result # "none"
    /\ \A b, c \in NativeCallers :
        writer[b].pc # "free" /\ writer[c].pc # "free" /\ writer[b].slot = writer[c].slot => b = c

(* A work that stands under a slot without a displacement to answer for it *)
(* has the slot's entry.                                                   *)
WorkHeld == \A s \in Slots :
    /\ Len(applied[s]) <= 1 + displaced[s]
    /\ Len(applied[s]) > displaced[s] =>
        \E i \in DOMAIN entries : entries[i].slot = s /\ entries[i].work = applied[s][Len(applied[s])]

ReplayInv == ReplayType /\ OneEntryPerSlot /\ WritersPend /\ WorkHeld

-----------------------------------------------------------------------------
LEMMA RemovedAt ==
    ASSUME NEW E, NEW s \in Seq(E), NEW k \in DOMAIN s
    PROVE  /\ RemoveAt(s, k) \in Seq(E) /\ Len(RemoveAt(s, k)) = Len(s) - 1
           /\ \A j \in 1..(Len(s) - 1) : RemoveAt(s, k)[j] = IF j < k THEN s[j] ELSE s[j + 1]
  <1>. DEFINE a == SubSeq(s, 1, k - 1)
              b == SubSeq(s, k + 1, Len(s))
  <1>1. k \in 1..Len(s) /\ Len(s) \in Nat
    OBVIOUS
  <1>2. /\ a \in Seq(E) /\ Len(a) = k - 1
        /\ \A i \in 1..(k - 1) : a[i] = s[i]
    BY <1>1
  <1>3. /\ b \in Seq(E) /\ Len(b) = Len(s) - k
        /\ \A i \in 1..(Len(s) - k) : b[i] = s[k + i]
    BY <1>1
  <1>4. RemoveAt(s, k) = a \o b
    BY DEF RemoveAt
  <1>. HIDE DEF a, b
  <1>5. a \o b \in Seq(E) /\ Len(a \o b) = Len(s) - 1
    BY <1>1, <1>2, <1>3
  <1>6. \A j \in 1..(Len(s) - 1) : (a \o b)[j] = IF j < k THEN a[j] ELSE b[j - (k - 1)]
    <2>1. \A j \in 1..(Len(a) + Len(b)) : (a \o b)[j] = IF j <= Len(a) THEN a[j] ELSE b[j - Len(a)]
      BY <1>2, <1>3, ConcatProperties
    <2>2. Len(a) + Len(b) = Len(s) - 1 /\ Len(a) = k - 1 /\ k \in Int
      BY <1>1, <1>2, <1>3
    <2>3. \A j \in 1..(Len(s) - 1) : j <= Len(a) <=> j < k
      BY <2>2
    <2>. QED
      BY <2>1, <2>2, <2>3
  <1>7. \A j \in 1..(Len(s) - 1) : (a \o b)[j] = IF j < k THEN s[j] ELSE s[j + 1]
    <2>. SUFFICES ASSUME NEW j \in 1..(Len(s) - 1) PROVE (a \o b)[j] = IF j < k THEN s[j] ELSE s[j + 1]
      OBVIOUS
    <2>1. CASE j < k
      BY <1>1, <1>2, <1>6, <2>1
    <2>2. CASE ~(j < k)
      <3>1. j - (k - 1) \in 1..(Len(s) - k) /\ k + (j - (k - 1)) = j + 1
        BY <1>1, <2>2
      <3>. QED
        BY <1>3, <1>6, <2>2, <3>1
    <2>. QED
      BY <2>1, <2>2
  <1>. QED
    BY <1>4, <1>5, <1>7

LEMMA LeastExists == ASSUME NEW I, I \subseteq Nat, I # {} PROVE LeastRecent(I) \in I
  <1>1. PICK n \in I : \A m \in I : <<m, n>> \notin OpToRel(<, Nat)
    BY NatLessThanWellFounded, WFMin
  <1>2. \A m \in I : n <= m
    <2>1. OpToRel(<, Nat) = {ss \in Nat \X Nat : ss[1] < ss[2]}
      BY DEF OpToRel
    <2>2. ASSUME NEW m \in I, m < n PROVE FALSE
      <3>1. <<m, n>> \in {ss \in Nat \X Nat : ss[1] < ss[2]}
        BY <2>2
      <3>. QED
        BY <1>1, <2>1, <3>1
    <2>. QED
      BY <2>2
  <1>. QED
    BY <1>2 DEF LeastRecent

(* The entries without one of them are the others, each still once.        *)
LEMMA EntryRemoved ==
    ASSUME entries \in Seq(Entries), OneEntryPerSlot, NEW k \in DOMAIN entries,
           NEW r, r = RemoveAt(entries, k)
    PROVE  /\ r \in Seq(Entries) /\ Len(r) = Len(entries) - 1
           /\ \A i, j \in DOMAIN r : r[i].slot = r[j].slot => i = j
           /\ \A j \in DOMAIN r : r[j].slot # entries[k].slot
           /\ \A i \in DOMAIN entries \ {k} : \E j \in DOMAIN r : r[j] = entries[i]
  <1>1. /\ r \in Seq(Entries) /\ Len(r) = Len(entries) - 1 /\ Len(entries) \in Nat
        /\ \A j \in 1..(Len(entries) - 1) : r[j] = IF j < k THEN entries[j] ELSE entries[j + 1]
    BY RemovedAt
  <1>2. DOMAIN r = 1..(Len(entries) - 1) /\ DOMAIN entries = 1..Len(entries)
    BY <1>1
  <1>. DEFINE Old(j) == IF j < k THEN j ELSE j + 1
  <1>6. \A j \in DOMAIN r : Old(j) \in DOMAIN entries \ {k} /\ r[j] = entries[Old(j)]
    BY <1>1, <1>2
  <1>7. \A i, j \in DOMAIN r : Old(i) = Old(j) => i = j
    BY <1>2
  <1>3. \A i, j \in DOMAIN r : r[i].slot = r[j].slot => i = j
    <2>. HIDE DEF Old
    <2>. QED
      BY <1>6, <1>7 DEF OneEntryPerSlot
  <1>4. \A j \in DOMAIN r : r[j].slot # entries[k].slot
    <2>. HIDE DEF Old
    <2>. QED
      BY <1>6 DEF OneEntryPerSlot
  <1>5. ASSUME NEW i \in DOMAIN entries \ {k} PROVE \E j \in DOMAIN r : r[j] = entries[i]
    <2>1. CASE i < k
      BY <1>1, <1>2, <2>1
    <2>2. CASE i > k
      <3>1. i - 1 \in DOMAIN r /\ r[i - 1] = entries[i]
        BY <1>1, <1>2, <2>2
      <3>. QED
        BY <3>1
    <2>. QED
      BY <1>2, <2>1, <2>2
  <1>. QED
    BY <1>1, <1>3, <1>4, <1>5

(* A new slot at the end.                                                  *)
LEMMA EntryAppended ==
    ASSUME NEW r \in Seq(Entries), NEW e \in Entries, \A i, j \in DOMAIN r : r[i].slot = r[j].slot => i = j,
           \A j \in DOMAIN r : r[j].slot # e.slot, NEW q, q = Append(r, e)
    PROVE  /\ q \in Seq(Entries) /\ Len(q) = Len(r) + 1
           /\ \A i, j \in DOMAIN q : q[i].slot = q[j].slot => i = j
           /\ \A i \in DOMAIN r : i \in DOMAIN q /\ q[i] = r[i]
           /\ Len(q) \in DOMAIN q /\ q[Len(q)] = e
  <1>1. /\ q \in Seq(Entries) /\ Len(q) = Len(r) + 1
        /\ \A i \in 1..Len(r) : q[i] = r[i]
        /\ q[Len(r) + 1] = e
    BY AppendProperties
  <1>2. DOMAIN q = 1..(Len(r) + 1) /\ DOMAIN r = 1..Len(r) /\ Len(r) \in Nat
    BY <1>1
  <1>3. \A i \in DOMAIN q : i \in DOMAIN r \/ i = Len(r) + 1
    BY <1>2
  <1>. QED
    BY <1>1, <1>2, <1>3

-----------------------------------------------------------------------------
(* The entry of a slot that has one is the only one.                       *)
LEMMA EntryFound ==
    ASSUME ReplayInv, NEW s \in Slots, Reserved(s)
    PROVE  PlaceOf(s) \in DOMAIN entries /\ EntryOf(s).slot = s /\ EntryOf(s) = entries[PlaceOf(s)]
  <1>1. EntriesOf(s) \subseteq Nat /\ EntriesOf(s) # {}
    BY DEF Reserved, EntriesOf, ReplayInv, ReplayType
  <1>. QED
    BY <1>1, LeastExists DEF PlaceOf, EntriesOf, EntryOf

LEMMA InitReplay == ReplayInit => ReplayInv
  <1>1. NotWriting \in Calls /\ NotWriting.pc = "free"
    BY DEF NotWriting, Calls
  <1>. QED
    BY <1>1, ReplaySizes DEF ReplaySizes, ReplayInit, ReplayInv, ReplayType, OneEntryPerSlot, WritersPend, WorkHeld

(* The memory answers, and the order of its entries may change.            *)
LEMMA RememberedInv ==
    ASSUME ReplayInv, NEW c \in NativeCallers, NEW s \in Slots, NEW w \in Works, Remembered(c, s, w)
    PROVE  ReplayInv'
  <1>0. UNCHANGED <<writer, applied, displaced>> /\ Reserved(s)
    BY DEF Remembered
  <1>1. CASE entries' = entries
    BY <1>0, <1>1 DEF ReplayInv, ReplayType, OneEntryPerSlot, WritersPend, WorkHeld
  <1>2. CASE entries' = Append(RemoveAt(entries, PlaceOf(s)), EntryOf(s))
    <2>1. PICK k \in DOMAIN entries : k = PlaceOf(s) /\ EntryOf(s) = entries[k]
      BY <1>0, EntryFound
    <2>2. PICK r : r = RemoveAt(entries, k)
      OBVIOUS
    <2>3. /\ r \in Seq(Entries) /\ Len(r) = Len(entries) - 1
          /\ \A i, j \in DOMAIN r : r[i].slot = r[j].slot => i = j
          /\ \A j \in DOMAIN r : r[j].slot # entries[k].slot
          /\ \A i \in DOMAIN entries \ {k} : \E j \in DOMAIN r : r[j] = entries[i]
      BY <2>2, EntryRemoved DEF ReplayInv, ReplayType
    <2>4. entries[k] \in Entries
      BY DEF ReplayInv, ReplayType
    <2>5. entries' = Append(r, entries[k])
      BY <1>2, <2>1, <2>2
    <2>6. /\ entries' \in Seq(Entries) /\ Len(entries') = Len(r) + 1
          /\ \A i, j \in DOMAIN entries' : entries'[i].slot = entries'[j].slot => i = j
          /\ \A i \in DOMAIN r : i \in DOMAIN entries' /\ entries'[i] = r[i]
          /\ Len(entries') \in DOMAIN entries' /\ entries'[Len(entries')] = entries[k]
      BY <2>3, <2>4, <2>5, EntryAppended
    <2>7. \A i \in DOMAIN entries : \E j \in DOMAIN entries' : entries'[j] = entries[i]
      BY <2>3, <2>6
    <2>8. ReplayType'
      BY <1>0, <2>3, <2>6 DEF ReplayInv, ReplayType
    <2>9. OneEntryPerSlot'
      BY <2>6 DEF OneEntryPerSlot
    <2>10. WritersPend'
      BY <1>0, <2>7 DEF ReplayInv, WritersPend
    <2>11. WorkHeld'
      BY <1>0, <2>7 DEF ReplayInv, WorkHeld
    <2>. QED
      BY <2>8, <2>9, <2>10, <2>11 DEF ReplayInv
  <1>. QED
    BY <1>1, <1>2 DEF Remembered

(* A slot that stands free takes an entry; the one displaced for it, if    *)
(* any, is complete and answers for a work of its own slot.                *)
LEMMA ReserveInv ==
    ASSUME ReplayInv, NEW c \in NativeCallers, NEW s \in Slots, NEW w \in Works, ReserveSlot(c, s, w)
    PROVE  ReplayInv'
  <1>1. PICK fresh \in Entries : fresh = [slot |-> s, work |-> w, outcome |-> "pending"]
    BY DEF Entries
  <1>2. PICK opened \in Calls : /\ opened = [pc |-> "writing", slot |-> s, work |-> w, result |-> "none"]
                              /\ writer' = [writer EXCEPT ![c] = opened]
    BY DEF ReserveSlot, Calls
  <1>3. /\ UNCHANGED applied /\ writer[c].pc = "free"
        /\ \A i \in DOMAIN entries : entries[i].slot # s
    BY DEF ReserveSlot, Reserved, EntriesOf
  <1>4. Len(applied[s]) <= displaced[s]
    <2>1. Len(applied[s]) \in Nat /\ displaced[s] \in Nat
      BY DEF ReplayInv, ReplayType
    <2>2. ~(Len(applied[s]) > displaced[s])
      BY <1>3 DEF ReplayInv, WorkHeld
    <2>. QED
      BY <2>1, <2>2
  <1>5. \A b \in NativeCallers : writer'[b] = IF b = c THEN opened ELSE writer[b]
    BY <1>2 DEF ReplayInv, ReplayType
  (* What both ways to make room come to. *)
  <1>6. ASSUME NEW r \in Seq(Entries), Len(r) < ReplayCapacity, entries' = Append(r, fresh),
               \A i, j \in DOMAIN r : r[i].slot = r[j].slot => i = j,
               \A j \in DOMAIN r : r[j].slot # s,
               displaced' \in [Slots -> Nat], \A t \in Slots : displaced'[t] >= displaced[t],
               \A i \in DOMAIN entries : \/ \E j \in DOMAIN r : r[j] = entries[i]
                                        \/ /\ entries[i].outcome = "complete"
                                           /\ displaced'[entries[i].slot] = displaced[entries[i].slot] + 1
        PROVE  ReplayInv'
    <2>1. /\ entries' \in Seq(Entries) /\ Len(entries') = Len(r) + 1
          /\ \A i, j \in DOMAIN entries' : entries'[i].slot = entries'[j].slot => i = j
          /\ \A i \in DOMAIN r : i \in DOMAIN entries' /\ entries'[i] = r[i]
          /\ Len(entries') \in DOMAIN entries' /\ entries'[Len(entries')] = fresh
      BY <1>1, <1>6, EntryAppended
    <2>2. ReplayType'
      <3>1. Len(r) \in Nat /\ ReplayCapacity \in Nat
        BY ReplaySizes DEF ReplaySizes
      <3>2. Len(entries') <= ReplayCapacity
        BY <1>6, <2>1, <3>1
      <3>. QED
        BY <1>2, <1>3, <1>6, <2>1, <3>2 DEF ReplayInv, ReplayType
    <2>3. OneEntryPerSlot'
      BY <2>1 DEF OneEntryPerSlot
    <2>4. \A t \in Slots : displaced[t] \in Nat /\ displaced'[t] \in Nat /\ Len(applied[t]) \in Nat
      BY <1>6 DEF ReplayInv, ReplayType
    <2>5. WritersPend'
      <3>1. ASSUME NEW b \in NativeCallers, writer'[b].pc # "free", b # c
            PROVE  /\ writer'[b].slot \in Slots /\ writer'[b].work \in Works /\ writer'[b].slot # s
                   /\ \E i \in DOMAIN entries' :
                        entries'[i] = [slot |-> writer'[b].slot, work |-> writer'[b].work, outcome |-> "pending"]
                   /\ writer'[b].pc = "writing" \/ writer'[b].result = "refused" =>
                        Len(applied'[writer'[b].slot]) <= displaced'[writer'[b].slot]
                   /\ writer'[b].pc = "record" => writer'[b].result # "none"
        <4>1. writer'[b] = writer[b] /\ writer[b].pc # "free"
          BY <1>5, <3>1
        <4>2. /\ writer[b].slot \in Slots /\ writer[b].work \in Works
              /\ writer[b].pc = "writing" \/ writer[b].result = "refused" =>
                    Len(applied[writer[b].slot]) <= displaced[writer[b].slot]
              /\ writer[b].pc = "record" => writer[b].result # "none"
          BY <4>1 DEF ReplayInv, WritersPend
        <4>3. PICK i \in DOMAIN entries :
                  entries[i] = [slot |-> writer[b].slot, work |-> writer[b].work, outcome |-> "pending"]
          BY <4>1 DEF ReplayInv, WritersPend
        <4>4. PICK j \in DOMAIN r : r[j] = entries[i]
          BY <1>6, <4>3
        <4>5. writer[b].slot # s
          BY <1>3, <4>3
        <4>6. Len(applied[writer[b].slot]) <= displaced[writer[b].slot] =>
                 Len(applied[writer[b].slot]) <= displaced'[writer[b].slot]
          BY <1>6, <2>4, <4>2
        <4>. QED
          BY <1>3, <2>1, <4>1, <4>2, <4>3, <4>4, <4>5, <4>6
      <3>2. /\ writer'[c].slot = s /\ writer'[c].work = w /\ writer'[c].pc = "writing"
            /\ \E i \in DOMAIN entries' : entries'[i] = [slot |-> s, work |-> w, outcome |-> "pending"]
            /\ Len(applied'[s]) <= displaced'[s]
        BY <1>1, <1>2, <1>3, <1>4, <1>5, <1>6, <2>1, <2>4
      <3>3. \A a, b \in NativeCallers :
                writer'[a].pc # "free" /\ writer'[b].pc # "free" /\ writer'[a].slot = writer'[b].slot => a = b
        BY <1>5, <3>1, <3>2 DEF ReplayInv, WritersPend
      <3>. QED
        BY <3>1, <3>2, <3>3 DEF WritersPend
    <2>6. WorkHeld'
      <3>. SUFFICES ASSUME NEW t \in Slots
                    PROVE  /\ Len(applied'[t]) <= 1 + displaced'[t]
                           /\ Len(applied'[t]) > displaced'[t] =>
                                \E i \in DOMAIN entries' :
                                    entries'[i].slot = t /\ entries'[i].work = applied'[t][Len(applied'[t])]
        BY DEF WorkHeld
      <3>1. Len(applied[t]) <= 1 + displaced[t] /\ displaced'[t] >= displaced[t] /\ applied' = applied
        BY <1>3, <1>6 DEF ReplayInv, WorkHeld
      <3>2. ASSUME Len(applied[t]) > displaced'[t]
            PROVE  \E i \in DOMAIN entries' :
                        entries'[i].slot = t /\ entries'[i].work = applied[t][Len(applied[t])]
        <4>1. Len(applied[t]) > displaced[t]
          BY <2>4, <3>1, <3>2
        <4>2. PICK i \in DOMAIN entries : entries[i].slot = t /\ entries[i].work = applied[t][Len(applied[t])]
          BY <4>1 DEF ReplayInv, WorkHeld
        <4>3. displaced'[t] # displaced[t] + 1
          BY <2>4, <3>1, <3>2
        <4>4. PICK j \in DOMAIN r : r[j] = entries[i]
          BY <1>6, <4>2, <4>3
        <4>. QED
          BY <2>1, <4>2, <4>4
      <3>. QED
        BY <2>4, <3>1, <3>2
    <2>. QED
      BY <2>2, <2>3, <2>5, <2>6 DEF ReplayInv
  <1>7. CASE Len(entries) < ReplayCapacity /\ entries' = Append(entries, fresh) /\ UNCHANGED displaced
    <2>1. displaced \in [Slots -> Nat] /\ entries \in Seq(Entries)
      BY DEF ReplayInv, ReplayType
    <2>2. \A t \in Slots : displaced[t] >= displaced[t]
      BY <2>1
    <2>. QED
      BY <1>3, <1>6, <1>7, <2>1, <2>2 DEF ReplayInv, OneEntryPerSlot
  <1>8. CASE /\ Len(entries) >= ReplayCapacity /\ Evictable # {}
             /\ entries' = Append(RemoveAt(entries, LeastRecent(Evictable)), fresh)
             /\ displaced' = [displaced EXCEPT ![entries[LeastRecent(Evictable)].slot] = @ + 1]
    <2>1. PICK k \in DOMAIN entries : k = LeastRecent(Evictable) /\ entries[k].outcome = "complete"
      <3>1. Evictable \subseteq Nat
        BY DEF Evictable, ReplayInv, ReplayType
      <3>. QED
        BY <1>8, <3>1, LeastExists DEF Evictable
    <2>2. PICK r : r = RemoveAt(entries, k)
      OBVIOUS
    <2>3. /\ r \in Seq(Entries) /\ Len(r) = Len(entries) - 1
          /\ \A i, j \in DOMAIN r : r[i].slot = r[j].slot => i = j
          /\ \A i \in DOMAIN entries \ {k} : \E j \in DOMAIN r : r[j] = entries[i]
      BY <2>2, EntryRemoved DEF ReplayInv, ReplayType
    <2>4. \A j \in DOMAIN r : \E i \in DOMAIN entries : r[j] = entries[i]
      <3>1. \A j \in 1..(Len(entries) - 1) : r[j] = IF j < k THEN entries[j] ELSE entries[j + 1]
        BY <2>2, RemovedAt DEF ReplayInv, ReplayType
      <3>2. DOMAIN r = 1..(Len(entries) - 1) /\ DOMAIN entries = 1..Len(entries) /\ Len(entries) \in Nat
        BY <2>3 DEF ReplayInv, ReplayType
      <3>. QED
        BY <3>1, <3>2
    <2>5. \A j \in DOMAIN r : r[j].slot # s
      BY <1>3, <2>4
    <2>6. Len(r) < ReplayCapacity
      BY <2>3, ReplaySizes DEF ReplaySizes, ReplayInv, ReplayType
    <2>7. entries[k].slot \in Slots
      <3>1. entries[k] \in Entries
        BY DEF ReplayInv, ReplayType
      <3>. QED
        BY <3>1 DEF Entries
    <2>8. /\ displaced' \in [Slots -> Nat] /\ \A t \in Slots : displaced'[t] >= displaced[t]
          /\ displaced'[entries[k].slot] = displaced[entries[k].slot] + 1
      BY <1>8, <2>1, <2>7 DEF ReplayInv, ReplayType
    <2>. QED
      BY <1>6, <1>8, <2>1, <2>2, <2>3, <2>5, <2>6, <2>8
  <1>. QED
    BY <1>1, <1>7, <1>8 DEF ReserveSlot

(* Files are changed, or perhaps changed, while the slot is pending.       *)
LEMMA WriteInv ==
    ASSUME ReplayInv, NEW c \in NativeCallers,
           NEW result \in {"applied", "unkept", "runtime_error", "refused"}, WriteFiles(c, result)
    PROVE  ReplayInv'
  <1>1. PICK x \in Calls : x = writer[c] /\ x.pc = "writing" /\ x.slot \in Slots /\ x.work \in Works
    BY DEF WriteFiles, ReplayInv, ReplayType, WritersPend
  <1>2. PICK y \in Calls : /\ writer' = [writer EXCEPT ![c] = y]
                           /\ y.pc = "record" /\ y.result = result /\ y.slot = x.slot /\ y.work = x.work
    <2>1. PICK y : y = [x EXCEPT !.pc = "record", !.result = result]
      OBVIOUS
    <2>2. y \in Calls /\ y.pc = "record" /\ y.result = result /\ y.slot = x.slot /\ y.work = x.work
      BY <2>1 DEF Calls
    <2>3. writer' = [writer EXCEPT ![c] = y]
      BY <1>1, <2>1 DEF WriteFiles
    <2>. QED
      BY <2>2, <2>3
  <1>3. UNCHANGED <<entries, displaced>>
    BY DEF WriteFiles
  <1>4. applied' = IF result = "refused" THEN applied
                   ELSE [applied EXCEPT ![x.slot] = Append(@, x.work)]
    BY <1>1 DEF WriteFiles
  <1>5. Len(applied[x.slot]) <= displaced[x.slot] /\ applied[x.slot] \in Seq(Works) /\ displaced[x.slot] \in Nat
    BY <1>1 DEF ReplayInv, ReplayType, WritersPend
  <1>6. \A b \in NativeCallers : writer'[b] = IF b = c THEN y ELSE writer[b]
    BY <1>2 DEF ReplayInv, ReplayType
  <1>7. /\ applied' \in [Slots -> Seq(Works)] /\ \A t \in Slots \ {x.slot} : applied'[t] = applied[t]
        /\ applied'[x.slot] # applied[x.slot] =>
               /\ Len(applied'[x.slot]) = Len(applied[x.slot]) + 1 /\ result # "refused"
               /\ applied'[x.slot][Len(applied'[x.slot])] = x.work
    BY <1>1, <1>4, <1>5 DEF ReplayInv, ReplayType
  <1>8. ReplayType'
    BY <1>2, <1>3, <1>7 DEF ReplayInv, ReplayType
  <1>9. PICK i \in DOMAIN entries : entries[i] = [slot |-> x.slot, work |-> x.work, outcome |-> "pending"]
    BY <1>1 DEF ReplayInv, WritersPend
  <1>10. WritersPend'
    <2>1. ASSUME NEW b \in NativeCallers, b # c, writer[b].pc # "free"
          PROVE  writer[b].slot # x.slot
      BY <1>1, <2>1 DEF ReplayInv, WritersPend
    <2>2. result = "refused" => Len(applied'[x.slot]) <= displaced[x.slot]
      BY <1>5, <1>7
    <2>. QED
      BY <1>1, <1>2, <1>3, <1>6, <1>7, <1>9, <2>1, <2>2 DEF ReplayInv, WritersPend
  <1>11. WorkHeld'
    <2>1. CASE applied'[x.slot] = applied[x.slot]
      BY <1>3, <1>7, <2>1 DEF ReplayInv, WorkHeld
    <2>2. CASE applied'[x.slot] # applied[x.slot]
      <3>1. Len(applied'[x.slot]) <= 1 + displaced[x.slot]
        BY <1>5, <1>7, <2>2
      <3>. QED
        BY <1>3, <1>7, <1>9, <2>2, <3>1 DEF ReplayInv, WorkHeld
    <2>. QED
      BY <2>1, <2>2
  <1>. QED
    BY <1>3, <1>8, <1>10, <1>11 DEF ReplayInv, OneEntryPerSlot

(* The outcome is recorded at the entry of the call; a refused write       *)
(* leaves nothing under its slot and gives the entry up.                   *)
LEMMA RecordInv == ASSUME ReplayInv, NEW c \in NativeCallers, RecordOutcome(c) PROVE ReplayInv'
  <1>1. PICK x \in Calls : /\ x = writer[c] /\ x.pc = "record" /\ x.slot \in Slots
                           /\ x.result \in {"applied", "unkept", "runtime_error", "refused"}
    <2>1. writer[c] \in Calls /\ writer[c].pc = "record"
      BY DEF RecordOutcome, ReplayInv, ReplayType
    <2>2. writer[c].result # "none" /\ writer[c].slot \in Slots
      BY <2>1 DEF ReplayInv, WritersPend
    <2>. QED
      BY <2>1, <2>2 DEF Calls
  <1>2. Reserved(x.slot)
    <2>1. PICK i \in DOMAIN entries : entries[i] = [slot |-> x.slot, work |-> x.work, outcome |-> "pending"]
      BY <1>1 DEF ReplayInv, WritersPend
    <2>2. i \in EntriesOf(x.slot)
      BY <2>1 DEF EntriesOf
    <2>. QED
      BY <2>2 DEF Reserved
  <1>3. PICK k \in DOMAIN entries : k = PlaceOf(x.slot) /\ entries[k].slot = x.slot /\ EntryOf(x.slot) = entries[k]
    BY <1>1, <1>2, EntryFound
  <1>4. \A i \in DOMAIN entries : entries[i].slot = x.slot => i = k
    BY <1>3 DEF ReplayInv, OneEntryPerSlot
  <1>5. UNCHANGED <<applied, displaced>> /\ writer' = [writer EXCEPT ![c] = NotWriting]
    BY DEF RecordOutcome
  <1>6. NotWriting \in Calls /\ NotWriting.pc = "free"
    BY DEF NotWriting, Calls
  <1>7. \A b \in NativeCallers : writer'[b] = IF b = c THEN NotWriting ELSE writer[b]
    BY <1>5 DEF ReplayInv, ReplayType
  <1>8. \A b \in NativeCallers : b # c /\ writer[b].pc # "free" => writer[b].slot # x.slot
    BY <1>1 DEF ReplayInv, WritersPend
  (* Whatever becomes of entry k, the other entries stay. *)
  <1>9. ASSUME entries' \in Seq(Entries), Len(entries') <= Len(entries), OneEntryPerSlot',
               \A i \in DOMAIN entries \ {k} : \E j \in DOMAIN entries' : entries'[j] = entries[i],
               \/ Len(applied[x.slot]) <= displaced[x.slot]
               \/ \E j \in DOMAIN entries' : entries'[j].slot = x.slot /\ entries'[j].work = entries[k].work
        PROVE  ReplayInv'
    <2>1. ReplayType'
      BY <1>5, <1>6, <1>9, ReplaySizes DEF ReplaySizes, ReplayInv, ReplayType
    <2>2. WritersPend'
      <3>1. ASSUME NEW b \in NativeCallers, b # c, writer[b].pc # "free"
            PROVE  \E j \in DOMAIN entries' :
                      entries'[j] = [slot |-> writer[b].slot, work |-> writer[b].work, outcome |-> "pending"]
        <4>1. PICK i \in DOMAIN entries :
                  entries[i] = [slot |-> writer[b].slot, work |-> writer[b].work, outcome |-> "pending"]
          BY <3>1 DEF ReplayInv, WritersPend
        <4>2. i # k
          BY <1>3, <1>8, <3>1, <4>1
        <4>. QED
          BY <1>9, <4>1, <4>2
      <3>. QED
        BY <1>5, <1>6, <1>7, <3>1 DEF ReplayInv, WritersPend
    <2>3. WorkHeld'
      <3>. SUFFICES ASSUME NEW t \in Slots, Len(applied[t]) > displaced[t]
                    PROVE  \E j \in DOMAIN entries' :
                              entries'[j].slot = t /\ entries'[j].work = applied[t][Len(applied[t])]
        BY <1>5 DEF ReplayInv, WorkHeld
      <3>1. PICK i \in DOMAIN entries : entries[i].slot = t /\ entries[i].work = applied[t][Len(applied[t])]
        BY DEF ReplayInv, WorkHeld
      <3>2. CASE i = k
        <4>1. t = x.slot /\ ~(Len(applied[x.slot]) <= displaced[x.slot])
          BY <1>3, <3>1, <3>2 DEF ReplayInv, ReplayType
        <4>. QED
          BY <1>9, <3>1, <3>2, <4>1
      <3>3. CASE i # k
        BY <1>9, <3>1, <3>3
      <3>. QED
        BY <3>2, <3>3
    <2>. QED
      BY <1>9, <2>1, <2>2, <2>3 DEF ReplayInv
  <1>10. CASE x.result = "refused"
    <2>1. entries' = RemoveAt(entries, k)
      <3>1. OutcomeOf(x.result) = "forget"
        BY <1>10 DEF OutcomeOf
      <3>. QED
        BY <1>1, <1>2, <1>3, <3>1 DEF RecordOutcome
    <2>2. /\ entries' \in Seq(Entries) /\ Len(entries') = Len(entries) - 1
          /\ \A i, j \in DOMAIN entries' : entries'[i].slot = entries'[j].slot => i = j
          /\ \A i \in DOMAIN entries \ {k} : \E j \in DOMAIN entries' : entries'[j] = entries[i]
      BY <2>1, EntryRemoved DEF ReplayInv, ReplayType
    <2>3. Len(applied[x.slot]) <= displaced[x.slot]
      BY <1>1, <1>10 DEF ReplayInv, WritersPend
    <2>. QED
      BY <1>9, <2>2, <2>3 DEF ReplayInv, ReplayType, OneEntryPerSlot
  <1>11. CASE x.result # "refused"
    <2>1. PICK o \in {"complete", "unknown"} : o = OutcomeOf(x.result)
      BY <1>1, <1>11 DEF OutcomeOf
    <2>2. entries' = [entries EXCEPT ![k].outcome = o]
      BY <1>1, <1>2, <1>3, <2>1 DEF RecordOutcome
    <2>3. PICK e \in Entries : e = entries[k]
      BY DEF ReplayInv, ReplayType
    <2>4. PICK f : f = [e EXCEPT !.outcome = o]
      OBVIOUS
    <2>5. f \in Entries /\ f.slot = e.slot /\ f.work = e.work
      BY <2>1, <2>4 DEF Entries
    <2>6. entries' = [entries EXCEPT ![k] = f]
      BY <2>2, <2>3, <2>4
    <2>7. /\ entries' \in Seq(Entries) /\ Len(entries') = Len(entries) /\ DOMAIN entries' = DOMAIN entries
          /\ entries'[k] = f /\ \A i \in DOMAIN entries \ {k} : entries'[i] = entries[i]
      BY <2>5, <2>6 DEF ReplayInv, ReplayType
    <2>8. OneEntryPerSlot'
      BY <2>3, <2>5, <2>7 DEF ReplayInv, OneEntryPerSlot
    <2>9. Len(entries') <= Len(entries)
      BY <2>7 DEF ReplayInv, ReplayType
    <2>. QED
      BY <1>3, <1>9, <2>3, <2>5, <2>7, <2>8, <2>9
  <1>. QED
    BY <1>10, <1>11

LEMMA NextReplay == ReplayInv /\ [ReplayNext]_replayVars => ReplayInv'
  <1>. SUFFICES ASSUME ReplayInv, [ReplayNext]_replayVars PROVE ReplayInv'
    OBVIOUS
  <1>1. CASE UNCHANGED replayVars
    BY <1>1 DEF replayVars, ReplayInv, ReplayType, OneEntryPerSlot, WritersPend, WorkHeld
  <1>2. ASSUME NEW c \in NativeCallers, NEW s \in Slots, NotReserved(c, s) PROVE UNCHANGED replayVars
    BY <1>2 DEF NotReserved
  <1>. QED
    BY <1>1, <1>2, RememberedInv, ReserveInv, WriteInv, RecordInv DEF ReplayNext

(* For any number of calls, slots and works and any capacity: under one    *)
(* key files are written once unless the completed entry made room since,  *)
(* and a write whose effect is uncertain keeps its slot.                   *)
THEOREM WritesAlwaysRemembered == ReplaySpec => []WritesRemembered
  <1>1. ReplayInv => WritesRemembered
    <2>. SUFFICES ASSUME ReplayInv PROVE WritesRemembered
      OBVIOUS
    <2>1. WrittenOncePerKey
      BY DEF ReplayInv, WorkHeld, WrittenOncePerKey
    <2>2. ASSUME NEW c \in NativeCallers, writer[c].pc # "free" PROVE Reserved(writer[c].slot)
      BY <2>2 DEF ReplayInv, WritersPend, Reserved, EntriesOf
    <2>3. ASSUME NEW s \in Slots, Len(applied[s]) > displaced[s]
          PROVE  Reserved(s) /\ EntryOf(s).work = Last(applied[s])
      <3>1. PICK i \in DOMAIN entries : entries[i].slot = s /\ entries[i].work = applied[s][Len(applied[s])]
        BY <2>3 DEF ReplayInv, WorkHeld
      <3>2. Reserved(s)
        BY <3>1 DEF Reserved, EntriesOf
      <3>3. PlaceOf(s) = i
        BY <3>1, <3>2, EntryFound DEF ReplayInv, OneEntryPerSlot
      <3>. QED
        BY <3>1, <3>2, <3>3 DEF EntryOf, Last
    <2>4. \A s \in Slots : \A i, j \in EntriesOf(s) : i = j
      BY DEF EntriesOf, ReplayInv, OneEntryPerSlot
    <2>. QED
      BY <2>1, <2>2, <2>3, <2>4 DEF ReplayInv, ReplayType, WritesRemembered, UncertainKeepsSlot
  <1>. QED
    BY <1>1, InitReplay, NextReplay, PTL DEF ReplaySpec

-----------------------------------------------------------------------------
(***************************************************************************)
(* The output of a command.                                                *)
(***************************************************************************)

TailLimit == BufferLimit - HeadLimit

(* Where the tail of a buffer, and that of a capture, begin after n bytes. *)
TailFrom(n) == Saturating(n, TailLimit)
CaptureFrom(n) == IF n <= HeadLimit THEN n ELSE IF n - HeadLimit > TailLimit THEN n - TailLimit ELSE HeadLimit

StreamType ==
    /\ total \in Nat /\ cursor \in Nat /\ cursor <= total /\ total <= StreamEnd
    /\ page.next \in Nat /\ page.next <= total
    /\ paged.edges \subseteq 0..page.next /\ page.next \in paged.edges

(* What is retained depends on the bytes written, not on how they came.    *)
RetainedExactly ==
    /\ head = Bytes(0, Minimum(HeadLimit, total))
    /\ tail = Bytes(TailFrom(total), total) /\ startOffset = TailFrom(total)
    /\ captured = [head |-> Bytes(0, Minimum(HeadLimit, total)), tail |-> Bytes(CaptureFrom(total), total)]

StreamInv == StreamType /\ RetainedExactly /\ PollsAccount /\ PagerExact

-----------------------------------------------------------------------------
LEMMA StreamConstants ==
    /\ BufferLimit \in Nat /\ HeadLimit \in Nat /\ StreamEnd \in Nat /\ PreviewLimit \in Nat
    /\ HeadLimit < BufferLimit /\ PreviewLimit > 0 /\ TailLimit \in Nat /\ TailLimit > 0
  BY StreamSizes DEF StreamSizes, TailLimit

LEMMA SizesNat ==
    /\ \A a, b \in Nat : Minimum(a, b) \in Nat /\ Saturating(a, b) \in Nat
    /\ \A m \in Nat : TailFrom(m) \in Nat /\ TailFrom(m) <= m /\ CaptureFrom(m) \in Nat /\ CaptureFrom(m) <= m
  BY StreamConstants DEF Minimum, Saturating, TailFrom, CaptureFrom

(* s is the run of the bytes at the offsets from a up to b.                *)
IsRun(s, a, b) == s \in Seq(Nat) /\ Len(s) = b - a /\ \A i \in 1..(b - a) : s[i] = a + i - 1

LEMMA BytesRun ==
    ASSUME NEW a \in Nat, NEW b \in Nat, a <= b
    PROVE  IsRun(Bytes(a, b), a, b)
  <1>1. Saturating(b, a) = b - a /\ b - a \in Nat
    BY DEF Saturating
  <1>2. Bytes(a, b) = [i \in 1..(b - a) |-> a + i - 1]
    BY <1>1 DEF Bytes
  <1>3. \A i \in 1..(b - a) : a + i - 1 \in Nat
    OBVIOUS
  <1>. QED
    BY <1>1, <1>2, <1>3 DEF IsRun

LEMMA OneRun ==
    ASSUME NEW a \in Nat, NEW b \in Nat, a <= b, NEW s, NEW t, IsRun(s, a, b), IsRun(t, a, b)
    PROVE  s = t
  <1>1. b - a \in Nat
    OBVIOUS
  <1>2. s \in [1..(b - a) -> Nat] /\ t \in [1..(b - a) -> Nat]
    BY <1>1, LenProperties DEF IsRun
  <1>3. \A i \in 1..(b - a) : s[i] = t[i]
    BY DEF IsRun
  <1>. QED
    BY <1>2, <1>3

LEMMA BytesJoin ==
    ASSUME NEW a \in Nat, NEW b \in Nat, NEW c \in Nat, a <= b, b <= c
    PROVE  Bytes(a, b) \o Bytes(b, c) = Bytes(a, c)
  <1>. DEFINE s == Bytes(a, b)
              t == Bytes(b, c)
  <1>1. s \in Seq(Nat) /\ Len(s) = b - a /\ \A i \in 1..(b - a) : s[i] = a + i - 1
    BY BytesRun DEF IsRun
  <1>2. t \in Seq(Nat) /\ Len(t) = c - b /\ \A i \in 1..(c - b) : t[i] = b + i - 1
    BY BytesRun DEF IsRun
  <1>. HIDE DEF s, t
  <1>3. /\ s \o t \in Seq(Nat) /\ Len(s \o t) = Len(s) + Len(t)
        /\ \A j \in 1..(Len(s) + Len(t)) : (s \o t)[j] = IF j <= Len(s) THEN s[j] ELSE t[j - Len(s)]
    BY <1>1, <1>2, ConcatProperties
  <1>4. PICK u \in Seq(Nat) : /\ u = s \o t /\ Len(u) = c - a
                              /\ \A j \in 1..(c - a) : u[j] = IF j <= b - a THEN s[j] ELSE t[j - (b - a)]
    <2>1. Len(s) + Len(t) = c - a
      BY <1>1, <1>2
    <2>. QED
      BY <1>1, <1>3, <2>1
  <1>5. ASSUME NEW i \in 1..(c - a) PROVE u[i] = a + i - 1
    <2>1. CASE i <= b - a
      BY <1>1, <1>4, <2>1
    <2>2. CASE i > b - a
      <3>1. PICK k \in 1..(c - b) : k = i - (b - a) /\ b + k - 1 = a + i - 1
        BY <2>2
      <3>2. u[i] = t[k]
        BY <1>4, <2>2, <3>1
      <3>. QED
        BY <1>2, <3>1, <3>2
    <2>. QED
      BY <2>1, <2>2
  <1>6. IsRun(u, a, c)
    BY <1>4, <1>5 DEF IsRun
  <1>7. a <= c
    OBVIOUS
  <1>8. IsRun(Bytes(a, c), a, c)
    BY <1>7, BytesRun
  <1>9. u = Bytes(a, c)
    BY <1>6, <1>7, <1>8, OneRun
  <1>. QED
    BY <1>4, <1>9 DEF s, t

(* The offsets from p up to q are the positions m to n of a run from a.    *)
Offsets(a, p, q, m, n) == m = p - a + 1 /\ n = q - a

(* SubSeq, out of sight of the provers' own axioms about it.               *)
Part(s, m, n) == SubSeq(s, m, n)

LEMMA BytesPart ==
    ASSUME NEW a \in Nat, NEW b \in Nat, a <= b, NEW p \in Nat, NEW q \in Nat, a <= p, p <= q, q <= b,
           NEW m \in Nat, NEW n \in Nat, Offsets(a, p, q, m, n)
    PROVE  Part(Bytes(a, b), m, n) = Bytes(p, q)
  <1>1. PICK s : s = Bytes(a, b) /\ IsRun(s, a, b)
    BY BytesRun
  <1>. USE DEF Offsets
  <1>2. \A i \in 1..(q - p) : m + i - 1 \in 1..(b - a) /\ a + (m + i - 1) - 1 = p + i - 1
    OBVIOUS
  <1>3. PICK t : t = SubSeq(s, m, n)
    OBVIOUS
  <1>4. t \in Seq(Nat) /\ Len(t) = q - p /\ \A i \in 1..(q - p) : t[i] = s[m + i - 1]
    <2>1. \A i \in m..n : s[i] \in Nat
      BY <1>1 DEF IsRun
    <2>2. /\ SubSeq(s, m, n) \in Seq(Nat)
          /\ Len(SubSeq(s, m, n)) = IF m <= n THEN n - m + 1 ELSE 0
          /\ \A i \in 1..(n - m + 1) : SubSeq(s, m, n)[i] = s[m + i - 1]
      BY <1>1, <2>1, SubSeqProperties DEF IsRun
    <2>3. n - m + 1 = q - p
      OBVIOUS
    <2>. QED
      BY <1>3, <2>2, <2>3
  <1>5. \A i \in 1..(q - p) : t[i] = p + i - 1
    BY <1>1, <1>2, <1>4 DEF IsRun
  <1>6. IsRun(t, p, q)
    BY <1>4, <1>5 DEF IsRun
  <1>7. IsRun(Bytes(p, q), p, q)
    BY BytesRun
  <1>8. t = Bytes(p, q)
    BY <1>6, <1>7, OneRun
  <1>. QED
    BY <1>1, <1>3, <1>8 DEF Part

LEMMA BytesLength == ASSUME NEW a \in Nat, NEW b \in Nat, a <= b PROVE Len(Bytes(a, b)) = b - a
  BY BytesRun DEF IsRun

LEMMA BytesFirst ==
    ASSUME NEW a \in Nat, NEW b \in Nat, a <= b, NEW k \in Nat,
           NEW q \in Nat, q = IF a + k < b THEN a + k ELSE b
    PROVE  FirstOf(Bytes(a, b), k) = Bytes(a, q)
  <1>1. PICK n \in Nat : n = Minimum(k, b - a) /\ n = q - a /\ a <= q /\ q <= b /\ a <= a
    BY DEF Minimum
  <1>2. PICK m \in Nat : m = 1 /\ m = a - a + 1
    OBVIOUS
  <1>3. Part(Bytes(a, b), m, n) = Bytes(a, q)
    <2>1. Offsets(a, a, q, m, n)
      BY <1>1, <1>2 DEF Offsets
    <2>. QED
      BY <1>1, <2>1, BytesPart
  <1>4. FirstOf(Bytes(a, b), k) = Part(Bytes(a, b), 1, Minimum(k, Len(Bytes(a, b))))
    BY DEF FirstOf, Part
  <1>. QED
    BY <1>1, <1>2, <1>3, <1>4, BytesLength

LEMMA BytesLast ==
    ASSUME NEW a \in Nat, NEW b \in Nat, a <= b, NEW k \in Nat,
           NEW p \in Nat, p = IF b - a > k THEN b - k ELSE a
    PROVE  LastBytes(Bytes(a, b), k) = Bytes(p, b)
  <1>1. PICK m \in Nat : m = Saturating(b - a, k) + 1 /\ m = p - a + 1 /\ a <= p /\ p <= b /\ b <= b
    BY DEF Saturating
  <1>2. PICK n \in Nat : n = b - a
    OBVIOUS
  <1>3. Part(Bytes(a, b), m, n) = Bytes(p, b)
    <2>1. Offsets(a, p, b, m, n)
      BY <1>1, <1>2 DEF Offsets
    <2>. QED
      BY <1>1, <2>1, BytesPart
  <1>4. LET s == Bytes(a, b) IN LastBytes(s, k) = Part(s, Saturating(Len(s), k) + 1, Len(s))
    BY DEF LastBytes, Part
  <1>. QED
    BY <1>1, <1>2, <1>3, <1>4, BytesLength

LEMMA BytesSet ==
    ASSUME NEW a \in Nat, NEW b \in Nat, a <= b
    PROVE  ToSet(Bytes(a, b)) = a..(b - 1)
  <1>1. PICK s : s = Bytes(a, b) /\ IsRun(s, a, b)
    BY BytesRun
  <1>2. DOMAIN s = 1..(b - a)
    BY <1>1, LenProperties DEF IsRun
  <1>3. \A i \in 1..(b - a) : s[i] = a + i - 1 /\ a + i - 1 \in a..(b - 1)
    BY <1>1 DEF IsRun
  <1>4. \A x \in a..(b - 1) : x - a + 1 \in 1..(b - a) /\ a + (x - a + 1) - 1 = x
    OBVIOUS
  <1>5. ToSet(s) = {s[i] : i \in 1..(b - a)}
    BY <1>2 DEF ToSet
  <1>6. {s[i] : i \in 1..(b - a)} = a..(b - 1)
    <2>1. \A x \in a..(b - 1) : \E i \in 1..(b - a) : s[i] = x
      BY <1>3, <1>4
    <2>. QED
      BY <1>3, <2>1
  <1>. QED
    BY <1>1, <1>5, <1>6

LEMMA BytesNone == ASSUME NEW a \in Nat, NEW b \in Nat PROVE Bytes(a, a) = Bytes(b, b)
  BY DEF Bytes, Saturating

LEMMA BytesAfterNone == ASSUME NEW a \in Nat, NEW b \in Nat, a <= b PROVE Bytes(a, a) \o Bytes(a, b) = Bytes(a, b)
  <1>1. a <= a
    OBVIOUS
  <1>. QED
    BY <1>1, BytesJoin

-----------------------------------------------------------------------------
(* The text in the stream: characters one after another.                   *)
Written == 0..(StreamEnd - 1)

LEMMA WrittenIs == \A o : o \in Written <=> o \in Nat /\ o < StreamEnd
  BY StreamConstants DEF Written

LEMMA WidthFacts ==
    /\ \A p \in Written : CharWidth[p] \in 0..4 /\ p + CharWidth[p] <= StreamEnd /\ <<p, p + 1>> \notin RefusedSecond
    /\ \A p \in Written : \A o \in (p + 1)..(p + CharWidth[p] - 1) : CharWidth[o] = 0
  BY WritesUtf8 DEF WritesUtf8, Written

LEMMA BeginIs ==
    ASSUME NEW o \in Written
    PROVE  /\ BeginOf(o) \in 0..o /\ BeginOf(o) \in Written /\ o < BeginOf(o) + CharWidth[BeginOf(o)]
           /\ CharWidth[BeginOf(o)] \in 1..4
  <1>. USE StreamConstants
  <1>1. \E q \in 0..o : o < q + CharWidth[q]
    BY WritesUtf8 DEF WritesUtf8, Written
  <1>2. BeginOf(o) \in 0..o /\ o < BeginOf(o) + CharWidth[BeginOf(o)]
    BY <1>1 DEF BeginOf
  <1>3. BeginOf(o) \in Written
    BY <1>2 DEF Written
  <1>4. CharWidth[BeginOf(o)] \in 0..4
    BY <1>3, WidthFacts
  <1>. QED
    BY <1>2, <1>3, <1>4 DEF Written

LEMMA BeginOnly ==
    ASSUME NEW o \in Written, NEW p \in 0..o, o < p + CharWidth[p]
    PROVE  BeginOf(o) = p
  <1>. USE StreamConstants
  <1>1. PICK q : q = BeginOf(o) /\ q \in 0..o /\ q \in Written /\ o < q + CharWidth[q] /\ CharWidth[q] \in 1..4
    BY BeginIs
  <1>2. p \in Written /\ CharWidth[p] \in 0..4
    <2>1. p \in Written
      BY WrittenIs
    <2>. QED
      BY <2>1, WidthFacts
  <1>3. ~(p < q)
    <2>. SUFFICES ASSUME p < q PROVE FALSE
      OBVIOUS
    <2>1. q \in (p + 1)..(p + CharWidth[p] - 1)
      BY <1>1, <1>2 DEF Written
    <2>. QED
      BY <1>1, <1>2, <2>1, WidthFacts
  <1>4. ~(q < p)
    <2>. SUFFICES ASSUME q < p PROVE FALSE
      OBVIOUS
    <2>1. p \in (q + 1)..(q + CharWidth[q] - 1)
      BY <1>1, <1>2 DEF Written
    <2>2. CharWidth[p] = 0
      BY <1>1, <2>1, WidthFacts
    <2>. QED
      BY <1>2, <2>2 DEF Written
  <1>. QED
    BY <1>1, <1>2, <1>3, <1>4 DEF Written

LEMMA BeginFirst == ASSUME NEW o \in Written, CharWidth[o] > 0 PROVE BeginOf(o) = o
  <1>1. o \in 0..o /\ o < o + CharWidth[o]
    <2>1. o \in Nat /\ CharWidth[o] \in 0..4
      BY WidthFacts, WrittenIs
    <2>. QED
      BY <2>1
  <1>. QED
    BY <1>1, BeginOnly

(* A character is whole between two bounds, or a bound cuts it.            *)
LEMMA WholeOrCut ==
    ASSUME NEW o \in Written, NEW a \in Nat, NEW b \in Nat, a <= o, o < b
    PROVE  WholeIn(BeginOf(o), a, b) <=> ~CutBy(o, {a, b})
  <1>. USE StreamConstants
  <1>1. PICK p : p = BeginOf(o) /\ p \in 0..o /\ o < p + CharWidth[p] /\ CharWidth[p] \in 1..4
    BY BeginIs
  <1>2. p \in Nat /\ o \in Nat /\ p <= o
    BY <1>1 DEF Written
  <1>3. CutBy(o, {a, b}) <=> (p < a /\ a < p + CharWidth[p]) \/ (p < b /\ b < p + CharWidth[p])
    BY <1>1 DEF CutBy
  <1>. QED
    BY <1>1, <1>2, <1>3 DEF WholeIn

-----------------------------------------------------------------------------
(* Decoding. The bytes of the character at p stand in s from i on.         *)
HoldsChar(s, i, p) ==
    /\ p \in Written /\ CharWidth[p] > 0
    /\ i \in 1..Len(s) /\ i + CharWidth[p] - 1 <= Len(s)
    /\ \A k \in 0..(CharWidth[p] - 1) : s[i + k] = p + k

LEMMA LossyIs ==
    ASSUME NEW s
    PROVE  /\ DOMAIN Lossy(s) = TextPlaces(s)
           /\ \A i \in TextPlaces(s) :
                Lossy(s)[i] = IF Decodes(s, i) THEN Part(s, i, i + CharWidth[s[i]] - 1) ELSE Replaced
  BY DEF Lossy, Part

(* A first byte is taken by none.                                          *)
LEMMA FirstPlaced ==
    ASSUME NEW s \in Seq(Nat), NEW i \in 1..Len(s), CharWidth[s[i]] # 0
    PROVE  i \in TextPlaces(s)
  <1>1. ASSUME NEW l \in 1..(i - 1) PROVE ~Takes(s, l, i)
    <2>. SUFFICES ASSUME Takes(s, l, i) PROVE FALSE
      OBVIOUS
    <2>1. i \in (l + 1)..i
      BY LenProperties
    <2>. QED
      BY <2>1 DEF Takes
  <1>2. i \in DOMAIN s
    BY LenProperties
  <1>. QED
    BY <1>1, <1>2 DEF TextPlaces

LEMMA CharDecodes ==
    ASSUME NEW s \in Seq(Nat), NEW i, NEW p, HoldsChar(s, i, p)
    PROVE  s[i] = p /\ Decodes(s, i)
  <1>. USE StreamConstants
  <1>1. /\ p \in Written /\ p \in Nat /\ CharWidth[p] \in 1..4 /\ Len(s) \in Nat
        /\ i \in 1..Len(s) /\ i + CharWidth[p] - 1 <= Len(s)
        /\ \A k \in 0..(CharWidth[p] - 1) : s[i + k] = p + k
    <2>1. CharWidth[p] \in 0..4
      BY WidthFacts DEF HoldsChar
    <2>. QED
      BY <2>1, LenProperties DEF HoldsChar, Written
  <1>2. PICK w \in 1..4 : w = CharWidth[p]
    BY <1>1
  <1>3. s[i] = p
    <2>1. s[i + 0] = p + 0
      BY <1>1, <1>2
    <2>. QED
      BY <1>1, <2>1
  <1>4. CASE w = 1
    BY <1>2, <1>3, <1>4 DEF Decodes
  <1>5. CASE w > 1
    <2>1. PICK j : j = i + w - 1 /\ j \in Nat /\ i < j /\ j <= Len(s)
      BY <1>1, <1>2, <1>5
    <2>2. j <= Minimum(i + CharWidth[s[i]] - 1, Len(s))
      BY <1>1, <1>2, <1>3, <2>1 DEF Minimum
    <2>3. ASSUME NEW k \in (i + 1)..j PROVE CharWidth[s[k]] = 0
      <3>1. PICK d \in 1..(w - 1) : d = k - i /\ i + d = k
        <4>1. i \in Nat
          BY <1>1
        <4>. QED
          BY <2>1, <4>1
      <3>2. p \in Nat /\ d \in 0..(CharWidth[p] - 1) /\ p + d \in (p + 1)..(p + CharWidth[p] - 1)
        BY <1>1, <1>2, <3>1
      <3>3. s[i + d] = p + d
        BY <1>1, <3>2
      <3>4. CharWidth[p + d] = 0
        BY <1>1, <3>2, WidthFacts
      <3>. QED
        BY <3>1, <3>3, <3>4
    <2>4. <<s[i], s[i + 1]>> \notin RefusedSecond
      <3>1. s[i + 1] = p + 1
        BY <1>1, <1>2, <1>5
      <3>. QED
        BY <1>1, <1>3, <3>1, WidthFacts
    <2>5. Takes(s, i, i + w - 1)
      BY <2>1, <2>2, <2>3, <2>4 DEF Takes
    <2>. QED
      BY <1>2, <1>3, <1>5, <2>5 DEF Decodes
  <1>. QED
    BY <1>2, <1>3, <1>4, <1>5

(* What is decoded of a character that is there is that character.         *)
LEMMA CharShown ==
    ASSUME NEW s \in Seq(Nat), NEW i, NEW p, HoldsChar(s, i, p)
    PROVE  i \in DOMAIN Lossy(s) /\ Lossy(s)[i] = CharFrom(p)
  <1>. USE StreamConstants
  <1>1. s[i] = p /\ Decodes(s, i)
    BY CharDecodes
  <1>2. /\ p \in Written /\ p \in Nat /\ CharWidth[p] \in 1..4 /\ Len(s) \in Nat
        /\ i \in 1..Len(s) /\ i + CharWidth[p] - 1 <= Len(s)
        /\ \A k \in 0..(CharWidth[p] - 1) : s[i + k] = p + k
    <2>1. CharWidth[p] \in 0..4
      BY WidthFacts DEF HoldsChar
    <2>. QED
      BY <2>1, LenProperties DEF HoldsChar, Written
  <1>3. i \in TextPlaces(s)
    BY <1>1, <1>2, FirstPlaced
  <1>4. Lossy(s)[i] = Part(s, i, i + CharWidth[p] - 1) /\ i \in DOMAIN Lossy(s)
    BY <1>1, <1>3, LossyIs
  <1>5. PICK w \in 1..4 : w = CharWidth[p] /\ p \in Nat
    BY <1>2
  <1>6. PICK t : t = SubSeq(s, i, i + w - 1)
    OBVIOUS
  <1>7. IsRun(t, p, p + w)
    <2>1. \A k \in i..(i + w - 1) : s[k] \in Nat
      BY <1>2, <1>5, LenProperties
    <2>2. i \in Int /\ i + w - 1 \in Int /\ i <= i + w - 1
      BY <1>2, <1>5
    <2>3. /\ t \in Seq(Nat)
          /\ Len(t) = (i + w - 1) - i + 1
          /\ \A k \in 1..((i + w - 1) - i + 1) : t[k] = s[i + k - 1]
      BY <1>6, <2>1, <2>2, SubSeqProperties
    <2>4. (i + w - 1) - i + 1 = w /\ (p + w) - p = w
      BY <1>2, <1>5
    <2>5. ASSUME NEW k \in 1..w PROVE t[k] = p + k - 1
      <3>1. k - 1 \in 0..(CharWidth[p] - 1) /\ i + (k - 1) = i + k - 1 /\ p + (k - 1) = p + k - 1
        BY <1>2, <1>5
      <3>2. s[i + (k - 1)] = p + (k - 1)
        BY <1>2, <3>1
      <3>. QED
        BY <2>3, <2>4, <3>1, <3>2
    <2>. QED
      BY <2>3, <2>4, <2>5 DEF IsRun
  <1>8. p \in Nat /\ p + w \in Nat /\ p <= p + w
    BY <1>5
  <1>9. t = Bytes(p, p + w)
    BY <1>7, <1>8, BytesRun, OneRun
  <1>. QED
    BY <1>4, <1>5, <1>6, <1>9 DEF CharFrom, Part

(* What is not replaced begins with a first byte and has all its width.    *)
LEMMA DecodedWhole ==
    ASSUME NEW s \in Seq(Nat), NEW i \in TextPlaces(s), Lossy(s)[i] # Replaced
    PROVE  /\ i \in 1..Len(s) /\ Decodes(s, i)
           /\ CharWidth[s[i]] # 0
           /\ s[i] \in Written => i + CharWidth[s[i]] - 1 <= Len(s)
           /\ \A k \in (i + 1)..(i + CharWidth[s[i]] - 1) : CharWidth[s[k]] = 0
  <1>1. Decodes(s, i)
    BY LossyIs
  <1>2. i \in 1..Len(s) /\ Len(s) \in Nat
    BY LenProperties DEF TextPlaces
  <1>3. PICK w : w = CharWidth[s[i]]
    OBVIOUS
  <1>4. w = 1 \/ (w > 1 /\ Takes(s, i, i + w - 1))
    BY <1>1, <1>3 DEF Decodes
  <1>5. w # 0
    BY <1>4
  <1>6. s[i] \in Written => w \in 0..4
    BY <1>3, WidthFacts
  <1>7. s[i] \in Written => i + w - 1 <= Len(s)
    <2>1. CASE w = 1
      BY <1>2, <2>1
    <2>2. CASE w > 1 /\ Takes(s, i, i + w - 1)
      <3>1. i + w - 1 <= Minimum(i + w - 1, Len(s))
        BY <1>3, <2>2 DEF Takes
      <3>. QED
        BY <1>2, <1>6, <3>1 DEF Minimum
    <2>. QED
      BY <1>4, <2>1, <2>2
  <1>8. \A k \in (i + 1)..(i + w - 1) : CharWidth[s[k]] = 0
    <2>1. CASE w = 1
      BY <1>2, <2>1
    <2>2. CASE w > 1 /\ Takes(s, i, i + w - 1)
      BY <2>2 DEF Takes
    <2>. QED
      BY <1>4, <2>1, <2>2
  <1>. QED
    BY <1>1, <1>2, <1>3, <1>5, <1>7, <1>8

(* The bytes from a up to b, decoded, show what a reader can see of them.  *)
LEMMA LossyRun ==
    ASSUME NEW a \in Nat, NEW b \in Nat, a <= b, b <= StreamEnd
    PROVE  Lossy(Bytes(a, b)) = ShownText(a, b)
  <1>. USE StreamConstants
  <1>1. PICK s : s = Bytes(a, b) /\ s \in Seq(Nat) /\ Len(s) = b - a /\ \A i \in 1..(b - a) : s[i] = a + i - 1
    BY BytesRun DEF IsRun
  <1>2. DOMAIN s = 1..(b - a) /\ Saturating(b, a) = b - a /\ b - a \in Nat
    BY <1>1, LenProperties DEF Saturating
  <1>3. \A i \in 1..(b - a) : a + i - 1 \in Written /\ a + i - 1 \in Nat /\ i \in Nat
    BY DEF Written
  <1> DEFINE D == {k \in 1..(b - a) : CharWidth[a + k - 1] > 0 \/ BeginOf(a + k - 1) < a}
  <1>4. ASSUME NEW i \in 1..(b - a), CharWidth[a + i - 1] = 0, BeginOf(a + i - 1) < a PROVE i \in TextPlaces(s)
    <2>1. PICK o \in Written : o = a + i - 1
      BY <1>3
    <2>2. ASSUME NEW l \in 1..(i - 1), Takes(s, l, i) PROVE FALSE
      <3>0. l \in 1..(b - a)
        OBVIOUS
      <3>1. PICK p \in Written : p = a + l - 1 /\ s[l] = p /\ p \in 0..o /\ p >= a
        <4>1. a + l - 1 \in Written /\ s[l] = a + l - 1
          BY <1>1, <1>3, <3>0
        <4>2. a + l - 1 \in 0..o /\ a + l - 1 >= a
          BY <2>1
        <4>. QED
          BY <4>1, <4>2
      <3>2. CharWidth[p] \in 0..4
        BY <3>1, WidthFacts
      <3>3. i <= l + CharWidth[p] - 1
        <4>1. i <= Minimum(l + CharWidth[p] - 1, Len(s))
          BY <2>2, <3>1 DEF Takes
        <4>2. Len(s) \in Nat
          BY <1>1
        <4>. QED
          BY <3>2, <4>1, <4>2 DEF Minimum
      <3>4. o < p + CharWidth[p]
        BY <2>1, <3>1, <3>2, <3>3
      <3>5. BeginOf(o) = p
        BY <3>1, <3>4, BeginOnly
      <3>. QED
        BY <1>4, <2>1, <3>1, <3>5 DEF Written
    <2>. QED
      BY <1>2, <2>2 DEF TextPlaces
  <1>5. ASSUME NEW i \in TextPlaces(s) PROVE i \in D
    <2>1. i \in 1..(b - a)
      BY <1>2 DEF TextPlaces
    <2>2. PICK o \in Written : o = a + i - 1 /\ o \in Nat
      BY <1>3, <2>1
    <2>3. CharWidth[o] \in 0..4
      BY WidthFacts
    <2>4. PICK p : p = BeginOf(o) /\ p \in 0..o /\ p \in Written /\ o < p + CharWidth[p] /\ CharWidth[p] \in 1..4
      BY BeginIs
    <2>5. CASE CharWidth[o] = 0 /\ p >= a
      <3>1. p # o
        BY <2>2, <2>4, <2>5
      <3>2. PICK l : l = p - a + 1 /\ l \in 1..(i - 1) /\ a + l - 1 = p
        BY <2>1, <2>2, <2>4, <2>5, <3>1
      <3>3. s[l] = p /\ l \in 1..(b - a)
        BY <1>1, <2>1, <3>2
      <3>4. i <= l + CharWidth[s[l]] - 1
        BY <2>1, <2>2, <2>4, <3>2, <3>3
      <3>5. i <= Minimum(l + CharWidth[s[l]] - 1, Len(s)) /\ l < i
        BY <1>1, <2>1, <3>2, <3>4 DEF Minimum
      <3>6. ASSUME NEW k \in (l + 1)..i PROVE CharWidth[s[k]] = 0
        <4>1. k \in 1..(b - a) /\ a + k - 1 \in (p + 1)..(p + CharWidth[p] - 1)
          BY <2>1, <2>2, <2>4, <3>2
        <4>2. s[k] = a + k - 1
          BY <1>1, <4>1
        <4>. QED
          BY <2>4, <4>1, <4>2, WidthFacts
      <3>7. <<s[l], s[l + 1]>> \notin RefusedSecond
        <4>1. l + 1 \in 1..(b - a) /\ a + (l + 1) - 1 = p + 1
          BY <2>1, <2>4, <3>2
        <4>2. s[l + 1] = p + 1
          BY <1>1, <4>1
        <4>. QED
          BY <2>4, <3>3, <4>2, WidthFacts
      <3>8. Takes(s, l, i)
        BY <3>5, <3>6, <3>7 DEF Takes
      <3>. QED
        BY <3>2, <3>8 DEF TextPlaces
    <2>. QED
      BY <2>1, <2>2, <2>3, <2>4, <2>5 DEF Written
  <1>6. TextPlaces(s) = D
    <2>1. ASSUME NEW i \in D PROVE i \in TextPlaces(s)
      <3>1. CASE CharWidth[a + i - 1] > 0
        <4>1. i \in 1..(b - a) /\ i \in 1..Len(s)
          BY <1>1
        <4>2. s[i] = a + i - 1 /\ a + i - 1 \in Written
          BY <1>1, <1>3, <4>1
        <4>3. CharWidth[s[i]] # 0
          BY <3>1, <4>2
        <4>. QED
          BY <1>1, <4>1, <4>3, FirstPlaced
      <3>2. CASE ~(CharWidth[a + i - 1] > 0)
        <4>1. i \in 1..(b - a) /\ BeginOf(a + i - 1) < a
          BY <3>2
        <4>2. CharWidth[a + i - 1] \in 0..4
          BY <1>3, <4>1, WidthFacts
        <4>3. CharWidth[a + i - 1] = 0
          BY <3>2, <4>2
        <4>. QED
          BY <1>4, <4>1, <4>3
      <3>. QED
        BY <3>1, <3>2
    <2>. QED
      BY <1>5, <2>1
  <1>7. ASSUME NEW i \in D
        PROVE  Lossy(s)[i] = IF WholeIn(a + i - 1, a, b) THEN CharFrom(a + i - 1) ELSE Replaced
    <2>1. PICK o \in Written : o = a + i - 1 /\ o \in Nat /\ s[i] = o /\ i \in 1..(b - a)
      BY <1>1, <1>3
    <2>2. CharWidth[o] \in 0..4
      BY WidthFacts
    <2>3. CASE WholeIn(o, a, b)
      <3>1. CharWidth[o] > 0 /\ o + CharWidth[o] <= b /\ a <= o
        BY <2>3 DEF WholeIn
      <3>0. PICK w \in 1..4 : w = CharWidth[o]
        BY <2>2, <3>1
      <3>2. i \in 1..Len(s) /\ i + CharWidth[o] - 1 <= Len(s)
        <4>1. i \in 1..(b - a) /\ i + w - 1 <= b - a
          BY <2>1, <3>0, <3>1
        <4>. QED
          BY <1>1, <3>0, <4>1
      <3>3. ASSUME NEW k \in 0..(CharWidth[o] - 1) PROVE s[i + k] = o + k
        <4>0. k \in 0..(w - 1) /\ i + w - 1 <= b - a
          BY <1>1, <3>0, <3>2
        <4>1. i + k \in 1..(b - a) /\ a + (i + k) - 1 = o + k
          BY <2>1, <4>0
        <4>. QED
          BY <1>1, <4>1
      <3>4. HoldsChar(s, i, o)
        BY <3>1, <3>2, <3>3 DEF HoldsChar
      <3>. QED
        BY <1>1, <2>1, <2>3, <3>4, CharShown
    <2>4. CASE ~WholeIn(o, a, b)
      <3>. SUFFICES ASSUME Lossy(s)[i] # Replaced PROVE FALSE
        BY <2>1, <2>4
      <3>1. CharWidth[o] # 0 /\ i + CharWidth[o] - 1 <= Len(s)
        <4>1. i \in TextPlaces(s)
          BY <1>6
        <4>2. /\ CharWidth[s[i]] # 0
              /\ s[i] \in Written => i + CharWidth[s[i]] - 1 <= Len(s)
          BY <1>1, <4>1, DecodedWhole
        <4>. QED
          BY <2>1, <4>2
      <3>2. PICK w \in 1..4 : w = CharWidth[o]
        BY <2>2, <3>1
      <3>3. i + w - 1 <= b - a
        BY <1>1, <3>1, <3>2
      <3>4. w > 0 /\ a <= o /\ o + w <= b
        BY <2>1, <3>2, <3>3
      <3>. QED
        BY <2>4, <3>2, <3>4 DEF WholeIn
    <2>. QED
      BY <2>1, <2>3, <2>4
  <1>8. Lossy(s) = [i \in D |-> IF WholeIn(a + i - 1, a, b) THEN CharFrom(a + i - 1) ELSE Replaced]
    <2>1. Lossy(s) = [i \in TextPlaces(s) |-> Lossy(s)[i]]
      BY DEF Lossy
    <2>. QED
      BY <1>6, <1>7, <2>1
  <1>9. ShownText(a, b) = [i \in D |-> IF WholeIn(a + i - 1, a, b) THEN CharFrom(a + i - 1) ELSE Replaced]
    BY <1>2 DEF ShownText
  <1>. QED
    BY <1>1, <1>8, <1>9

(* The bytes that can be read in such a text, and those that cannot.       *)
BytesIn(T) == UNION {ToSet(T[i]) : i \in DOMAIN T}
WholeBytes(a, b) == {o \in a..(b - 1) : WholeIn(BeginOf(o), a, b)}
CutBytes(a, b) == {o \in a..(b - 1) : ~WholeIn(BeginOf(o), a, b)}

LEMMA ShownBytes ==
    ASSUME NEW a \in Nat, NEW b \in Nat, a <= b, b <= StreamEnd
    PROVE  BytesIn(ShownText(a, b)) = WholeBytes(a, b)
  <1>. USE StreamConstants
  <1>0. PICK T : T = ShownText(a, b)
    OBVIOUS
  <1>1. Saturating(b, a) = b - a /\ b - a \in Nat
    BY DEF Saturating
  <1> DEFINE D == {k \in 1..(b - a) : CharWidth[a + k - 1] > 0 \/ BeginOf(a + k - 1) < a}
  <1>2. /\ DOMAIN T = D
        /\ \A i \in D : T[i] = IF WholeIn(a + i - 1, a, b) THEN CharFrom(a + i - 1) ELSE Replaced
    BY <1>0, <1>1 DEF ShownText
  <1>3. ToSet(Replaced) = {}
    BY DEF ToSet, Replaced
  <1>4. ASSUME NEW p \in Written, CharWidth[p] > 0 PROVE ToSet(CharFrom(p)) = p..(p + CharWidth[p] - 1)
    <2>1. PICK w \in 1..4 : w = CharWidth[p]
      <3>1. CharWidth[p] \in 0..4
        BY WidthFacts
      <3>. QED
        BY <1>4, <3>1
    <2>2. p \in Nat /\ p + w \in Nat /\ p <= p + w
      BY <2>1 DEF Written
    <2>. QED
      BY <2>1, <2>2, BytesSet DEF CharFrom
  <1>5. \A i \in 1..(b - a) : a + i - 1 \in Written /\ a + i - 1 \in Nat
    BY DEF Written
  <1>6. ASSUME NEW i \in D, NEW o \in ToSet(T[i]) PROVE o \in a..(b - 1) /\ WholeIn(BeginOf(o), a, b)
    <2>1. WholeIn(a + i - 1, a, b) /\ T[i] = CharFrom(a + i - 1)
      BY <1>2, <1>3, <1>6
    <2>2. PICK p \in Written : p = a + i - 1 /\ p \in Nat
      BY <1>5
    <2>3. CharWidth[p] > 0 /\ a <= p /\ p + CharWidth[p] <= b /\ CharWidth[p] \in 0..4
      BY <2>1, <2>2, WidthFacts DEF WholeIn
    <2>4. o \in p..(p + CharWidth[p] - 1)
      BY <1>4, <1>6, <2>1, <2>2, <2>3
    <2>5. o \in a..(b - 1) /\ o \in Written /\ p \in 0..o /\ o < p + CharWidth[p]
      BY <2>2, <2>3, <2>4 DEF Written
    <2>6. BeginOf(o) = p
      BY <2>5, BeginOnly
    <2>. QED
      BY <2>1, <2>2, <2>5, <2>6
  <1>7. ASSUME NEW o \in a..(b - 1), WholeIn(BeginOf(o), a, b) PROVE \E i \in D : o \in ToSet(T[i])
    <2>1. o \in Written /\ o \in Nat
      BY DEF Written
    <2>2. PICK p : p = BeginOf(o) /\ p \in 0..o /\ p \in Written /\ o < p + CharWidth[p] /\ CharWidth[p] \in 1..4
      BY <2>1, BeginIs
    <2>3. a <= p /\ p \in Nat
      BY <1>7, <2>2 DEF WholeIn, Written
    <2>4. PICK i : i = p - a + 1 /\ i \in 1..(b - a) /\ a + i - 1 = p
      BY <2>1, <2>2, <2>3
    <2>5. i \in D
      BY <2>2, <2>4
    <2>6. T[i] = CharFrom(p)
      BY <1>2, <1>7, <2>2, <2>4, <2>5
    <2>7. o \in p..(p + CharWidth[p] - 1)
      BY <2>1, <2>2
    <2>. QED
      BY <1>4, <2>2, <2>5, <2>6, <2>7
  <1>8. UNION {ToSet(T[i]) : i \in D} = {o \in a..(b - 1) : WholeIn(BeginOf(o), a, b)}
    BY <1>6, <1>7
  <1>. QED
    BY <1>0, <1>2, <1>8 DEF BytesIn, WholeBytes

(* Two runs of bytes, the first up to h and the second from t on, decoded  *)
(* as one.                                                                 *)
SeamPlace(o, h, t) == IF o < h THEN o + 1 ELSE h + o - t + 1
SeamWhole(h, t, e) == {o \in 0..(h - 1) : WholeIn(o, 0, h)} \cup {o \in t..(e - 1) : WholeIn(o, t, e)}

SeamShows(T, h, t, e) ==
    /\ \A o \in SeamWhole(h, t, e) : SeamPlace(o, h, t) \in DOMAIN T /\ T[SeamPlace(o, h, t)] = CharFrom(o)
    /\ \A i \in DOMAIN T :
        \/ T[i] = Replaced
        \/ \E o \in SeamWhole(h, t, e) : i = SeamPlace(o, h, t)
        \/ i <= h /\ h < i - 1 + CharWidth[i - 1] /\ CharWidth[t] = 0

LEMMA SeamText ==
    ASSUME NEW h \in Nat, NEW t \in Nat, NEW e \in Nat, h <= t, t <= e, e <= StreamEnd,
           NEW s, s = Bytes(0, h) \o Bytes(t, e)
    PROVE  SeamShows(Lossy(s), h, t, e)
  <1>. USE StreamConstants
  <1>1. /\ s \in Seq(Nat) /\ Len(s) = h + (e - t)
        /\ \A i \in 1..h : s[i] = i - 1
        /\ \A i \in (h + 1)..(h + (e - t)) : s[i] = t + (i - h) - 1
    <2>1. PICK x : x = Bytes(0, h) /\ x \in Seq(Nat) /\ Len(x) = h /\ \A i \in 1..h : x[i] = i - 1
      <3>1. 0 <= h /\ h - 0 = h /\ \A i \in 1..h : 0 + i - 1 = i - 1
        OBVIOUS
      <3>2. IsRun(Bytes(0, h), 0, h)
        BY <3>1, BytesRun
      <3>3. Bytes(0, h) \in Seq(Nat) /\ Len(Bytes(0, h)) = h /\ \A i \in 1..h : Bytes(0, h)[i] = i - 1
        BY <3>1, <3>2 DEF IsRun
      <3>. QED
        BY <3>3
    <2>2. PICK y : y = Bytes(t, e) /\ y \in Seq(Nat) /\ Len(y) = e - t /\ \A i \in 1..(e - t) : y[i] = t + i - 1
      BY BytesRun DEF IsRun
    <2>3. /\ s = x \o y /\ s \in Seq(Nat) /\ Len(s) = Len(x) + Len(y)
          /\ \A j \in 1..(Len(x) + Len(y)) : s[j] = IF j <= Len(x) THEN x[j] ELSE y[j - Len(x)]
      BY <2>1, <2>2, ConcatProperties
    <2>4. ASSUME NEW i \in (h + 1)..(h + (e - t)) PROVE s[i] = t + (i - h) - 1
      <3>1. i - h \in 1..(e - t) /\ ~(i <= h) /\ i \in 1..(h + (e - t))
        OBVIOUS
      <3>. QED
        BY <2>1, <2>2, <2>3, <3>1
    <2>5. ASSUME NEW i \in 1..h PROVE s[i] = i - 1
      <3>1. i <= h /\ i \in 1..(h + (e - t))
        OBVIOUS
      <3>. QED
        BY <2>1, <2>2, <2>3, <3>1
    <2>. QED
      BY <2>1, <2>2, <2>3, <2>4, <2>5
  <1>2. ASSUME NEW o \in SeamWhole(h, t, e) PROVE HoldsChar(s, SeamPlace(o, h, t), o)
    <2>1. CASE o \in 0..(h - 1) /\ WholeIn(o, 0, h)
      <3>1. o \in Written /\ CharWidth[o] > 0 /\ o + CharWidth[o] <= h /\ SeamPlace(o, h, t) = o + 1
        BY <2>1 DEF WholeIn, Written, SeamPlace
      <3>2. CharWidth[o] \in 0..4
        BY <3>1, WidthFacts
      <3>3. PICK w \in 1..4 : w = CharWidth[o]
        BY <3>1, <3>2
      <3>4. o + 1 \in 1..Len(s) /\ o + 1 + w - 1 <= Len(s)
        BY <1>1, <2>1, <3>1, <3>3
      <3>5. ASSUME NEW k \in 0..(w - 1) PROVE s[o + 1 + k] = o + k
        <4>1. o + 1 + k \in 1..h /\ (o + 1 + k) - 1 = o + k
          BY <2>1, <3>1, <3>3
        <4>. QED
          BY <1>1, <4>1
      <3>. QED
        BY <3>1, <3>3, <3>4, <3>5 DEF HoldsChar
    <2>2. CASE o \in t..(e - 1) /\ WholeIn(o, t, e)
      <3>1. o \in Written /\ CharWidth[o] > 0 /\ o + CharWidth[o] <= e /\ SeamPlace(o, h, t) = h + o - t + 1
        BY <2>2 DEF WholeIn, Written, SeamPlace
      <3>2. CharWidth[o] \in 0..4
        BY <3>1, WidthFacts
      <3>3. PICK w \in 1..4 : w = CharWidth[o]
        BY <3>1, <3>2
      <3>4. PICK i : i = h + o - t + 1 /\ i \in 1..Len(s) /\ i + w - 1 <= Len(s)
        <4>1. o \in Nat /\ t <= o /\ o + w <= e
          BY <2>2, <3>1, <3>3
        <4>2. h + o - t + 1 \in 1..(h + (e - t)) /\ h + o - t + 1 + w - 1 <= h + (e - t)
          BY <4>1
        <4>. QED
          BY <1>1, <4>2
      <3>5. ASSUME NEW k \in 0..(w - 1) PROVE s[i + k] = o + k
        <4>1. i + k \in (h + 1)..(h + (e - t)) /\ t + ((i + k) - h) - 1 = o + k
          BY <2>2, <3>1, <3>3, <3>4
        <4>. QED
          BY <1>1, <4>1
      <3>. QED
        BY <3>1, <3>3, <3>4, <3>5 DEF HoldsChar
    <2>. QED
      BY <2>1, <2>2 DEF SeamWhole
  <1>3. ASSUME NEW i \in DOMAIN Lossy(s), Lossy(s)[i] # Replaced
        PROVE  \/ \E o \in SeamWhole(h, t, e) : i = SeamPlace(o, h, t)
               \/ i <= h /\ h < i - 1 + CharWidth[i - 1] /\ CharWidth[t] = 0
    <2>1. /\ i \in 1..Len(s) /\ CharWidth[s[i]] # 0
          /\ s[i] \in Written => i + CharWidth[s[i]] - 1 <= Len(s)
          /\ \A k \in (i + 1)..(i + CharWidth[s[i]] - 1) : CharWidth[s[k]] = 0
      <3>1. i \in TextPlaces(s)
        BY LossyIs
      <3>. QED
        BY <1>1, <1>3, <3>1, DecodedWhole
    <2>2. CASE i <= h
      <3>1. PICK o : o = i - 1 /\ o \in 0..(h - 1) /\ o \in Written /\ s[i] = o /\ i = o + 1
        <4>1. i \in 1..h
          BY <1>1, <2>1, <2>2
        <4>2. s[i] = i - 1
          BY <1>1, <4>1
        <4>3. i - 1 \in 0..(h - 1) /\ i - 1 < StreamEnd /\ i = (i - 1) + 1
          BY <4>1
        <4>4. i - 1 \in Written
          BY <4>3, WrittenIs
        <4>. QED
          BY <4>2, <4>3, <4>4
      <3>2. CharWidth[o] \in 1..4
        <4>1. CharWidth[o] \in 0..4
          BY <3>1, WidthFacts
        <4>2. CharWidth[o] # 0
          BY <2>1, <3>1
        <4>. QED
          BY <4>1, <4>2
      <3>3. CASE o + CharWidth[o] <= h
        <4>1. WholeIn(o, 0, h) /\ SeamPlace(o, h, t) = i
          BY <3>1, <3>2, <3>3 DEF WholeIn, SeamPlace
        <4>. QED
          BY <3>1, <4>1 DEF SeamWhole
      <3>4. CASE o + CharWidth[o] > h
        <4>0. PICK w \in 1..4 : w = CharWidth[o]
          BY <3>2
        <4>1. h + 1 \in (i + 1)..(i + CharWidth[s[i]] - 1) /\ h + 1 <= Len(s)
          <5>1. i \in Nat /\ i <= h /\ o + w > h /\ o = i - 1 /\ CharWidth[s[i]] = w
            BY <2>1, <2>2, <3>1, <3>4, <4>0
          <5>2. h + 1 \in (i + 1)..(i + w - 1)
            BY <5>1
          <5>3. i + CharWidth[s[i]] - 1 <= Len(s)
            <6>1. s[i] \in Written
              BY <3>1
            <6>. QED
              BY <2>1, <6>1
          <5>4. Len(s) \in Nat
            BY <1>1
          <5>5. i + w - 1 <= Len(s)
            BY <5>1, <5>3
          <5>. QED
            BY <5>1, <5>2, <5>4, <5>5
        <4>2. h + 1 \in (h + 1)..(h + (e - t)) /\ t + ((h + 1) - h) - 1 = t
          BY <1>1, <4>1
        <4>3. s[h + 1] = t
          BY <1>1, <4>2
        <4>. QED
          BY <2>1, <2>2, <3>1, <3>2, <3>4, <4>1, <4>3
      <3>. QED
        BY <3>1, <3>2, <3>3, <3>4
    <2>3. CASE i > h
      <3>1. i \in (h + 1)..(h + (e - t))
        BY <1>1, <2>1, <2>3
      <3>2. PICK o : o = t + (i - h) - 1 /\ o \in t..(e - 1) /\ o \in Written /\ s[i] = o
        <4>1. t + (i - h) - 1 \in t..(e - 1)
          BY <3>1
        <4>2. t + (i - h) - 1 \in Written
          BY <4>1, WrittenIs
        <4>3. s[i] = t + (i - h) - 1
          BY <1>1, <3>1
        <4>. QED
          BY <4>1, <4>2, <4>3
      <3>3. CharWidth[o] \in 1..4
        <4>1. CharWidth[o] \in 0..4
          BY <3>2, WidthFacts
        <4>2. CharWidth[o] # 0
          BY <2>1, <3>2
        <4>. QED
          BY <4>1, <4>2
      <3>4. i + CharWidth[o] - 1 <= h + (e - t)
        BY <1>1, <2>1, <3>2
      <3>5. WholeIn(o, t, e)
        BY <3>1, <3>2, <3>3, <3>4 DEF WholeIn
      <3>6. SeamPlace(o, h, t) = i
        BY <3>1, <3>2 DEF SeamPlace
      <3>. QED
        BY <3>2, <3>5, <3>6 DEF SeamWhole
    <2>. QED
      BY <1>1, <2>1, <2>2, <2>3
  <1>4. \A o \in SeamWhole(h, t, e) : SeamPlace(o, h, t) \in DOMAIN Lossy(s)
                                       /\ Lossy(s)[SeamPlace(o, h, t)] = CharFrom(o)
    BY <1>1, <1>2, CharShown
  <1>. QED
    BY <1>3, <1>4 DEF SeamShows

LEMMA InitStream == StreamInit => StreamInv
  <1>. SUFFICES ASSUME StreamInit PROVE StreamInv
    OBVIOUS
  <1>1. \A a \in Nat : Bytes(a, a) = <<>> /\ <<>> \in Seq(Nat) /\ Len(<<>>) = 0
    <2>1. SUFFICES ASSUME NEW a \in Nat PROVE Bytes(a, a) = <<>>
      OBVIOUS
    <2>2. IsRun(Bytes(a, a), a, a)
      BY BytesRun
    <2>. QED
      BY <2>2, EmptySeq DEF IsRun
  <1>2. /\ Minimum(HeadLimit, 0) = 0 /\ TailFrom(0) = 0 /\ CaptureFrom(0) = 0
    BY StreamConstants DEF Minimum, TailFrom, CaptureFrom, Saturating
  <1>3. StreamType
    BY StreamConstants DEF StreamInit, StreamType, NoPage
  <1>4. RetainedExactly
    BY <1>1, <1>2 DEF StreamInit, RetainedExactly
  <1>5. Lossy(<<>>) = ShownText(0, 0)
    <2>1. 0 <= 0 /\ 0 <= StreamEnd /\ Bytes(0, 0) = <<>>
      BY <1>1, StreamConstants
    <2>. QED
      BY <2>1, LossyRun
  <1>6. PollsAccount
    BY <1>5, StreamConstants DEF StreamInit, PollsAccount
  <1>7. PagerExact
    <2>1. page.text = ShownText(page.actual, page.next) /\ page.next = 0
      BY <1>5 DEF StreamInit, NoPage
    <2>2. paged.got = {} /\ paged.spoiled = {} /\ paged.missed = {} /\ 0..(0 - 1) = {}
      BY DEF StreamInit
    <2>. QED
      BY <2>1, <2>2 DEF PagerExact
  <1>. QED
    BY <1>3, <1>4, <1>6, <1>7 DEF StreamInv

(* What the head keeps of a chunk that comes after the byte at m.          *)
LEMMA HeadGrows ==
    ASSUME NEW m \in Nat, NEW n \in Nat, NEW k \in Nat, NEW h \in Nat,
           h = Minimum(HeadLimit, m), k = Saturating(HeadLimit, h) \/ k = Minimum(Saturating(HeadLimit, h), n)
    PROVE  Bytes(0, h) \o FirstOf(Bytes(m, m + n), k) = Bytes(0, Minimum(HeadLimit, m + n))
  <1>. USE StreamConstants
  <1>1. PICK e \in Nat : e = m + n /\ m <= e /\ 0 <= h
    OBVIOUS
  <1>2. PICK q \in Nat : (q = IF m + k < e THEN m + k ELSE e) /\ m <= q
    BY <1>1
  <1>3. FirstOf(Bytes(m, e), k) = Bytes(m, q)
    BY <1>1, <1>2, BytesFirst
  <1>4. CASE m <= HeadLimit
    <2>1. h = m /\ q = Minimum(HeadLimit, m + n) /\ 0 <= m
      BY <1>1, <1>2, <1>4 DEF Minimum, Saturating
    <2>2. Bytes(0, m) \o Bytes(m, q) = Bytes(0, q)
      BY <1>2, <2>1, BytesJoin
    <2>. QED
      BY <1>1, <1>3, <2>1, <2>2
  <1>5. CASE m > HeadLimit
    <2>1. h = HeadLimit /\ q = m /\ h = Minimum(HeadLimit, m + n) /\ h <= h
      BY <1>1, <1>2, <1>5 DEF Minimum, Saturating
    <2>2. FirstOf(Bytes(m, e), k) = Bytes(h, h)
      BY <1>3, <2>1, BytesNone
    <2>3. Bytes(0, h) \o Bytes(h, h) = Bytes(0, h)
      BY <1>1, <2>1, BytesJoin
    <2>. QED
      BY <1>1, <2>1, <2>2, <2>3
  <1>. QED
    BY <1>4, <1>5

(* What the tail keeps of a run that ends at the last byte written.        *)
LEMMA TailKeeps ==
    ASSUME NEW a \in Nat, NEW e \in Nat, a <= e, NEW p \in Nat, p = IF e - a > TailLimit THEN e - TailLimit ELSE a
    PROVE  LastBytes(Bytes(a, e), BufferLimit - HeadLimit) = Bytes(p, e) /\ p <= e /\ Len(Bytes(p, e)) = e - p
  <1>1. PICK k \in Nat : k = TailLimit /\ k = BufferLimit - HeadLimit
    BY StreamConstants DEF TailLimit
  <1>2. p <= e
    BY <1>1
  <1>3. p = IF e - a > k THEN e - k ELSE a
    BY <1>1
  <1>4. LastBytes(Bytes(a, e), k) = Bytes(p, e)
    BY <1>3, BytesLast
  <1>. QED
    BY <1>1, <1>2, <1>4, BytesLength

(* After the byte at e, a capture keeps the bytes from c on of a tail that *)
(* begins at a.                                                            *)
Keeps(a, c, e) == a <= e /\ c = IF e - a > TailLimit THEN e - TailLimit ELSE a

(* What is left of a chunk for the tail of a capture, joined to that tail. *)
LEMMA CaptureJoins ==
    ASSUME NEW m \in Nat, NEW n \in Nat, NEW k \in Nat, k = Minimum(Saturating(HeadLimit, Minimum(HeadLimit, m)), n)
    PROVE  \E a \in Nat : /\ Keeps(a, CaptureFrom(m + n), m + n)
                          /\ Bytes(CaptureFrom(m), m) \o Part(Bytes(m, m + n), k + 1, n) = Bytes(a, m + n)
  <1>. USE StreamConstants
  <1>1. PICK e \in Nat : e = m + n /\ m <= e
    OBVIOUS
  <1>2. PICK p \in Nat : p = m + k /\ m <= p /\ p <= e /\ p <= p
    BY <1>1 DEF Minimum, Saturating
  <1>3. Part(Bytes(m, e), k + 1, n) = Bytes(p, e)
    <2>1. PICK j \in Nat : j = k + 1
      OBVIOUS
    <2>2. Offsets(m, p, e, j, n) /\ e <= e
      BY <1>1, <1>2, <2>1 DEF Offsets
    <2>. QED
      BY <1>1, <1>2, <2>1, <2>2, BytesPart
  <1>. SUFFICES \E a \in Nat : /\ Keeps(a, CaptureFrom(e), e)
                               /\ Bytes(CaptureFrom(m), m) \o Bytes(p, e) = Bytes(a, e)
    BY <1>1, <1>3
  <1>4. CASE m <= HeadLimit
    <2>1. CaptureFrom(m) = m
      BY <1>4 DEF CaptureFrom
    <2>2. Bytes(m, m) = Bytes(p, p)
      BY BytesNone
    <2>3. Bytes(p, p) \o Bytes(p, e) = Bytes(p, e)
      BY <1>2, BytesAfterNone
    <2>4. Keeps(p, CaptureFrom(e), e)
      BY <1>1, <1>2, <1>4 DEF CaptureFrom, Minimum, Saturating, Keeps
    <2>. QED
      BY <2>1, <2>2, <2>3, <2>4
  <1>5. CASE m > HeadLimit
    <2>. DEFINE a == CaptureFrom(m)
    <2>1. a \in Nat /\ a <= m
      BY <1>5 DEF CaptureFrom
    <2>2. p = m
      BY <1>2, <1>5 DEF Minimum, Saturating
    <2>3. Keeps(a, CaptureFrom(e), e)
      BY <1>1, <1>5 DEF CaptureFrom, Keeps
    <2>. HIDE DEF a
    <2>4. Bytes(a, m) \o Bytes(m, e) = Bytes(a, e)
      BY <1>1, <2>1, BytesJoin
    <2>. QED
      BY <2>1, <2>2, <2>3, <2>4 DEF a
  <1>6. m <= HeadLimit \/ m > HeadLimit
    OBVIOUS
  <1>. QED
    BY <1>4, <1>5, <1>6, Zenon

LEMMA AppendRetains ==
    ASSUME StreamInv, NEW n \in Nat, AppendChunk(n)
    PROVE  RetainedExactly' /\ total' = total + n
  <1>. USE StreamConstants
  <1>1. /\ total \in Nat /\ head = Bytes(0, Minimum(HeadLimit, total))
        /\ tail = Bytes(TailFrom(total), total) /\ startOffset = TailFrom(total)
        /\ captured = [head |-> Bytes(0, Minimum(HeadLimit, total)), tail |-> Bytes(CaptureFrom(total), total)]
    BY DEF StreamInv, StreamType, RetainedExactly
  <1>2. PICK e \in Nat : e = total + n /\ e = total' /\ total <= e
    BY <1>1 DEF AppendChunk
  <1>3. PICK h \in Nat : h = Minimum(HeadLimit, total) /\ Len(head) = h /\ Len(captured.head) = h
    <2>1. Minimum(HeadLimit, total) \in Nat /\ 0 <= Minimum(HeadLimit, total)
      BY <1>1 DEF Minimum
    <2>2. Len(Bytes(0, Minimum(HeadLimit, total))) = Minimum(HeadLimit, total) - 0
      BY <2>1, BytesLength
    <2>. QED
      BY <1>1, <2>1, <2>2
  <1>4. Len(Bytes(total, e)) = n
    BY <1>1, <1>2, BytesLength
  <1>5. head' = Bytes(0, Minimum(HeadLimit, total'))
    <2>1. PICK k \in Nat : k = Saturating(HeadLimit, h)
      BY SizesNat
    <2>2. Bytes(0, h) \o FirstOf(Bytes(total, total + n), k) = Bytes(0, Minimum(HeadLimit, total + n))
      BY <1>1, <1>3, <2>1, HeadGrows
    <2>3. head' = head \o FirstOf(Bytes(total, total + n), Saturating(HeadLimit, Len(head)))
      BY DEF AppendChunk
    <2>. QED
      BY <1>1, <1>2, <1>3, <2>1, <2>2, <2>3
  <1>6. tail' = Bytes(TailFrom(total'), total') /\ startOffset' = TailFrom(total')
    <2>1. PICK a \in Nat : a = TailFrom(total) /\ a <= total /\ a <= e
      BY <1>1, <1>2, SizesNat
    <2>2. PICK p \in Nat : (p = IF e - a > TailLimit THEN e - TailLimit ELSE a) /\ p = TailFrom(e)
      <3>1. TailFrom(e) = IF e - a > TailLimit THEN e - TailLimit ELSE a
        BY <1>1, <1>2, <2>1 DEF TailFrom, Saturating
      <3>. QED
        BY <3>1, SizesNat
    <2>3. tail \o Bytes(total, total + n) = Bytes(a, e)
      <3>1. Bytes(a, total) \o Bytes(total, e) = Bytes(a, e)
        BY <1>1, <1>2, <2>1, BytesJoin
      <3>. QED
        BY <1>1, <1>2, <2>1, <3>1
    <2>4. LastBytes(Bytes(a, e), BufferLimit - HeadLimit) = Bytes(p, e) /\ p <= e /\ Len(Bytes(p, e)) = e - p
      BY <2>1, <2>2, TailKeeps
    <2>5. Len(Bytes(a, e)) = e - a
      BY <2>1, BytesLength
    <2>6. /\ tail' = LastBytes(tail \o Bytes(total, total + n), BufferLimit - HeadLimit)
          /\ startOffset' = IF Len(tail \o Bytes(total, total + n)) > BufferLimit - HeadLimit
                            THEN total' - Len(tail') ELSE startOffset
      BY DEF AppendChunk
    <2>7. tail' = Bytes(p, e)
      BY <2>3, <2>4, <2>6
    <2>8. startOffset' = IF e - a > TailLimit THEN p ELSE a
      <3>1. e - (e - p) = p
        OBVIOUS
      <3>2. startOffset' = IF e - a > TailLimit THEN e - (e - p) ELSE a
        BY <1>1, <1>2, <2>1, <2>3, <2>4, <2>5, <2>6, <2>7 DEF TailLimit
      <3>. QED
        BY <3>1, <3>2
    <2>9. startOffset' = p
      BY <2>2, <2>8
    <2>. QED
      BY <1>2, <2>2, <2>7, <2>9
  <1>7. captured' = [head |-> Bytes(0, Minimum(HeadLimit, total')), tail |-> Bytes(CaptureFrom(total'), total')]
    <2>1. PICK k \in Nat : k = Minimum(Saturating(HeadLimit, h), n)
      BY SizesNat
    <2>2. Bytes(0, h) \o FirstOf(Bytes(total, total + n), k) = Bytes(0, Minimum(HeadLimit, total + n))
      BY <1>1, <1>3, <2>1, HeadGrows
    <2>3. PICK a \in Nat : /\ Keeps(a, CaptureFrom(total + n), total + n)
                           /\ Bytes(CaptureFrom(total), total) \o Part(Bytes(total, total + n), k + 1, n)
                                = Bytes(a, total + n)
      BY <1>1, <1>3, <2>1, CaptureJoins
    <2>4. CaptureFrom(e) \in Nat
      BY DEF CaptureFrom
    <2>5. LastBytes(Bytes(a, e), BufferLimit - HeadLimit) = Bytes(CaptureFrom(e), e)
      <3>1. a <= e /\ CaptureFrom(e) = IF e - a > TailLimit THEN e - TailLimit ELSE a
        BY <1>2, <2>3 DEF Keeps
      <3>. QED
        BY <2>4, <3>1, TailKeeps
    <2>6. captured' = [head |-> captured.head \o FirstOf(Bytes(total, total + n), k),
                       tail |-> LastBytes(captured.tail \o Part(Bytes(total, total + n), k + 1, n), BufferLimit - HeadLimit)]
      <3>1. captured' = CaptureAppend(Bytes(total, total + n))
        BY DEF AppendChunk
      <3>2. PICK chunk : chunk = Bytes(total, total + n) /\ Len(chunk) = n
        BY <1>2, <1>4
      <3>3. captured' = [head |-> captured.head \o FirstOf(chunk, k),
                         tail |-> LastBytes(captured.tail \o SubSeq(chunk, k + 1, n), BufferLimit - HeadLimit)]
        BY <1>3, <2>1, <3>1, <3>2, Zenon DEF CaptureAppend
      <3>. QED
        BY <3>2, <3>3 DEF Part
    <2>7. captured' = [head |-> Bytes(0, Minimum(HeadLimit, total + n)),
                       tail |-> LastBytes(Bytes(a, total + n), BufferLimit - HeadLimit)]
      BY <1>1, <1>3, <2>2, <2>3, <2>6
    <2>. QED
      BY <1>2, <2>5, <2>7
  <1>. QED
    BY <1>2, <1>5, <1>6, <1>7 DEF RetainedExactly

LEMMA AppendKeeps ==
    ASSUME StreamInv, NEW n \in 1..3, AppendChunk(n)
    PROVE  StreamInv'
  <1>1. RetainedExactly' /\ total' = total + n
    BY AppendRetains
  <1>2. UNCHANGED <<cursor, polled, page, paged>>
    BY DEF AppendChunk
  <1>3. StreamType'
    <2>1. n \in 1..(StreamEnd - total) /\ total \in Nat
      BY DEF AppendChunk, StreamInv, StreamType
    <2>2. total' \in Nat /\ total' <= StreamEnd /\ total <= total'
      BY <1>1, <2>1, StreamConstants
    <2>. QED
      BY <1>2, <2>1, <2>2 DEF StreamInv, StreamType
  <1>4. PollsAccount'
    <2>1. cursor' <= total'
      BY <1>3 DEF StreamType
    <2>. QED
      BY <1>2, <2>1 DEF StreamInv, PollsAccount
  <1>5. PagerExact'
    BY <1>2 DEF StreamInv, PagerExact
  <1>. QED
    BY <1>1, <1>3, <1>4, <1>5 DEF StreamInv

LEMMA TakeKeeps ==
    ASSUME StreamInv, TakeSinceCursor
    PROVE  StreamInv'
  <1>. USE StreamConstants
  <1>1. /\ total \in Nat /\ cursor \in Nat /\ cursor <= total /\ total <= StreamEnd
        /\ tail = Bytes(TailFrom(total), total) /\ startOffset = TailFrom(total)
    BY DEF StreamInv, StreamType, RetainedExactly
  <1>2. PICK a \in Nat : a = startOffset /\ a <= total /\ tail = Bytes(a, total)
    BY <1>1, SizesNat
  <1>3. PICK f \in Nat : f = cursor + Saturating(a, cursor) /\ a <= f /\ f <= total /\ f = a + Saturating(cursor, a)
    BY <1>1, <1>2 DEF Saturating
  <1>4. PICK m \in Nat : m = Saturating(cursor, a) + 1
    BY <1>1, SizesNat
  <1>5. Len(tail) = total - a
    BY <1>1, <1>2, BytesLength
  <1>6. Part(Bytes(a, total), m, total - a) = Bytes(f, total)
    <2>1. PICK n \in Nat : n = total - a
      BY <1>1, <1>2
    <2>2. Offsets(a, f, total, m, n) /\ total <= total
      <3>1. PICK d \in Nat : d = Saturating(cursor, a)
        BY <1>1, SizesNat
      <3>2. f = a + d /\ m = d + 1
        BY <1>3, <1>4, <3>1
      <3>3. m = f - a + 1 /\ n = total - a
        BY <2>1, <3>2
      <3>. QED
        BY <1>1, <3>3 DEF Offsets
    <2>. QED
      BY <1>1, <1>2, <1>3, <2>1, <2>2, BytesPart
  <1>7. PICK p \in Nat : (p = IF total - f > PreviewLimit THEN total - PreviewLimit ELSE f) /\ p <= total
    <2>. DEFINE P == IF total - f > PreviewLimit THEN total - PreviewLimit ELSE f
    <2>1. P \in Nat /\ P <= total
      BY <1>1, <1>3
    <2>. QED
      BY <2>1
  <1>8. LastBytes(Bytes(f, total), PreviewLimit) = Bytes(p, total)
    BY <1>1, <1>3, <1>7, BytesLast
  <1>9. Len(Bytes(f, total)) = total - f /\ Len(Bytes(p, total)) = total - p /\ total - (total - p) = p
    <2>1. Len(Bytes(f, total)) = total - f
      BY <1>1, <1>3, BytesLength
    <2>2. Len(Bytes(p, total)) = total - p
      BY <1>1, <1>7, BytesLength
    <2>. QED
      BY <1>1, <2>1, <2>2
  <1>10. /\ polled' = [from |-> cursor, first |-> p, text |-> ShownText(p, total),
                       truncated |-> total - f > PreviewLimit, omitted |-> Saturating(a, cursor)]
         /\ cursor' = total
         /\ UNCHANGED <<head, tail, startOffset, total, page, paged, captured>>
    <2>1. PICK fresh : fresh = Part(tail, Saturating(cursor, startOffset) + 1, Len(tail))
      OBVIOUS
    <2>2. fresh = SubSeq(tail, Saturating(cursor, startOffset) + 1, Len(tail))
      BY <2>1 DEF Part
    <2>3. PICK shown : shown = LastBytes(fresh, PreviewLimit)
      OBVIOUS
    <2>4. polled' = [from |-> cursor, first |-> total - Len(shown), text |-> Lossy(shown),
                     truncated |-> Len(fresh) > PreviewLimit, omitted |-> Saturating(startOffset, cursor)]
      BY <2>2, <2>3, Zenon DEF TakeSinceCursor
    <2>5. fresh = Bytes(f, total)
      BY <1>2, <1>4, <1>5, <1>6, <2>1
    <2>6. shown = Bytes(p, total)
      BY <1>8, <2>3, <2>5
    <2>7. Lossy(shown) = ShownText(p, total)
      BY <1>1, <1>7, <2>6, LossyRun
    <2>8. total - Len(shown) = p /\ Len(fresh) = total - f /\ startOffset = a
      BY <1>2, <1>9, <2>5, <2>6
    <2>9. UNCHANGED <<head, tail, startOffset, total, page, paged, captured>> /\ cursor' = total
      BY DEF TakeSinceCursor
    <2>. QED
      BY <2>4, <2>7, <2>8, <2>9
  <1>11. StreamType'
    BY <1>1, <1>10 DEF StreamInv, StreamType
  <1>12. RetainedExactly'
    BY <1>10 DEF StreamInv, RetainedExactly
  <1>13. PollsAccount'
    <2>1. total - p <= PreviewLimit
      BY <1>1, <1>3, <1>7
    <2>2. total - f > PreviewLimit \/ cursor + Saturating(a, cursor) = p
      BY <1>3, <1>7
    <2>3. polled'.text = ShownText(polled'.first, cursor') /\ cursor' - polled'.first <= PreviewLimit
      BY <1>10, <2>1
    <2>4. polled'.truncated \/ polled'.from + polled'.omitted = polled'.first
      BY <1>10, <2>2
    <2>5. cursor' <= total'
      BY <1>1, <1>10
    <2>. QED
      BY <2>3, <2>4, <2>5 DEF PollsAccount
  <1>14. PagerExact'
    BY <1>10 DEF StreamInv, PagerExact
  <1>. QED
    BY <1>11, <1>12, <1>13, <1>14 DEF StreamInv

(* What a read at an offset the stream has reached finds: some of the bytes*)
(* from a place at or behind that offset on, and at least one.             *)
Found(c, from, a, q) ==
    from <= a /\ a < q /\ q <= total /\ c = [actual |-> a, bytes |-> Bytes(a, q)]

LEMMA ChunkFound ==
    ASSUME StreamInv, NEW from \in Nat, from < total, NEW limit \in Nat, limit > 0
    PROVE  \E a, q \in Nat : Found(ChunkAt(from, limit), from, a, q)
  <1>. USE StreamConstants
  <1>1. /\ total \in Nat /\ head = Bytes(0, Minimum(HeadLimit, total))
        /\ tail = Bytes(TailFrom(total), total) /\ startOffset = TailFrom(total)
    BY DEF StreamInv, StreamType, RetainedExactly
  <1>2. PICK s \in Nat : s = startOffset /\ s < total /\ s <= total /\ tail = Bytes(s, total)
    <2>1. TailFrom(total) \in Nat
      BY <1>1, SizesNat
    <2>2. TailFrom(total) < total
      BY <1>1 DEF TailFrom, Saturating
    <2>. QED
      BY <1>1, <2>1, <2>2
  <1>3. PICK h \in Nat : h = Minimum(HeadLimit, total) /\ h <= total /\ head = Bytes(0, h) /\ 0 <= h
    <2>1. Minimum(HeadLimit, total) \in Nat
      BY <1>1, SizesNat
    <2>2. Minimum(HeadLimit, total) <= total
      BY <1>1 DEF Minimum
    <2>. QED
      BY <1>1, <2>1, <2>2
  <1>4. Len(head) = h /\ Len(tail) = total - s
    <2>1. Len(Bytes(0, h)) = h - 0
      BY <1>3, BytesLength
    <2>2. Len(Bytes(s, total)) = total - s
      BY <1>1, <1>2, BytesLength
    <2>. QED
      BY <1>2, <1>3, <2>1, <2>2
  <1>5. CASE from < startOffset /\ from < Len(head)
    <2>1. PICK q \in Nat : q = Minimum(h, from + limit) /\ from < q /\ from <= q /\ q <= h /\ q <= total
      <3>1. PICK j \in Nat : j = from + limit
        OBVIOUS
      <3>2. Minimum(h, j) \in Nat
        BY SizesNat
      <3>3. from < Minimum(h, j) /\ Minimum(h, j) <= h
        BY <1>4, <1>5, <3>1 DEF Minimum
      <3>. QED
        BY <1>1, <1>3, <3>1, <3>2, <3>3
    <2>2. PICK m \in Nat : m = from + 1
      OBVIOUS
    <2>3. Part(Bytes(0, h), m, q) = Bytes(from, q)
      <3>1. Offsets(0, from, q, m, q) /\ 0 <= from
        BY <2>2 DEF Offsets
      <3>. QED
        BY <1>3, <2>1, <2>2, <3>1, BytesPart
    <2>4. ChunkAt(from, limit) = [actual |-> from, bytes |-> Part(head, m, q)]
      BY <1>4, <1>5, <2>1, <2>2 DEF ChunkAt, Part
    <2>5. Found(ChunkAt(from, limit), from, from, q)
      BY <1>3, <2>1, <2>3, <2>4 DEF Found
    <2>. QED
      BY <2>1, <2>5
  <1>6. CASE ~(from < startOffset /\ from < Len(head))
    <2>1. PICK a \in Nat : (a = IF from >= s THEN from ELSE s) /\ from <= a /\ s <= a /\ a < total /\ a <= total
      BY <1>1, <1>2
    <2>2. PICK m \in Nat : m = a - s + 1
      BY <2>1
    <2>3. PICK n \in Nat : n = total - s
      BY <1>1, <1>2
    <2>4. Part(Bytes(s, total), m, n) = Bytes(a, total)
      <3>1. Offsets(s, a, total, m, n) /\ total <= total
        BY <1>1, <2>2, <2>3 DEF Offsets
      <3>. QED
        BY <1>1, <1>2, <2>1, <2>2, <2>3, <3>1, BytesPart
    <2>5. PICK q \in Nat : (q = IF a + limit < total THEN a + limit ELSE total) /\ a < q /\ q <= total
      <3>1. PICK j \in Nat : j = a + limit /\ a < j
        OBVIOUS
      <3>. QED
        BY <1>1, <2>1, <3>1
    <2>6. FirstOf(Bytes(a, total), limit) = Bytes(a, q)
      <3>1. PICK e \in Nat : e = total /\ a <= e /\ (q = IF a + limit < e THEN a + limit ELSE e)
        BY <1>1, <2>1, <2>5
      <3>2. FirstOf(Bytes(a, e), limit) = Bytes(a, q)
        BY <3>1, BytesFirst
      <3>. QED
        BY <3>1, <3>2
    <2>7. ChunkAt(from, limit) = [actual |-> a, bytes |-> FirstOf(Part(tail, m, n), limit)]
      <3>1. ChunkAt(from, limit)
              = LET actual == IF from >= startOffset THEN from ELSE startOffset
                IN [actual |-> actual, bytes |-> FirstOf(Part(tail, actual - startOffset + 1, Len(tail)), limit)]
        BY <1>6, Zenon DEF ChunkAt, Part
      <3>2. a = IF from >= startOffset THEN from ELSE startOffset
        BY <1>2, <2>1
      <3>3. a - startOffset + 1 = m /\ Len(tail) = n
        BY <1>2, <1>4, <2>2, <2>3
      <3>4. ChunkAt(from, limit) = [actual |-> a, bytes |-> FirstOf(Part(tail, a - startOffset + 1, Len(tail)), limit)]
        BY <3>1, <3>2, Zenon
      <3>. QED
        BY <3>3, <3>4
    <2>8. Found(ChunkAt(from, limit), from, a, q)
      BY <1>2, <2>1, <2>4, <2>5, <2>6, <2>7 DEF Found
    <2>. QED
      BY <2>8
  <1>. QED
    BY <1>5, <1>6

(* The edges of a further page cut no character that the pages before it   *)
(* did not cut already, and of its own bytes those that it does not have   *)
(* whole.                                                                  *)
EdgesAdd(n, a, q, edges, more) ==
    /\ \A o \in 0..(n - 1) : CutBy(o, more) <=> CutBy(o, edges)
    /\ \A o \in a..(q - 1) : CutBy(o, more) <=> ~WholeIn(BeginOf(o), a, q)

LEMMA EdgesCut ==
    ASSUME NEW n \in Nat, NEW a \in Nat, NEW q \in Nat, n <= a, a < q, q <= StreamEnd,
           NEW edges, edges \subseteq 0..n, n \in edges
    PROVE  EdgesAdd(n, a, q, edges, edges \cup {a, q})
  <1>. USE StreamConstants
  <1>1. ASSUME NEW o \in 0..(n - 1) PROVE CutBy(o, edges \cup {a, q}) <=> CutBy(o, edges)
    <2>1. o \in Written /\ o \in Nat /\ o < n
      BY WrittenIs
    <2>2. PICK p \in Nat, w \in Nat : p = BeginOf(o) /\ w = CharWidth[p] /\ p <= o /\ o < p + w
      <3>1. BeginOf(o) \in 0..o /\ o < BeginOf(o) + CharWidth[BeginOf(o)] /\ CharWidth[BeginOf(o)] \in 1..4
        BY <2>1, BeginIs
      <3>. QED
        BY <2>1, <3>1
    <2>3. \A E : CutBy(o, E) <=> \E e \in E : p < e /\ e < p + w
      BY <2>2 DEF CutBy
    <2>4. (\E e \in {a, q} : p < e /\ e < p + w) => p < n /\ n < p + w
      BY <2>1, <2>2
    <2>. QED
      BY <2>3, <2>4
  <1>2. ASSUME NEW o \in a..(q - 1) PROVE CutBy(o, edges \cup {a, q}) <=> ~WholeIn(BeginOf(o), a, q)
    <2>1. o \in Written /\ o \in Nat /\ a <= o /\ o < q
      BY WrittenIs
    <2>2. PICK p \in Nat, w \in Nat : p = BeginOf(o) /\ w = CharWidth[p] /\ p <= o /\ o < p + w
      <3>1. BeginOf(o) \in 0..o /\ o < BeginOf(o) + CharWidth[BeginOf(o)] /\ CharWidth[BeginOf(o)] \in 1..4
        BY <2>1, BeginIs
      <3>. QED
        BY <2>1, <3>1
    <2>3. \A E : CutBy(o, E) <=> \E e \in E : p < e /\ e < p + w
      BY <2>2 DEF CutBy
    <2>4. WholeIn(BeginOf(o), a, q) <=> ~CutBy(o, {a, q})
      BY <2>1, WholeOrCut
    <2>5. ASSUME NEW e \in edges, p < e, e < p + w PROVE p < a /\ a < p + w
      BY <2>1, <2>2, <2>5
    <2>. QED
      BY <2>3, <2>4, <2>5
  <1>. QED
    BY <1>1, <1>2 DEF EdgesAdd

LEMMA ReadKeeps ==
    ASSUME StreamInv, NEW limit \in 1..3, ReadOutput(limit)
    PROVE  StreamInv'
  <1>. USE StreamConstants
  <1>1. page.next \in Nat /\ page.next < total /\ total \in Nat /\ total <= StreamEnd
    BY DEF StreamInv, StreamType, ReadOutput
  <1>2. PICK c : c = ChunkAt(page.next, limit)
    OBVIOUS
  <1>3. PICK a, q \in Nat : Found(c, page.next, a, q)
    BY <1>1, <1>2, ChunkFound
  <1>4. /\ page.next <= a /\ a < q /\ a <= q /\ q <= total /\ q <= StreamEnd
        /\ c.actual = a /\ c.bytes = Bytes(a, q)
    BY <1>1, <1>3 DEF Found
  <1>5. Len(Bytes(a, q)) = q - a /\ ToSet(Bytes(a, q)) = a..(q - 1)
    BY <1>4, BytesLength, BytesSet
  <1>6. PICK T : T = ShownText(a, q) /\ T = Lossy(c.bytes)
    BY <1>4, LossyRun
  <1>7. BytesIn(T) = WholeBytes(a, q)
    BY <1>4, <1>6, ShownBytes
  <1>13. PICK whole, cut : whole = WholeBytes(a, q) /\ cut = CutBytes(a, q)
    OBVIOUS
  <1>8. /\ page' = [asked |-> page.next, actual |-> a, text |-> ShownText(a, q), next |-> q]
        /\ paged' = [got |-> paged.got \cup whole, spoiled |-> paged.spoiled \cup cut,
                     missed |-> paged.missed \cup page.next..(a - 1), edges |-> paged.edges \cup {a, q}]
        /\ UNCHANGED <<head, tail, startOffset, total, cursor, polled, captured>>
    <2>1. /\ page' = [asked |-> page.next, actual |-> c.actual, text |-> T, next |-> c.actual + Len(c.bytes)]
          /\ paged' = [got     |-> paged.got \cup BytesIn(T),
                       spoiled |-> paged.spoiled \cup (ToSet(c.bytes) \ BytesIn(T)),
                       missed  |-> paged.missed \cup page.next..(c.actual - 1),
                       edges   |-> paged.edges \cup {c.actual, c.actual + Len(c.bytes)}]
          /\ UNCHANGED <<head, tail, startOffset, total, cursor, polled, captured>>
      BY <1>2, <1>6, Zenon DEF ReadOutput, BytesIn
    <2>2. c.actual + Len(c.bytes) = q
      BY <1>4, <1>5
    <2>3. a..(q - 1) \ whole = cut
      BY <1>13 DEF WholeBytes, CutBytes
    <2>. QED
      BY <1>4, <1>5, <1>6, <1>7, <1>13, <2>1, <2>2, <2>3
  <1>9. StreamType'
    <2>1. page'.next = q /\ paged'.edges = paged.edges \cup {a, q} /\ paged.edges \subseteq 0..page.next
      BY <1>8 DEF StreamInv, StreamType
    <2>2. paged'.edges \subseteq 0..page'.next /\ page'.next \in paged'.edges
      BY <1>1, <1>4, <2>1
    <2>. QED
      BY <1>4, <1>8, <2>1, <2>2 DEF StreamInv, StreamType
  <1>10. RetainedExactly'
    BY <1>8 DEF StreamInv, RetainedExactly
  <1>11. PollsAccount'
    BY <1>8 DEF StreamInv, PollsAccount
  <1>12. PagerExact'
    <2> DEFINE old == 0..(page.next - 1)
               edges == paged.edges \cup {a, q}
    <2>1. /\ paged.missed \cap (paged.got \cup paged.spoiled) = {}
          /\ paged.got \cup paged.spoiled \cup paged.missed = old
          /\ paged.got = {o \in old \ paged.missed : ~CutBy(o, paged.edges)}
          /\ paged.spoiled = {o \in old \ paged.missed : CutBy(o, paged.edges)}
      BY DEF StreamInv, PagerExact
    <2>2. /\ \A o \in old : CutBy(o, edges) <=> CutBy(o, paged.edges)
          /\ \A o \in a..(q - 1) : CutBy(o, edges) <=> ~WholeIn(BeginOf(o), a, q)
      <3>1. PICK e0 : e0 = paged.edges /\ e0 \subseteq 0..page.next /\ page.next \in e0
        BY DEF StreamInv, StreamType
      <3>2. EdgesAdd(page.next, a, q, e0, e0 \cup {a, q})
        BY <1>1, <1>4, <3>1, EdgesCut
      <3>. QED
        BY <3>1, <3>2 DEF EdgesAdd
    <2>3. /\ whole \cup cut = a..(q - 1)
          /\ \A o \in a..(q - 1) : (o \in whole <=> ~CutBy(o, edges)) /\ (o \in cut <=> CutBy(o, edges))
      BY <1>13, <2>2 DEF WholeBytes, CutBytes
    <2>4. /\ old \cup page.next..(a - 1) \cup a..(q - 1) = 0..(q - 1)
          /\ old \cap page.next..(a - 1) = {} /\ old \cap a..(q - 1) = {} /\ page.next..(a - 1) \cap a..(q - 1) = {}
      BY <1>1, <1>4
    <2> DEFINE gap == page.next..(a - 1)
               new == a..(q - 1)
               all == 0..(q - 1)
               missed == paged.missed \cup gap
               got == paged.got \cup whole
               spoiled == paged.spoiled \cup cut
    <2> HIDE DEF old, edges, gap, new, all
    <2>5. old \cup gap \cup new = all /\ old \cap gap = {} /\ old \cap new = {} /\ gap \cap new = {}
      BY <2>4 DEF old, gap, new, all
    <2>6. /\ whole \cup cut = new
          /\ \A o \in new : (o \in whole <=> ~CutBy(o, edges)) /\ (o \in cut <=> CutBy(o, edges))
      BY <2>3 DEF new, edges
    <2>7. got \cup spoiled \cup missed = all /\ missed \cap (got \cup spoiled) = {}
      BY <2>1, <2>5, <2>6
    <2>8. all \ missed = (old \ paged.missed) \cup new
      BY <2>1, <2>5
    <2>9. got = {o \in all \ missed : ~CutBy(o, edges)}
      BY <2>1, <2>2, <2>6, <2>8
    <2>10. spoiled = {o \in all \ missed : CutBy(o, edges)}
      BY <2>1, <2>2, <2>6, <2>8
    <2>11. /\ page'.next = q /\ page'.asked = page.next /\ page'.text = ShownText(page'.actual, page'.next)
           /\ paged'.got = got /\ paged'.spoiled = spoiled /\ paged'.missed = missed /\ paged'.edges = edges
      BY <1>8 DEF gap, edges
    <2>12. q > page.next
      BY <1>1, <1>4
    <2>13. all = 0..(page'.next - 1)
      BY <2>11 DEF all
    <2> HIDE DEF missed, got, spoiled
    <2>. QED
      BY <2>7, <2>9, <2>10, <2>11, <2>12, <2>13 DEF PagerExact
  <1>. QED
    BY <1>9, <1>10, <1>11, <1>12 DEF StreamInv

LEMMA NextStream == StreamInv /\ [StreamNext]_streamVars => StreamInv'
  <1>. SUFFICES ASSUME StreamInv, [StreamNext]_streamVars PROVE StreamInv'
    OBVIOUS
  <1>1. CASE \E n \in 1..3 : AppendChunk(n)
    BY <1>1, AppendKeeps
  <1>2. CASE TakeSinceCursor
    BY <1>2, TakeKeeps
  <1>3. CASE \E limit \in 1..3 : ReadOutput(limit)
    BY <1>3, ReadKeeps
  <1>4. CASE UNCHANGED streamVars
    BY <1>4 DEF StreamInv, StreamType, RetainedExactly, PollsAccount, PagerExact, streamVars
  <1>. QED
    BY <1>1, <1>2, <1>3, <1>4 DEF StreamNext

(* What a capture shows is the text of its first bytes and of its last.    *)
LEMMA RetainedIsExact == StreamInv => CaptureExact
  <1>. USE StreamConstants
  <1>. SUFFICES ASSUME StreamInv PROVE CaptureExact
    OBVIOUS
  <1>1. /\ total \in Nat /\ total <= StreamEnd
        /\ Captured = Bytes(0, Minimum(HeadLimit, total)) \o Bytes(CaptureFrom(total), total)
    BY DEF StreamInv, StreamType, RetainedExactly, Captured
  <1>2. CASE total <= BufferLimit
    <2>1. PICK h \in Nat : h = Minimum(HeadLimit, total) /\ h = CaptureFrom(total) /\ 0 <= h /\ h <= total
      <3>1. Minimum(HeadLimit, total) \in Nat
        BY <1>1, SizesNat
      <3>2. Minimum(HeadLimit, total) = CaptureFrom(total) /\ Minimum(HeadLimit, total) <= total
        BY <1>1, <1>2 DEF Minimum, CaptureFrom, TailLimit
      <3>. QED
        BY <3>1, <3>2
    <2>2. 0 <= total /\ 0 \in Nat
      BY <1>1
    <2>4. Bytes(0, h) \o Bytes(h, total) = Bytes(0, total)
      BY <1>1, <2>1, <2>2, BytesJoin
    <2>3. Payload = ShownText(0, total)
      BY <1>1, <2>1, <2>2, <2>4, LossyRun DEF Payload
    <2>. QED
      BY <1>2, <2>3 DEF CaptureExact
  <1>3. CASE ~(total <= BufferLimit)
    <2>1. PICK t \in Nat : /\ t = total - (BufferLimit - HeadLimit) /\ HeadLimit <= t /\ t <= total
                           /\ Minimum(HeadLimit, total) = HeadLimit /\ CaptureFrom(total) = t
      BY <1>1, <1>3 DEF Minimum, CaptureFrom, TailLimit
    <2>2. PICK s : s = Bytes(0, HeadLimit) \o Bytes(t, total) /\ s = Captured /\ Lossy(s) = Payload
      BY <1>1, <2>1 DEF Payload
    <2>3. SeamShows(Lossy(s), HeadLimit, t, total)
      BY <1>1, <2>1, <2>2, SeamText
    <2>4. SeamShows(Payload, HeadLimit, t, total)
      BY <2>2, <2>3
    <2>. QED
      BY <1>3, <2>1, <2>2, <2>4, Zenon DEF CaptureExact, SeamShows, SeamWhole, SeamPlace
  <1>. QED
    BY <1>2, <1>3

(* For buffers of any size, text of any length and polls of any size: no   *)
(* reader of a command's output is shown a character twice or out of its   *)
(* place, or lacks one that is neither announced as missing nor cut by an  *)
(* edge of what it was given (OutputBuffer, CaptureBuffer).                *)
THEOREM OutputAlwaysExact == StreamSpec => []OutputExact
  <1>1. StreamInit => StreamInv
    BY InitStream
  <1>2. StreamInv /\ [StreamNext]_streamVars => StreamInv'
    BY NextStream
  <1>3. StreamInv => OutputExact
    BY RetainedIsExact DEF StreamInv, OutputExact
  <1>. QED
    BY <1>1, <1>2, <1>3, PTL DEF StreamSpec

(***************************************************************************)
(* The command manager. First what is computed along a sequence exists,    *)
(* and what the table keeps of it.                                         *)
(***************************************************************************)

(* A set of numbers that some n is in has a least one.                     *)
LEMMA LeastIn ==
    ASSUME NEW N, N \subseteq Nat, NEW n \in N
    PROVE  \E k \in N : \A m \in N : k <= m
<1>1. PICK k \in N : \A m \in N : <<m, k>> \notin OpToRel(<, Nat)
    BY NatLessThanWellFounded, WFMin
<1>2. OpToRel(<, Nat) = {ss \in Nat \X Nat : ss[1] < ss[2]}  BY DEF OpToRel
<1>3. ASSUME NEW m \in N, m < k PROVE FALSE
  <2>1. <<m, k>> \in {ss \in Nat \X Nat : ss[1] < ss[2]}  BY <1>3
  <2> QED BY <1>1, <1>2, <2>1
<1> QED BY <1>3
(* What is computed in steps, each from the one before, exists.            *)
IsSteps(r, step, start, L) == r[0] = start /\ \A n \in 1..L : r[n] = step[<<n, r[n - 1]>>]

LEMMA StepsExist ==
    ASSUME NEW T, NEW L \in Nat, NEW step \in [(1..L) \X T -> T], NEW start \in T
    PROVE  \E r \in [0..L -> T] : IsSteps(r, step, start, L)
<1> DEFINE Upto(m) == \E r \in [0..m -> T] : r[0] = start /\ \A n \in 1..m : r[n] = step[<<n, r[n - 1]>>]
           N == {m \in 0..L : ~Upto(m)}
<1>1. Upto(0)
  <2> DEFINE r == [n \in 0..0 |-> start]
  <2>1. r \in [0..0 -> T] /\ r[0] = start /\ \A n \in 1..0 : r[n] = step[<<n, r[n - 1]>>]  OBVIOUS
  <2> QED BY <2>1
<1>2. ASSUME NEW m \in 1..L, Upto(m - 1) PROVE Upto(m)
  <2>1. PICK r \in [0..(m - 1) -> T] : r[0] = start /\ \A n \in 1..(m - 1) : r[n] = step[<<n, r[n - 1]>>]
      BY <1>2
  <2> DEFINE s == [n \in 0..m |-> IF n = m THEN step[<<m, r[m - 1]>>] ELSE r[n]]
  <2>2. s \in [0..m -> T]  OBVIOUS
  <2>3. s[0] = start  BY <2>1
  <2>4. ASSUME NEW n \in 1..m PROVE s[n] = step[<<n, s[n - 1]>>]
    <3>1. CASE n = m
      <4>1. m \in 0..m /\ (m - 1) \in 0..m /\ m - 1 # m  OBVIOUS
      <4>2. s[m] = step[<<m, r[m - 1]>>] /\ s[m - 1] = r[m - 1]  BY <4>1
      <4> HIDE DEF s
      <4> QED BY <4>2, <3>1
    <3>2. CASE n # m
      <4>1. n \in 1..(m - 1) /\ n \in 0..m /\ (n - 1) \in 0..m /\ n - 1 # m  BY <3>2
      <4> QED BY <4>1, <3>2, <2>1
    <3> QED BY <3>1, <3>2
  <2> HIDE DEF s
  <2> QED BY <2>2, <2>3, <2>4
<1> HIDE DEF Upto
<1>3. N = {}
  <2> SUFFICES ASSUME N # {} PROVE FALSE  OBVIOUS
  <2>0. N \subseteq Nat /\ \E n \in N : TRUE  OBVIOUS
  <2>1. PICK k \in N : \A m \in N : k <= m
    <3> HIDE DEF N
    <3> QED BY <2>0, LeastIn
  <2>2. k # 0  BY <1>1
  <2>3. k \in 1..L /\ (k - 1) \in 0..L /\ k - 1 \notin N  BY <2>1, <2>2
  <2> QED BY <1>2, <2>3
<1>4. Upto(L)  BY <1>3
<1> QED BY <1>4 DEF Upto, IsSteps

CommandRows == [proc : {"none", "running", "zero", "signal"}, doomed : BOOLEAN, timedOut : BOOLEAN,
                asked : BOOLEAN, seen : BOOLEAN, watchdog : {"none", "watch", "mark", "ended"}]
ManagerCalls == [op : {"none", "start", "poll", "kill"},
                 pc : {"free", "spawn", "insert", "input", "mark", "await", "decide", "retain"},
                 id : CommandIds \cup {0}, force : BOOLEAN, alive : BOOLEAN,
                 label : {"none", "timeout", "running", "terminated", "exited", "killed", "terminating"}]

ManagerType ==
    /\ cmd \in [CommandIds -> CommandRows]
    /\ active \in SUBSET CommandIds /\ IsFiniteSet(active)
    /\ retained \in Seq(CommandIds)
    /\ shut \in BOOLEAN /\ calls \in Nat
    /\ call \in [Callers -> ManagerCalls]
    /\ firsts \in [CommandIds -> {0, 1}]

Starting == {c \in Callers : call[c].pc \in {"spawn", "insert"}}
Inserting(c, i) == call[c].pc = "insert" /\ call[c].id = i
Named == active \cup ToSet(retained)

(* A command that was left alone is in the table or about to be; what was  *)
(* reported as news had ended and was marked seen.                         *)
CommandOK(i) ==
    /\ Alive(i) /\ ~cmd[i].asked => i \in active \/ \E c \in Callers : Inserting(c, i)
    /\ cmd[i].timedOut => cmd[i].asked
    /\ cmd[i].seen => Done(cmd[i])
    /\ firsts[i] = 1 => cmd[i].seen
    /\ i \in Named => cmd[i].proc # "none"
    /\ cmd[i].proc = "none" => cmd[i].watchdog = "none"

(* What a caller relies on: a command that was started, one it is about to *)
(* insert alone, one it asked to end, an end it saw.                       *)
TargetOK(k) ==
    k.pc \notin {"free", "spawn"} => k.id \in CommandIds /\ cmd[k.id].proc # "none"
AskedOK(k) ==
    /\ k.pc = "mark" => ~k.alive
    /\ k.pc = "await" => k.alive
    /\ k.pc \in {"await", "decide"} /\ k.alive => cmd[k.id].asked
    /\ k.pc = "decide" /\ ~k.alive => Done(cmd[k.id])
OpOK(k) ==
    /\ k.pc = "free" => k = Free
    /\ k.pc \in {"spawn", "insert", "input"} => k.op # "kill"
    /\ k.pc \in {"mark", "await", "decide"} => k.op = "kill"
    /\ k.label # "none" => k.pc = "retain"
LabelOK(k) ==
    k.pc = "retain" =>
        /\ k.label # "none"
        /\ k.op = "kill" => k.label \in {"exited", "killed", "terminated", "terminating"}
        /\ k.label \in {"exited", "killed", "terminated"} => Done(cmd[k.id])
        /\ k.label = "terminated" /\ k.op # "kill" => cmd[k.id].proc = "signal"
        /\ k.label \in {"timeout", "terminating"} => cmd[k.id].asked
CallerOK(c) ==
    /\ TargetOK(call[c]) /\ AskedOK(call[c]) /\ OpOK(call[c]) /\ LabelOK(call[c])
    /\ call[c].pc = "insert" => call[c].id \notin Named

InsertsApart ==
    \A c, d \in Callers : c # d /\ call[c].pc = "insert" /\ call[d].pc = "insert" => call[c].id # call[d].id

(* Every caller that has passed the comparison will add one command.       *)
TableOK ==
    /\ Cardinality(active) + Cardinality(Starting) < MaxActive + Cardinality(Callers)
    /\ IsInjective(retained) /\ active \cap ToSet(retained) = {}

ManagerInv ==
    /\ ManagerType /\ TableOK /\ InsertsApart
    /\ \A i \in CommandIds : CommandOK(i)
    /\ \A c \in Callers : CallerOK(c)

-----------------------------------------------------------------------------
(* What is filtered comes from the sequence, and from no place twice.      *)
FilterStep(f, s, K) ==
    \A n \in 1 .. Len(s) : f[n] = IF s[n] \in K THEN Append(f[n - 1], s[n]) ELSE f[n - 1]

LEMMA FilterSteps ==
    ASSUME NEW S, NEW s \in Seq(S), NEW K
    PROVE  \E f : f[0] = <<>> /\ FilterStep(f, s, K) /\ Filtered(s, K) = f[Len(s)]
<1> DEFINE L == Len(s)
           T == Seq(S)
           step == [x \in (1..L) \X T |-> IF s[x[1]] \in K THEN Append(x[2], s[x[1]]) ELSE x[2]]
           Body(f) == [n \in 0 .. L |->
                         IF n = 0 THEN <<>> ELSE IF s[n] \in K THEN Append(f[n - 1], s[n]) ELSE f[n - 1]]
           kept == CHOOSE f : f = Body(f)
<1>1. L \in Nat /\ <<>> \in T  BY LenProperties, EmptySeq
<1>2. ASSUME NEW x \in (1..L) \X T PROVE (IF s[x[1]] \in K THEN Append(x[2], s[x[1]]) ELSE x[2]) \in T
  <2>1. x[1] \in 1..L /\ x[2] \in T  OBVIOUS
  <2>2. s[x[1]] \in S  BY <2>1, ElementOfSeq
  <2>3. Append(x[2], s[x[1]]) \in T  BY <2>1, <2>2
  <2> QED BY <2>1, <2>3
<1>3. step \in [(1..L) \X T -> T]  BY <1>2
<1>4. \A n \in 1..L, t \in T : step[<<n, t>>] = IF s[n] \in K THEN Append(t, s[n]) ELSE t  OBVIOUS
<1> HIDE DEF step, T, L
<1>5. PICK r \in [0..L -> T] : IsSteps(r, step, <<>>, L)  BY <1>1, <1>3, StepsExist
<1>6. r = Body(r)
  <2>1. ASSUME NEW n \in 0..L
        PROVE  r[n] = IF n = 0 THEN <<>> ELSE IF s[n] \in K THEN Append(r[n - 1], s[n]) ELSE r[n - 1]
    <3>1. CASE n = 0  BY <3>1, <1>5 DEF IsSteps
    <3>2. CASE n # 0
      <4>1. n \in 1..L /\ n - 1 \in 0..L  BY <3>2, <1>1
      <4>2. r[n - 1] \in T  BY <4>1
      <4>3. r[n] = step[<<n, r[n - 1]>>]  BY <4>1, <1>5 DEF IsSteps
      <4> QED BY <4>1, <4>2, <4>3, <1>4, <3>2
    <3> QED BY <3>1, <3>2
  <2> QED BY <2>1
<1>7. kept = Body(kept)
  <2> HIDE DEF Body
  <2> QED BY <1>6
<1>8. kept[0] = <<>>
  <2>1. 0 \in 0..L  BY <1>1
  <2>2. Body(kept)[0] = <<>>  BY <2>1
  <2> QED BY <1>7, <2>2
<1>9. FilterStep(kept, s, K)
  <2> SUFFICES ASSUME NEW n \in 1..L
               PROVE  kept[n] = IF s[n] \in K THEN Append(kept[n - 1], s[n]) ELSE kept[n - 1]
    BY DEF FilterStep, L
  <2>1. n \in 0..L /\ n # 0  BY <1>1
  <2>2. Body(kept)[n] = IF s[n] \in K THEN Append(kept[n - 1], s[n]) ELSE kept[n - 1]  BY <2>1
  <2> HIDE DEF kept, Body
  <2> QED BY <1>7, <2>2
<1>10. Filtered(s, K) = kept[Len(s)]  BY DEF Filtered, L
<1> HIDE DEF kept
<1> QED BY <1>8, <1>9, <1>10

LEMMA FilteredFacts ==
    ASSUME NEW S, NEW s \in Seq(S), NEW K
    PROVE  /\ Filtered(s, K) \in Seq(S)
           /\ ToSet(Filtered(s, K)) \subseteq ToSet(s) \cap K
           /\ IsInjective(s) => IsInjective(Filtered(s, K))
<1> USE DEF ToSet, IsInjective
<1>1. PICK f : f[0] = <<>> /\ FilterStep(f, s, K) /\ Filtered(s, K) = f[Len(s)]  BY FilterSteps
<1> DEFINE First(n) == {s[j] : j \in 1..n}
           Ok(n) == /\ f[n] \in Seq(S) /\ ToSet(f[n]) \subseteq First(n) \cap K
                    /\ IsInjective(s) => IsInjective(f[n])
           N == {m \in 0..Len(s) : ~Ok(m)}
<1>2. Len(s) \in Nat /\ DOMAIN s = 1..Len(s)  BY LenProperties
<1>3. Ok(0)
  <2>1. <<>> \in Seq(S) /\ DOMAIN <<>> = {}  BY EmptySeq, LenProperties
  <2> QED BY <1>1, <2>1
<1>4. ASSUME NEW n \in 1..Len(s), Ok(n - 1) PROVE Ok(n)
  <2>1. f[n] = IF s[n] \in K THEN Append(f[n - 1], s[n]) ELSE f[n - 1]  BY <1>1 DEF FilterStep
  <2>2. First(n - 1) \subseteq First(n)  BY <1>2
  <2>3. CASE s[n] \notin K  BY <2>1, <2>2, <2>3, <1>4
  <2>4. CASE s[n] \in K
    <3> DEFINE t == f[n - 1]
    <3>1. t \in Seq(S) /\ s[n] \in S /\ f[n] = Append(t, s[n])  BY <1>4, <2>1, <2>4, ElementOfSeq
    <3>2. Len(t) \in Nat /\ DOMAIN t = 1..Len(t)  BY <3>1, LenProperties
    <3>3. /\ f[n] \in Seq(S) /\ DOMAIN f[n] = 1..(Len(t) + 1)
          /\ \A j \in 1..Len(t) : f[n][j] = t[j]
          /\ f[n][Len(t) + 1] = s[n]
      <4> HIDE DEF t
      <4> QED BY <3>1, <3>2, LenProperties
    <3>4. ToSet(t) \subseteq First(n - 1) \cap K /\ (IsInjective(s) => IsInjective(t))  BY <1>4
    <3> HIDE DEF t
    <3>5. s[n] \in First(n)  BY <1>2
    <3>6. ToSet(f[n]) \subseteq First(n) \cap K
      <4> SUFFICES ASSUME NEW j \in 1..(Len(t) + 1) PROVE f[n][j] \in First(n) \cap K  BY <3>3
      <4>1. CASE j = Len(t) + 1  BY <4>1, <3>3, <3>5, <2>4
      <4>2. CASE j # Len(t) + 1
        <5>1. j \in 1..Len(t)  BY <4>2, <3>2
        <5>2. t[j] \in ToSet(t)  BY <5>1, <3>2
        <5> QED BY <5>1, <5>2, <3>3, <3>4, <2>2
      <4> QED BY <4>1, <4>2
    <3>7. ASSUME IsInjective(s) PROVE IsInjective(f[n])
      <4>1. s[n] \notin ToSet(t)
        <5> SUFFICES ASSUME NEW j \in 1..(n - 1), s[j] = s[n] PROVE FALSE  BY <3>4
        <5>1. j \in DOMAIN s /\ n \in DOMAIN s /\ j # n  BY <1>2
        <5> QED BY <5>1, <3>7
      <4> SUFFICES ASSUME NEW a \in 1..(Len(t) + 1), NEW b \in 1..(Len(t) + 1), f[n][a] = f[n][b] PROVE a = b
        BY <3>3
      <4>2. CASE a = Len(t) + 1 /\ b # Len(t) + 1
        <5>1. b \in DOMAIN t /\ f[n][b] = t[b]  BY <4>2, <3>2, <3>3
        <5> QED BY <5>1, <4>1, <4>2, <3>3
      <4>3. CASE b = Len(t) + 1 /\ a # Len(t) + 1
        <5>1. a \in DOMAIN t /\ f[n][a] = t[a]  BY <4>3, <3>2, <3>3
        <5> QED BY <5>1, <4>1, <4>3, <3>3
      <4>4. CASE a # Len(t) + 1 /\ b # Len(t) + 1
        <5>1. a \in DOMAIN t /\ b \in DOMAIN t /\ f[n][a] = t[a] /\ f[n][b] = t[b]  BY <4>4, <3>2, <3>3
        <5> QED BY <5>1, <3>4, <3>7
      <4> QED BY <4>2, <4>3, <4>4
    <3> QED BY <3>3, <3>6, <3>7
  <2> QED BY <2>3, <2>4
<1> HIDE DEF Ok
<1>5. N = {}
  <2> SUFFICES ASSUME N # {} PROVE FALSE  OBVIOUS
  <2>1. N \subseteq Nat /\ \E n \in N : TRUE  BY <1>2
  <2>2. PICK k \in N : \A m \in N : k <= m
    <3> HIDE DEF N
    <3> QED BY <2>1, LeastIn
  <2>3. k # 0  BY <1>3
  <2>4. k \in 1..Len(s) /\ k - 1 \in 0..Len(s) /\ k - 1 \notin N  BY <2>2, <2>3, <1>2
  <2> QED BY <1>4, <2>4
<1>6. Ok(Len(s))  BY <1>5, <1>2
<1> QED BY <1>6, <1>1, <1>2 DEF Ok

LEMMA JoinedFacts ==
    ASSUME NEW S, NEW s \in Seq(S), NEW t \in Seq(S)
    PROVE  /\ s \o t \in Seq(S)
           /\ ToSet(s \o t) \subseteq ToSet(s) \cup ToSet(t)
           /\ IsInjective(s) /\ IsInjective(t) /\ ToSet(s) \cap ToSet(t) = {} => IsInjective(s \o t)
<1> DEFINE u == s \o t
<1>1. /\ u \in Seq(S) /\ Len(u) = Len(s) + Len(t)
      /\ \A i \in 1 .. Len(s) + Len(t) : u[i] = IF i <= Len(s) THEN s[i] ELSE t[i - Len(s)]
  BY ConcatProperties
<1>2. /\ Len(s) \in Nat /\ Len(t) \in Nat /\ DOMAIN s = 1..Len(s) /\ DOMAIN t = 1..Len(t)
      /\ DOMAIN u = 1..(Len(s) + Len(t))
  BY <1>1, LenProperties
<1> HIDE DEF u
<1>3. ASSUME NEW i \in DOMAIN u
      PROVE  \/ i \in DOMAIN s /\ u[i] = s[i]
             \/ i - Len(s) \in DOMAIN t /\ u[i] = t[i - Len(s)] /\ i \notin DOMAIN s
  <2>1. i \in Nat /\ 1 <= i /\ i <= Len(s) + Len(t)  BY <1>2
  <2>2. CASE i <= Len(s)  BY <2>1, <2>2, <1>1, <1>2
  <2>3. CASE ~(i <= Len(s))
    <3>1. i - Len(s) \in 1..Len(t) /\ i \notin 1..Len(s)  BY <2>1, <2>3, <1>2
    <3> QED BY <3>1, <2>3, <1>1, <1>2
  <2> QED BY <2>2, <2>3
<1>4. ToSet(u) \subseteq ToSet(s) \cup ToSet(t)  BY <1>3 DEF ToSet
<1>5. ASSUME IsInjective(s), IsInjective(t), ToSet(s) \cap ToSet(t) = {} PROVE IsInjective(u)
  <2> SUFFICES ASSUME NEW a \in DOMAIN u, NEW b \in DOMAIN u, u[a] = u[b] PROVE a = b  BY DEF IsInjective
  <2>1. a \in Nat /\ b \in Nat  BY <1>2
  <2>2. \A i \in DOMAIN s : s[i] \in ToSet(s)  BY DEF ToSet
  <2>3. \A i \in DOMAIN t : t[i] \in ToSet(t)  BY DEF ToSet
  <2>4. CASE a \in DOMAIN s /\ b \in DOMAIN s  BY <2>4, <1>3, <1>5 DEF IsInjective
  <2>5. CASE a \notin DOMAIN s /\ b \notin DOMAIN s
    <3>1. a - Len(s) = b - Len(s)  BY <2>5, <1>3, <1>5 DEF IsInjective
    <3> QED BY <3>1, <2>1, <1>2
  <2>6. CASE a \in DOMAIN s /\ b \notin DOMAIN s  BY <2>6, <1>3, <1>5, <2>2, <2>3
  <2>7. CASE a \notin DOMAIN s /\ b \in DOMAIN s  BY <2>7, <1>3, <1>5, <2>2, <2>3
  <2> QED BY <2>4, <2>5, <2>6, <2>7
<1> QED BY <1>1, <1>4, <1>5 DEF u

LEMMA LastFacts ==
    ASSUME NEW S, NEW s \in Seq(S), NEW n \in Nat
    PROVE  /\ LastOf(s, n) \in Seq(S)
           /\ ToSet(LastOf(s, n)) \subseteq ToSet(s)
           /\ IsInjective(s) => IsInjective(LastOf(s, n))
<1>1. Len(s) \in Nat /\ DOMAIN s = 1..Len(s)  BY LenProperties
<1>2. CASE Len(s) <= n  BY <1>2 DEF LastOf
<1>3. CASE ~(Len(s) <= n)
  <2> DEFINE m == Len(s) - n + 1
             u == SubSeq(s, m, Len(s))
  <2>1. m \in 2..(Len(s) + 1) /\ m \in Int /\ Len(s) \in Int  BY <1>1, <1>3
  <2>2. \A i \in m .. Len(s) : s[i] \in S
    <3> SUFFICES ASSUME NEW i \in m .. Len(s) PROVE s[i] \in S  OBVIOUS
    <3>1. i \in 1..Len(s)  BY <2>1
    <3> QED BY <3>1, ElementOfSeq
  <2> HIDE DEF m
  <2>3. /\ u \in Seq(S) /\ Len(u) = IF m <= Len(s) THEN Len(s) - m + 1 ELSE 0
        /\ \A i \in 1 .. Len(s) - m + 1 : u[i] = s[m + i - 1]
    BY <2>1, <2>2, SubSeqProperties
  <2>4. DOMAIN u = 1 .. Len(s) - m + 1
    <3>1. DOMAIN u = 1..Len(u)  BY <2>3, LenProperties
    <3>2. CASE m <= Len(s)  BY <3>1, <3>2, <2>3
    <3>3. CASE m = Len(s) + 1
      <4>1. Len(s) - m + 1 = 0 /\ ~(m <= Len(s))  BY <3>3, <1>1
      <4> QED BY <3>1, <4>1, <2>3
    <3> QED BY <3>2, <3>3, <2>1, <1>1
  <2> HIDE DEF u
  <2>5. ASSUME NEW i \in DOMAIN u PROVE i \in Int /\ m + i - 1 \in DOMAIN s /\ u[i] = s[m + i - 1]
    <3>1. i \in 1 .. Len(s) - m + 1  BY <2>4
    <3>2. u[i] = s[m + i - 1]  BY <3>1, <2>3
    <3>3. m \in Int /\ m >= 2  BY <2>1
    <3>4. i \in Int /\ m + i - 1 \in 1..Len(s)  BY <3>1, <3>3, <1>1
    <3> QED BY <3>2, <3>4, <1>1
  <2>6. ToSet(u) \subseteq ToSet(s)  BY <2>5 DEF ToSet
  <2>7. ASSUME IsInjective(s) PROVE IsInjective(u)
    <3> SUFFICES ASSUME NEW a \in DOMAIN u, NEW b \in DOMAIN u, u[a] = u[b] PROVE a = b  BY DEF IsInjective
    <3>1. m + a - 1 = m + b - 1  BY <2>5, <2>7 DEF IsInjective
    <3> QED BY <3>1, <2>1, <2>5
  <2>8. LastOf(s, n) = u  BY <1>3 DEF LastOf, u, m
  <2> QED BY <2>3, <2>6, <2>7, <2>8
<1> QED BY <1>2, <1>3

LEMMA AppendFacts ==
    ASSUME NEW S, NEW s \in Seq(S), NEW e \in S
    PROVE  /\ Append(s, e) \in Seq(S)
           /\ ToSet(Append(s, e)) \subseteq ToSet(s) \cup {e}
           /\ IsInjective(s) /\ e \notin ToSet(s) => IsInjective(Append(s, e))
<1> DEFINE u == Append(s, e)
<1>1. Len(s) \in Nat /\ DOMAIN s = 1..Len(s)  BY LenProperties
<1>2. /\ u \in Seq(S) /\ DOMAIN u = 1..(Len(s) + 1)
      /\ \A j \in 1..Len(s) : u[j] = s[j]
      /\ u[Len(s) + 1] = e
  BY <1>1, LenProperties
<1> HIDE DEF u
<1>3. ASSUME NEW i \in DOMAIN u PROVE (i = Len(s) + 1 /\ u[i] = e) \/ (i \in DOMAIN s /\ u[i] = s[i])
  BY <1>1, <1>2
<1>4. ToSet(u) \subseteq ToSet(s) \cup {e}  BY <1>3 DEF ToSet
<1>5. ASSUME IsInjective(s), e \notin ToSet(s) PROVE IsInjective(u)
  <2> SUFFICES ASSUME NEW a \in DOMAIN u, NEW b \in DOMAIN u, u[a] = u[b] PROVE a = b  BY DEF IsInjective
  <2>1. \A i \in DOMAIN s : s[i] # e  BY <1>5 DEF ToSet
  <2> QED BY <1>3, <1>5, <2>1 DEF IsInjective
<1> QED BY <1>2, <1>4, <1>5 DEF u

-----------------------------------------------------------------------------
(* What a step leaves of a command: it stays started, ended and asked, and *)
(* only a watchdog that saw it alive turns its end into a timeout.         *)
Grows(i) ==
    cmd[i].proc # "none" =>
        /\ cmd'[i].proc # "none"
        /\ cmd[i].asked => cmd'[i].asked
        /\ cmd[i].timedOut => cmd'[i].timedOut
        /\ Done(cmd[i]) =>
            /\ cmd'[i].proc = cmd[i].proc
            /\ cmd'[i].timedOut # cmd[i].timedOut => cmd[i].watchdog = "mark" /\ cmd'[i].timedOut
AllGrow == \A i \in CommandIds : Grows(i)

LEMMA CmdStays == ASSUME cmd' = cmd PROVE AllGrow
BY DEF AllGrow, Grows, Done

(* The other callers, and a caller whose next record is good.              *)
LEMMA CallerKept ==
    ASSUME ManagerInv, AllGrow, NEW c \in Callers, call'[c] = call[c],
           call[c].pc = "insert" => call[c].id \notin Named'
    PROVE  CallerOK(c)'
<1> DEFINE k == call[c]
<1>1. CallerOK(c)  BY DEF ManagerInv
<1>2. k.pc \notin {"free", "spawn"} => k.id \in CommandIds /\ cmd[k.id].proc # "none"
  BY <1>1 DEF CallerOK, TargetOK
<1>3. k.pc \notin {"free", "spawn"} => Grows(k.id)  BY <1>2 DEF AllGrow
<1>4. TargetOK(k)'  BY <1>2, <1>3 DEF TargetOK, Grows
<1>5. AskedOK(k)'  BY <1>1, <1>2, <1>3 DEF CallerOK, AskedOK, Grows, Done
<1>6. OpOK(k)'  BY <1>1 DEF CallerOK, OpOK, Free
<1>7. LabelOK(k)'  BY <1>1, <1>2, <1>3 DEF CallerOK, LabelOK, Grows, Done
<1> QED BY <1>4, <1>5, <1>6, <1>7 DEF CallerOK

(* Callers that start no more than before leave the table's bound alone.   *)
LEMMA StartingFacts ==
    /\ IsFiniteSet(Starting) /\ Cardinality(Starting) \in Nat
    /\ Cardinality(Callers) \in Nat /\ Cardinality(Starting) <= Cardinality(Callers)
    /\ MaxActive \in Nat
<1>1. Starting \in SUBSET Callers /\ IsFiniteSet(Callers)  BY ManagerSizes DEF Starting
<1> QED BY <1>1, ManagerSizes, FS_Subset, FS_CardinalityType

LEMMA BoundStays ==
    ASSUME ManagerInv, active' \subseteq active, Starting' \subseteq Starting
    PROVE  /\ IsFiniteSet(active') /\ active' \in SUBSET CommandIds
           /\ Cardinality(active') + Cardinality(Starting') < MaxActive + Cardinality(Callers)
<1>1. IsFiniteSet(active) /\ active \in SUBSET CommandIds
      /\ Cardinality(active) + Cardinality(Starting) < MaxActive + Cardinality(Callers)
  BY DEF ManagerInv, ManagerType, TableOK
<1>2. IsFiniteSet(active') /\ Cardinality(active') <= Cardinality(active)  BY <1>1, FS_Subset
<1>3. IsFiniteSet(Starting') /\ Cardinality(Starting') <= Cardinality(Starting)
  BY StartingFacts, FS_Subset
<1>4. /\ Cardinality(active) \in Nat /\ Cardinality(active') \in Nat
      /\ Cardinality(Starting) \in Nat /\ Cardinality(Starting') \in Nat
      /\ MaxActive \in Nat /\ Cardinality(Callers) \in Nat
  BY <1>1, <1>2, <1>3, StartingFacts, FS_CardinalityType
<1> QED BY <1>1, <1>2, <1>3, <1>4

(* What a step may do to a command that was started.                       *)
Careful(i) ==
    /\ cmd[i].proc = "none" => cmd'[i] = cmd[i] /\ firsts'[i] = firsts[i]
    /\ cmd'[i].proc = "running" => cmd[i].proc = "running"
    /\ cmd'[i].timedOut => cmd'[i].asked
    /\ cmd'[i].seen => Done(cmd'[i])
    /\ firsts'[i] = 1 => cmd'[i].seen

(* What a step may do to the table: nothing comes in, and what it forgets  *)
(* has ended or was asked to.                                              *)
TableMoves ==
    /\ active' \subseteq active
    /\ retained' \in Seq(CommandIds) /\ IsInjective(retained')
    /\ ToSet(retained') \subseteq Named
    /\ active' \cap ToSet(retained') = {}
    /\ \A i \in active \ active' : cmd[i].asked \/ Done(cmd[i])

LEMMA TableStays == ASSUME ManagerInv, UNCHANGED <<active, retained>> PROVE TableMoves
BY DEF ManagerInv, ManagerType, TableOK, TableMoves, Named

RestTyped ==
    /\ cmd' \in [CommandIds -> CommandRows] /\ shut' \in BOOLEAN /\ calls' \in Nat
    /\ firsts' \in [CommandIds -> {0, 1}]
    /\ call' \in [Callers -> ManagerCalls]

(* Some callers move, none of them into or out of an insertion.            *)
OnlyMove(D) ==
    /\ \A d \in Callers \ D : call'[d] = call[d]
    /\ \A d \in D : call[d].pc # "insert" /\ call'[d].pc # "insert"

LEMMA StepKeeps ==
    ASSUME ManagerInv, RestTyped, AllGrow, \A i \in CommandIds : Careful(i), TableMoves,
           Cardinality(active') + Cardinality(Starting') < MaxActive + Cardinality(Callers),
           NEW D \in SUBSET Callers, OnlyMove(D), \A d \in D : CallerOK(d)'
    PROVE  ManagerInv'
<1>1. Named' \subseteq Named  BY DEF TableMoves, Named
<1>2. ManagerType'
  <2>1. active \in SUBSET CommandIds /\ IsFiniteSet(active)  BY DEF ManagerInv, ManagerType
  <2>2. active' \in SUBSET CommandIds /\ IsFiniteSet(active')  BY <2>1, FS_Subset DEF TableMoves
  <2> QED BY <2>2 DEF RestTyped, TableMoves, ManagerType
<1>3. TableOK'  BY DEF TableMoves, TableOK
<1>4. \A d \in Callers : call'[d].pc = "insert" => d \notin D /\ call'[d] = call[d]  BY DEF OnlyMove
<1>5. InsertsApart'  BY <1>4 DEF ManagerInv, InsertsApart
<1>6. ASSUME NEW i \in CommandIds PROVE CommandOK(i)'
  <2>1. CommandOK(i) /\ Grows(i) /\ Careful(i)  BY DEF ManagerInv, AllGrow
  <2>2. ASSUME cmd'[i].proc = "running", ~cmd'[i].asked
        PROVE  i \in active' \/ \E c \in Callers : Inserting(c, i)'
    <3>1. cmd[i].proc = "running" /\ cmd[i].proc # "none" /\ ~cmd[i].asked  BY <2>1, <2>2 DEF Careful, Grows
    <3>2. CASE i \in active
      <4>1. ~Done(cmd[i])  BY <3>1 DEF Done
      <4> QED BY <3>1, <3>2, <4>1 DEF TableMoves
    <3>3. CASE \E c \in Callers : Inserting(c, i)
      <4>1. PICK c \in Callers : Inserting(c, i)  BY <3>3
      <4>2. c \notin D /\ call'[c] = call[c]  BY <4>1 DEF OnlyMove, Inserting
      <4> QED BY <4>1, <4>2 DEF Inserting
    <3> QED BY <3>1, <3>2, <3>3, <2>1 DEF CommandOK, Alive
  <2>3. i \in Named' => cmd'[i].proc # "none"  BY <1>1, <2>1 DEF CommandOK, Grows
  <2>4. cmd'[i].proc = "none" => cmd'[i].watchdog = "none"  BY <2>1 DEF CommandOK, Careful, Grows
  <2> QED BY <2>1, <2>2, <2>3, <2>4 DEF CommandOK, Careful, Alive
<1>7. ASSUME NEW c \in Callers PROVE CallerOK(c)'
  <2>1. CASE c \in D  BY <2>1
  <2>2. CASE c \notin D
    <3>1. call'[c] = call[c]  BY <2>2 DEF OnlyMove
    <3>2. call[c].pc = "insert" => call[c].id \notin Named'  BY <1>1 DEF ManagerInv, CallerOK
    <3> QED BY <3>1, <3>2, CallerKept
  <2> QED BY <2>1, <2>2
<1> QED BY <1>2, <1>3, <1>5, <1>6, <1>7 DEF ManagerInv

(* The same when nothing happens to a command, or nothing to the table.    *)
LEMMA CmdRests ==
    ASSUME ManagerInv, cmd' = cmd, firsts' = firsts
    PROVE  AllGrow /\ \A i \in CommandIds : Careful(i)
<1>1. \A i \in CommandIds : CommandOK(i)  BY DEF ManagerInv
<1> QED BY <1>1, CmdStays DEF Careful, CommandOK

LEMMA BoundKept ==
    ASSUME ManagerInv, active' \subseteq active, NEW D \in SUBSET Callers, OnlyMove(D),
           \A d \in D : call'[d].pc = "spawn" => call[d].pc = "spawn"
    PROVE  Cardinality(active') + Cardinality(Starting') < MaxActive + Cardinality(Callers)
<1>1. Starting' \subseteq Starting
  <2> SUFFICES ASSUME NEW c \in Callers, call'[c].pc \in {"spawn", "insert"} PROVE call[c].pc \in {"spawn", "insert"}
    BY DEF Starting
  <2> QED BY DEF OnlyMove
<1> QED BY <1>1, BoundStays

-----------------------------------------------------------------------------
(* The table.                                                              *)
LEMMA PruneMoves ==
    ASSUME ManagerInv, NEW aged \in BOOLEAN, Prune(aged)
    PROVE  TableMoves /\ calls' \in Nat
<1> DEFINE ended == {i \in active : Done(cmd[i])}
           K == {i \in CommandIds : ~(aged /\ Done(cmd[i]))}
<1>1. /\ calls' = calls + 1 /\ active' = active \ ended
      /\ \E s \in SetToSeqs(ended) : retained' = LastOf(Filtered(retained \o s, K), MaxRetained)
  BY DEF Prune
<1>2. /\ calls \in Nat /\ retained \in Seq(CommandIds) /\ active \in SUBSET CommandIds /\ IsFiniteSet(active)
      /\ IsInjective(retained) /\ active \cap ToSet(retained) = {} /\ MaxRetained \in Nat
  BY ManagerSizes DEF ManagerInv, ManagerType, TableOK
<1>3. ended \in SUBSET active /\ ended \in SUBSET CommandIds /\ \A i \in ended : Done(cmd[i])  BY <1>2
<1> HIDE DEF ended, K
<1>4. PICK s \in SetToSeqs(ended) : retained' = LastOf(Filtered(retained \o s, K), MaxRetained)  BY <1>1
<1>5. s \in Seq(CommandIds) /\ ToSet(s) \subseteq ended /\ IsInjective(s)
  <2>1. Cardinality(ended) \in Nat  BY <1>2, <1>3, FS_Subset, FS_CardinalityType
  <2>2. s \in [1 .. Cardinality(ended) -> ended]
        /\ \A i, j \in 1 .. Cardinality(ended) : i # j => s[i] # s[j]
    BY DEF SetToSeqs
  <2>3. s \in [1 .. Cardinality(ended) -> CommandIds] /\ DOMAIN s = 1 .. Cardinality(ended)  BY <2>2, <1>3
  <2>4. s \in Seq(CommandIds)  BY <2>1, <2>3, SeqDef
  <2>5. ToSet(s) \subseteq ended  BY <2>2, <2>3 DEF ToSet
  <2>6. IsInjective(s)  BY <2>2, <2>3 DEF IsInjective
  <2> QED BY <2>4, <2>5, <2>6
<1> DEFINE u == retained \o s
           v == Filtered(u, K)
<1>6. ToSet(retained) \cap ToSet(s) = {}  BY <1>2, <1>3, <1>5
<1>7. u \in Seq(CommandIds) /\ ToSet(u) \subseteq ToSet(retained) \cup ToSet(s) /\ IsInjective(u)
  BY <1>2, <1>5, <1>6, JoinedFacts
<1> HIDE DEF u
<1>8. v \in Seq(CommandIds) /\ ToSet(v) \subseteq ToSet(u) /\ IsInjective(v)  BY <1>7, FilteredFacts
<1> HIDE DEF v
<1>9. retained' = LastOf(v, MaxRetained)  BY <1>4 DEF u, v
<1>10. retained' \in Seq(CommandIds) /\ ToSet(retained') \subseteq ToSet(v) /\ IsInjective(retained')
  BY <1>2, <1>8, <1>9, LastFacts
<1>11. ToSet(retained') \subseteq ToSet(retained) \cup ended  BY <1>5, <1>7, <1>8, <1>10
<1>12. active' \cap ToSet(retained') = {}  BY <1>1, <1>2, <1>11
<1>13. ToSet(retained') \subseteq Named  BY <1>3, <1>11 DEF Named
<1>14. active' \subseteq active /\ \A i \in active \ active' : cmd[i].asked \/ Done(cmd[i])  BY <1>1, <1>3
<1> QED BY <1>1, <1>2, <1>10, <1>12, <1>13, <1>14 DEF TableMoves

LEMMA FormatMoves ==
    ASSUME ManagerInv, NEW c \in Callers, FormatAndRetain(c) PROVE TableMoves
<1> DEFINE i == call[c].id
           rest == Without(retained, i)
<1>1. /\ retained \in Seq(CommandIds) /\ active \in SUBSET CommandIds
      /\ IsInjective(retained) /\ active \cap ToSet(retained) = {} /\ CallerOK(c)
      /\ call[c] \in ManagerCalls /\ call[c].pc = "retain"
  BY DEF ManagerInv, ManagerType, TableOK, FormatAndRetain
<1>2. i \in CommandIds  BY <1>1 DEF CallerOK, TargetOK
<1>3. rest \in Seq(CommandIds) /\ IsInjective(rest) /\ ToSet(rest) \subseteq ToSet(retained) \ {i}
  BY <1>1, FilteredFacts DEF Without
<1>4. call[c].label \in {"exited", "killed", "terminated", "timeout", "terminating"} => cmd[i].asked \/ Done(cmd[i])
  BY <1>1 DEF CallerOK, LabelOK
<1>5. CASE call[c].op = "kill" /\ call[c].label # "terminating"
  <2>1. active' = active \ {i} /\ retained' = rest  BY <1>5 DEF FormatAndRetain
  <2>2. cmd[i].asked \/ Done(cmd[i])  BY <1>1, <1>4, <1>5 DEF CallerOK, LabelOK
  <2> HIDE DEF i, rest
  <2> QED BY <1>1, <1>3, <2>1, <2>2 DEF TableMoves, Named
<1>6. CASE ~(call[c].op = "kill" /\ call[c].label # "terminating")
  <2>1. CASE call[c].label # "running" /\ i \in active
    <3>1. active' = active \ {i} /\ retained' = Append(rest, i)  BY <1>6, <2>1 DEF FormatAndRetain, RetainTerminal
    <3>2. cmd[i].asked \/ Done(cmd[i])
      <4>1. call[c].label # "none"
        BY <1>1, <1>6 DEF CallerOK, LabelOK
      <4> QED BY <1>1, <1>4, <2>1, <4>1 DEF ManagerCalls
    <3> HIDE DEF i, rest
    <3>3. i \notin ToSet(rest)  BY <1>3
    <3>4. /\ retained' \in Seq(CommandIds) /\ IsInjective(retained')
          /\ ToSet(retained') \subseteq ToSet(rest) \cup {i}
      BY <1>2, <1>3, <3>1, <3>3, AppendFacts
    <3>5. active' \cap ToSet(retained') = {}  BY <1>1, <1>3, <3>1, <3>4
    <3>6. ToSet(retained') \subseteq Named  BY <1>3, <3>4, <2>1 DEF Named
    <3>7. active' \subseteq active /\ \A j \in active \ active' : j = i  BY <3>1
    <3> QED BY <3>2, <3>4, <3>5, <3>6, <3>7 DEF TableMoves
  <2>2. CASE ~(call[c].label # "running" /\ i \in active)
    <3>1. UNCHANGED <<active, retained>>  BY <1>6, <2>2 DEF FormatAndRetain, RetainTerminal
    <3> QED BY <3>1, TableStays
  <2> QED BY <2>1, <2>2
<1> QED BY <1>5, <1>6

-----------------------------------------------------------------------------
(* The steps of the callers.                                               *)
LEMMA OneMoves ==
    ASSUME ManagerInv, NEW c \in Callers, NEW k \in ManagerCalls, call' = [call EXCEPT ![c] = k]
    PROVE  /\ call' \in [Callers -> ManagerCalls] /\ call'[c] = k
           /\ call[c].pc # "insert" /\ k.pc # "insert" => OnlyMove({c})
BY DEF ManagerInv, ManagerType, OnlyMove

LEMMA FreedOK == ASSUME NEW c \in Callers, call'[c] = Free PROVE CallerOK(c)'
BY DEF CallerOK, TargetOK, AskedOK, OpOK, LabelOK, Free

(* A caller that ends, whatever it did to the table.                       *)
LEMMA EndKeeps ==
    ASSUME ManagerInv, NEW c \in Callers, call[c].pc # "insert", CallEnds(c), TableMoves,
           UNCHANGED <<cmd, shut, firsts, calls>>
    PROVE  ManagerInv' /\ AllGrow
<1>1. Free \in ManagerCalls  BY DEF Free, ManagerCalls
<1>2. call' = [call EXCEPT ![c] = Free]  BY DEF CallEnds
<1>3. call' \in [Callers -> ManagerCalls] /\ call'[c] = Free /\ OnlyMove({c})
  BY <1>1, <1>2, OneMoves DEF Free
<1>4. CallerOK(c)'  BY <1>3, FreedOK
<1>5. RestTyped  BY <1>3 DEF ManagerInv, ManagerType, RestTyped
<1>6. Cardinality(active') + Cardinality(Starting') < MaxActive + Cardinality(Callers)
  BY <1>3, BoundKept DEF TableMoves, Free
<1> QED BY <1>3, <1>4, <1>5, <1>6, CmdRests, StepKeeps

LEMMA EndsKeep ==
    ASSUME ManagerInv, NEW c \in Callers, SpawnFails(c) \/ InputRefused(c) \/ FormatAndRetain(c)
    PROVE  ManagerInv' /\ AllGrow
<1>1. call[c].pc # "insert" /\ CallEnds(c) /\ UNCHANGED <<cmd, shut, firsts, calls>>
  BY DEF SpawnFails, InputRefused, FormatAndRetain
<1>2. TableMoves
  <2>1. CASE FormatAndRetain(c)  BY <2>1, FormatMoves
  <2>2. CASE ~FormatAndRetain(c)  BY <2>2, TableStays DEF SpawnFails, InputRefused
  <2> QED BY <2>1, <2>2
<1> QED BY <1>1, <1>2, EndKeeps

LEMMA RefusedKeeps ==
    ASSUME ManagerInv, NEW c \in Callers, NEW aged \in BOOLEAN, Refused(c, aged)
    PROVE  ManagerInv' /\ AllGrow
<1>1. Prune(aged) /\ UNCHANGED <<cmd, shut, call, firsts>>  BY DEF Refused
<1>2. TableMoves /\ calls' \in Nat  BY <1>1, PruneMoves
<1>3. OnlyMove({})  BY <1>1 DEF OnlyMove
<1>4. RestTyped  BY <1>1, <1>2 DEF ManagerInv, ManagerType, RestTyped
<1>5. Cardinality(active') + Cardinality(Starting') < MaxActive + Cardinality(Callers)
  BY <1>2, <1>3, BoundKept DEF TableMoves
<1> QED BY <1>1, <1>2, <1>3, <1>4, <1>5, CmdRests, StepKeeps

LEMMA StartCheckKeeps ==
    ASSUME ManagerInv, NEW c \in Callers, NEW aged \in BOOLEAN, StartCheck(c, aged)
    PROVE  ManagerInv' /\ AllGrow
<1>1. Prune(aged) /\ Cardinality(active') < MaxActive /\ call[c].pc = "free" /\ UNCHANGED <<cmd, shut, firsts>>
  BY DEF StartCheck
<1>2. TableMoves /\ calls' \in Nat  BY <1>1, PruneMoves
<1> DEFINE k == [Free EXCEPT !.op = "start", !.pc = "spawn"]
<1>3. call[c] = Free  BY <1>1 DEF ManagerInv, CallerOK, OpOK
<1>4. call' = [call EXCEPT ![c] = k]
  BY <1>3 DEF StartCheck, ManagerInv, ManagerType, ManagerCalls
<1>5. k \in ManagerCalls /\ k.pc = "spawn" /\ k.op = "start" /\ k.label = "none"  BY DEF Free, ManagerCalls
<1> HIDE DEF k
<1>6. call' \in [Callers -> ManagerCalls] /\ call'[c] = k /\ OnlyMove({c})
  BY <1>1, <1>4, <1>5, OneMoves
<1>7. CallerOK(c)'  BY <1>5, <1>6 DEF CallerOK, TargetOK, AskedOK, OpOK, LabelOK
<1>8. RestTyped  BY <1>1, <1>2, <1>6 DEF ManagerInv, ManagerType, RestTyped
<1>9. Cardinality(active') + Cardinality(Starting') < MaxActive + Cardinality(Callers)
  <2>1. Starting' \in SUBSET Callers /\ IsFiniteSet(Callers)  BY ManagerSizes DEF Starting
  <2>2. Cardinality(Starting') \in Nat /\ Cardinality(Starting') <= Cardinality(Callers)
    BY <2>1, FS_Subset, FS_CardinalityType
  <2>3. Cardinality(active') \in Nat
    <3>1. IsFiniteSet(active) /\ active' \in SUBSET active  BY <1>2 DEF ManagerInv, ManagerType, TableMoves
    <3> QED BY <3>1, FS_Subset, FS_CardinalityType
  <2> QED BY <1>1, <2>2, <2>3, StartingFacts
<1> QED BY <1>1, <1>2, <1>6, <1>7, <1>8, <1>9, CmdRests, StepKeeps

LEMMA GetKeeps ==
    ASSUME ManagerInv, NEW c \in Callers, NEW aged \in BOOLEAN, NEW i \in CommandIds,
           NEW op \in {"poll", "kill"}, Get(c, op, i, aged)
    PROVE  ManagerInv' /\ AllGrow
<1>1. Prune(aged) /\ call[c].pc = "free" /\ UNCHANGED <<cmd, shut, firsts>>
      /\ (i \in active' \/ Contains(retained', i))
  BY DEF Get
<1>2. TableMoves /\ calls' \in Nat  BY <1>1, PruneMoves
<1> DEFINE k == [Free EXCEPT !.op = op, !.id = i, !.pc = IF op = "kill" THEN "mark" ELSE "input"]
<1>3. call[c] = Free  BY <1>1 DEF ManagerInv, CallerOK, OpOK
<1>4. call' = [call EXCEPT ![c] = k]
  BY <1>3 DEF Get, ManagerInv, ManagerType, ManagerCalls
<1>5. /\ k \in ManagerCalls /\ k.label = "none" /\ k.id = i /\ k.op = op /\ ~k.alive
      /\ k.pc = IF op = "kill" THEN "mark" ELSE "input"
  BY DEF Free, ManagerCalls
<1> HIDE DEF k
<1>6. call' \in [Callers -> ManagerCalls] /\ call'[c] = k /\ OnlyMove({c})
  BY <1>1, <1>4, <1>5, OneMoves
<1>7. cmd'[i].proc # "none"
  <2>1. i \in Named
    <3>1. CASE i \in active'  BY <3>1, <1>2 DEF TableMoves, Named
    <3>2. CASE Contains(retained', i)
      <4>1. i \in ToSet(retained')
        <5>1. DOMAIN retained' = 1 .. Len(retained')  BY <1>2, LenProperties DEF TableMoves
        <5> QED BY <3>2, <5>1 DEF Contains, ToSet
      <4> QED BY <4>1, <1>2 DEF TableMoves
    <3> QED BY <1>1, <3>1, <3>2
  <2> QED BY <1>1, <2>1 DEF ManagerInv, CommandOK
<1>8. CallerOK(c)'  BY <1>5, <1>6, <1>7 DEF CallerOK, TargetOK, AskedOK, OpOK, LabelOK
<1>9. RestTyped  BY <1>1, <1>2, <1>6 DEF ManagerInv, ManagerType, RestTyped
<1>10. Cardinality(active') + Cardinality(Starting') < MaxActive + Cardinality(Callers)
  BY <1>2, <1>5, <1>6, BoundKept DEF TableMoves
<1> QED BY <1>1, <1>2, <1>6, <1>8, <1>9, <1>10, CmdRests, StepKeeps

-----------------------------------------------------------------------------
(* The steps of one command.                                               *)
GoodNext(i, r, n) ==
    /\ r.proc # "none"
    /\ cmd[i].asked => r.asked
    /\ cmd[i].timedOut => r.timedOut
    /\ Done(cmd[i]) =>
        /\ r.proc = cmd[i].proc
        /\ r.timedOut # cmd[i].timedOut => cmd[i].watchdog = "mark" /\ r.timedOut
    /\ r.proc = "running" => cmd[i].proc = "running"
    /\ r.timedOut => r.asked
    /\ r.seen => Done(r)
    /\ n = 1 => r.seen

CommandSteps == cmd' \in [CommandIds -> CommandRows] /\ firsts' \in [CommandIds -> {0, 1}]
                /\ AllGrow /\ \A i \in CommandIds : Careful(i)

LEMMA CommandStep ==
    ASSUME ManagerInv, NEW i \in CommandIds, NEW r \in CommandRows, NEW n \in {0, 1},
           cmd' = [cmd EXCEPT ![i] = r], firsts' = [firsts EXCEPT ![i] = n],
           cmd[i].proc # "none", GoodNext(i, r, n)
    PROVE  CommandSteps
<1>1. /\ cmd' \in [CommandIds -> CommandRows] /\ firsts' \in [CommandIds -> {0, 1}]
      /\ cmd'[i] = r /\ firsts'[i] = n
      /\ \A j \in CommandIds \ {i} : cmd'[j] = cmd[j] /\ firsts'[j] = firsts[j]
  BY DEF ManagerInv, ManagerType
<1>2. Grows(i) /\ Careful(i)  BY <1>1 DEF Grows, Careful, GoodNext
<1>3. ASSUME NEW j \in CommandIds, j # i PROVE Grows(j) /\ Careful(j)
  <2>1. cmd'[j] = cmd[j] /\ firsts'[j] = firsts[j] /\ CommandOK(j)  BY <1>1, <1>3 DEF ManagerInv
  <2> QED BY <2>1 DEF Grows, Careful, CommandOK
<1> QED BY <1>1, <1>2, <1>3 DEF CommandSteps, AllGrow

LEMMA QuietFirsts ==
    ASSUME ManagerInv, NEW i \in CommandIds, firsts' = firsts
    PROVE  firsts[i] \in {0, 1} /\ firsts' = [firsts EXCEPT ![i] = firsts[i]]
BY DEF ManagerInv, ManagerType

LEMMA RowFacts ==
    ASSUME ManagerInv, NEW i \in CommandIds
    PROVE  /\ cmd[i] \in CommandRows /\ CommandOK(i)
           /\ cmd[i].doomed \in BOOLEAN /\ cmd[i].timedOut \in BOOLEAN /\ cmd[i].asked \in BOOLEAN
           /\ cmd[i].seen \in BOOLEAN
BY DEF ManagerInv, ManagerType, CommandRows

(* Who looks at a command marks it seen when it has ended, and reports the *)
(* end as news if it was not.                                              *)
LEMMA SeenStep ==
    ASSUME ManagerInv, NEW i \in CommandIds, cmd[i].proc # "none",
           cmd' = [cmd EXCEPT ![i] = [cmd[i] EXCEPT !.seen = cmd[i].seen \/ Done(cmd[i])]],
           firsts' = [firsts EXCEPT ![i] = firsts[i] + (IF Done(cmd[i]) /\ ~cmd[i].seen THEN 1 ELSE 0)]
    PROVE  CommandSteps
<1> DEFINE b == cmd[i].seen \/ Done(cmd[i])
           r == [cmd[i] EXCEPT !.seen = b]
           n == firsts[i] + (IF Done(cmd[i]) /\ ~cmd[i].seen THEN 1 ELSE 0)
<1>1. cmd[i] \in CommandRows /\ CommandOK(i)  BY RowFacts
<1>2. b \in BOOLEAN  OBVIOUS
<1>3. b => Done(cmd[i])  BY <1>1 DEF CommandOK
<1>4. n \in {0, 1} /\ (n = 1 => b)
  <2>1. firsts[i] \in {0, 1} /\ (firsts[i] = 1 => cmd[i].seen)  BY <1>1 DEF ManagerInv, ManagerType, CommandOK
  <2>2. CASE Done(cmd[i]) /\ ~cmd[i].seen  BY <2>1, <2>2
  <2>3. CASE ~(Done(cmd[i]) /\ ~cmd[i].seen)
    <3>1. n = firsts[i]  BY <2>1, <2>3
    <3> QED BY <2>1, <3>1
  <2> QED BY <2>2, <2>3
<1>5. /\ cmd' = [cmd EXCEPT ![i] = r] /\ firsts' = [firsts EXCEPT ![i] = n]  OBVIOUS
<1> HIDE DEF b, n
<1>6. /\ r \in CommandRows /\ r.seen = b /\ r.proc = cmd[i].proc
      /\ r.asked = cmd[i].asked /\ r.timedOut = cmd[i].timedOut
  BY <1>1, <1>2 DEF CommandRows
<1>7. GoodNext(i, r, n)
  <2> HIDE DEF r
  <2> QED BY <1>1, <1>3, <1>4, <1>6 DEF GoodNext, CommandOK, Done
<1> HIDE DEF r
<1> QED BY <1>4, <1>5, <1>6, <1>7, CommandStep

LEMMA SignalFacts ==
    ASSUME NEW i \in CommandIds, NEW old \in CommandRows, NEW hard \in BOOLEAN
    PROVE  /\ Asked(old) \in CommandRows /\ Signalled(i, old, hard) \in CommandRows
           /\ Asked(old) = [old EXCEPT !.asked = TRUE]
           /\ \E b \in BOOLEAN : Signalled(i, old, hard) = [old EXCEPT !.doomed = b]
<1> DEFINE b == old.doomed \/ hard \/ i \notin Stubborn
<1>1. b \in BOOLEAN /\ Signalled(i, old, hard) = [old EXCEPT !.doomed = b]  BY DEF Signalled
<1> HIDE DEF b
<1>2. [old EXCEPT !.doomed = b] \in CommandRows  BY <1>1 DEF CommandRows
<1>3. [old EXCEPT !.asked = TRUE] \in CommandRows  BY DEF CommandRows
<1> QED BY <1>1, <1>2, <1>3 DEF Asked

(* What a signal, a mark and the end of the child leave.                   *)
LEMMA MarkStep ==
    ASSUME ManagerInv, NEW i \in CommandIds, NEW r \in CommandRows, cmd[i].proc # "none",
           cmd' = [cmd EXCEPT ![i] = r], firsts' = firsts,
           r.proc = cmd[i].proc, r.seen = cmd[i].seen, cmd[i].asked => r.asked,
           r.timedOut = cmd[i].timedOut \/ (r.timedOut /\ r.asked /\ cmd[i].watchdog = "mark")
    PROVE  CommandSteps
<1>1. CommandOK(i) /\ cmd[i].timedOut \in BOOLEAN  BY RowFacts
<1>2. firsts[i] \in {0, 1} /\ firsts' = [firsts EXCEPT ![i] = firsts[i]]  BY QuietFirsts
<1>3. GoodNext(i, r, firsts[i])  BY <1>1 DEF GoodNext, CommandOK, Done
<1> QED BY <1>2, <1>3, CommandStep

LEMMA LookKeeps ==
    ASSUME ManagerInv, NEW c \in Callers, NEW k \in ManagerCalls, call' = [call EXCEPT ![c] = k],
           call[c].pc # "insert", k.pc \notin {"insert", "spawn"}, CommandSteps,
           UNCHANGED <<active, retained, shut, calls>>, CallerOK(c)'
    PROVE  ManagerInv' /\ AllGrow
<1>1. call' \in [Callers -> ManagerCalls] /\ call'[c] = k /\ OnlyMove({c})  BY OneMoves
<1>2. TableMoves  BY TableStays
<1>3. RestTyped  BY <1>1 DEF ManagerInv, ManagerType, RestTyped, CommandSteps
<1>4. Cardinality(active') + Cardinality(Starting') < MaxActive + Cardinality(Callers)
  BY <1>1, <1>2, BoundKept DEF TableMoves
<1>5. AllGrow /\ \A i \in CommandIds : Careful(i)  BY DEF CommandSteps
<1> QED BY <1>1, <1>2, <1>3, <1>4, <1>5, StepKeeps

(* A caller at work knows its command.                                     *)
LEMMA TargetFacts ==
    ASSUME ManagerInv, NEW c \in Callers, call[c].pc \notin {"free", "spawn"}
    PROVE  /\ call[c].id \in CommandIds /\ cmd[call[c].id].proc # "none"
           /\ call[c] \in ManagerCalls /\ CallerOK(c)
BY DEF ManagerInv, ManagerType, CallerOK, TargetOK

LEMMA ObserveKeepsTable ==
    ASSUME ManagerInv, NEW c \in Callers, Observe(c) PROVE ManagerInv' /\ AllGrow
<1> DEFINE i == call[c].id
           k == [call[c] EXCEPT !.pc = "retain", !.label = Label(cmd[i])]
<1>1. call[c].pc = "input"  BY DEF Observe
<1>2. i \in CommandIds /\ cmd[i].proc # "none" /\ call[c] \in ManagerCalls /\ CallerOK(c)
  BY <1>1, TargetFacts
<1>3. call[c].op # "kill"  BY <1>1, <1>2 DEF CallerOK, OpOK
<1>4. firsts[i] \in {0, 1}  BY <1>2 DEF ManagerInv, ManagerType
<1>5. CommandSteps
  <2>1. /\ cmd' = [cmd EXCEPT ![i] = [cmd[i] EXCEPT !.seen = cmd[i].seen \/ Done(cmd[i])]]
        /\ firsts' = [firsts EXCEPT ![i] = firsts[i] + (IF Done(cmd[i]) /\ ~cmd[i].seen THEN 1 ELSE 0)]
    BY DEF Observe
  <2> HIDE DEF i
  <2> QED BY <1>2, <2>1, SeenStep
<1>6. Label(cmd[i]) \in {"timeout", "running", "terminated", "exited"}
      /\ (Label(cmd[i]) \in {"exited", "terminated"} => Done(cmd[i]))
      /\ (Label(cmd[i]) = "terminated" => cmd[i].proc = "signal")
      /\ (Label(cmd[i]) = "timeout" => cmd[i].timedOut)
  BY DEF Label
<1>7. call' = [call EXCEPT ![c] = k]
  <2>1. call' = [call EXCEPT ![c].pc = "retain", ![c].label = Label(cmd[i])]  BY DEF Observe
  <2>2. call \in [Callers -> ManagerCalls]  BY DEF ManagerInv, ManagerType
  <2> HIDE DEF i
  <2> QED BY <2>1, <2>2
<1>8. /\ k \in ManagerCalls /\ k.pc = "retain" /\ k.label = Label(cmd[i]) /\ k.op = call[c].op /\ k.id = i
  BY <1>2, <1>6 DEF ManagerCalls
<1>9. Grows(i) /\ CommandOK(i)  BY <1>2, <1>5 DEF CommandSteps, AllGrow, ManagerInv
<1> HIDE DEF k
<1>10. call'[c] = k  BY <1>7, <1>8, OneMoves
<1> HIDE DEF i
<1>11. CallerOK(c)'
  <2>0. PICK j, q : j = i /\ q = k  OBVIOUS
  <2>1. /\ call'[c] = q /\ q.pc = "retain" /\ q.op # "kill" /\ q.id = j /\ j \in CommandIds
        /\ cmd[j].proc # "none" /\ Grows(j) /\ CommandOK(j) /\ q.label = Label(cmd[j])
    BY <1>2, <1>3, <1>8, <1>9, <1>10, <2>0
  <2>2. TargetOK(q)'  BY <2>1 DEF TargetOK, Grows
  <2>3. AskedOK(q)' /\ OpOK(q)'  BY <2>1 DEF AskedOK, OpOK
  <2>4. LabelOK(q)'
    <3>0. /\ q.label \in {"timeout", "running", "terminated", "exited"}
          /\ q.label \in {"exited", "terminated"} => Done(cmd[j])
          /\ q.label = "terminated" => cmd[j].proc = "signal"
          /\ q.label = "timeout" => cmd[j].timedOut
      BY <1>6, <1>8, <2>0
    <3>1. q.label \in {"exited", "terminated"} => Done(cmd[j])'  BY <2>1, <3>0 DEF Grows, Done
    <3>2. q.label = "terminated" => cmd'[j].proc = "signal"  BY <2>1, <3>0 DEF Grows
    <3>3. q.label = "timeout" => cmd'[j].asked  BY <2>1, <3>0 DEF Grows, CommandOK
    <3> QED BY <2>1, <3>0, <3>1, <3>2, <3>3 DEF LabelOK
  <2> QED BY <2>1, <2>2, <2>3, <2>4 DEF CallerOK
<1>12. UNCHANGED <<active, retained, shut, calls>>  BY DEF Observe
<1> QED BY <1>1, <1>5, <1>7, <1>8, <1>11, <1>12, LookKeeps

LEMMA KillDecideKeeps ==
    ASSUME ManagerInv, NEW c \in Callers, KillDecide(c) PROVE ManagerInv' /\ AllGrow
<1> DEFINE i == call[c].id
           label == IF ~call[c].alive THEN "exited"
                    ELSE IF ~Done(cmd[i]) THEN "terminating"
                    ELSE IF call[c].force THEN "killed" ELSE "terminated"
           k == [call[c] EXCEPT !.pc = "retain", !.label = label]
<1>1. call[c].pc = "decide"  BY DEF KillDecide
<1>2. i \in CommandIds /\ cmd[i].proc # "none" /\ call[c] \in ManagerCalls /\ CallerOK(c)
  BY <1>1, TargetFacts
<1>3. /\ call[c].op = "kill" /\ (call[c].alive => cmd[i].asked) /\ (~call[c].alive => Done(cmd[i]))
  BY <1>1, <1>2 DEF CallerOK, OpOK, AskedOK
<1>4. CommandSteps
  <2>1. /\ cmd' = [cmd EXCEPT ![i] = [cmd[i] EXCEPT !.seen = cmd[i].seen \/ Done(cmd[i])]]
        /\ firsts' = [firsts EXCEPT ![i] = firsts[i] + (IF Done(cmd[i]) /\ ~cmd[i].seen THEN 1 ELSE 0)]
    BY DEF KillDecide
  <2> HIDE DEF i
  <2> QED BY <1>2, <2>1, SeenStep
<1>5. /\ label \in {"exited", "killed", "terminated", "terminating"}
      /\ label # "terminating" => Done(cmd[i])
      /\ label = "terminating" => cmd[i].asked
  BY <1>3
<1>6. call' = [call EXCEPT ![c] = k]
  <2>1. call' = [call EXCEPT ![c].pc = "retain", ![c].label = label]  BY DEF KillDecide
  <2>2. call \in [Callers -> ManagerCalls]  BY DEF ManagerInv, ManagerType
  <2> HIDE DEF i, label
  <2> QED BY <2>1, <2>2
<1> HIDE DEF label
<1>7. k \in ManagerCalls /\ k.pc = "retain" /\ k.label = label /\ k.op = "kill" /\ k.id = i
  BY <1>2, <1>3, <1>5 DEF ManagerCalls
<1>8. Grows(i)  BY <1>2, <1>4 DEF CommandSteps, AllGrow
<1> HIDE DEF k
<1>9. call'[c] = k  BY <1>6, <1>7, OneMoves
<1> HIDE DEF i
<1>10. CallerOK(c)'
  <2>0. PICK j, q : j = i /\ q = k  OBVIOUS
  <2>1. /\ call'[c] = q /\ q.pc = "retain" /\ q.op = "kill" /\ q.id = j /\ j \in CommandIds
        /\ cmd[j].proc # "none" /\ Grows(j)
        /\ q.label \in {"exited", "killed", "terminated", "terminating"}
        /\ q.label # "terminating" => Done(cmd[j])
        /\ q.label = "terminating" => cmd[j].asked
    BY <1>2, <1>5, <1>7, <1>8, <1>9, <2>0
  <2>2. TargetOK(q)'  BY <2>1 DEF TargetOK, Grows
  <2>3. AskedOK(q)' /\ OpOK(q)'  BY <2>1 DEF AskedOK, OpOK
  <2>4. LabelOK(q)'
    <3>1. q.label # "terminating" => Done(cmd[j])'  BY <2>1 DEF Grows, Done
    <3>2. q.label = "terminating" => cmd'[j].asked  BY <2>1 DEF Grows
    <3> QED BY <2>1, <3>1, <3>2 DEF LabelOK
  <2> QED BY <2>1, <2>2, <2>3, <2>4 DEF CallerOK
<1>11. UNCHANGED <<active, retained, shut, calls>>  BY DEF KillDecide
<1> QED BY <1>1, <1>4, <1>6, <1>7, <1>10, <1>11, LookKeeps

LEMMA RestSteps == ASSUME ManagerInv, cmd' = cmd, firsts' = firsts PROVE CommandSteps
BY CmdRests DEF CommandSteps, ManagerInv, ManagerType

(* A caller that is killing goes on.                                       *)
LEMMA KillingOK ==
    ASSUME NEW c \in Callers, NEW i \in CommandIds, NEW q, call'[c] = q,
           q.pc \in {"await", "decide"}, q.op = "kill", q.id = i, q.label = "none",
           cmd[i].proc # "none", Grows(i),
           q.pc = "await" => q.alive, q.alive => cmd'[i].asked, ~q.alive => Done(cmd[i])
    PROVE  CallerOK(c)'
<1>1. TargetOK(q)'  BY DEF TargetOK, Grows
<1>2. Done(cmd[i]) => Done(cmd[i])'  BY DEF Grows, Done
<1>3. AskedOK(q)' /\ OpOK(q)' /\ LabelOK(q)'  BY <1>2 DEF AskedOK, OpOK, LabelOK
<1> QED BY <1>1, <1>3 DEF CallerOK

LEMMA KillMarkKeeps ==
    ASSUME ManagerInv, NEW c \in Callers, NEW hard \in BOOLEAN, KillMark(c, hard)
    PROVE  ManagerInv' /\ AllGrow
<1>1. call[c].pc = "mark" /\ UNCHANGED <<active, retained, shut, firsts, calls>>  BY DEF KillMark
<1>2. PICK i : i = call[c].id  OBVIOUS
<1>3. i \in CommandIds /\ cmd[i].proc # "none" /\ call[c] \in ManagerCalls /\ CallerOK(c)
  BY <1>1, <1>2, TargetFacts
<1>4. call[c].op = "kill" /\ call[c].label = "none" /\ ~call[c].alive
  BY <1>1, <1>3 DEF CallerOK, OpOK, AskedOK
<1>5. call \in [Callers -> ManagerCalls] /\ cmd[i] \in CommandRows  BY <1>3, RowFacts DEF ManagerInv, ManagerType
<1>6. CASE Done(cmd[i])
  <2>1. cmd' = cmd /\ call' = [call EXCEPT ![c].pc = "decide"]  BY <1>2, <1>6 DEF KillMark, CallAt
  <2>2. PICK q : q = [call[c] EXCEPT !.pc = "decide"]  OBVIOUS
  <2>3. q \in ManagerCalls /\ call' = [call EXCEPT ![c] = q]
    BY <1>3, <1>5, <2>1, <2>2 DEF ManagerCalls
  <2>4. q.pc = "decide" /\ q.op = "kill" /\ q.id = i /\ q.label = "none" /\ ~q.alive
    BY <1>2, <1>3, <1>4, <2>2 DEF ManagerCalls
  <2>5. CommandSteps /\ Grows(i)  BY <1>1, <1>3, <2>1, RestSteps DEF CommandSteps, AllGrow
  <2>6. call'[c] = q  BY <2>3, OneMoves
  <2>7. CallerOK(c)'  BY <1>3, <1>6, <2>4, <2>5, <2>6, KillingOK
  <2> QED BY <1>1, <2>3, <2>4, <2>5, <2>7, LookKeeps
<1>7. CASE ~Done(cmd[i])
  <2>1. /\ cmd' = [cmd EXCEPT ![i] = Signalled(i, Asked(cmd[i]), hard)]
        /\ call' = [call EXCEPT ![c].pc = "await", ![c].alive = TRUE, ![c].force = hard]
    BY <1>2, <1>7 DEF KillMark
  <2>2. PICK q : q = [call[c] EXCEPT !.pc = "await", !.alive = TRUE, !.force = hard]  OBVIOUS
  <2>3. call' = [call EXCEPT ![c] = q]  BY <1>5, <2>1, <2>2
  <2>4. q \in ManagerCalls /\ q.pc = "await" /\ q.op = "kill" /\ q.id = i /\ q.label = "none" /\ q.alive
    BY <1>2, <1>3, <1>4, <2>2 DEF ManagerCalls
  <2>5. PICK r : r = Signalled(i, Asked(cmd[i]), hard)  OBVIOUS
  <2>6. /\ r \in CommandRows /\ r.proc = cmd[i].proc /\ r.seen = cmd[i].seen /\ r.asked
        /\ r.timedOut = cmd[i].timedOut
    <3>1. PICK a : a = Asked(cmd[i])  OBVIOUS
    <3>2. a \in CommandRows /\ a = [cmd[i] EXCEPT !.asked = TRUE]  BY <1>3, <1>5, <3>1, SignalFacts
    <3>3. a.proc = cmd[i].proc /\ a.seen = cmd[i].seen /\ a.asked /\ a.timedOut = cmd[i].timedOut
      BY <1>5, <3>2 DEF CommandRows
    <3>4. r \in CommandRows /\ \E b \in BOOLEAN : r = [a EXCEPT !.doomed = b]
      <4>1. /\ Signalled(i, a, hard) \in CommandRows
            /\ \E b \in BOOLEAN : Signalled(i, a, hard) = [a EXCEPT !.doomed = b]
        <5>1. i \in CommandIds /\ a \in CommandRows /\ hard \in BOOLEAN  BY <1>3, <3>2
        <5> QED BY <5>1, SignalFacts, Zenon
      <4>2. r = Signalled(i, a, hard)  BY <2>5, <3>1
      <4> QED BY <4>1, <4>2
    <3>5. r.proc = a.proc /\ r.seen = a.seen /\ r.asked = a.asked /\ r.timedOut = a.timedOut
      BY <3>2, <3>4 DEF CommandRows
    <3> QED BY <3>3, <3>4, <3>5
  <2>7. cmd' = [cmd EXCEPT ![i] = r]  BY <2>1, <2>5
  <2>8. CommandSteps  BY <1>1, <1>3, <2>6, <2>7, MarkStep
  <2>9. Grows(i)  BY <1>3, <2>8 DEF CommandSteps, AllGrow
  <2>10. call'[c] = q  BY <2>3, <2>4, OneMoves
  <2>11. cmd'[i].asked  BY <1>3, <2>6, <2>7 DEF ManagerInv, ManagerType
  <2>12. CallerOK(c)'  BY <1>3, <2>4, <2>9, <2>10, <2>11, KillingOK
  <2> QED BY <1>1, <2>3, <2>4, <2>8, <2>12, LookKeeps
<1> QED BY <1>6, <1>7

LEMMA KillAwaitKeeps ==
    ASSUME ManagerInv, NEW c \in Callers, KillAwait(c)
    PROVE  ManagerInv' /\ AllGrow
<1>1. call[c].pc = "await" /\ UNCHANGED <<active, retained, shut, firsts, calls>>  BY DEF KillAwait
<1>2. PICK i : i = call[c].id  OBVIOUS
<1>3. i \in CommandIds /\ cmd[i].proc # "none" /\ call[c] \in ManagerCalls /\ CallerOK(c)
  BY <1>1, <1>2, TargetFacts
<1>4. call[c].op = "kill" /\ call[c].label = "none" /\ call[c].alive /\ cmd[i].asked
  BY <1>1, <1>2, <1>3 DEF CallerOK, OpOK, AskedOK
<1>5. call \in [Callers -> ManagerCalls] /\ cmd[i] \in CommandRows  BY <1>3, RowFacts DEF ManagerInv, ManagerType
<1>6. CASE ~(~Done(cmd[i]) /\ ~call[c].force)
  <2>1. cmd' = cmd /\ call' = [call EXCEPT ![c].pc = "decide"]  BY <1>2, <1>6 DEF KillAwait, CallAt
  <2>2. PICK q : q = [call[c] EXCEPT !.pc = "decide"]  OBVIOUS
  <2>3. q \in ManagerCalls /\ call' = [call EXCEPT ![c] = q]
    BY <1>3, <1>5, <2>1, <2>2 DEF ManagerCalls
  <2>4. q.pc = "decide" /\ q.op = "kill" /\ q.id = i /\ q.label = "none" /\ q.alive
    BY <1>2, <1>3, <1>4, <2>2 DEF ManagerCalls
  <2>5. CommandSteps /\ Grows(i)  BY <1>1, <1>3, <2>1, RestSteps DEF CommandSteps, AllGrow
  <2>6. call'[c] = q  BY <2>3, OneMoves
  <2>7. cmd'[i].asked  BY <1>4, <2>1
  <2>8. CallerOK(c)'  BY <1>3, <2>4, <2>5, <2>6, <2>7, KillingOK
  <2> QED BY <1>1, <2>3, <2>4, <2>5, <2>8, LookKeeps
<1>7. CASE ~Done(cmd[i]) /\ ~call[c].force
  <2>1. /\ cmd' = [cmd EXCEPT ![i] = Signalled(i, cmd[i], TRUE)]
        /\ call' = [call EXCEPT ![c].force = TRUE]
    BY <1>2, <1>7 DEF KillAwait
  <2>2. PICK q : q = [call[c] EXCEPT !.force = TRUE]  OBVIOUS
  <2>3. call' = [call EXCEPT ![c] = q]  BY <1>5, <2>1, <2>2
  <2>4. q \in ManagerCalls /\ q.pc = "await" /\ q.op = "kill" /\ q.id = i /\ q.label = "none" /\ q.alive
    BY <1>1, <1>2, <1>3, <1>4, <2>2 DEF ManagerCalls
  <2>5. PICK r : r = Signalled(i, cmd[i], TRUE)  OBVIOUS
  <2>6. r \in CommandRows /\ \E b \in BOOLEAN : r = [cmd[i] EXCEPT !.doomed = b]
    BY <1>3, <1>5, <2>5, SignalFacts
  <2>7. r.proc = cmd[i].proc /\ r.seen = cmd[i].seen /\ r.asked = cmd[i].asked /\ r.timedOut = cmd[i].timedOut
    BY <1>5, <2>6 DEF CommandRows
  <2>8. cmd' = [cmd EXCEPT ![i] = r]  BY <2>1, <2>5
  <2>9. CommandSteps  BY <1>1, <1>3, <2>6, <2>7, <2>8, MarkStep
  <2>10. Grows(i)  BY <1>3, <2>9 DEF CommandSteps, AllGrow
  <2>11. call'[c] = q  BY <2>3, <2>4, OneMoves
  <2>12. cmd'[i].asked  BY <1>3, <1>4, <2>10 DEF Grows
  <2>13. CallerOK(c)'  BY <1>3, <2>4, <2>10, <2>11, <2>12, KillingOK
  <2> QED BY <1>1, <2>3, <2>4, <2>9, <2>13, LookKeeps
<1> QED BY <1>6, <1>7

-----------------------------------------------------------------------------
(* The watchdog, the child, and a close.                                   *)
LEMMA AloneKeeps ==
    ASSUME ManagerInv, CommandSteps, UNCHANGED <<active, retained, call>>,
           shut' \in BOOLEAN, calls' \in Nat
    PROVE  ManagerInv' /\ AllGrow
<1>1. TableMoves /\ OnlyMove({})  BY TableStays DEF OnlyMove
<1>2. RestTyped  BY DEF ManagerInv, ManagerType, RestTyped, CommandSteps
<1>3. Cardinality(active') + Cardinality(Starting') < MaxActive + Cardinality(Callers)
  BY <1>1, BoundKept DEF TableMoves
<1>4. AllGrow /\ \A i \in CommandIds : Careful(i)  BY DEF CommandSteps
<1> QED BY <1>1, <1>2, <1>3, <1>4, StepKeeps

LEMMA WatchdogKeeps ==
    ASSUME ManagerInv, NEW i \in CommandIds, Watchdog(i) PROVE ManagerInv' /\ AllGrow
<1>1. UNCHANGED <<active, retained, shut, call, firsts, calls>>
      /\ shut' \in BOOLEAN /\ calls' \in Nat
  BY DEF Watchdog, WatchdogSees, WatchdogMarks, ManagerInv, ManagerType
<1>2. cmd \in [CommandIds -> CommandRows] /\ cmd[i] \in CommandRows /\ CommandOK(i)
  BY RowFacts DEF ManagerInv, ManagerType
<1>3. CASE WatchdogSees(i)
  <2>1. PICK r : r = [cmd[i] EXCEPT !.watchdog = "mark"]  OBVIOUS
  <2>2. cmd' = [cmd EXCEPT ![i] = r]  BY <1>2, <1>3, <2>1 DEF WatchdogSees
  <2>3. /\ r \in CommandRows /\ r.proc = cmd[i].proc /\ r.seen = cmd[i].seen
        /\ r.asked = cmd[i].asked /\ r.timedOut = cmd[i].timedOut
    BY <1>2, <2>1 DEF CommandRows
  <2>4. cmd[i].proc # "none"  BY <1>3 DEF WatchdogSees, Alive
  <2>5. CommandSteps  BY <1>1, <2>2, <2>3, <2>4, MarkStep
  <2> QED BY <1>1, <2>5, AloneKeeps
<1>4. CASE WatchdogMarks(i)
  <2>1. PICK a, s : a = Asked(cmd[i]) /\ s = Signalled(i, a, FALSE)  OBVIOUS
  <2>2. a \in CommandRows /\ a = [cmd[i] EXCEPT !.asked = TRUE]
    BY <1>2, <2>1, SignalFacts
  <2>3. s \in CommandRows /\ \E b \in BOOLEAN : s = [a EXCEPT !.doomed = b]
    <3>1. /\ Signalled(i, a, FALSE) \in CommandRows
          /\ \E b \in BOOLEAN : Signalled(i, a, FALSE) = [a EXCEPT !.doomed = b]
      BY <2>2, SignalFacts
    <3> QED BY <2>1, <3>1
  <2>4. PICK r : r = [s EXCEPT !.timedOut = TRUE, !.watchdog = "ended"]  OBVIOUS
  <2>5. cmd' = [cmd EXCEPT ![i] = r]  BY <1>4, <2>1, <2>4 DEF WatchdogMarks
  <2>6. a.proc = cmd[i].proc /\ a.seen = cmd[i].seen /\ a.asked  BY <1>2, <2>2 DEF CommandRows
  <2>7. s.proc = a.proc /\ s.seen = a.seen /\ s.asked = a.asked  BY <2>2, <2>3 DEF CommandRows
  <2>8. r \in CommandRows /\ r.proc = s.proc /\ r.seen = s.seen /\ r.asked = s.asked /\ r.timedOut
    BY <2>3, <2>4 DEF CommandRows
  <2>9. cmd[i].watchdog = "mark"  BY <1>4 DEF WatchdogMarks
  <2>10. CASE cmd[i].proc # "none"
    <3>1. CommandSteps  BY <1>1, <2>5, <2>6, <2>7, <2>8, <2>9, <2>10, MarkStep
    <3> QED BY <1>1, <3>1, AloneKeeps
  <2> QED BY <2>10, <2>9, <1>2 DEF CommandOK
<1> QED BY <1>3, <1>4 DEF Watchdog

LEMMA ChildKeeps ==
    ASSUME ManagerInv, NEW i \in CommandIds, NEW how \in {"zero", "signal"}, ChildEnds(i, how)
    PROVE  ManagerInv' /\ AllGrow
<1>1. /\ UNCHANGED <<active, retained, shut, call, firsts, calls>> /\ shut' \in BOOLEAN /\ calls' \in Nat
      /\ cmd[i].proc = "running"
  BY DEF ChildEnds, Alive, ManagerInv, ManagerType
<1>2. cmd \in [CommandIds -> CommandRows] /\ cmd[i] \in CommandRows /\ CommandOK(i)
  BY RowFacts DEF ManagerInv, ManagerType
<1>3. PICK r : r = [cmd[i] EXCEPT !.proc = how]  OBVIOUS
<1>4. cmd' = [cmd EXCEPT ![i] = r]  BY <1>2, <1>3 DEF ChildEnds
<1>5. /\ r \in CommandRows /\ r.proc = how /\ r.seen = cmd[i].seen
      /\ r.asked = cmd[i].asked /\ r.timedOut = cmd[i].timedOut
  BY <1>2, <1>3 DEF CommandRows
<1>6. ~Done(cmd[i]) /\ Done(r)  BY <1>1, <1>5 DEF Done
<1>7. firsts[i] \in {0, 1} /\ firsts' = [firsts EXCEPT ![i] = firsts[i]]  BY <1>1, QuietFirsts
<1>8. GoodNext(i, r, firsts[i])  BY <1>1, <1>2, <1>5, <1>6 DEF GoodNext, CommandOK
<1>9. CommandSteps  BY <1>1, <1>4, <1>5, <1>7, <1>8, CommandStep
<1> QED BY <1>1, <1>9, AloneKeeps

LEMMA CloseKeeps ==
    ASSUME ManagerInv, NEW c \in Callers, Close(c) PROVE ManagerInv' /\ AllGrow
<1>1. /\ UNCHANGED <<active, retained, call, firsts>> /\ shut' = TRUE /\ calls' = calls + 1 /\ calls \in Nat
      /\ firsts \in [CommandIds -> {0, 1}]
  BY DEF Close, ManagerInv, ManagerType
<1>2. ASSUME NEW i \in CommandIds
      PROVE  cmd'[i] \in CommandRows /\ Grows(i) /\ Careful(i)
  <2>1. cmd[i] \in CommandRows /\ CommandOK(i)  BY RowFacts
  <2>2. CASE i \notin active \/ Done(cmd[i])
    <3>1. cmd'[i] = cmd[i]  BY <2>2 DEF Close
    <3> QED BY <1>1, <2>1, <3>1 DEF Grows, Careful, CommandOK
  <2>3. CASE i \in active /\ ~Done(cmd[i])
    <3>1. PICK a, s : a = Asked(cmd[i]) /\ s = Signalled(i, a, FALSE)  OBVIOUS
    <3>2. a \in CommandRows /\ a = [cmd[i] EXCEPT !.asked = TRUE]  BY <2>1, <3>1, SignalFacts
    <3>3. s \in CommandRows /\ \E b \in BOOLEAN : s = [a EXCEPT !.doomed = b]
      <4>1. /\ Signalled(i, a, FALSE) \in CommandRows
            /\ \E b \in BOOLEAN : Signalled(i, a, FALSE) = [a EXCEPT !.doomed = b]
        BY <3>2, SignalFacts
      <4> QED BY <3>1, <4>1
    <3>4. a.proc = cmd[i].proc /\ a.seen = cmd[i].seen /\ a.asked /\ a.timedOut = cmd[i].timedOut
      BY <2>1, <3>2 DEF CommandRows
    <3>5. s.proc = a.proc /\ s.seen = a.seen /\ s.asked = a.asked /\ s.timedOut = a.timedOut
      BY <3>2, <3>3 DEF CommandRows
    <3>6. cmd'[i] = s  BY <2>3, <3>1 DEF Close
    <3>7. cmd[i].proc # "none" /\ cmd[i].proc = "running"
      <4>1. i \in Named  BY <2>3 DEF Named
      <4> QED BY <2>1, <2>3, <4>1 DEF CommandOK, Done
    <3>8. ~Done(s) /\ ~cmd[i].seen /\ firsts[i] # 1 /\ firsts'[i] = firsts[i]
      BY <1>1, <2>1, <2>3, <3>4, <3>5 DEF CommandOK, Done
    <3>9. Grows(i)  BY <2>3, <3>4, <3>5, <3>6, <3>7 DEF Grows
    <3>10. Careful(i)  BY <3>4, <3>5, <3>6, <3>7, <3>8 DEF Careful
    <3> QED BY <3>3, <3>6, <3>9, <3>10
  <2> QED BY <2>2, <2>3
<1>3. cmd' \in [CommandIds -> CommandRows]
  <2>1. cmd' = [i \in CommandIds |-> cmd'[i]]  BY DEF Close
  <2> QED BY <1>2, <2>1
<1>4. CommandSteps  BY <1>1, <1>2, <1>3 DEF CommandSteps, AllGrow
<1>5. shut' \in BOOLEAN /\ calls' \in Nat  BY <1>1
<1> QED BY <1>1, <1>4, <1>5, AloneKeeps

-----------------------------------------------------------------------------
(* A command is started, and enters the table.                             *)
LEMMA SpawnKeeps ==
    ASSUME ManagerInv, NEW c \in Callers, Spawn(c) PROVE ManagerInv' /\ AllGrow
<1>1. PICK i \in CommandIds :
        /\ cmd[i].proc = "none"
        /\ cmd' = [cmd EXCEPT ![i] = [Unborn EXCEPT !.proc = "running", !.watchdog = "watch"]]
        /\ call' = [call EXCEPT ![c].pc = "insert", ![c].id = i]
  BY DEF Spawn
<1>2. call[c].pc = "spawn" /\ UNCHANGED <<active, retained, shut, firsts, calls>>  BY DEF Spawn
<1>3. /\ ManagerType /\ CommandOK(i) /\ CallerOK(c) /\ call[c] \in ManagerCalls
      /\ call \in [Callers -> ManagerCalls] /\ cmd \in [CommandIds -> CommandRows]
  BY DEF ManagerInv, ManagerType
<1>4. PICK r : r = [Unborn EXCEPT !.proc = "running", !.watchdog = "watch"]  OBVIOUS
<1>5. r \in CommandRows /\ r.proc = "running" /\ ~r.timedOut /\ ~r.seen /\ r.watchdog = "watch"
  BY <1>4 DEF Unborn, CommandRows
<1>6. cmd' = [cmd EXCEPT ![i] = r]  BY <1>1, <1>4
<1>7. cmd' \in [CommandIds -> CommandRows] /\ cmd'[i] = r /\ \A j \in CommandIds \ {i} : cmd'[j] = cmd[j]
  BY <1>3, <1>5, <1>6
<1>8. PICK q : q = [call[c] EXCEPT !.pc = "insert", !.id = i]  OBVIOUS
<1>9. call' = [call EXCEPT ![c] = q]  BY <1>1, <1>3, <1>8
<1>10. q \in ManagerCalls /\ q.pc = "insert" /\ q.id = i /\ q.op # "kill" /\ q.label = "none"
  <2>1. call[c].op # "kill" /\ call[c].label = "none"  BY <1>2, <1>3 DEF CallerOK, OpOK
  <2> QED BY <2>1, <1>3, <1>8 DEF ManagerCalls
<1>11. /\ call' \in [Callers -> ManagerCalls] /\ call'[c] = q
       /\ \A d \in Callers \ {c} : call'[d] = call[d]
  BY <1>3, <1>9, <1>10
<1>12. AllGrow
  <2> SUFFICES ASSUME NEW j \in CommandIds PROVE Grows(j)  BY DEF AllGrow
  <2>1. CASE j = i  BY <2>1, <1>1 DEF Grows
  <2>2. CASE j # i
    <3>1. cmd'[j] = cmd[j]  BY <2>2, <1>7
    <3> QED BY <3>1 DEF Grows
  <2> QED BY <2>1, <2>2
<1>13. i \notin Named  BY <1>1, <1>3 DEF CommandOK
<1>14. Named' = Named  BY <1>2 DEF Named
<1>15. ManagerType'  BY <1>2, <1>3, <1>7, <1>11 DEF ManagerType
<1>16. TableOK'
  <2>1. Starting' = Starting
    <3>1. \A d \in Callers : call'[d].pc \in {"spawn", "insert"} <=> call[d].pc \in {"spawn", "insert"}
      BY <1>2, <1>10, <1>11
    <3> QED BY <3>1 DEF Starting
  <2>2. TableOK  BY DEF ManagerInv
  <2> QED BY <1>2, <2>1, <2>2 DEF TableOK
<1>17. InsertsApart'
  <2>1. \A d \in Callers \ {c} : call[d].pc = "insert" => call[d].id # i
    <3> SUFFICES ASSUME NEW d \in Callers \ {c}, call[d].pc = "insert" PROVE call[d].id # i  OBVIOUS
    <3>1. cmd[call[d].id].proc # "none"  BY TargetFacts
    <3> QED BY <3>1, <1>1
  <2> QED BY <2>1, <1>10, <1>11 DEF ManagerInv, InsertsApart
<1>18. ASSUME NEW j \in CommandIds PROVE CommandOK(j)'
  <2>1. CASE j = i
    <3>1. Inserting(c, i)'  BY <1>10, <1>11 DEF Inserting
    <3>2. firsts'[i] # 1
      <4>1. ~cmd[i].seen  BY <1>1, <1>3 DEF CommandOK, Done
      <4> QED BY <4>1, <1>2, <1>3 DEF CommandOK
    <3> QED BY <2>1, <3>1, <3>2, <1>5, <1>7, <1>13, <1>14 DEF CommandOK
  <2>2. CASE j # i
    <3>1. cmd'[j] = cmd[j] /\ CommandOK(j) /\ firsts' = firsts /\ active' = active
      BY <2>2, <1>2, <1>7 DEF ManagerInv
    <3>2. \A d \in Callers : Inserting(d, j) => Inserting(d, j)'  BY <1>2, <1>11 DEF Inserting
    <3>3. Alive(j)' <=> Alive(j)  BY <3>1 DEF Alive
    <3>4. Done(cmd[j])' <=> Done(cmd[j])  BY <3>1 DEF Done
    <3> QED BY <3>1, <3>2, <3>3, <3>4, <1>14 DEF CommandOK
  <2> QED BY <2>1, <2>2
<1>19. ASSUME NEW d \in Callers PROVE CallerOK(d)'
  <2>1. CASE d = c
    <3>1. TargetOK(q)' /\ AskedOK(q)' /\ OpOK(q)' /\ LabelOK(q)'
      BY <1>5, <1>7, <1>10 DEF TargetOK, AskedOK, OpOK, LabelOK
    <3> QED BY <2>1, <3>1, <1>10, <1>11, <1>13, <1>14 DEF CallerOK
  <2>2. CASE d # c
    <3>1. call'[d] = call[d] /\ CallerOK(d)  BY <2>2, <1>11 DEF ManagerInv
    <3>2. call[d].pc = "insert" => call[d].id \notin Named'  BY <3>1, <1>14 DEF CallerOK
    <3> QED BY <3>1, <3>2, <1>12, CallerKept
  <2> QED BY <2>1, <2>2
<1> QED BY <1>12, <1>15, <1>16, <1>17, <1>18, <1>19 DEF ManagerInv

LEMMA InsertKeeps ==
    ASSUME ManagerInv, NEW c \in Callers, Insert(c) PROVE ManagerInv' /\ AllGrow
<1>1. call[c].pc = "insert" /\ UNCHANGED <<cmd, retained, shut, firsts, calls>>  BY DEF Insert
<1>2. PICK i : i = call[c].id  OBVIOUS
<1>3. /\ i \in CommandIds /\ cmd[i].proc # "none" /\ call[c] \in ManagerCalls /\ CallerOK(c)
      /\ i \notin Named /\ call[c].op # "kill" /\ call[c].label = "none"
  <2>1. i \in CommandIds /\ cmd[i].proc # "none" /\ call[c] \in ManagerCalls /\ CallerOK(c)
    BY <1>1, <1>2, TargetFacts
  <2> QED BY <2>1, <1>1, <1>2 DEF CallerOK, OpOK
<1>4. /\ call \in [Callers -> ManagerCalls] /\ active \in SUBSET CommandIds /\ IsFiniteSet(active)
      /\ retained \in Seq(CommandIds) /\ IsInjective(retained) /\ active \cap ToSet(retained) = {}
      /\ Cardinality(active) + Cardinality(Starting) < MaxActive + Cardinality(Callers)
  BY DEF ManagerInv, ManagerType, TableOK
<1>5. active' = active \cup {i}  BY <1>2 DEF Insert
<1>6. PICK q : q = [call[c] EXCEPT !.pc = "input"]  OBVIOUS
<1>7. call' = [call EXCEPT ![c] = q]  BY <1>4, <1>6 DEF Insert, CallAt
<1>8. q \in ManagerCalls /\ q.pc = "input" /\ q.id = i /\ q.op # "kill" /\ q.label = "none"
  BY <1>2, <1>3, <1>6 DEF ManagerCalls
<1>9. /\ call' \in [Callers -> ManagerCalls] /\ call'[c] = q
      /\ \A d \in Callers \ {c} : call'[d] = call[d]
  BY <1>4, <1>7, <1>8
<1>10. AllGrow  BY <1>1, CmdStays
<1>11. Named' = Named \cup {i}  BY <1>1, <1>5 DEF Named
<1>12. IsFiniteSet(active') /\ Cardinality(active') = Cardinality(active) + 1
  <2>1. i \notin active  BY <1>3 DEF Named
  <2> QED BY <2>1, <1>4, <1>5, FS_AddElement
<1>13. ManagerType'  BY <1>1, <1>3, <1>4, <1>5, <1>9, <1>12 DEF ManagerInv, ManagerType
<1>14. TableOK'
  <2>1. Starting' = Starting \ {c} /\ c \in Starting  BY <1>1, <1>8, <1>9 DEF Starting
  <2>2. Cardinality(Starting') = Cardinality(Starting) - 1  BY <2>1, StartingFacts, FS_RemoveElement
  <2>3. Cardinality(active) \in Nat  BY <1>4, FS_CardinalityType
  <2>4. Cardinality(active') + Cardinality(Starting') < MaxActive + Cardinality(Callers)
    BY <1>4, <1>12, <2>2, <2>3, StartingFacts
  <2>5. active' \cap ToSet(retained') = {}  BY <1>1, <1>3, <1>4, <1>5 DEF Named
  <2> QED BY <1>1, <1>4, <2>4, <2>5 DEF TableOK
<1>15. InsertsApart'  BY <1>8, <1>9 DEF ManagerInv, InsertsApart
<1>16. ASSUME NEW j \in CommandIds PROVE CommandOK(j)'
  <2>1. CommandOK(j) /\ cmd' = cmd /\ firsts' = firsts  BY <1>1 DEF ManagerInv
  <2>2. i \in active' /\ \A k \in active : k \in active'  BY <1>5
  <2>3. \A d \in Callers : Inserting(d, j) => Inserting(d, j)' \/ j = i
    <3> SUFFICES ASSUME NEW d \in Callers, Inserting(d, j) PROVE Inserting(d, j)' \/ j = i  OBVIOUS
    <3>1. CASE d = c  BY <3>1, <1>2 DEF Inserting
    <3>2. CASE d # c  BY <3>2, <1>9 DEF Inserting
    <3> QED BY <3>1, <3>2
  <2>4. j \in Named' => cmd[j].proc # "none"  BY <2>1, <1>3, <1>11 DEF CommandOK
  <2> QED BY <2>1, <2>2, <2>3, <2>4 DEF CommandOK, Alive, Done
<1>17. ASSUME NEW d \in Callers PROVE CallerOK(d)'
  <2>1. CASE d = c
    <3>1. TargetOK(q)' /\ AskedOK(q)' /\ OpOK(q)' /\ LabelOK(q)'
      BY <1>1, <1>3, <1>8 DEF TargetOK, AskedOK, OpOK, LabelOK
    <3> QED BY <2>1, <3>1, <1>8, <1>9 DEF CallerOK
  <2>2. CASE d # c
    <3>1. call'[d] = call[d] /\ CallerOK(d)  BY <2>2, <1>9 DEF ManagerInv
    <3>2. call[d].pc = "insert" => call[d].id \notin Named'
      <4> SUFFICES ASSUME call[d].pc = "insert" PROVE call[d].id \notin Named'  OBVIOUS
      <4>1. call[d].id # i  BY <1>1, <1>2, <2>2 DEF ManagerInv, InsertsApart
      <4> QED BY <4>1, <3>1, <1>11 DEF CallerOK
    <3> QED BY <3>1, <3>2, <1>10, CallerKept
  <2> QED BY <2>1, <2>2
<1> QED BY <1>10, <1>13, <1>14, <1>15, <1>16, <1>17 DEF ManagerInv

-----------------------------------------------------------------------------
LEMMA ManagerBegins == ManagerInit => ManagerInv
<1> SUFFICES ASSUME ManagerInit PROVE ManagerInv  OBVIOUS
<1>1. /\ active = {} /\ retained = <<>> /\ shut = FALSE /\ calls = 0
      /\ call = [c \in Callers |-> Free] /\ cmd = [i \in CommandIds |-> Unborn]
      /\ firsts = [i \in CommandIds |-> 0]
  BY DEF ManagerInit
<1>2. Free \in ManagerCalls /\ Unborn \in CommandRows  BY DEF Free, ManagerCalls, Unborn, CommandRows
<1>3. ManagerType  BY <1>1, <1>2, FS_EmptySet, EmptySeq DEF ManagerType
<1>4. ToSet(retained) = {}
  <2>1. DOMAIN <<>> = {}  OBVIOUS
  <2> QED BY <1>1, <2>1 DEF ToSet
<1>5. TableOK
  <2>1. Starting = {}  BY <1>1 DEF Starting, Free
  <2>2. Cardinality(active) = 0 /\ Cardinality(Starting) = 0  BY <1>1, <2>1, FS_EmptySet
  <2>3. MaxActive \in Nat \ {0} /\ Cardinality(Callers) \in Nat  BY ManagerSizes, StartingFacts
  <2>4. IsInjective(retained)
    <3>1. DOMAIN <<>> = {}  OBVIOUS
    <3> QED BY <1>1, <3>1 DEF IsInjective
  <2> QED BY <1>1, <2>2, <2>3, <2>4 DEF TableOK
<1>6. InsertsApart  BY <1>1 DEF InsertsApart, Free
<1>7. ASSUME NEW i \in CommandIds PROVE CommandOK(i)
  BY <1>1, <1>4 DEF CommandOK, Alive, Unborn, Named
<1>8. ASSUME NEW c \in Callers PROVE CallerOK(c)
  BY <1>1 DEF CallerOK, TargetOK, AskedOK, OpOK, LabelOK, Free
<1> QED BY <1>3, <1>5, <1>6, <1>7, <1>8 DEF ManagerInv

LEMMA ManagerSteps == ManagerInv /\ ManagerNext => ManagerInv' /\ AllGrow
<1> SUFFICES ASSUME ManagerInv, ManagerNext PROVE ManagerInv' /\ AllGrow  OBVIOUS
<1>1. ASSUME NEW c \in Callers, NEW aged \in BOOLEAN, StartCheck(c, aged) PROVE ManagerInv' /\ AllGrow
  BY <1>1, StartCheckKeeps
<1>2. ASSUME NEW c \in Callers, NEW aged \in BOOLEAN, Refused(c, aged) PROVE ManagerInv' /\ AllGrow
  BY <1>2, RefusedKeeps
<1>3. ASSUME NEW c \in Callers, NEW aged \in BOOLEAN, NEW i \in CommandIds, NEW op \in {"poll", "kill"},
             Get(c, op, i, aged)
      PROVE  ManagerInv' /\ AllGrow
  BY <1>3, GetKeeps
<1>4. ASSUME NEW c \in Callers, SpawnFails(c) \/ InputRefused(c) \/ FormatAndRetain(c)
      PROVE  ManagerInv' /\ AllGrow
  BY <1>4, EndsKeep
<1>5. ASSUME NEW c \in Callers, Spawn(c) PROVE ManagerInv' /\ AllGrow  BY <1>5, SpawnKeeps
<1>6. ASSUME NEW c \in Callers, Insert(c) PROVE ManagerInv' /\ AllGrow  BY <1>6, InsertKeeps
<1>7. ASSUME NEW c \in Callers, Observe(c) PROVE ManagerInv' /\ AllGrow  BY <1>7, ObserveKeepsTable
<1>8. ASSUME NEW c \in Callers, NEW hard \in BOOLEAN, KillMark(c, hard) PROVE ManagerInv' /\ AllGrow
  BY <1>8, KillMarkKeeps
<1>9. ASSUME NEW c \in Callers, KillAwait(c) PROVE ManagerInv' /\ AllGrow  BY <1>9, KillAwaitKeeps
<1>10. ASSUME NEW c \in Callers, KillDecide(c) PROVE ManagerInv' /\ AllGrow  BY <1>10, KillDecideKeeps
<1>11. ASSUME NEW c \in Callers, Close(c) PROVE ManagerInv' /\ AllGrow  BY <1>11, CloseKeeps
<1>12. ASSUME NEW i \in CommandIds, Watchdog(i) PROVE ManagerInv' /\ AllGrow  BY <1>12, WatchdogKeeps
<1>13. ASSUME NEW i \in CommandIds, NEW how \in {"zero", "signal"}, ChildEnds(i, how)
       PROVE  ManagerInv' /\ AllGrow
  BY <1>13, ChildKeeps
<1>14. ASSUME NEW i \in CommandIds, ChildDies(i) PROVE ManagerInv' /\ AllGrow
  BY <1>14, ChildKeeps DEF ChildDies
<1> QED BY <1>1, <1>2, <1>3, <1>4, <1>5, <1>6, <1>7, <1>8, <1>9, <1>10, <1>11, <1>12, <1>13, <1>14
        DEF ManagerNext

LEMMA InvAccounts == ManagerInv => NoOrphan /\ ActiveBounded /\ EndReportedOnce
<1> SUFFICES ASSUME ManagerInv PROVE NoOrphan /\ ActiveBounded /\ EndReportedOnce  OBVIOUS
<1>1. NoOrphan
  <2> SUFFICES ASSUME NEW i \in CommandIds, Alive(i), ~Known(i), ~cmd[i].asked
               PROVE  \E c \in Callers : call[c].pc = "insert" /\ call[c].id = i
    BY DEF NoOrphan
  <2> QED BY DEF ManagerInv, CommandOK, Known, Inserting
<1>2. ActiveBounded
  <2>1. /\ IsFiniteSet(active) /\ IsInjective(retained) /\ active \cap ToSet(retained) = {}
        /\ Cardinality(active) + Cardinality(Starting) < MaxActive + Cardinality(Callers)
    BY DEF ManagerInv, ManagerType, TableOK
  <2>2. Cardinality(active) \in Nat  BY <2>1, FS_CardinalityType
  <2>3. Cardinality(active) < MaxActive + Cardinality(Callers)  BY <2>1, <2>2, StartingFacts
  <2> QED BY <2>1, <2>3 DEF ActiveBounded
<1>3. EndReportedOnce
  <2>1. ASSUME NEW i \in CommandIds PROVE firsts[i] <= 1
    <3>1. firsts[i] \in {0, 1}  BY DEF ManagerInv, ManagerType
    <3> QED BY <3>1
  <2>2. ASSUME NEW c \in Callers
        PROVE  /\ call[c].label \in {"exited", "terminated", "killed"} => Done(cmd[call[c].id])
               /\ call[c].label = "terminated" /\ call[c].op # "kill" => cmd[call[c].id].proc = "signal"
    <3>1. OpOK(call[c]) /\ LabelOK(call[c])  BY DEF ManagerInv, CallerOK
    <3> QED BY <3>1 DEF OpOK, LabelOK
  <2> QED BY <2>1, <2>2 DEF EndReportedOnce
<1> QED BY <1>1, <1>2, <1>3

OutcomesStay ==
    \A i \in CommandIds : Done(cmd[i]) =>
        \/ Outcome(cmd'[i]) = Outcome(cmd[i])
        \/ cmd[i].watchdog = "mark" /\ Outcome(cmd'[i]) = "timeout"

LEMMA OutcomesGrow == AllGrow => OutcomesStay
<1> SUFFICES ASSUME AllGrow, NEW i \in CommandIds, Done(cmd[i])
             PROVE  \/ Outcome(cmd'[i]) = Outcome(cmd[i])
                    \/ cmd[i].watchdog = "mark" /\ Outcome(cmd'[i]) = "timeout"
  BY DEF OutcomesStay
<1>1. /\ cmd'[i].proc = cmd[i].proc
      /\ cmd'[i].timedOut # cmd[i].timedOut => cmd[i].watchdog = "mark" /\ cmd'[i].timedOut
  BY DEF AllGrow, Grows, Done
<1>2. Done(cmd'[i])  BY <1>1 DEF Done
<1>3. CASE cmd'[i].timedOut = cmd[i].timedOut  BY <1>1, <1>2, <1>3 DEF Outcome
<1>4. CASE cmd'[i].timedOut # cmd[i].timedOut  BY <1>1, <1>2, <1>4 DEF Outcome
<1> QED BY <1>3, <1>4

(* For any number of callers, commands and any sizes of the table: no      *)
(* command is left without a handle, the limit is passed by no more than   *)
(* the callers at once, each end is news once, and an outcome is not taken *)
(* back (ProcessManager, CommandProcess).                                  *)
THEOREM CommandsAlwaysAccounted == ManagerSpec => CommandsAccounted
<1>1. ManagerInv /\ [ManagerNext]_managerVars => ManagerInv' /\ [OutcomesStay]_managerVars
  <2> SUFFICES ASSUME ManagerInv, [ManagerNext]_managerVars
               PROVE  ManagerInv' /\ [OutcomesStay]_managerVars
    OBVIOUS
  <2>1. CASE ManagerNext  BY <2>1, ManagerSteps, OutcomesGrow
  <2>2. CASE UNCHANGED managerVars
    <3>1. ManagerInv'
      BY <2>2 DEF managerVars, ManagerInv, ManagerType, TableOK, InsertsApart, CommandOK, CallerOK, TargetOK,
                  AskedOK, OpOK, LabelOK, Starting, Named, Inserting, Alive, Done
    <3> QED BY <2>2, <3>1
  <2> QED BY <2>1, <2>2
<1>2. ManagerSpec => []ManagerInv /\ [][OutcomesStay]_managerVars
  BY <1>1, ManagerBegins, PTL DEF ManagerSpec
<1>3. [][OutcomesStay]_managerVars => OutcomeStable  BY PTL DEF OutcomesStay, OutcomeStable
<1> QED BY <1>2, <1>3, InvAccounts, PTL DEF CommandsAccounted
=============================================================================
