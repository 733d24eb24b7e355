------------------------ MODULE RecoveryRetryProofs ------------------------
(***************************************************************************)
(* What a run of RecoveryManager delivers, and what its retries cannot     *)
(* break, when runs do not overlap and no command finishes after its       *)
(* client has gone: with either of the two, the server can be changed      *)
(* under a run that relies on it.                                          *)
(***************************************************************************)
EXTENDS RecoveryStageProofs, RecoveryRefinement

(* Runs one after the other, and no command that outlives its client. *)
Serial == Concurrent = FALSE /\ "late" \notin Faults

Alone ==
  /\ \A q, r \in Runs : outcome[q] = "running" /\ outcome[r] = "running" => q = r
  /\ \A r \in Runs : job[r] = "none"

(* What the server is while a run is at a call: stopped, then with the
   repository, the pending settings, the pending certificate and at last
   all of the backup the run validated. *)
Offline == {"restore", "import", "cleanup", "start"} \cup RebindSteps
Complete(s, b) == Recovered([s EXCEPT !.running = TRUE], b)

ServerAt(r) ==
  LET b == manifest[r].backup
  IN  /\ step[r] \in Offline => ~server.running
      /\ step[r] \in {"import"} \cup RebindSteps => server.repo = Pristine(b, "backup.tsbak")
      /\ step[r] \in RebindSteps => server.pendingSettings = Pristine(b, "settings.json")
      /\ step[r] = "apply" => server.pendingTls
      /\ step[r] = "cleanup" /\ raised[r] = "nothing" => Complete(server, b)
      /\ step[r] = "start" => Complete(server, b)
      /\ step[r] = "health" => Recovered(server, b)

RetryInv ==
  /\ GatedInv
  /\ Alone
  /\ NeverServesMixture
  /\ \A r \in Runs : outcome[r] = "running" => ServerAt(r)

-----------------------------------------------------------------------------
(* Facts about the server. *)
LEMMA CompleteMeans ==
  ASSUME NEW s \in ServerStates, NEW b
  PROVE  /\ Complete(s, b) <=> /\ s.tls
                               /\ s.repo = Pristine(b, "backup.tsbak")
                               /\ s.settings = Pristine(b, "settings.json")
         /\ Recovered(s, b) <=> s.running /\ Complete(s, b)
BY DEF Complete, Recovered, ServerStates

LEMMA RetryTyped ==
  ASSUME RetryInv
  PROVE  /\ ControlOK /\ MemoryOK /\ HostOK
         /\ server \in ServerStates /\ job \in [Runs -> TsmCommands \cup {"none"}]
         /\ GatedInv /\ VerifiedInv
BY DEF RetryInv, GatedInv, StageInv, VerifiedInv, TypeInv, TypeOK, TsmOK

(* From the sixth stage on a run has a manifest, and its files are the ones
   of that manifest, byte for byte. *)
LEMMA ManifestThere ==
  ASSUME RetryInv, NEW r \in Runs, outcome[r] = "running", StageOf(step[r]) >= 6
  PROVE  manifest[r] \in Payload /\ manifest[r].backup \in Backups
<1>1. manifest[r] # None
  BY GatesPassed, RetryTyped DEF GateOpen
<1>2. manifest[r] \in Payload
  BY <1>1, RetryTyped DEF MemoryOK
<1> QED
  BY <1>2 DEF Payload

LEMMA ArgumentPristine ==
  ASSUME RetryInv, NEW r \in Runs, outcome[r] = "running"
  PROVE  /\ Issuable(r, "restore") =>
              Argument(r, "restore") = Pristine(manifest[r].backup, "backup.tsbak")
         /\ Issuable(r, "import") =>
              Argument(r, "import") = Pristine(manifest[r].backup, "settings.json")
<1>1. MayRead(r) /\ VerifiedInv /\ FilesOfManifest(r)
  BY RetryTyped DEF MayRead, GatedInv, Validated
<1>2. ASSUME NEW payload \in Payload, NEW b, NEW p, IntactOf(payload, p), payload.backup = b
      PROVE  payload = Pristine(b, p)
  BY <1>2, NoneAssumption DEF IntactOf, Pristine, Payload
<1>3. ASSUME Issuable(r, "restore")
      PROVE  Argument(r, "restore") = Pristine(manifest[r].backup, "backup.tsbak")
  <2>1. Argument(r, "restore") \in Payload /\ IntactOf(Argument(r, "restore"), "backup.tsbak")
    BY <1>1, <1>3, ArgumentVerified DEF Issuable, NeedsFile
  <2>2. Argument(r, "restore").backup = manifest[r].backup
    BY <1>1, <1>3 DEF FilesOfManifest, Argument, Issuable, NeedsFile, Artifacts
  <2> QED
    BY <1>2, <2>1, <2>2
<1>4. ASSUME Issuable(r, "import")
      PROVE  Argument(r, "import") = Pristine(manifest[r].backup, "settings.json")
  <2>1. Argument(r, "import") \in Payload /\ IntactOf(Argument(r, "import"), "settings.json")
    BY <1>1, <1>4, ArgumentVerified DEF Issuable, NeedsFile
  <2>2. Argument(r, "import").backup = manifest[r].backup
    BY <1>1, <1>4 DEF FilesOfManifest, Argument, Issuable, NeedsFile, Artifacts
  <2> QED
    BY <1>2, <2>1, <2>2
<1> QED
  BY <1>3, <1>4

(* A command of a run brings the server up only as the last step of a
   recovery, whether its client waits for it or not. *)
LEMMA CommandServes ==
  ASSUME RetryInv, NEW r \in Runs, outcome[r] = "running", step[r] \in TsmCommands,
         server' \in TsmAftermath(server, step[r], Argument(r, step[r]))
  PROVE  /\ NeverServesMixture'
         /\ step[r] \in RebindSteps => ~server'.running
<1>1. server \in ServerStates /\ ServerAt(r) /\ NeverServesMixture
  BY RetryTyped DEF RetryInv
<1>2. CASE server' = server
  BY <1>1, <1>2 DEF ServerAt, Offline, NeverServesMixture, Untouched, Recovered
<1>3. CASE step[r] = "start" /\ server' # server
  <2>1. server' = [server EXCEPT !.running = TRUE]
    BY <1>3 DEF TsmAftermath, TsmEffect
  <2>2. Recovered(server', manifest[r].backup)
    BY <1>1, <1>3, <2>1 DEF ServerAt, Complete
  <2>3. manifest[r].backup \in Backups
    BY <1>3, ManifestThere, StageOfCalls
  <2> QED
    BY <1>3, <2>2, <2>3 DEF NeverServesMixture, Recovered, RebindSteps
<1>4. CASE step[r] # "start" /\ server' # server
  <2>1. ~server'.running
    <3>1. CASE step[r] = "stop"
      BY <1>1, <1>4, <3>1 DEF TsmAftermath, TsmEffect, ServerStates
    <3>2. CASE step[r] \in {"restore", "import", "external-ssl", "apply"}
      <4>1. ~server.running
        BY <1>1, <3>2 DEF ServerAt, Offline, RebindSteps
      <4> QED
        BY <1>1, <1>4, <3>2, <4>1 DEF TsmAftermath, TsmEffect, ServerStates
    <3> QED
      BY <1>4, <3>1, <3>2 DEF TsmCommands
  <2> QED
    BY <2>1 DEF NeverServesMixture
<1> QED
  BY <1>2, <1>3, <1>4

-----------------------------------------------------------------------------
(* Steps of the process of r: nobody else runs. *)
LEMMA StaysAlone ==
  ASSUME RetryInv, Serial, NEW r \in Runs, RunStep(r) \/ Interrupt(r) \/ Kill(r)
  PROVE  /\ outcome[r] = "running" /\ Alone'
         /\ \A q \in Runs \ {r} : outcome'[q] # "running"
<1>1. outcome[r] = "running" /\ Frame(r)
  BY RetryTyped, StepFrames, StepMoves, EndsMove DEF GatedInv, ControlMoves
<1>2. \A q \in Runs \ {r} : outcome'[q] # "running"
  BY <1>1 DEF Frame, RetryInv, Alone
<1>3. UNCHANGED job
  BY DEF Serial, LeaveCommand, RunStep, Fence, ConfirmFencing, Preflight, ResolveManifest,
         AcquireManifest, CheckProperties, DownloadArtifact, DownloadBreaks, VerifyArtifact,
         StopDR, RestoreRepository, ImportSettings, ArtifactMissing, ReadSecrets, WriteSecret,
         WriteCertificate, WriteKey, EnableExternalSsl, ApplyPendingChanges,
         CleanUpSecrets, StartDR, ValidateHealth, IoFails, TsmFails, Interrupt, Kill,
         TsmSucceeds, tsm
<1>4. Alone'
  BY <1>2, <1>3 DEF RetryInv, Alone
<1> QED
  BY <1>1, <1>2, <1>4

(* The goal of the lemmas that follow. *)
Delivers(r) == NeverServesMixture' /\ (outcome'[r] = "running" => ServerAt(r)')

LEMMA QuietDelivers ==
  ASSUME RetryInv, NEW r \in Runs, outcome[r] = "running", UNCHANGED server,
         \/ outcome'[r] # "running"
         \/ step'[r] \notin Offline \cup {"health"}
         \/ /\ step[r] \in RebindSteps /\ step'[r] \in RebindSteps \ {"apply"}
            /\ manifest'[r] = manifest[r]
         \/ step[r] \in RebindSteps /\ step'[r] = "cleanup" /\ raised'[r] # "nothing"
         \/ /\ step[r] = "cleanup" /\ raised[r] = "nothing" /\ step'[r] = "start"
            /\ manifest'[r] = manifest[r]
  PROVE  Delivers(r)
<1>1. ServerAt(r) /\ NeverServesMixture
  BY DEF RetryInv
<1>2. NeverServesMixture'
  BY <1>1 DEF NeverServesMixture, Untouched, Recovered
<1>3. CASE outcome'[r] # "running"
  BY <1>2, <1>3 DEF Delivers
<1>4. CASE step'[r] \notin Offline \cup {"health"}
  BY <1>2, <1>4 DEF Delivers, ServerAt, Offline, RebindSteps
<1>5. CASE /\ step[r] \in RebindSteps /\ step'[r] \in RebindSteps \ {"apply"}
           /\ manifest'[r] = manifest[r]
  BY <1>1, <1>2, <1>5 DEF Delivers, ServerAt, Offline, RebindSteps
<1>6. CASE step[r] \in RebindSteps /\ step'[r] = "cleanup" /\ raised'[r] # "nothing"
  BY <1>1, <1>2, <1>6 DEF Delivers, ServerAt, Offline, RebindSteps
<1>7. CASE /\ step[r] = "cleanup" /\ raised[r] = "nothing" /\ step'[r] = "start"
           /\ manifest'[r] = manifest[r]
  BY <1>1, <1>2, <1>7 DEF Delivers, ServerAt, Offline, RebindSteps, Complete, Recovered
<1> QED
  BY <1>3, <1>4, <1>5, <1>6, <1>7

LEMMA QuietStepsDeliver ==
  ASSUME RetryInv, NEW r \in Runs, outcome[r] = "running",
         \/ Fence(r) \/ ConfirmFencing(r) \/ Preflight(r)
         \/ ResolveManifest(r) \/ AcquireManifest(r)
         \/ CheckProperties(r) \/ DownloadArtifact(r) \/ DownloadBreaks(r) \/ VerifyArtifact(r)
         \/ ArtifactMissing(r) \/ ReadSecrets(r) \/ WriteCertificate(r) \/ WriteKey(r)
         \/ CleanUpSecrets(r) \/ IoFails(r)
  PROVE  Delivers(r)
<1> USE DEF Active
<1>1. ControlOK /\ MemoryOK
  BY RetryTyped
<1>2. UNCHANGED server
  BY DEF Fence, ConfirmFencing, Preflight, ResolveManifest, AcquireManifest,
         CheckProperties, DownloadArtifact, DownloadBreaks, VerifyArtifact,
         ArtifactMissing, ReadSecrets, WriteCertificate, WriteKey, WriteSecret,
         CleanUpSecrets, IoFails, tsm
<1>3. CASE Fail(r) \/ Gone(r, "interrupted")
  <2>1. outcome'[r] # "running"
    BY <1>1, <1>3 DEF Fail, Gone, ControlOK
  <2> QED
    BY <1>2, <2>1, QuietDelivers
<1>4. ASSUME NEW next, NEW first, Advance(r, next, first) \/ Goto(r, first),
             first \in {"confirm", "preflight", "resolve", "manifest", "properties",
                        "download", "verify", "stop"}
      PROVE  Delivers(r)
  <2>1. step'[r] = first
    BY <1>1, <1>4 DEF Advance, Goto, ControlOK
  <2>2. step'[r] \notin Offline \cup {"health"}
    BY <1>4, <2>1 DEF Offline, RebindSteps
  <2> QED
    BY <1>2, <2>2, QuietDelivers
<1>5. CASE ReadSecrets(r) \/ WriteCertificate(r) \/ WriteKey(r)
  <2>1. /\ step[r] \in RebindSteps /\ manifest'[r] = manifest[r]
        /\ \E s \in RebindSteps \ {"apply"} : Goto(r, s)
    BY <1>5 DEF ReadSecrets, WriteCertificate, WriteKey, WriteSecret, RebindSteps, memory
  <2>2. step'[r] \in RebindSteps \ {"apply"}
    BY <1>1, <2>1 DEF Goto, ControlOK
  <2> QED
    BY <1>2, <2>1, <2>2, QuietDelivers
<1>6. CASE CleanUpSecrets(r) /\ raised[r] = "nothing" /\ Advance(r, "DR_STARTED", "start")
  <2>1. step[r] = "cleanup" /\ step'[r] = "start" /\ manifest'[r] = manifest[r]
    BY <1>1, <1>6 DEF CleanUpSecrets, Advance, ControlOK, memory
  <2> QED
    BY <1>2, <1>6, <2>1, QuietDelivers
<1>7. CASE IoFails(r) /\ step[r] \in RebindSteps
  <2>1. Goto(r, "cleanup") /\ raised' = [raised EXCEPT ![r] = "error"]
    BY <1>7 DEF IoFails, Raise
  <2>2. step'[r] = "cleanup" /\ raised'[r] # "nothing"
    BY <1>1, <2>1 DEF Goto, ControlOK, MemoryOK
  <2> QED
    BY <1>2, <1>7, <2>2, QuietDelivers
<1>8. CASE \/ Fence(r) \/ ConfirmFencing(r) \/ Preflight(r)
           \/ ResolveManifest(r) \/ AcquireManifest(r) \/ CheckProperties(r)
           \/ DownloadArtifact(r) \/ DownloadBreaks(r) \/ VerifyArtifact(r)
           \/ ArtifactMissing(r)
  BY <1>3, <1>4, <1>8
    DEF Fence, ConfirmFencing, Preflight, ResolveManifest, AcquireManifest,
        CheckProperties, DownloadArtifact, DownloadBreaks, VerifyArtifact, ArtifactMissing
<1>9. (IoFails(r) /\ step[r] \notin RebindSteps) => Fail(r)
  BY DEF IoFails, Raise
<1>10. CleanUpSecrets(r) => \/ Fail(r) \/ Gone(r, "interrupted")
                            \/ raised[r] = "nothing" /\ Advance(r, "DR_STARTED", "start")
  BY DEF CleanUpSecrets
<1> QED
  BY <1>3, <1>5, <1>6, <1>7, <1>8, <1>9, <1>10

(* A run that succeeds has seen the gateway of the running server answer. *)
LEMMA HealthDelivers ==
  ASSUME RetryInv, NEW r \in Runs, ValidateHealth(r)
  PROVE  /\ Delivers(r)
         /\ outcome'[r] = "SUCCESS" => Recovered(server', manifest[r].backup)
<1>1. outcome[r] = "running" /\ step[r] = "health" /\ UNCHANGED server /\ ControlOK
  BY RetryTyped DEF ValidateHealth, Active, tsm
<1>2. Recovered(server, manifest[r].backup)
  BY <1>1 DEF RetryInv, ServerAt
<1>3. outcome' = [outcome EXCEPT ![r] = "SUCCESS"] \/ outcome' = [outcome EXCEPT ![r] = "FAILED"]
  BY DEF ValidateHealth, Fail
<1>4. outcome'[r] # "running"
  BY <1>1, <1>3 DEF ControlOK
<1> QED
  BY <1>1, <1>2, <1>4, QuietDelivers DEF Recovered

LEMMA CommandsDeliver ==
  ASSUME RetryInv, NEW r \in Runs, outcome[r] = "running",
         \/ StopDR(r) \/ RestoreRepository(r) \/ ImportSettings(r)
         \/ EnableExternalSsl(r) \/ ApplyPendingChanges(r) \/ StartDR(r)
  PROVE  Delivers(r)
<1> USE DEF Active
<1>1. ControlOK /\ server \in ServerStates /\ ServerAt(r)
  BY RetryTyped DEF RetryInv
<1>2. /\ Issuable(r, step[r]) /\ step[r] \in TsmCommands
      /\ server' = TsmEffect(server, step[r], Argument(r, step[r]))
      /\ UNCHANGED <<manifest, raised>>
  BY DEF StopDR, RestoreRepository, ImportSettings, EnableExternalSsl,
         ApplyPendingChanges, StartDR, TsmSucceeds, TsmCommands, memory
<1>3. NeverServesMixture'
  BY <1>2, CommandServes DEF TsmAftermath
<1> SUFFICES ServerAt(r)'
  BY <1>3 DEF Delivers
<1>4. \A next, first : Advance(r, next, first) \/ Goto(r, first) => step'[r] = first
  BY <1>1 DEF Advance, Goto, ControlOK
<1> DEFINE b == manifest[r].backup
<1>5. ASSUME server' = [server EXCEPT !.running = FALSE], step'[r] = "restore" PROVE ServerAt(r)'
  BY <1>1, <1>5 DEF ServerAt, ServerStates, RebindSteps
<1>6. ASSUME server' = [server EXCEPT !.repo = Pristine(b, "backup.tsbak")],
             step[r] = "restore", step'[r] = "import"
      PROVE  ServerAt(r)'
  BY <1>1, <1>2, <1>6 DEF ServerAt, ServerStates, RebindSteps, Offline
<1>7. ASSUME server' = [server EXCEPT !.pendingSettings = Pristine(b, "settings.json")],
             step[r] = "import", step'[r] = "secrets"
      PROVE  ServerAt(r)'
  BY <1>1, <1>2, <1>7 DEF ServerAt, ServerStates, RebindSteps, Offline
<1>8. ASSUME server' = [server EXCEPT !.pendingTls = TRUE],
             step[r] = "external-ssl", step'[r] = "apply"
      PROVE  ServerAt(r)'
  BY <1>1, <1>2, <1>8 DEF ServerAt, ServerStates, RebindSteps, Offline
<1>9. ASSUME ApplyPendingChanges(r), step'[r] = "cleanup"
      PROVE  ServerAt(r)'
  <2>1. /\ step[r] = "apply" /\ server.pendingTls /\ ~server.running
        /\ server.repo = Pristine(b, "backup.tsbak")
        /\ server.pendingSettings = Pristine(b, "settings.json")
    BY <1>1, <1>9 DEF ApplyPendingChanges, TsmSucceeds, ServerAt, RebindSteps, Offline
  <2>2. Pristine(b, "settings.json") # None
    <3>1. b \in Backups
      BY <2>1, ManifestThere, StageOfCalls DEF RebindSteps
    <3>2. Pristine(b, "settings.json") \in Payload
      BY <3>1 DEF Pristine, Payload, BlobParts, Artifacts, Damage
    <3> QED
      BY <3>2, NoneAssumption
  <2>3. /\ server' \in ServerStates /\ ~server'.running /\ server'.tls
        /\ server'.repo = Pristine(b, "backup.tsbak")
        /\ server'.settings = Pristine(b, "settings.json")
    BY <1>1, <1>2, <2>1, <2>2 DEF TsmEffect, ServerStates
  <2>4. Complete(server', b)
    BY <2>3, CompleteMeans
  <2> QED
    BY <1>2, <1>9, <2>3, <2>4 DEF ServerAt, RebindSteps
<1>10. ASSUME server' = [server EXCEPT !.running = TRUE], step[r] = "start", step'[r] = "health"
       PROVE  ServerAt(r)'
  BY <1>1, <1>2, <1>10 DEF ServerAt, RebindSteps, Offline, Complete
<1>11. CASE StopDR(r)
  BY <1>2, <1>4, <1>5, <1>11 DEF StopDR, TsmSucceeds, TsmEffect
<1>12. CASE RestoreRepository(r)
  BY <1>2, <1>4, <1>6, <1>12, ArgumentPristine DEF RestoreRepository, TsmSucceeds, TsmEffect
<1>13. CASE ImportSettings(r)
  BY <1>2, <1>4, <1>7, <1>13, ArgumentPristine DEF ImportSettings, TsmSucceeds, TsmEffect
<1>14. CASE EnableExternalSsl(r)
  BY <1>2, <1>4, <1>8, <1>14 DEF EnableExternalSsl, TsmSucceeds, TsmEffect
<1>15. CASE ApplyPendingChanges(r)
  BY <1>4, <1>9, <1>15 DEF ApplyPendingChanges
<1>16. CASE StartDR(r)
  BY <1>2, <1>4, <1>10, <1>16 DEF StartDR, TsmSucceeds, TsmEffect
<1> QED
  BY <1>11, <1>12, <1>13, <1>14, <1>15, <1>16

(* A command that fails, and a run that is cut short. *)
LEMMA LeavesDeliver ==
  ASSUME RetryInv, Serial, NEW r \in Runs, outcome[r] = "running",
         TsmFails(r) \/ Interrupt(r) \/ Kill(r)
  PROVE  Delivers(r)
<1>1. ControlOK /\ MemoryOK
  BY RetryTyped
<1>2. \/ UNCHANGED server
      \/ /\ step[r] \in TsmCommands
         /\ server' \in TsmAftermath(server, step[r], Argument(r, step[r]))
  BY DEF TsmFails, Interrupt, Kill, LeaveCommand, Serial, tsm
<1>3. /\ NeverServesMixture'
      /\ step[r] \in RebindSteps => ~server'.running
  BY <1>2, CommandServes DEF RetryInv, ServerAt, Offline, NeverServesMixture, Untouched,
                             Recovered
<1>4. \/ Fail(r)
      \/ \E how \in {"interrupted", "killed"} : Gone(r, how)
      \/ /\ step[r] \in RebindSteps /\ Goto(r, "cleanup")
         /\ \E e \in {"error", "interrupt"} : raised' = [raised EXCEPT ![r] = e]
  BY DEF TsmFails, Raise, Interrupt, Kill
<1>5. CASE Fail(r) \/ \E how \in {"interrupted", "killed"} : Gone(r, how)
  <2>1. outcome'[r] # "running"
    BY <1>1, <1>5 DEF Fail, Gone, ControlOK
  <2> QED
    BY <1>3, <2>1 DEF Delivers
<1>6. CASE /\ step[r] \in RebindSteps /\ Goto(r, "cleanup")
           /\ \E e \in {"error", "interrupt"} : raised' = [raised EXCEPT ![r] = e]
  <2>1. step'[r] = "cleanup" /\ raised'[r] # "nothing"
    BY <1>1, <1>6 DEF Goto, ControlOK, MemoryOK
  <2> QED
    BY <1>3, <1>6, <2>1 DEF Delivers, ServerAt, RebindSteps
<1> QED
  BY <1>4, <1>5, <1>6

-----------------------------------------------------------------------------
LEMMA RetryInit ==
  Init => RetryInv
<1> SUFFICES ASSUME Init PROVE Alone /\ NeverServesMixture
                               /\ \A r \in Runs : outcome[r] = "running" => ServerAt(r)
  BY GatedInit DEF RetryInv
<1>1. Alone /\ \A r \in Runs : outcome[r] # "running"
  BY DEF Init, Alone
<1>2. NeverServesMixture
  <2>1. PICK up \in BOOLEAN : server = StandbyServer(up)
    BY DEF Init
  <2> QED
    BY <2>1 DEF NeverServesMixture, Untouched, StandbyServer
<1> QED
  BY <1>1, <1>2

(* Only one run is started at a time, and it has not reached the server. *)
LEMMA LaunchDelivers ==
  ASSUME RetryInv, Serial, NEW r \in Runs, Launch(r)
  PROVE  /\ Alone' /\ NeverServesMixture'
         /\ \A q \in Runs : outcome'[q] = "running" => ServerAt(q)'
<1>1. /\ \A q \in Runs : outcome[q] # "running"
      /\ UNCHANGED <<server, job>> /\ ControlOK
  BY RetryTyped DEF Launch, Serial, tsm
<1>2. \/ outcome' = [outcome EXCEPT ![r] = "FAILED"]
      \/ /\ outcome' = [outcome EXCEPT ![r] = "running"]
         /\ step' = [step EXCEPT ![r] = "fence"]
  BY DEF Launch, Fail
<1>3. \A q \in Runs : outcome'[q] = "running" => q = r /\ step'[q] = "fence"
  BY <1>1, <1>2 DEF ControlOK
<1>4. Alone'
  BY <1>1, <1>3 DEF RetryInv, Alone
<1>5. NeverServesMixture'
  BY <1>1 DEF RetryInv, NeverServesMixture, Untouched, Recovered
<1>6. \A q \in Runs : outcome'[q] = "running" => ServerAt(q)'
  BY <1>3 DEF ServerAt, Offline, RebindSteps
<1> QED
  BY <1>4, <1>5, <1>6

LEMMA RestDelivers ==
  ASSUME RetryInv, UNCHANGED <<control, memory, server, job>>
  PROVE  /\ Alone' /\ NeverServesMixture'
         /\ \A q \in Runs : outcome'[q] = "running" => ServerAt(q)'
<1>1. Alone' /\ NeverServesMixture'
  BY DEF RetryInv, Alone, NeverServesMixture, Untouched, Recovered, control
<1>2. \A q \in Runs : ServerAt(q)' <=> ServerAt(q)
  BY DEF ServerAt, Recovered, Complete, control, memory
<1> QED
  BY <1>1, <1>2 DEF RetryInv, control

LEMMA StepDelivers ==
  ASSUME RetryInv, Serial, NEW r \in Runs, RunStep(r) \/ Interrupt(r) \/ Kill(r)
  PROVE  /\ Alone' /\ NeverServesMixture'
         /\ \A q \in Runs : outcome'[q] = "running" => ServerAt(q)'
<1>1. Delivers(r)
  BY StaysAlone, QuietStepsDeliver, HealthDelivers, CommandsDeliver, LeavesDeliver DEF RunStep
<1> QED
  BY <1>1, StaysAlone DEF Delivers

(* The steps of the others, as far as a run or its operator can tell. *)
LEMMA OthersRest ==
  ASSUME RetryInv, [Next]_vars,
         ~\E r \in Runs : Launch(r) \/ RunStep(r) \/ Interrupt(r) \/ Kill(r)
  PROVE  UNCHANGED <<control, memory, server, job>>
<1>1. \A r \in Runs : ~JobEnds(r)
  BY DEF JobEnds, RetryInv, Alone
<1>2. /\ \A b \in Backups : PublishBackup(b) => UNCHANGED <<control, memory, tsm>>
      /\ \A b \in Backups, p \in BlobParts : DamageBlob(b, p) => UNCHANGED <<control, memory, tsm>>
      /\ \A d \in WorkDirs, p \in Artifacts :
           LoseWorkFile(d, p) => UNCHANGED <<control, memory, tsm>>
      /\ UNCHANGED vars => UNCHANGED <<control, memory, tsm>>
  BY DEF PublishBackup, DamageBlob, LoseWorkFile, vars
<1>3. UNCHANGED <<control, memory, tsm>>
  BY <1>1, <1>2 DEF Next
<1> QED
  BY <1>3 DEF tsm

LEMMA RetryNext ==
  ASSUME Serial, RetryInv, [Next]_vars
  PROVE  RetryInv'
<1>1. GatedInv'
  BY RetryTyped, GatedNext
<1>2. /\ Alone' /\ NeverServesMixture'
      /\ \A q \in Runs : outcome'[q] = "running" => ServerAt(q)'
  BY LaunchDelivers, StepDelivers, OthersRest, RestDelivers
<1> QED
  BY <1>1, <1>2 DEF RetryInv

(* Runs one after the other, each ending in any way, leave a server that
   serves users either untouched or with all of one backup. *)
THEOREM NoMixtureServed ==
  ASSUME Serial
  PROVE  Spec => []NeverServesMixture
<1>1. RetryInv /\ [Next]_vars => RetryInv'
  BY RetryNext
<1>2. RetryInv => NeverServesMixture
  BY DEF RetryInv
<1> QED
  BY <1>1, <1>2, RetryInit, PTL DEF Spec

(* A run that reports SUCCESS leaves the server running with exactly the
   backup of the manifest it validated. *)
THEOREM SuccessIsDelivered ==
  ASSUME Serial
  PROVE  Spec => SuccessDelivered
<1>1. ASSUME RetryInv, [Next]_vars, NEW r \in Runs,
             outcome'[r] = "SUCCESS", outcome[r] # "SUCCESS"
      PROVE  Recovered(server', manifest[r].backup)
  <2>1. ControlOK
    BY <1>1, RetryTyped
  <2>2. UNCHANGED control => FALSE
    BY <1>1 DEF control
  <2>3. PICK q \in Runs : Launch(q) \/ RunStep(q) \/ Interrupt(q) \/ Kill(q)
    BY <1>1, <2>2, OthersRest
  <2>4. CASE ValidateHealth(q)
    <3>1. q = r
      BY <1>1, <2>1, <2>4 DEF ValidateHealth, Fail, ControlOK
    <3> QED
      BY <1>1, <2>4, <3>1, HealthDelivers
  <2>5. CASE ~ValidateHealth(q)
    <3>1. outcome'[r] \in {outcome[r], "FAILED", "interrupted", "killed", "running"}
      <4>1. \/ Fail(q) \/ UNCHANGED outcome
            \/ \E v \in {"interrupted", "killed", "running"} : outcome' = [outcome EXCEPT ![q] = v]
        BY <2>3, <2>5
          DEF Launch, RunStep, Fence, ConfirmFencing, Preflight, ResolveManifest,
              AcquireManifest, CheckProperties, DownloadArtifact, DownloadBreaks,
              VerifyArtifact, StopDR, RestoreRepository, ImportSettings, ArtifactMissing,
              ReadSecrets, WriteSecret, WriteCertificate, WriteKey, EnableExternalSsl,
              ApplyPendingChanges, CleanUpSecrets, StartDR, IoFails, TsmFails, Interrupt,
              Kill, Raise, Advance, Goto, Gone
      <4> QED
        BY <2>1, <4>1 DEF Fail, ControlOK
    <3> QED
      BY <1>1, <3>1
  <2> QED
    BY <2>4, <2>5
<1> DEFINE Delivered ==
      \A r \in Runs : outcome'[r] = "SUCCESS" /\ outcome[r] # "SUCCESS"
                        => Recovered(server', manifest[r].backup)
<1>2. RetryInv /\ [Next]_vars => [Delivered]_vars
  BY <1>1
<1>3. RetryInv /\ [Next]_vars => RetryInv'
  BY RetryNext
<1> QED
  BY <1>2, <1>3, RetryInit, PTL DEF Spec, SuccessDelivered

-----------------------------------------------------------------------------
(* RecoveryPromise: the server as the promise sees it. *)
Whole(s) == {b \in Backups : Complete(s, b)}
IsWhole(s) == (s.repo = None /\ s.settings = None) \/ Whole(s) # {}
HeldBy(s) == IF Whole(s) # {} THEN s.repo.backup ELSE None

LEMMA ServerSeen ==
  /\ wholeOf = IsWhole(server) /\ wholeOf' = IsWhole(server')
  /\ heldOf = HeldBy(server) /\ heldOf' = HeldBy(server')
BY DEF wholeOf, heldOf, wholeBackups, Untouched, Complete, IsWhole, HeldBy, Whole

LEMMA SeenComplete ==
  ASSUME NEW s \in ServerStates, NEW b \in Backups, s.repo = Pristine(b, "backup.tsbak")
  PROVE  IF Complete(s, b) THEN IsWhole(s) = TRUE /\ HeldBy(s) = b
                           ELSE IsWhole(s) = FALSE /\ HeldBy(s) = None
<1>1. Pristine(b, "backup.tsbak") # None
  BY NoneAssumption DEF Pristine, Payload, BlobParts, Artifacts, Damage
<1>2. \A c \in Backups : Complete(s, c) => c = b
  <2>1. \A c \in Backups : Complete(s, c) => s.repo = Pristine(c, "backup.tsbak")
    BY CompleteMeans
  <2>2. \A c \in Backups : Pristine(c, "backup.tsbak").backup = c
    BY DEF Pristine
  <2> QED
    BY <2>1, <2>2
<1>3. s.repo.backup = b
  BY DEF Pristine
<1>4. CASE Complete(s, b)
  <2>1. Whole(s) # {}
    BY <1>4 DEF Whole
  <2> QED
    BY <1>3, <1>4, <2>1 DEF IsWhole, HeldBy
<1>5. CASE ~Complete(s, b)
  <2>1. Whole(s) = {}
    BY <1>2, <1>5 DEF Whole
  <2> QED
    BY <1>1, <1>5, <2>1 DEF IsWhole, HeldBy
<1> QED
  BY <1>4, <1>5

LEMMA SeenTorn ==
  ASSUME NEW s \in ServerStates, s.repo # None,
         \A b \in Backups : s.repo # Pristine(b, "backup.tsbak")
  PROVE  IsWhole(s) = FALSE /\ HeldBy(s) = None
<1>1. Whole(s) = {}
  BY CompleteMeans DEF Whole
<1> QED
  BY <1>1 DEF IsWhole, HeldBy

LEMMA SeenSame ==
  ASSUME NEW s \in ServerStates, NEW t \in ServerStates,
         t.repo = s.repo, t.settings = s.settings, t.tls = s.tls
  PROVE  IsWhole(t) = IsWhole(s) /\ HeldBy(t) = HeldBy(s)
<1>1. Whole(t) = Whole(s)
  BY CompleteMeans DEF Whole
<1> QED
  BY <1>1 DEF IsWhole, HeldBy

(* Whatever becomes of a command, the promise allows it. *)
ServerKept == UNCHANGED <<heldOf, wholeOf>> /\ server'.running = server.running
ServerChanges(b) ==
  \/ server'.running = FALSE /\ UNCHANGED <<heldOf, wholeOf>>
  \/ /\ ~server.running /\ server'.running = server.running
     /\ \/ wholeOf' = FALSE /\ heldOf' = None
        \/ wholeOf' = TRUE /\ heldOf' = b
  \/ /\ wholeOf /\ heldOf = b
     /\ server'.running = TRUE /\ UNCHANGED <<heldOf, wholeOf>>

LEMMA CommandChanges ==
  ASSUME RetryInv, NEW r \in Runs, outcome[r] = "running",
         step[r] \in TsmCommands, Issuable(r, step[r]),
         server' \in TsmAftermath(server, step[r], Argument(r, step[r]))
  PROVE  ServerKept \/ ServerChanges(manifest[r].backup)
<1> DEFINE b == manifest[r].backup
<1>1. server \in ServerStates /\ ServerAt(r)
  BY RetryTyped DEF RetryInv
<1>2. manifest[r] \in Payload /\ b \in Backups
  <2>1. StageOf(step[r]) >= 6
    BY DEF StageOf, RebindSteps, TsmCommands
  <2> QED
    BY <2>1, ManifestThere
<1>3. Pristine(b, "backup.tsbak") \in Payload /\ Pristine(b, "settings.json") \in Payload
  BY <1>2 DEF Pristine, Payload, BlobParts, Artifacts, Damage
<1>4. CASE server' = server
  BY <1>4, ServerSeen DEF ServerKept
<1>5. CASE step[r] = "stop" /\ server' = [server EXCEPT !.running = FALSE]
  <2>1. /\ server' \in ServerStates /\ server'.running = FALSE
        /\ server'.repo = server.repo /\ server'.settings = server.settings
        /\ server'.tls = server.tls
    BY <1>1, <1>5 DEF ServerStates
  <2> QED
    BY <1>1, <2>1, SeenSame, ServerSeen DEF ServerChanges
<1>6. CASE step[r] = "restore" /\ server' # server
  <2>1. ~server.running
    BY <1>1, <1>6 DEF ServerAt, Offline
  <2>2. Argument(r, "restore") = Pristine(b, "backup.tsbak")
    BY <1>6, ArgumentPristine
  <2>3. \/ server' = [server EXCEPT !.repo = Pristine(b, "backup.tsbak")]
        \/ server' = [server EXCEPT !.repo = Damaged(b, "backup.tsbak", "torn")]
    BY <1>6, <2>2 DEF TsmAftermath, TsmEffect, Pristine
  <2>4. CASE server' = [server EXCEPT !.repo = Pristine(b, "backup.tsbak")]
    <3>1. /\ server' \in ServerStates /\ server'.running = server.running
          /\ server'.repo = Pristine(b, "backup.tsbak")
      BY <1>1, <1>3, <2>4 DEF ServerStates
    <3> QED
      BY <1>2, <2>1, <3>1, SeenComplete, ServerSeen DEF ServerChanges
  <2>5. CASE server' = [server EXCEPT !.repo = Damaged(b, "backup.tsbak", "torn")]
    <3>1. Damaged(b, "backup.tsbak", "torn") \in Payload
      BY <1>2 DEF Damaged, Payload, BlobParts, Artifacts, Damage
    <3>2. /\ server' \in ServerStates /\ server'.running = server.running
          /\ server'.repo = Damaged(b, "backup.tsbak", "torn")
      BY <1>1, <2>5, <3>1 DEF ServerStates
    <3>3. server'.repo # None /\ \A c \in Backups : server'.repo # Pristine(c, "backup.tsbak")
      BY <3>1, <3>2, NoneAssumption DEF Damaged, Pristine
    <3> QED
      BY <2>1, <3>2, <3>3, SeenTorn, ServerSeen DEF ServerChanges
  <2> QED
    BY <2>3, <2>4, <2>5
<1>7. CASE step[r] \in {"import", "external-ssl"}
  <2>1. /\ server' \in ServerStates /\ server'.running = server.running
        /\ server'.repo = server.repo /\ server'.settings = server.settings
        /\ server'.tls = server.tls
    <3>1. step[r] = "import" => Argument(r, step[r]) \in Payload
      BY <1>3, ArgumentPristine
    <3>2. \/ server' = server
          \/ step[r] = "import" /\ server' = [server EXCEPT !.pendingSettings = Argument(r, step[r])]
          \/ step[r] = "external-ssl" /\ server' = [server EXCEPT !.pendingTls = TRUE]
      BY <1>7 DEF TsmAftermath, TsmEffect
    <3> QED
      BY <1>1, <3>1, <3>2 DEF ServerStates
  <2> QED
    BY <1>1, <2>1, SeenSame, ServerSeen DEF ServerKept
<1>8. CASE step[r] = "apply" /\ server' # server
  <2>1. ~server.running /\ server.repo = Pristine(b, "backup.tsbak")
    BY <1>1, <1>8 DEF ServerAt, Offline, RebindSteps
  <2>2. /\ server' \in ServerStates /\ server'.running = server.running
        /\ server'.repo = Pristine(b, "backup.tsbak")
    BY <1>1, <1>8, <2>1 DEF TsmAftermath, TsmEffect, ServerStates
  <2> QED
    BY <1>2, <2>1, <2>2, SeenComplete, ServerSeen DEF ServerChanges
<1>9. CASE step[r] = "start" /\ server' = [server EXCEPT !.running = TRUE]
  <2>1. Complete(server, b) /\ server.repo = Pristine(b, "backup.tsbak")
    BY <1>1, <1>9, CompleteMeans DEF ServerAt
  <2>2. wholeOf = TRUE /\ heldOf = b
    BY <1>1, <1>2, <2>1, SeenComplete, ServerSeen
  <2>3. /\ server' \in ServerStates /\ server'.running = TRUE
        /\ server'.repo = server.repo /\ server'.settings = server.settings
        /\ server'.tls = server.tls
    BY <1>1, <1>9 DEF ServerStates
  <2> QED
    BY <1>1, <2>2, <2>3, SeenSame, ServerSeen DEF ServerChanges
<1>10. /\ step[r] = "stop" => server' \in {server, [server EXCEPT !.running = FALSE]}
       /\ step[r] = "start" => server' \in {server, [server EXCEPT !.running = TRUE]}
  BY DEF TsmAftermath, TsmEffect
<1> QED
  BY <1>4, <1>5, <1>6, <1>7, <1>8, <1>9, <1>10 DEF TsmCommands

-----------------------------------------------------------------------------
(* RecoveryPromise: verdicts and proved backups. *)
LEMMA CompletedLength ==
  ASSUME NEW k \in 1 .. 11
  PROVE  Len(<<"DISASTER_DECLARED">> \o SubSeq(StageOrder, 1, k - 1)) = k
<1> DEFINE done == SubSeq(StageOrder, 1, k - 1)
<1>1. done \in Seq(RecoveryStates) /\ <<"DISASTER_DECLARED">> \in Seq(RecoveryStates)
  BY StagesGrow DEF RecoveryStates
<1>2. Len(done) = k - 1
  <2>1. \A i \in 1 .. k - 1 : StageOrder[i] \in Stages
    BY StageAt
  <2>2. CASE k = 1
    <3>1. done = << >>
      BY <2>2, SubSeqEmpty
    <3> QED
      BY <2>2, <3>1
  <2>3. CASE k > 1
    <3>1. 1 \in Int /\ k - 1 \in Int /\ 1 <= k - 1
      BY <2>3
    <3> QED
      BY <2>1, <3>1, SubSeqProperties
  <2> QED
    BY <2>2, <2>3
<1>3. Len(<<"DISASTER_DECLARED">>) = 1
  OBVIOUS
<1> HIDE DEF done
<1>4. Len(<<"DISASTER_DECLARED">> \o done) = 1 + (k - 1)
  BY <1>1, <1>2, <1>3, ConcatProperties
<1> QED
  BY <1>4 DEF done

(* The number of recorded stages tells how far a run has come. *)
LEMMA LengthMoves ==
  ASSUME StageInv, NEW r \in Runs, ControlMoves(r)
  PROVE  LET k == StageOf(step[r])
         IN  /\ k \in 1 .. 11 /\ Len(completed_steps[r]) = k
             /\ \/ /\ completed_steps'[r] = completed_steps[r]
                   /\ outcome'[r] # "SUCCESS"
                \/ /\ k < 11 /\ Len(completed_steps'[r]) = k + 1
                   /\ outcome'[r] = "running"
                   /\ \E next, first : Advance(r, next, first)
                \/ k = 11 /\ Len(completed_steps'[r]) = 13
<1> DEFINE k == StageOf(step[r])
<1>1. k \in 1 .. 11 /\ InStage(r, k)
  BY StageOfRange DEF StageInv, Progress, ControlMoves, AtStage
<1>2. ControlOK /\ outcome[r] = "running"
  BY DEF StageInv, VerifiedInv, TypeInv, TypeOK, ControlMoves
<1>3. Len(completed_steps[r]) = k
  <2> HIDE DEF k
  <2> QED
    BY <1>1, CompletedLength DEF InStage
<1>4. CASE Fail(r) \/ (\E how \in {"interrupted", "killed"} : Gone(r, how)) \/ \E s : Goto(r, s)
  <2>1. completed_steps'[r] = completed_steps[r] /\ outcome'[r] # "SUCCESS"
    BY <1>2, <1>4 DEF Fail, Gone, Goto, ControlOK
  <2> QED
    BY <1>1, <1>3, <2>1
<1>5. ASSUME NEW next, NEW first, Advance(r, next, first), Enters(r, next, first)
      PROVE  /\ k < 11 /\ Len(completed_steps'[r]) = k + 1
             /\ outcome'[r] = "running"
  <2>1. completed_steps'[r] = Append(completed_steps[r], current_state[r]) /\ outcome'[r] = "running"
    BY <1>2, <1>5 DEF Advance, ControlOK
  <2>2. completed_steps[r] \in Seq(RecoveryStates) /\ current_state[r] \in RecoveryStates
    BY <1>2 DEF ControlOK
  <2>3. k < 11
    BY <1>5 DEF Enters
  <2> HIDE DEF k
  <2> QED
    BY <1>3, <2>1, <2>2, <2>3
<1>6. CASE Completes(r)
  <2> DEFINE end == <<"HEALTH_VALIDATED", "RECOVERY_COMPLETED">>
  <2>1. completed_steps'[r] = completed_steps[r] \o end /\ k = 11
    BY <1>2, <1>6 DEF Completes, ControlOK
  <2>2. completed_steps[r] \in Seq(RecoveryStates)
    BY <1>2 DEF ControlOK
  <2>3. end \in Seq(RecoveryStates) /\ Len(end) = 2
    BY StageNames DEF RecoveryStates
  <2> HIDE DEF end, k
  <2>4. Len(completed_steps[r] \o end) = Len(completed_steps[r]) + Len(end)
    BY <2>2, <2>3, ConcatProperties
  <2>5. Len(completed_steps'[r]) = 13
    BY <1>3, <2>1, <2>3, <2>4
  <2> QED
    BY <1>1, <1>3, <2>1, <2>5 DEF k
<1> HIDE DEF k
<1>7. \/ Fail(r)
      \/ \E how \in {"interrupted", "killed"} : Gone(r, how)
      \/ \E s : Goto(r, s)
      \/ \E next, first : Advance(r, next, first) /\ Enters(r, next, first)
      \/ Completes(r)
  BY DEF ControlMoves
<1>8. CASE \E next, first : Advance(r, next, first) /\ Enters(r, next, first)
  BY <1>1, <1>3, <1>5, <1>8 DEF k
<1> QED
  BY <1>4, <1>6, <1>7, <1>8

ProvedAt(r) == IF Len(completed_steps[r]) >= 6 THEN manifest[r].backup ELSE None

(* From the sixth stage on the proved backup is the one of the manifest, and
   only the check of the last artifact proves one. *)
LEMMA ProvedMoves ==
  ASSUME RetryInv, NEW r \in Runs, RunStep(r) \/ Interrupt(r) \/ Kill(r)
  PROVE  /\ StageOf(step[r]) >= 6 => /\ ProvedAt(r) = manifest[r].backup
                                     /\ ProvedAt(r) # None
         /\ \/ ProvedAt(r)' = ProvedAt(r)
            \/ /\ VerifyArtifact(r) /\ outcome'[r] = "running"
               /\ ProvedAt(r) = None /\ ProvedAt(r)' \in Backups
<1> DEFINE k == StageOf(step[r])
<1>1. StageInv /\ ControlMoves(r) /\ outcome[r] = "running" /\ MemoryOK
  BY StepMoves, EndsMove, RetryTyped DEF RetryInv, GatedInv, ControlMoves
<1>2. k \in 1 .. 11 /\ Len(completed_steps[r]) = k
  BY <1>1, LengthMoves
<1>9. \/ completed_steps'[r] = completed_steps[r]
      \/ /\ k < 11 /\ Len(completed_steps'[r]) = k + 1 /\ outcome'[r] = "running"
         /\ \E next, first : Advance(r, next, first)
      \/ k = 11 /\ Len(completed_steps'[r]) = 13
  BY <1>1, LengthMoves
<1>3. step[r] # "manifest" => manifest'[r] = manifest[r]
  BY DEF RunStep, Fence, ConfirmFencing, Preflight, ResolveManifest, AcquireManifest,
         CheckProperties, DownloadArtifact, DownloadBreaks, VerifyArtifact, StopDR,
         RestoreRepository, ImportSettings, ArtifactMissing, ReadSecrets, WriteSecret,
         WriteCertificate, WriteKey, EnableExternalSsl, ApplyPendingChanges,
         CleanUpSecrets, StartDR, ValidateHealth, IoFails, TsmFails, Interrupt, Kill,
         Active, memory
<1>4. step[r] = "manifest" => k = 4
  BY StageOfCalls
<1>5. CASE k >= 6
  <2>1. manifest[r].backup \in Backups /\ manifest'[r] = manifest[r]
    BY <1>1, <1>3, <1>4, <1>5, ManifestThere
  <2>2. Len(completed_steps'[r]) >= 6
    <3>1. Len(completed_steps'[r]) \in {k, k + 1, 13}
      BY <1>2, <1>9
    <3>2. \A i \in 1 .. 11 : i >= 6 => i + 1 >= 6
      OBVIOUS
    <3>3. CASE Len(completed_steps'[r]) = k
      BY <1>5, <3>3
    <3>4. CASE Len(completed_steps'[r]) = k + 1
      BY <1>2, <1>5, <3>2, <3>4
    <3>5. CASE Len(completed_steps'[r]) = 13
      BY <3>5
    <3> QED
      BY <3>1, <3>3, <3>4, <3>5
  <2> HIDE DEF k
  <2> QED
    BY <1>2, <1>5, <2>1, <2>2, NoneAssumption DEF ProvedAt, k
<1>6. CASE k <= 4
  <2>1. Len(completed_steps'[r]) \in {k, k + 1}
    BY <1>1, <1>2, <1>6, LengthMoves
  <2> HIDE DEF k
  <2>2. ~(Len(completed_steps'[r]) >= 6) /\ ~(Len(completed_steps[r]) >= 6) /\ ~(k >= 6)
    BY <1>2, <1>6, <2>1
  <2> QED
    BY <2>2 DEF ProvedAt, k
<1>7. CASE k = 5
  <2>1. ~(Len(completed_steps[r]) >= 6) /\ ~(k >= 6)
    BY <1>2, <1>7
  <2>2. CASE completed_steps'[r] = completed_steps[r]
    BY <2>1, <2>2 DEF ProvedAt
  <2>3. CASE /\ Len(completed_steps'[r]) = k + 1 /\ outcome'[r] = "running"
             /\ \E next, first : Advance(r, next, first)
    <3>1. step[r] \in {"properties", "download", "verify"}
      BY <1>7 DEF StageOf, RebindSteps
    <3>2. completed_steps'[r] # completed_steps[r]
      BY <1>2, <2>3
    <3>3. VerifyArtifact(r)
      <4>1. Fail(r) \/ (\E s : Goto(r, s)) \/ (\E how : Gone(r, how)) => UNCHANGED completed_steps
        BY DEF Fail, Goto, Gone
      <4> QED
        BY <3>1, <3>2, <4>1
          DEF RunStep, Fence, ConfirmFencing, Preflight, ResolveManifest, AcquireManifest,
              CheckProperties, DownloadArtifact, DownloadBreaks, StopDR,
              RestoreRepository, ImportSettings, ArtifactMissing, ReadSecrets, WriteSecret,
              WriteCertificate, WriteKey, EnableExternalSsl, ApplyPendingChanges,
              CleanUpSecrets, StartDR, ValidateHealth, IoFails, TsmFails, Interrupt, Kill,
              Raise, TsmSucceeds, Active, RebindSteps, TsmCommands
    <3>4. manifest[r] \in Payload /\ manifest'[r] = manifest[r]
      <4>1. StageOf(step[r]) >= 5
        BY <1>7
      <4>2. manifest[r] # None
        BY <1>1, <4>1 DEF RetryInv, GatedInv, Validated
      <4> QED
        BY <1>1, <1>3, <1>4, <1>7, <4>2 DEF MemoryOK
    <3>5. ProvedAt(r)' = manifest[r].backup
      BY <1>7, <2>3, <3>4 DEF ProvedAt
    <3> QED
      BY <2>1, <2>3, <3>3, <3>4, <3>5 DEF ProvedAt, Payload
  <2> QED
    BY <1>7, <1>9, <2>2, <2>3
<1>8. k >= 6 \/ k <= 4 \/ k = 5
  BY <1>2
<1> QED
  BY <1>5, <1>6, <1>7, <1>8

-----------------------------------------------------------------------------
(* RecoveryPromise: every step of a run is one of the promise, or none. *)
VerdictFor(o) == CASE o = "not started" -> "none" [] o = "running" -> "pending" [] OTHER -> o

LEMMA RunsSeen ==
  /\ verdictOf = [r \in Runs |-> VerdictFor(outcome[r])]
  /\ verdictOf' = [r \in Runs |-> VerdictFor(outcome'[r])]
  /\ provedBy = [r \in Runs |-> ProvedAt(r)]
  /\ provedBy' = [r \in Runs |-> ProvedAt(r)']
BY DEF verdictOf, provedBy, VerdictFor, ProvedAt

LEMMA OneVerdict ==
  ASSUME NEW r \in Runs, \A q \in Runs \ {r} : outcome'[q] = outcome[q]
  PROVE  /\ verdictOf' = [verdictOf EXCEPT ![r] = VerdictFor(outcome'[r])]
         /\ outcome'[r] = outcome[r] => verdictOf' = verdictOf
BY RunsSeen

LEMMA OneProof ==
  ASSUME NEW r \in Runs,
         \A q \in Runs \ {r} : completed_steps'[q] = completed_steps[q] /\ manifest'[q] = manifest[q]
  PROVE  /\ provedBy' = [provedBy EXCEPT ![r] = ProvedAt(r)']
         /\ ProvedAt(r)' = ProvedAt(r) => provedBy' = provedBy
<1>1. \A q \in Runs \ {r} : ProvedAt(q)' = ProvedAt(q)
  BY DEF ProvedAt
<1> QED
  BY <1>1, RunsSeen

LEMMA StepKeepsPromise ==
  ASSUME RetryInv, RetryInv', Serial, NEW r \in Runs, RunStep(r) \/ Interrupt(r) \/ Kill(r)
  PROVE  Promise!Next \/ UNCHANGED Promise!promise
<1>1. /\ outcome[r] = "running" /\ Frame(r) /\ ControlOK'
      /\ outcome'[r] \in {"running", "SUCCESS", "FAILED", "interrupted", "killed"}
  <2>1. outcome[r] = "running" /\ Frame(r) /\ ControlMoves(r)
    BY RetryTyped, StepFrames, StepMoves, EndsMove DEF GatedInv, ControlMoves
  <2>2. ControlOK /\ ControlOK'
    BY DEF RetryInv, GatedInv, StageInv, VerifiedInv, TypeInv, TypeOK
  <2>3. outcome'[r] # "not started"
    BY <2>1, <2>2 DEF ControlMoves, Fail, Gone, Goto, Advance, Completes, ControlOK
  <2> QED
    BY <2>1, <2>2, <2>3 DEF ControlOK, Outcomes
<1>2. /\ verdictOf[r] = "pending"
      /\ verdictOf' = [verdictOf EXCEPT ![r] = VerdictFor(outcome'[r])]
      /\ outcome'[r] = "running" => verdictOf' = verdictOf
  BY <1>1, RunsSeen, OneVerdict DEF Frame, VerdictFor
<1>3. /\ provedBy[r] = ProvedAt(r)
      /\ provedBy' = [provedBy EXCEPT ![r] = ProvedAt(r)']
      /\ ProvedAt(r)' = ProvedAt(r) => provedBy' = provedBy
  BY <1>1, RunsSeen, OneProof DEF Frame
<1>4. server' = server => ServerKept
  BY ServerSeen DEF ServerKept
<1>5. ServerKept \/ (ServerChanges(provedBy[r]) /\ provedBy[r] # None)
  <2> SUFFICES ASSUME server' # server PROVE ServerKept \/ (ServerChanges(provedBy[r]) /\ provedBy[r] # None)
    BY <1>4
  <2>1. /\ step[r] \in TsmCommands /\ Issuable(r, step[r])
        /\ server' \in TsmAftermath(server, step[r], Argument(r, step[r]))
    BY StepIssues
  <2>2. StageOf(step[r]) >= 6
    BY <2>1 DEF StageOf, RebindSteps, TsmCommands
  <2>3. provedBy[r] = manifest[r].backup /\ provedBy[r] # None
    BY <1>3, <2>2, ProvedMoves
  <2> QED
    BY <1>1, <2>1, <2>3, CommandChanges
<1>6. CASE VerifyArtifact(r) /\ outcome'[r] = "running" /\ ProvedAt(r) = None /\ ProvedAt(r)' \in Backups
  <2>1. ServerKept
    BY <1>4, <1>6 DEF VerifyArtifact, tsm
  <2>2. Promise!Prove(r)
    BY <1>2, <1>3, <1>6, <2>1 DEF Promise!Prove, ServerKept
  <2> QED
    BY <2>2 DEF Promise!Next
<1>7. CASE provedBy' = provedBy /\ outcome'[r] = "running"
  <2>1. CASE ServerKept
    BY <1>2, <1>7, <2>1 DEF ServerKept, Promise!promise
  <2>2. CASE ServerChanges(provedBy[r]) /\ provedBy[r] # None
    <3>1. Promise!Work(r)
      BY <1>2, <1>7, <2>2 DEF Promise!Work, Promise!Change, ServerChanges
    <3> QED
      BY <3>1 DEF Promise!Next
  <2> QED
    BY <1>5, <2>1, <2>2
<1>8. CASE provedBy' = provedBy /\ outcome'[r] \in {"FAILED", "interrupted", "killed"}
  <2>1. \E v \in {"FAILED", "interrupted", "killed"} : verdictOf' = [verdictOf EXCEPT ![r] = v]
    BY <1>2, <1>8 DEF VerdictFor
  <2>2. Promise!GiveUp(r)
    BY <1>2, <1>5, <1>8, <2>1 DEF Promise!GiveUp, Promise!Change, ServerChanges, ServerKept
  <2> QED
    BY <2>2 DEF Promise!Next
<1>9. CASE provedBy' = provedBy /\ outcome'[r] = "SUCCESS"
  <2>1. StageOf(step[r]) >= 6 /\ ValidateHealth(r)
    <3>1. StageInv /\ ControlMoves(r)
      BY StepMoves, EndsMove DEF RetryInv, GatedInv
    <3>2. StageOf(step[r]) = 11 /\ step[r] # "cleanup"
      <4>1. Completes(r)
        BY <1>1, <1>9, <3>1 DEF ControlMoves, Fail, Gone, Goto, Advance, StageInv,
                                VerifiedInv, TypeInv, TypeOK, ControlOK
      <4> QED
        BY <4>1, StageOfCalls DEF Completes
    <3>3. step[r] = "health"
      <4>1. step[r] \in Steps /\ step[r] # "none"
        BY <1>1, <3>1 DEF StageInv, Progress, VerifiedInv, TypeInv, TypeOK, ControlOK
      <4> QED
        BY <3>2, <4>1 DEF StageOf, Steps, RebindSteps
    <3>4. ValidateHealth(r)
      <4>1. Fail(r) \/ (\E how \in {"interrupted", "killed"} : Gone(r, how)) => outcome'[r] # "SUCCESS"
        BY <1>1, <3>1 DEF Fail, Gone, StageInv, VerifiedInv, TypeInv, TypeOK, ControlOK
      <4> QED
        BY <1>9, <3>3, <4>1
          DEF RunStep, Fence, ConfirmFencing, Preflight, ResolveManifest, AcquireManifest,
              CheckProperties, DownloadArtifact, DownloadBreaks, VerifyArtifact, StopDR,
              RestoreRepository, ImportSettings, ArtifactMissing, ReadSecrets, WriteSecret,
              WriteCertificate, WriteKey, EnableExternalSsl, ApplyPendingChanges,
              CleanUpSecrets, StartDR, IoFails, TsmFails, Interrupt, Kill,
              Raise, TsmSucceeds, Active, RebindSteps, TsmCommands, NeedsFile
    <3>5. StageOf("health") >= 6
      BY StageOfCalls
    <3> QED
      BY <3>3, <3>4, <3>5
  <2>2. ServerKept /\ Recovered(server, manifest[r].backup)
    <3>1. UNCHANGED server
      BY <2>1 DEF ValidateHealth, tsm
    <3>2. Recovered(server, manifest[r].backup)
      BY <2>1, <3>1, HealthDelivers, <1>9
    <3> QED
      BY <1>4, <3>1, <3>2
  <2>3. provedBy[r] = manifest[r].backup /\ provedBy[r] # None /\ manifest[r].backup \in Backups
    BY <1>1, <1>3, <2>1, ProvedMoves, ManifestThere
  <2>4. server.running /\ wholeOf = TRUE /\ heldOf = provedBy[r]
    <3>1. server \in ServerStates
      BY RetryTyped
    <3>2. Complete(server, manifest[r].backup) /\ server.running
      BY <2>2, <3>1, CompleteMeans
    <3>3. server.repo = Pristine(manifest[r].backup, "backup.tsbak")
      BY <2>2 DEF Recovered
    <3> QED
      BY <2>3, <3>1, <3>2, <3>3, SeenComplete, ServerSeen
  <2>5. verdictOf' = [verdictOf EXCEPT ![r] = "SUCCESS"]
    BY <1>2, <1>9 DEF VerdictFor
  <2>6. Promise!Succeed(r)
    BY <1>2, <1>9, <2>2, <2>3, <2>4, <2>5 DEF Promise!Succeed, ServerKept
  <2> QED
    BY <2>6 DEF Promise!Next
<1> QED
  BY <1>1, <1>3, <1>6, <1>7, <1>8, <1>9, ProvedMoves

LEMMA LaunchKeepsPromise ==
  ASSUME RetryInv, Serial, NEW r \in Runs, Launch(r)
  PROVE  Promise!Next
<1>1. /\ outcome[r] = "not started" /\ \A q \in Runs : outcome[q] # "running"
      /\ UNCHANGED <<server, manifest, completed_steps>> /\ ControlOK
  BY RetryTyped DEF Launch, Serial, Fail, memory, tsm
<1>2. \/ outcome' = [outcome EXCEPT ![r] = "running"]
      \/ outcome' = [outcome EXCEPT ![r] = "FAILED"]
  BY DEF Launch, Fail
<1>3. /\ verdictOf[r] = "none" /\ \A q \in Runs : verdictOf[q] # "pending"
  <2>1. \A q \in Runs : VerdictFor(outcome[q]) # "pending"
    BY <1>1 DEF VerdictFor, ControlOK, Outcomes
  <2> QED
    BY <1>1, <2>1, RunsSeen DEF VerdictFor
<1>4. /\ \A q \in Runs \ {r} : outcome'[q] = outcome[q]
      /\ outcome'[r] \in {"running", "FAILED"}
  BY <1>1, <1>2 DEF ControlOK
<1>5. verdictOf' = [verdictOf EXCEPT ![r] = VerdictFor(outcome'[r])]
  BY <1>4, OneVerdict
<1>6. UNCHANGED <<provedBy, heldOf, wholeOf, server>>
  BY <1>1, ServerSeen DEF provedBy
<1>7. CASE outcome'[r] = "running"
  <2>1. Promise!Start(r)
    BY <1>3, <1>5, <1>6, <1>7 DEF Promise!Start, VerdictFor
  <2> QED
    BY <2>1 DEF Promise!Next
<1>8. CASE outcome'[r] = "FAILED"
  <2>1. Promise!Refuse(r)
    BY <1>3, <1>5, <1>6, <1>8 DEF Promise!Refuse, VerdictFor
  <2> QED
    BY <2>1 DEF Promise!Next
<1> QED
  BY <1>4, <1>7, <1>8

LEMMA RestKeepsPromise ==
  ASSUME UNCHANGED <<control, memory, server, job>>
  PROVE  UNCHANGED Promise!promise
BY ServerSeen DEF Promise!promise, verdictOf, provedBy, control, memory

LEMMA PromiseInit ==
  Init => Promise!Init
<1> SUFFICES ASSUME Init PROVE Promise!Init
  OBVIOUS
<1>1. PICK up \in BOOLEAN : server = StandbyServer(up)
  BY DEF Init
<1>2. /\ server \in ServerStates /\ server.running = up
      /\ server.repo = None /\ server.settings = None
  BY <1>1 DEF StandbyServer, ServerStates
<1>3. Whole(server) = {}
  <2>1. \A b \in Backups : Pristine(b, "backup.tsbak") # None
    BY NoneAssumption DEF Pristine, Payload, BlobParts, Artifacts, Damage
  <2> QED
    BY <1>2, <2>1, CompleteMeans DEF Whole
<1>4. heldOf = None /\ wholeOf = TRUE
  BY <1>2, <1>3, ServerSeen DEF IsWhole, HeldBy
<1>5. verdictOf = [r \in Runs |-> "none"]
  <2>1. \A r \in Runs : VerdictFor(outcome[r]) = "none"
    BY DEF Init, VerdictFor
  <2> QED
    BY <2>1, RunsSeen
<1>6. provedBy = [r \in Runs |-> None]
  <2>1. \A r \in Runs : completed_steps[r] = <<"DISASTER_DECLARED">>
    BY DEF Init
  <2>2. ASSUME NEW r \in Runs PROVE ~(Len(completed_steps[r]) >= 6)
    <3>1. Len(<<"DISASTER_DECLARED">>) = 1
      OBVIOUS
    <3>2. Len(completed_steps[r]) = 1
      BY <2>1, <3>1, Zenon
    <3> QED
      BY <3>2
  <2> QED
    BY <2>2 DEF provedBy
<1> QED
  BY <1>2, <1>4, <1>5, <1>6 DEF Promise!Init

(* Every behaviour of runs one after the other, whatever fails in them, is
   one the promise allows: the server changes only for a backup that was
   proved, never serves anything in between, and SUCCESS is said only while
   it serves that backup. *)
THEOREM FailoverKeepsPromise ==
  ASSUME Serial
  PROVE  Spec => KeepsPromise
<1>1. RetryInv /\ [Next]_vars => RetryInv'
  BY RetryNext
<1>2. RetryInv /\ RetryInv' /\ [Next]_vars => [Promise!Next]_(Promise!promise)
  BY StepKeepsPromise, LaunchKeepsPromise, OthersRest, RestKeepsPromise
<1> QED
  BY <1>1, <1>2, RetryInit, PromiseInit, PTL DEF Spec, KeepsPromise, Promise!Spec
=============================================================================
