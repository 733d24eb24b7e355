------------------------ MODULE RecoveryStageProofs ------------------------
(***************************************************************************)
(* How far a run of RecoveryManager has come: what it reports, what it had *)
(* validated before it changed the server, and how long its secrets are on *)
(* disk.  As in RecoverySafetyProofs, runs may overlap.                    *)
(***************************************************************************)
EXTENDS RecoverySafetyProofs, SequenceTheorems

(* The stage a call belongs to. *)
StageOf(s) ==
  CASE s = "fence" -> 1
    [] s = "confirm" -> 2
    [] s = "preflight" -> 3
    [] s \in {"resolve", "manifest"} -> 4
    [] s \in {"properties", "download", "verify"} -> 5
    [] s = "stop" -> 6
    [] s = "restore" -> 7
    [] s = "import" -> 8
    [] s \in RebindSteps \cup {"cleanup"} -> 9
    [] s = "start" -> 10
    [] OTHER -> 11

(* What a run has recorded fits the call it makes next. *)
AtStage(r, k) == InStage(r, k) /\ current_state[r] = StageOrder[k]
Progress(r) ==
  /\ outcome[r] = "not started" =>
       completed_steps[r] = <<"DISASTER_DECLARED">> /\ failed_step[r] = None
  /\ outcome[r] = "running" => step[r] # "none" /\ AtStage(r, StageOf(step[r]))

StageInv == VerifiedInv /\ ReportAccurate /\ \A r \in Runs : Progress(r)

-----------------------------------------------------------------------------
(* The stages and their order, so that it need not be expanded again. *)
LEMMA StageAt ==
  /\ StageOrder \in Seq(Stages) /\ Len(StageOrder) = 11
  /\ \A i \in 1 .. 11 : StageOrder[i] \in Stages
  /\ StageOrder[1] = "FENCING_PENDING" /\ StageOrder[2] = "PRODUCTION_FENCED"
  /\ StageOrder[3] = "DR_PREFLIGHT_PASSED" /\ StageOrder[4] = "MANIFEST_VALIDATED"
  /\ StageOrder[5] = "BACKUP_ARTIFACTS_VALIDATED" /\ StageOrder[6] = "DR_STOPPED"
  /\ StageOrder[7] = "REPOSITORY_RESTORED" /\ StageOrder[8] = "SETTINGS_IMPORTED"
  /\ StageOrder[9] = "SECURITY_REBOUND" /\ StageOrder[10] = "DR_STARTED"
  /\ StageOrder[11] = "HEALTH_VALIDATED"
<1>1. StageOrder \in Seq(Stages)
  BY StageNames DEF StageOrder
<1>2. Len(StageOrder) = 11
  BY DEF StageOrder
<1>3. /\ StageOrder[1] = "FENCING_PENDING" /\ StageOrder[2] = "PRODUCTION_FENCED"
      /\ StageOrder[3] = "DR_PREFLIGHT_PASSED" /\ StageOrder[4] = "MANIFEST_VALIDATED"
      /\ StageOrder[5] = "BACKUP_ARTIFACTS_VALIDATED" /\ StageOrder[6] = "DR_STOPPED"
      /\ StageOrder[7] = "REPOSITORY_RESTORED" /\ StageOrder[8] = "SETTINGS_IMPORTED"
      /\ StageOrder[9] = "SECURITY_REBOUND" /\ StageOrder[10] = "DR_STARTED"
      /\ StageOrder[11] = "HEALTH_VALIDATED"
  BY DEF StageOrder
<1>4. \A i \in 1 .. 11 : StageOrder[i] \in Stages
  BY DEF Stages
<1> QED
  BY <1>1, <1>2, <1>3, <1>4

LEMMA StageOfRange ==
  ASSUME NEW s
  PROVE  StageOf(s) \in 1 .. 11
BY DEF StageOf

LEMMA StageOfCalls ==
  /\ StageOf("fence") = 1 /\ StageOf("confirm") = 2 /\ StageOf("preflight") = 3
  /\ StageOf("resolve") = 4 /\ StageOf("manifest") = 4
  /\ StageOf("properties") = 5 /\ StageOf("download") = 5 /\ StageOf("verify") = 5
  /\ StageOf("stop") = 6 /\ StageOf("restore") = 7 /\ StageOf("import") = 8
  /\ \A s \in RebindSteps \cup {"cleanup"} : StageOf(s) = 9
  /\ StageOf("start") = 10 /\ StageOf("health") = 11
BY DEF StageOf, RebindSteps

(* The first stages, one more, and all of them. *)
LEMMA StagesGrow ==
  ASSUME NEW k \in 1 .. 11
  PROVE  /\ SubSeq(StageOrder, 1, k - 1) \in Seq(RecoveryStates)
         /\ SubSeq(StageOrder, 1, k - 1) \o <<StageOrder[k]>> = SubSeq(StageOrder, 1, k)
<1>1. StageOrder \in Seq(RecoveryStates) /\ Len(StageOrder) = 11
  BY StageAt DEF RecoveryStates
<1>2. SubSeq(StageOrder, 1, k - 1) \in Seq(RecoveryStates)
  <2>1. \A i \in 1 .. k - 1 : StageOrder[i] \in RecoveryStates
    BY StageAt DEF RecoveryStates
  <2>2. 1 \in Int /\ k - 1 \in Int
    OBVIOUS
  <2> HIDE DEF RecoveryStates
  <2> QED
    BY <2>1, <2>2, SubSeqProperties
<1>3. 1 \in 1 .. Len(StageOrder) /\ k \in 1 .. Len(StageOrder)
  BY <1>1
<1>4. SubSeq(StageOrder, 1, k) = SubSeq(StageOrder, 1, k - 1) \o <<StageOrder[k]>>
  <2>1. k \in 1 .. Len(StageOrder)
    BY <1>1
  <2> QED
    BY <1>1, <1>3, <2>1, SubSeqRecursiveSecond
<1> QED
  BY <1>2, <1>4

LEMMA StatesConcat ==
  \A s, t, u \in Seq(RecoveryStates) : (s \o t) \o u = s \o (t \o u)
BY ConcatAssociative

LEMMA CompletedGrows ==
  ASSUME NEW k \in 1 .. 11
  PROVE  Append(<<"DISASTER_DECLARED">> \o SubSeq(StageOrder, 1, k - 1), StageOrder[k])
           = <<"DISASTER_DECLARED">> \o SubSeq(StageOrder, 1, k)
<1> DEFINE first == <<"DISASTER_DECLARED">>
           done == SubSeq(StageOrder, 1, k - 1)
           new == <<StageOrder[k]>>
<1>1. first \in Seq(RecoveryStates) /\ done \in Seq(RecoveryStates)
  BY StagesGrow DEF RecoveryStates
<1>2. StageOrder[k] \in RecoveryStates
  <2>1. StageOrder[k] \in Stages
    BY StageAt
  <2> QED
    BY <2>1 DEF RecoveryStates
<1>3. new \in Seq(RecoveryStates)
  BY <1>2
<1>4. done \o new = SubSeq(StageOrder, 1, k)
  BY StagesGrow
<1> HIDE DEF first, done, new
<1>5. first \o done \in Seq(RecoveryStates)
  BY <1>1
<1>6. Append(first \o done, StageOrder[k]) = (first \o done) \o new
  BY <1>2, <1>5 DEF new
<1>7. (first \o done) \o new = first \o (done \o new)
  BY <1>1, <1>3, StatesConcat, Zenon
<1> QED
  BY <1>4, <1>6, <1>7 DEF first, done

LEMMA CompletedEnds ==
  <<"DISASTER_DECLARED">> \o SubSeq(StageOrder, 1, 10)
      \o <<"HEALTH_VALIDATED", "RECOVERY_COMPLETED">>
    = <<"DISASTER_DECLARED">> \o StageOrder \o <<"RECOVERY_COMPLETED">>
<1> DEFINE first == <<"DISASTER_DECLARED">>
           done == SubSeq(StageOrder, 1, 10)
           last == <<"HEALTH_VALIDATED">>
           end == <<"RECOVERY_COMPLETED">>
<1>1. /\ first \in Seq(RecoveryStates) /\ last \in Seq(RecoveryStates)
      /\ end \in Seq(RecoveryStates) /\ done \in Seq(RecoveryStates)
      /\ StageOrder \in Seq(RecoveryStates)
  <2>1. 11 \in 1 .. 11 /\ 11 - 1 = 10
    OBVIOUS
  <2>2. done \in Seq(RecoveryStates)
    BY <2>1, StagesGrow
  <2> QED
    BY <2>2, StageAt, StageNames DEF RecoveryStates
<1>2. done \o last = StageOrder
  <2>1. 11 \in 1 .. 11 /\ 11 - 1 = 10
    OBVIOUS
  <2>2. done \o last = SubSeq(StageOrder, 1, 11)
    BY <2>1, StagesGrow, StageAt
  <2> QED
    BY <2>2, StageAt, SubSeqFull
<1>3. <<"HEALTH_VALIDATED", "RECOVERY_COMPLETED">> = last \o end
  BY SMT DEF last, end
<1> HIDE DEF first, done, last, end
<1>4. (first \o done) \o (last \o end) = ((first \o done) \o last) \o end
  <2> DEFINE all == first \o done
  <2>1. all \in Seq(RecoveryStates)
    BY <1>1
  <2> HIDE DEF all
  <2>2. (all \o last) \o end = all \o (last \o end)
    BY <1>1, <2>1, StatesConcat, Zenon
  <2> QED
    BY <2>2 DEF all
<1>5. (first \o done) \o last = first \o (done \o last)
  BY <1>1, StatesConcat, Zenon
<1> QED
  BY <1>2, <1>3, <1>4, <1>5 DEF first, done, end

-----------------------------------------------------------------------------
(* How the control of a run moves in a step of its process: within a stage,
   to the next one, or to an end. *)
Enters(r, next, first) ==
  LET k == StageOf(step[r])
  IN  k < 11 /\ next = StageOrder[k + 1] /\ StageOf(first) = k + 1 /\ first \notin {"none", "cleanup"}

Completes(r) ==
  /\ StageOf(step[r]) = 11
  /\ outcome' = [outcome EXCEPT ![r] = "SUCCESS"]
  /\ step' = [step EXCEPT ![r] = "none"]
  /\ current_state' = [current_state EXCEPT ![r] = "RECOVERY_COMPLETED"]
  /\ completed_steps' = [completed_steps EXCEPT ![r] =
       @ \o <<"HEALTH_VALIDATED", "RECOVERY_COMPLETED">>]
  /\ failed_step' = [failed_step EXCEPT ![r] = None]

ControlMoves(r) ==
  /\ outcome[r] = "running" /\ UNCHANGED work_dir
  /\ \/ Fail(r)
     \/ \E how \in {"interrupted", "killed"} : Gone(r, how)
     \/ \E s : Goto(r, s) /\ StageOf(s) = StageOf(step[r]) /\ s # "none"
     \/ \E next, first : Advance(r, next, first) /\ Enters(r, next, first)
     \/ Completes(r)

LEMMA OthersControl ==
  ASSUME StageInv, NEW r \in Runs, ControlMoves(r), NEW q \in Runs \ {r}
  PROVE  /\ outcome'[q] = outcome[q] /\ step'[q] = step[q]
         /\ current_state'[q] = current_state[q]
         /\ completed_steps'[q] = completed_steps[q] /\ failed_step'[q] = failed_step[q]
         /\ work_dir'[q] = work_dir[q]
BY DEF ControlMoves, Fail, Gone, Goto, Advance, Completes, StageInv, VerifiedInv,
       TypeInv, TypeOK, ControlOK

LEMMA MovesReport ==
  ASSUME StageInv, NEW r \in Runs, ControlMoves(r)
  PROVE  ReportAccurate' /\ \A q \in Runs : Progress(q)'
<1> DEFINE k == StageOf(step[r])
<1>1. /\ k \in 1 .. 11
      /\ completed_steps[r] = <<"DISASTER_DECLARED">> \o SubSeq(StageOrder, 1, k - 1)
      /\ failed_step[r] = StageOrder[k] /\ current_state[r] = StageOrder[k]
  BY StageOfRange DEF StageInv, Progress, ControlMoves, AtStage, InStage
<1>2. work_dir[r] # None /\ work_dir'[r] = work_dir[r]
  BY RecoveryAssumption
    DEF StageInv, VerifiedInv, TypeInv, TypeOK, HostOK, Equipped, ControlMoves
<1>3. failed_step[r] # None
  BY <1>1, StageAt, StagesAssumption
<1> DEFINE Reports(q) ==
      /\ outcome'[q] = "running" =>
           \E i \in 1 .. 11 : InStage(q, i)' /\ current_state'[q] = StageOrder[i]
      /\ outcome'[q] = "FAILED" =>
           /\ current_state'[q] = "FAILED"
           /\ IF work_dir'[q] = None
              THEN /\ failed_step'[q] = "RECOVERY_INITIALIZATION"
                   /\ completed_steps'[q] = <<"DISASTER_DECLARED">>
              ELSE \E i \in 1 .. 11 : InStage(q, i)'
      /\ outcome'[q] = "SUCCESS" =>
           /\ current_state'[q] = "RECOVERY_COMPLETED"
           /\ failed_step'[q] = None
           /\ completed_steps'[q] =
                <<"DISASTER_DECLARED">> \o StageOrder \o <<"RECOVERY_COMPLETED">>
<1>4. Reports(r) /\ Progress(r)'
  <2>1. CASE Fail(r)
    <3>1. /\ outcome'[r] = "FAILED" /\ current_state'[r] = "FAILED"
          /\ failed_step'[r] = failed_step[r] /\ completed_steps'[r] = completed_steps[r]
      BY <1>3, <2>1 DEF Fail, StageInv, VerifiedInv, TypeInv, TypeOK, ControlOK
    <3> QED
      BY <1>1, <1>2, <3>1 DEF InStage, Progress
  <2>2. CASE \E how \in {"interrupted", "killed"} : Gone(r, how)
    <3>1. outcome'[r] \in {"interrupted", "killed"}
      BY <2>2 DEF Gone, StageInv, VerifiedInv, TypeInv, TypeOK, ControlOK
    <3> QED
      BY <3>1 DEF Progress
  <2>3. ASSUME NEW s, Goto(r, s), StageOf(s) = k, s # "none"
        PROVE  Reports(r) /\ Progress(r)'
    <3>1. /\ outcome'[r] = "running" /\ step'[r] = s
          /\ current_state'[r] = current_state[r]
          /\ failed_step'[r] = failed_step[r] /\ completed_steps'[r] = completed_steps[r]
      BY <2>3 DEF Goto, ControlMoves, StageInv, VerifiedInv, TypeInv, TypeOK, ControlOK
    <3> QED
      BY <1>1, <2>3, <3>1 DEF InStage, Progress, AtStage
  <2>4. ASSUME NEW next, NEW first, Advance(r, next, first), Enters(r, next, first)
        PROVE  Reports(r) /\ Progress(r)'
    <3>1. /\ outcome'[r] = "running" /\ step'[r] = first
          /\ current_state'[r] = next /\ failed_step'[r] = next
          /\ completed_steps'[r] = Append(completed_steps[r], current_state[r])
      BY <2>4 DEF Advance, ControlMoves, StageInv, VerifiedInv, TypeInv, TypeOK, ControlOK
    <3>2. /\ k + 1 \in 1 .. 11 /\ next = StageOrder[k + 1]
          /\ StageOf(first) = k + 1 /\ first # "none" /\ (k + 1) - 1 = k
      BY <1>1, <2>4 DEF Enters
    <3>3. completed_steps'[r] = <<"DISASTER_DECLARED">> \o SubSeq(StageOrder, 1, k)
      BY <1>1, <3>1, CompletedGrows
    <3> HIDE DEF k
    <3> QED
      BY <3>1, <3>2, <3>3 DEF InStage, Progress, AtStage
  <2>5. CASE Completes(r)
    <3>1. /\ outcome'[r] = "SUCCESS" /\ current_state'[r] = "RECOVERY_COMPLETED"
          /\ failed_step'[r] = None
          /\ completed_steps'[r] =
               completed_steps[r] \o <<"HEALTH_VALIDATED", "RECOVERY_COMPLETED">>
      BY <2>5 DEF Completes, StageInv, VerifiedInv, TypeInv, TypeOK, ControlOK
    <3>2. completed_steps[r] = <<"DISASTER_DECLARED">> \o SubSeq(StageOrder, 1, 10)
      <4>1. k = 11 /\ 11 - 1 = 10
        BY <2>5 DEF Completes
      <4> QED
        BY <1>1, <4>1
    <3> QED
      BY <3>1, <3>2, CompletedEnds DEF Progress
  <2> QED
    BY <2>1, <2>2, <2>3, <2>4, <2>5 DEF ControlMoves
<1>5. ASSUME NEW q \in Runs \ {r}
      PROVE  Reports(q) /\ Progress(q)'
  <2>1. /\ outcome'[q] = outcome[q] /\ step'[q] = step[q]
        /\ current_state'[q] = current_state[q]
        /\ completed_steps'[q] = completed_steps[q] /\ failed_step'[q] = failed_step[q]
        /\ work_dir'[q] = work_dir[q]
    BY OthersControl
  <2>2. \A i : InStage(q, i)' <=> InStage(q, i)
    BY <2>1 DEF InStage
  <2>3. Progress(q)'
    BY <2>1, <2>2 DEF StageInv, Progress, AtStage
  <2>4. Reports(q)
    BY <2>1, <2>2 DEF StageInv, ReportAccurate
  <2> QED
    BY <2>3, <2>4
<1> QED
  BY <1>4, <1>5 DEF ReportAccurate

-----------------------------------------------------------------------------
(* Every step of a process moves its control in one of those ways. *)
LEMMA StepMoves ==
  ASSUME StageInv, NEW r \in Runs, RunStep(r)
  PROVE  ControlMoves(r)
<1>1. outcome[r] = "running" /\ UNCHANGED work_dir
  BY DEF RunStep, Fence, ConfirmFencing, Preflight, ResolveManifest, AcquireManifest,
         CheckProperties, DownloadArtifact, DownloadBreaks, VerifyArtifact, StopDR,
         RestoreRepository, ImportSettings, ArtifactMissing, ReadSecrets, WriteSecret,
         WriteCertificate, WriteKey, EnableExternalSsl, ApplyPendingChanges,
         CleanUpSecrets, StartDR, ValidateHealth, IoFails, TsmFails, TsmSucceeds,
         Active, host
<1>2. CASE Fence(r) \/ ConfirmFencing(r) \/ Preflight(r)
  <2>1. \/ Fail(r)
        \/ step[r] = "fence" /\ Advance(r, "PRODUCTION_FENCED", "confirm")
        \/ step[r] = "confirm" /\ Advance(r, "DR_PREFLIGHT_PASSED", "preflight")
        \/ step[r] = "preflight" /\ Advance(r, "MANIFEST_VALIDATED", "resolve")
    BY <1>2 DEF Fence, ConfirmFencing, Preflight, Active
  <2> QED
    BY <1>1, <2>1, StageAt, StageOfCalls DEF ControlMoves, Enters
<1>3. CASE ResolveManifest(r) \/ AcquireManifest(r)
  <2>1. \/ Fail(r)
        \/ step[r] = "resolve" /\ Goto(r, "manifest")
        \/ step[r] = "manifest" /\ Advance(r, "BACKUP_ARTIFACTS_VALIDATED", "properties")
    BY <1>3 DEF ResolveManifest, AcquireManifest, Active
  <2> QED
    BY <1>1, <2>1, StageAt, StageOfCalls DEF ControlMoves, Enters
<1>4. CASE CheckProperties(r) \/ DownloadArtifact(r) \/ DownloadBreaks(r) \/ VerifyArtifact(r)
  <2>1. \/ Fail(r)
        \/ step[r] = "properties" /\ Goto(r, "download")
        \/ step[r] = "download" /\ Goto(r, "verify")
        \/ step[r] = "verify" /\ Goto(r, "properties")
        \/ step[r] = "verify" /\ Advance(r, "DR_STOPPED", "stop")
    BY <1>4 DEF CheckProperties, DownloadArtifact, DownloadBreaks, VerifyArtifact, Active
  <2> QED
    BY <1>1, <2>1, StageAt, StageOfCalls DEF ControlMoves, Enters
<1>5. CASE StopDR(r) \/ RestoreRepository(r) \/ ImportSettings(r) \/ StartDR(r)
  <2>1. \/ step[r] = "stop" /\ Advance(r, "REPOSITORY_RESTORED", "restore")
        \/ step[r] = "restore" /\ Advance(r, "SETTINGS_IMPORTED", "import")
        \/ step[r] = "import" /\ Advance(r, "SECURITY_REBOUND", "secrets")
        \/ step[r] = "start" /\ Advance(r, "HEALTH_VALIDATED", "health")
    BY <1>5 DEF StopDR, RestoreRepository, ImportSettings, StartDR, TsmSucceeds, Active
  <2> QED
    BY <1>1, <2>1, StageAt, StageOfCalls DEF ControlMoves, Enters, RebindSteps
<1>6. CASE \/ ReadSecrets(r) \/ WriteCertificate(r) \/ WriteKey(r)
           \/ EnableExternalSsl(r) \/ ApplyPendingChanges(r)
  <2>1. step[r] \in RebindSteps /\ \E s \in RebindSteps \cup {"cleanup"} : Goto(r, s)
    BY <1>6 DEF ReadSecrets, WriteCertificate, WriteKey, WriteSecret, EnableExternalSsl,
                ApplyPendingChanges, TsmSucceeds, Active, RebindSteps
  <2> QED
    BY <1>1, <2>1 DEF ControlMoves, StageOf, RebindSteps
<1>7. CASE CleanUpSecrets(r)
  <2>1. step[r] = "cleanup" /\ ( \/ Fail(r) \/ Gone(r, "interrupted")
                                 \/ Advance(r, "DR_STARTED", "start"))
    BY <1>7 DEF CleanUpSecrets, Active
  <2> QED
    BY <1>1, <2>1, StageAt, StageOfCalls DEF ControlMoves, Enters, RebindSteps
<1>8. CASE ValidateHealth(r)
  <2>1. Fail(r) \/ Completes(r)
    BY <1>8 DEF ValidateHealth, Active, Completes, StageOf, RebindSteps
  <2> QED
    BY <1>1, <2>1 DEF ControlMoves
<1>9. CASE ArtifactMissing(r)
  BY <1>1, <1>9 DEF ArtifactMissing, ControlMoves
<1>10. CASE IoFails(r) \/ TsmFails(r)
  <2>1. Fail(r) \/ (step[r] \in RebindSteps /\ Goto(r, "cleanup"))
    BY <1>10 DEF IoFails, TsmFails, Raise
  <2> QED
    BY <1>1, <2>1 DEF ControlMoves, StageOf, RebindSteps
<1> QED
  BY <1>2, <1>3, <1>4, <1>5, <1>6, <1>7, <1>8, <1>9, <1>10 DEF RunStep

LEMMA EndsMove ==
  ASSUME StageInv, NEW r \in Runs, Interrupt(r) \/ Kill(r)
  PROVE  ControlMoves(r)
<1>1. outcome[r] = "running" /\ UNCHANGED work_dir
  BY DEF Interrupt, Kill
<1>2. \/ step[r] \in RebindSteps /\ Goto(r, "cleanup")
      \/ Gone(r, "interrupted") \/ Gone(r, "killed")
  BY DEF Interrupt, Kill
<1> QED
  BY <1>1, <1>2 DEF ControlMoves, StageOf, RebindSteps

(* A run that was not started yet starts in the first stage, or fails before
   any. *)
LEMMA LaunchReports ==
  ASSUME StageInv, NEW r \in Runs, Launch(r)
  PROVE  ReportAccurate' /\ \A q \in Runs : Progress(q)'
<1>1. /\ outcome[r] = "not started" /\ work_dir[r] = None
      /\ completed_steps[r] = <<"DISASTER_DECLARED">> /\ failed_step[r] = None
  BY DEF Launch, StageInv, VerifiedInv, OwnDirectories, Progress
<1>2. ASSUME NEW q \in Runs \ {r}
      PROVE  /\ outcome'[q] = outcome[q] /\ step'[q] = step[q]
             /\ current_state'[q] = current_state[q]
             /\ completed_steps'[q] = completed_steps[q] /\ failed_step'[q] = failed_step[q]
             /\ work_dir'[q] = work_dir[q]
  BY DEF Launch, Fail, StageInv, VerifiedInv, TypeInv, TypeOK, ControlOK, HostOK
<1>3. \/ /\ outcome'[r] = "FAILED" /\ current_state'[r] = "FAILED" /\ work_dir'[r] = None
         /\ failed_step'[r] = "RECOVERY_INITIALIZATION"
         /\ completed_steps'[r] = <<"DISASTER_DECLARED">>
      \/ /\ outcome'[r] = "running" /\ step'[r] = "fence"
         /\ current_state'[r] = StageOrder[1] /\ failed_step'[r] = StageOrder[1]
         /\ completed_steps'[r] = <<"DISASTER_DECLARED">>
  <2>1. ControlOK
    BY DEF StageInv, VerifiedInv, TypeInv, TypeOK
  <2>2. CASE Fail(r) /\ UNCHANGED work_dir
    BY <1>1, <2>1, <2>2 DEF Fail, ControlOK
  <2>3. CASE /\ outcome' = [outcome EXCEPT ![r] = "running"]
             /\ current_state' = [current_state EXCEPT ![r] = "FENCING_PENDING"]
             /\ failed_step' = [failed_step EXCEPT ![r] = "FENCING_PENDING"]
             /\ step' = [step EXCEPT ![r] = "fence"]
             /\ UNCHANGED completed_steps
    BY <1>1, <2>1, <2>3, StageAt DEF ControlOK
  <2> QED
    BY <2>2, <2>3 DEF Launch
<1>4. <<"DISASTER_DECLARED">> = <<"DISASTER_DECLARED">> \o SubSeq(StageOrder, 1, 1 - 1)
  <2>1. SubSeq(StageOrder, 1, 1 - 1) = << >>
    BY SubSeqEmpty
  <2>2. <<"DISASTER_DECLARED">> \in Seq(RecoveryStates)
    BY DEF RecoveryStates
  <2> QED
    BY <2>1, <2>2, ConcatEmptySeq
<1>5. /\ outcome'[r] = "running" => InStage(r, 1)' /\ current_state'[r] = StageOrder[1]
      /\ Progress(r)'
  <2>1. outcome'[r] # "not started"
    BY <1>3
  <2> QED
    BY <1>3, <1>4, <2>1, StageOfCalls DEF InStage, Progress, AtStage
<1>6. ASSUME NEW q \in Runs \ {r}
      PROVE  Progress(q)' /\ \A i : InStage(q, i)' <=> InStage(q, i)
  <2>1. \A i : InStage(q, i)' <=> InStage(q, i)
    BY <1>2 DEF InStage
  <2> QED
    BY <1>2, <2>1 DEF StageInv, Progress, AtStage
<1>7. ReportAccurate'
  <2>1. 1 \in 1 .. 11
    OBVIOUS
  <2> QED
    BY <1>2, <1>3, <1>5, <1>6, <2>1 DEF StageInv, ReportAccurate
<1> QED
  BY <1>5, <1>6, <1>7

(* Everybody else leaves the control of all runs alone. *)
LEMMA OthersReport ==
  ASSUME StageInv, UNCHANGED <<control, work_dir>>
  PROVE  ReportAccurate' /\ \A q \in Runs : Progress(q)'
BY DEF StageInv, ReportAccurate, Progress, AtStage, InStage, control

LEMMA StageInit ==
  Init => StageInv
<1> SUFFICES ASSUME Init PROVE ReportAccurate /\ \A r \in Runs : Progress(r)
  BY VerifiedInit DEF StageInv
<1> QED
  BY DEF Init, ReportAccurate, Progress

LEMMA StageNext ==
  StageInv /\ [Next]_vars => StageInv'
<1> SUFFICES ASSUME StageInv, [Next]_vars
             PROVE  ReportAccurate' /\ \A r \in Runs : Progress(r)'
  BY VerifiedNext DEF StageInv
<1>1. ASSUME NEW r \in Runs, RunStep(r) \/ Interrupt(r) \/ Kill(r)
      PROVE  ReportAccurate' /\ \A q \in Runs : Progress(q)'
  BY <1>1, StepMoves, EndsMove, MovesReport
<1>2. ASSUME NEW r \in Runs, Launch(r)
      PROVE  ReportAccurate' /\ \A q \in Runs : Progress(q)'
  BY <1>2, LaunchReports
<1>3. CASE UNCHANGED <<control, work_dir>>
  BY <1>3, OthersReport
<1>4. /\ \A r \in Runs : JobEnds(r) => UNCHANGED <<control, work_dir>>
      /\ \A b \in Backups : PublishBackup(b) => UNCHANGED <<control, work_dir>>
      /\ \A b \in Backups, p \in BlobParts : DamageBlob(b, p) => UNCHANGED <<control, work_dir>>
      /\ \A d \in WorkDirs, p \in Artifacts : LoseWorkFile(d, p) => UNCHANGED <<control, work_dir>>
      /\ UNCHANGED vars => UNCHANGED <<control, work_dir>>
  BY DEF JobEnds, PublishBackup, DamageBlob, LoseWorkFile, vars, host
<1> QED
  BY <1>1, <1>2, <1>3, <1>4 DEF Next

(* What execute_failover reports is what happened, however many runs overlap
   and whatever fails: the completed stages are a prefix of the fixed order,
   the failed stage is the one after them, and SUCCESS lists all of them. *)
THEOREM ReportsAccurate == Spec => []ReportAccurate
<1>1. StageInv => ReportAccurate
  BY DEF StageInv
<1> QED
  BY <1>1, StageInit, StageNext, PTL DEF Spec

-----------------------------------------------------------------------------
(* What had been validated when a run, or a command it left behind, reaches
   the server; and that the files it uses belong to its manifest. *)
FilesOfManifest(r) ==
  \A p \in Artifacts :
    files[work_dir[r]][p] # None =>
      manifest[r] # None /\ files[work_dir[r]][p].backup = manifest[r].backup

Validated(r) ==
  /\ outcome[r] = "not started" => manifest[r] = None
  /\ outcome[r] = "running" =>
       /\ StageOf(step[r]) >= 3 => fencing_result[r] # None
       /\ manifest[r] # None <=> StageOf(step[r]) >= 5
  /\ MayRead(r) => FilesOfManifest(r)
  /\ job[r] # "none" => GateOpen(r)

GatedInv == StageInv /\ \A r \in Runs : Validated(r)

(* A step of the process of r concerns nobody else: neither the attributes
   of another run nor another directory. *)
Frame(r) ==
  /\ UNCHANGED <<work_dir, dirs>>
  /\ \A q \in Runs \ {r} :
       /\ outcome'[q] = outcome[q] /\ step'[q] = step[q]
       /\ completed_steps'[q] = completed_steps[q] /\ job'[q] = job[q]
       /\ fencing_result'[q] = fencing_result[q] /\ manifest'[q] = manifest[q]
  /\ \A d \in WorkDirs \ {work_dir[r]} : files'[d] = files[d] /\ secrets'[d] = secrets[d]

LEMMA StepFrames ==
  ASSUME StageInv, NEW r \in Runs, RunStep(r) \/ Interrupt(r) \/ Kill(r)
  PROVE  Frame(r)
<1> USE DEF StageInv, VerifiedInv, TypeInv, TypeOK
<1>1. UNCHANGED <<work_dir, dirs>>
  BY DEF RunStep, Fence, ConfirmFencing, Preflight, ResolveManifest, AcquireManifest,
         CheckProperties, DownloadArtifact, DownloadBreaks, VerifyArtifact, StopDR,
         RestoreRepository, ImportSettings, ArtifactMissing, ReadSecrets, WriteSecret,
         WriteCertificate, WriteKey, EnableExternalSsl, ApplyPendingChanges,
         CleanUpSecrets, StartDR, ValidateHealth, IoFails, TsmFails, Interrupt, Kill, host
<1>2. ASSUME NEW q \in Runs \ {r}
      PROVE  /\ outcome'[q] = outcome[q] /\ step'[q] = step[q]
             /\ completed_steps'[q] = completed_steps[q]
  BY StepMoves, EndsMove, OthersControl
<1>3. ASSUME NEW q \in Runs \ {r}
      PROVE  fencing_result'[q] = fencing_result[q] /\ manifest'[q] = manifest[q]
  <2>1. CASE Fence(r)
    BY <2>1 DEF Fence, MemoryOK
  <2>2. CASE AcquireManifest(r)
    BY <2>2 DEF AcquireManifest, MemoryOK
  <2>3. CASE ~Fence(r) /\ ~AcquireManifest(r)
    <3>1. UNCHANGED <<fencing_result, manifest>>
      BY <2>3 DEF RunStep, ConfirmFencing, Preflight, ResolveManifest,
         CheckProperties, DownloadArtifact, DownloadBreaks, VerifyArtifact, StopDR,
         RestoreRepository, ImportSettings, ArtifactMissing, ReadSecrets, WriteSecret,
         WriteCertificate, WriteKey, EnableExternalSsl, ApplyPendingChanges,
         CleanUpSecrets, StartDR, ValidateHealth, IoFails, TsmFails, Interrupt, Kill, memory
    <3> QED
      BY <3>1
  <2> QED
    BY <2>1, <2>2, <2>3
<1>4. ASSUME NEW q \in Runs \ {r}
      PROVE  job'[q] = job[q]
  <2>1. CASE LeaveCommand(r)
    BY <2>1 DEF LeaveCommand, tsm, TsmOK
  <2>2. CASE UNCHANGED job
    BY <2>2
  <2>3. LeaveCommand(r) \/ UNCHANGED job
    BY DEF RunStep, Fence, ConfirmFencing, Preflight, ResolveManifest, AcquireManifest,
         CheckProperties, DownloadArtifact, DownloadBreaks, VerifyArtifact, StopDR,
         RestoreRepository, ImportSettings, ArtifactMissing, ReadSecrets, WriteSecret,
         WriteCertificate, WriteKey, EnableExternalSsl, ApplyPendingChanges,
         CleanUpSecrets, StartDR, ValidateHealth, IoFails, TsmFails, Interrupt, Kill,
         TsmSucceeds, tsm
  <2> QED
    BY <2>1, <2>2, <2>3
<1>5. ASSUME NEW d \in WorkDirs \ {work_dir[r]}
      PROVE  files'[d] = files[d]
  <2>1. UNCHANGED files \/ \E payload : SaveFile(r, payload)
    BY DEF RunStep, Fence, ConfirmFencing, Preflight, ResolveManifest, AcquireManifest,
         CheckProperties, DownloadArtifact, DownloadBreaks, VerifyArtifact, StopDR,
         RestoreRepository, ImportSettings, ArtifactMissing, ReadSecrets, WriteSecret,
         WriteCertificate, WriteKey, EnableExternalSsl, ApplyPendingChanges,
         CleanUpSecrets, StartDR, ValidateHealth, IoFails, TsmFails, Interrupt, Kill,
         LeaveFile, host
  <2> QED
    BY <2>1 DEF SaveFile, HostOK
<1>6. ASSUME NEW d \in WorkDirs \ {work_dir[r]}
      PROVE  secrets'[d] = secrets[d]
  <2>1. UNCHANGED secrets \/ \E left : secrets' = [secrets EXCEPT ![work_dir[r]] = left]
    BY DEF RunStep, Fence, ConfirmFencing, Preflight, ResolveManifest, AcquireManifest,
         CheckProperties, DownloadArtifact, DownloadBreaks, VerifyArtifact, StopDR,
         RestoreRepository, ImportSettings, ArtifactMissing, ReadSecrets, WriteSecret,
         WriteCertificate, WriteKey, EnableExternalSsl, ApplyPendingChanges,
         CleanUpSecrets, StartDR, ValidateHealth, IoFails, TsmFails, Interrupt, Kill,
         LeaveSecrets, host
  <2> QED
    BY <2>1 DEF HostOK
<1> QED
  BY <1>1, <1>2, <1>3, <1>4, <1>5, <1>6 DEF Frame

LEMMA OthersValidated ==
  ASSUME GatedInv, NEW r \in Runs, Frame(r), outcome[r] = "running", NEW q \in Runs \ {r}
  PROVE  Validated(q)'
<1>1. MayRead(q) => work_dir[q] \in WorkDirs /\ work_dir[q] # work_dir[r]
  BY RecoveryAssumption DEF MayRead, GatedInv, StageInv, VerifiedInv, TypeInv, TypeOK, HostOK,
                            Equipped, OwnDirectories
<1>2. /\ outcome'[q] = outcome[q] /\ step'[q] = step[q] /\ job'[q] = job[q]
      /\ completed_steps'[q] = completed_steps[q]
      /\ fencing_result'[q] = fencing_result[q] /\ manifest'[q] = manifest[q]
      /\ work_dir'[q] = work_dir[q]
  BY DEF Frame
<1>3. MayRead(q)' <=> MayRead(q)
  BY <1>2 DEF MayRead
<1>4. MayRead(q) => files'[work_dir[q]] = files[work_dir[q]]
  BY <1>1 DEF Frame
<1>5. MayRead(q)' => FilesOfManifest(q)'
  <2> SUFFICES ASSUME MayRead(q)' PROVE FilesOfManifest(q)'
    OBVIOUS
  <2>1. FilesOfManifest(q) /\ files'[work_dir'[q]] = files[work_dir[q]]
    BY <1>2, <1>3, <1>4 DEF GatedInv, Validated
  <2> QED
    BY <1>2, <2>1 DEF FilesOfManifest
<1>6. GateOpen(q)' <=> GateOpen(q)
  BY <1>2 DEF GateOpen
<1> QED
  BY <1>2, <1>5, <1>6 DEF GatedInv, Validated

(* After five stages all gates are open. *)
LEMMA GatesPassed ==
  ASSUME GatedInv, NEW r \in Runs, outcome[r] = "running", StageOf(step[r]) >= 6
  PROVE  GateOpen(r)
<1> DEFINE k == StageOf(step[r])
<1>1. /\ k \in 6 .. 11
      /\ completed_steps[r] = <<"DISASTER_DECLARED">> \o SubSeq(StageOrder, 1, k - 1)
  <2>1. k \in 1 .. 11 /\ k >= 6
    BY StageOfRange
  <2>2. AtStage(r, k)
    BY DEF GatedInv, StageInv, Progress
  <2>3. completed_steps[r] = <<"DISASTER_DECLARED">> \o SubSeq(StageOrder, 1, k - 1)
    BY <2>2 DEF AtStage, InStage
  <2> HIDE DEF k
  <2>4. k \in 6 .. 11
    BY <2>1
  <2> QED
    BY <2>3, <2>4
<1> HIDE DEF k
<1> DEFINE done == SubSeq(StageOrder, 1, k - 1)
           all == <<"DISASTER_DECLARED">> \o done
<1>2. /\ done \in Seq(Stages) /\ Len(done) = k - 1
      /\ \A i \in 1 .. k - 1 : done[i] = StageOrder[i]
  <2>1. ASSUME NEW i \in 1 .. k - 1 PROVE StageOrder[i] \in Stages
    <3>1. k \in 6 .. 11
      BY <1>1
    <3>2. i \in 1 .. 11
      BY <3>1
    <3>3. \A j \in 1 .. 11 : StageOrder[j] \in Stages
      BY StageAt
    <3> QED
      BY <3>2, <3>3
  <2>2. 1 \in Int /\ k - 1 \in Int /\ 1 <= k - 1
    BY <1>1
  <2> QED
    BY <2>1, <2>2, SubSeqProperties
<1>3. ASSUME NEW i \in 1 .. 5
      PROVE  StageOrder[i] \in {all[j] : j \in 1 .. Len(all)}
  <2>1. <<"DISASTER_DECLARED">> \in Seq(RecoveryStates) /\ done \in Seq(RecoveryStates)
    BY <1>2 DEF RecoveryStates
  <2>2. Len(<<"DISASTER_DECLARED">>) = 1
    OBVIOUS
  <2> HIDE DEF done
  <2>3. Len(all) = 1 + (k - 1) /\ \A j \in 1 .. 1 + (k - 1) :
          all[j] = IF j <= 1 THEN <<"DISASTER_DECLARED">>[j] ELSE done[j - 1]
    BY <1>2, <2>1, <2>2, ConcatProperties
  <2>4. i + 1 \in 1 .. Len(all) /\ all[i + 1] = done[i] /\ done[i] = StageOrder[i]
    BY <1>1, <1>2, <2>3
  <2> QED
    BY <2>4
<1>4. Gates \subseteq {completed_steps[r][j] : j \in 1 .. Len(completed_steps[r])}
  BY <1>1, <1>3 DEF Gates
<1>5. fencing_result[r] # None /\ manifest[r] # None
  <2>1. k >= 3 /\ k >= 5
    BY <1>1
  <2> QED
    BY <2>1 DEF GatedInv, Validated, k
<1> QED
  BY <1>4, <1>5 DEF GateOpen

-----------------------------------------------------------------------------
(* The steps of r's own process.  One that ends the run: *)
LEMMA EndedValidated ==
  ASSUME GatedInv, NEW r \in Runs, outcome[r] = "running",
         outcome'[r] \notin {"running", "not started"},
         fencing_result'[r] = fencing_result[r], manifest'[r] = manifest[r],
         completed_steps'[r] = completed_steps[r], UNCHANGED work_dir,
         job'[r] # "none" => /\ files'[work_dir[r]] = files[work_dir[r]]
                             /\ job[r] # "none" \/ StageOf(step[r]) >= 6
  PROVE  Validated(r)'
<1>1. GateOpen(r)' <=> GateOpen(r)
  BY DEF GateOpen
<1>2. job'[r] # "none" => GateOpen(r)
  BY GatesPassed DEF GatedInv, Validated
<1>3. job'[r] # "none" => FilesOfManifest(r)'
  <2>1. FilesOfManifest(r)
    BY DEF GatedInv, Validated, MayRead
  <2> QED
    BY <2>1 DEF FilesOfManifest
<1> QED
  BY <1>1, <1>2, <1>3 DEF Validated, MayRead

(* One after which it goes on. *)
LEMMA GoesOnValidated ==
  ASSUME GatedInv, NEW r \in Runs, outcome[r] = "running", outcome'[r] = "running",
         StageOf(step'[r]) >= 3 => fencing_result'[r] # None,
         manifest'[r] # None <=> StageOf(step'[r]) >= 5,
         FilesOfManifest(r)',
         job'[r] # "none" => /\ fencing_result'[r] = fencing_result[r]
                             /\ manifest'[r] = manifest[r]
                             /\ completed_steps'[r] = completed_steps[r]
                             /\ StageOf(step[r]) >= 6
  PROVE  Validated(r)'
<1>1. job'[r] # "none" => GateOpen(r)'
  BY GatesPassed DEF GateOpen
<1> QED
  BY <1>1 DEF Validated

(* Within a stage, or from one to the next, with the same manifest. *)
LEMMA FilesStay ==
  ASSUME GatedInv, NEW r \in Runs, outcome[r] = "running",
         UNCHANGED work_dir, manifest'[r] = manifest[r],
         files'[work_dir[r]] = files[work_dir[r]]
  PROVE  FilesOfManifest(r)'
<1>1. FilesOfManifest(r)
  BY DEF GatedInv, Validated, MayRead
<1> QED
  BY <1>1 DEF FilesOfManifest

LEMMA NoFiles ==
  ASSUME GatedInv, NEW r \in Runs, outcome[r] = "running", manifest[r] = None
  PROVE  \A p \in Artifacts : files[work_dir[r]][p] = None
BY DEF GatedInv, Validated, MayRead, FilesOfManifest

LEMMA QuietValidated ==
  ASSUME GatedInv, NEW r \in Runs,
         \/ Fence(r) \/ ConfirmFencing(r) \/ Preflight(r) \/ ResolveManifest(r)
         \/ AcquireManifest(r) \/ CheckProperties(r) \/ VerifyArtifact(r)
         \/ ReadSecrets(r) \/ WriteCertificate(r) \/ WriteKey(r) \/ ArtifactMissing(r)
  PROVE  Validated(r)'
<1> USE DEF Active
<1>1. /\ outcome[r] = "running" /\ step[r] # "cleanup"
      /\ UNCHANGED <<work_dir, files, job>>
  BY DEF Fence, ConfirmFencing, Preflight, ResolveManifest, AcquireManifest,
         CheckProperties, VerifyArtifact, ArtifactMissing, ReadSecrets,
         WriteCertificate, WriteKey, WriteSecret, NeedsFile, host, tsm
<1>2. job'[r] = "none"
  BY <1>1, NoLateCommand DEF GatedInv, StageInv
<1>3. ControlOK /\ MemoryOK
  BY DEF GatedInv, StageInv, VerifiedInv, TypeInv, TypeOK
<1>4. /\ StageOf(step[r]) >= 3 => fencing_result[r] # None
      /\ manifest[r] # None <=> StageOf(step[r]) >= 5
  BY <1>1 DEF GatedInv, Validated
<1>5. ASSUME Fail(r), fencing_result'[r] = fencing_result[r], manifest'[r] = manifest[r]
      PROVE  Validated(r)'
  BY <1>1, <1>2, <1>3, <1>5, EndedValidated DEF Fail, ControlOK
<1>6. CASE Fence(r)
  <2>1. CASE Fail(r) /\ UNCHANGED fencing_result
    BY <1>5, <1>6, <2>1 DEF Fence
  <2>2. CASE Advance(r, "PRODUCTION_FENCED", "confirm")
    <3>1. outcome'[r] = "running" /\ step'[r] = "confirm" /\ manifest'[r] = manifest[r]
      BY <1>1, <1>3, <1>6, <2>2 DEF Fence, Advance, ControlOK
    <3>2. ~(StageOf(step'[r]) >= 3) /\ ~(StageOf(step'[r]) >= 5) /\ manifest[r] = None
      BY <1>4, <1>6, <3>1, StageOfCalls DEF Fence
    <3>3. FilesOfManifest(r)'
      BY <1>1, <3>1, FilesStay
    <3> QED
      BY <1>1, <1>2, <3>1, <3>2, <3>3, GoesOnValidated
  <2> QED
    BY <1>6, <2>1, <2>2 DEF Fence
<1>7. CASE AcquireManifest(r)
  <2>1. CASE Fail(r) /\ UNCHANGED manifest
    BY <1>5, <1>7, <2>1 DEF AcquireManifest
  <2>2. ASSUME NEW payload, Acceptable(payload),
               manifest' = [manifest EXCEPT ![r] = payload],
               Advance(r, "BACKUP_ARTIFACTS_VALIDATED", "properties")
        PROVE  Validated(r)'
    <3>1. /\ outcome'[r] = "running" /\ step'[r] = "properties" /\ manifest'[r] = payload
          /\ payload # None /\ fencing_result'[r] = fencing_result[r]
      BY <1>1, <1>3, <1>7, <2>2 DEF AcquireManifest, Advance, ControlOK, MemoryOK, Acceptable
    <3>2. fencing_result[r] # None /\ manifest[r] = None
      BY <1>4, <1>7, StageOfCalls DEF AcquireManifest
    <3>3. FilesOfManifest(r)'
      BY <1>1, <3>2, NoFiles DEF FilesOfManifest
    <3>4. StageOf(step'[r]) >= 5
      BY <3>1, StageOfCalls
    <3> QED
      BY <1>1, <1>2, <3>1, <3>2, <3>3, <3>4, GoesOnValidated
  <2> QED
    BY <1>7, <2>1, <2>2 DEF AcquireManifest
<1>8. CASE ConfirmFencing(r)
  <2>1. fencing_result'[r] = fencing_result[r] /\ manifest'[r] = manifest[r]
    BY <1>8 DEF ConfirmFencing, memory
  <2>2. CASE Fail(r)
    BY <1>5, <2>1, <2>2
  <2>3. CASE fencing_result[r] # None /\ Advance(r, "DR_PREFLIGHT_PASSED", "preflight")
    <3>1. outcome'[r] = "running" /\ step'[r] = "preflight"
      BY <1>1, <1>3, <2>3 DEF Advance, ControlOK
    <3>2. ~(StageOf(step'[r]) >= 5) /\ manifest[r] = None
      BY <1>4, <1>8, <3>1, StageOfCalls DEF ConfirmFencing
    <3>3. FilesOfManifest(r)'
      BY <1>1, <2>1, FilesStay
    <3> QED
      BY <1>1, <1>2, <2>1, <2>3, <3>1, <3>2, <3>3, GoesOnValidated
  <2> QED
    BY <1>8, <2>2, <2>3 DEF ConfirmFencing
<1>9. CASE \/ Preflight(r) \/ ResolveManifest(r) \/ CheckProperties(r) \/ VerifyArtifact(r)
           \/ ReadSecrets(r) \/ WriteCertificate(r) \/ WriteKey(r) \/ ArtifactMissing(r)
  <2>1. fencing_result'[r] = fencing_result[r] /\ manifest'[r] = manifest[r]
    BY <1>9 DEF Preflight, ResolveManifest, CheckProperties, VerifyArtifact, ReadSecrets,
                WriteCertificate, WriteKey, WriteSecret, ArtifactMissing, memory
  <2>2. CASE Fail(r)
    BY <1>5, <2>1, <2>2
  <2>3. ASSUME NEW next, NEW first, Advance(r, next, first) \/ Goto(r, first),
               StageOf(first) >= 3 => StageOf(step[r]) >= 3,
               StageOf(first) >= 5 <=> StageOf(step[r]) >= 5
        PROVE  Validated(r)'
    <3>1. outcome'[r] = "running" /\ step'[r] = first
      BY <1>1, <1>3, <2>3 DEF Advance, Goto, ControlOK
    <3>2. FilesOfManifest(r)'
      BY <1>1, <2>1, FilesStay
    <3> QED
      BY <1>1, <1>2, <1>4, <2>1, <2>3, <3>1, <3>2, GoesOnValidated
  <2>4. \/ Fail(r)
        \/ step[r] = "preflight" /\ Advance(r, "MANIFEST_VALIDATED", "resolve")
        \/ step[r] = "resolve" /\ Goto(r, "manifest")
        \/ step[r] = "properties" /\ Goto(r, "download")
        \/ step[r] = "verify" /\ Goto(r, "properties")
        \/ step[r] = "verify" /\ Advance(r, "DR_STOPPED", "stop")
        \/ step[r] \in RebindSteps /\ \E s \in RebindSteps : Goto(r, s)
    BY <1>9 DEF Preflight, ResolveManifest, CheckProperties, VerifyArtifact, ReadSecrets,
                WriteCertificate, WriteKey, WriteSecret, ArtifactMissing, RebindSteps
  <2>5. CASE step[r] \in RebindSteps /\ \E s \in RebindSteps : Goto(r, s)
    <3>1. PICK s \in RebindSteps : Goto(r, s)
      BY <2>5
    <3>2. StageOf(s) = 9 /\ StageOf(step[r]) = 9
      BY <2>5, StageOfCalls
    <3> QED
      BY <2>3, <3>1, <3>2
  <2>6. CASE step[r] = "preflight" /\ Advance(r, "MANIFEST_VALIDATED", "resolve")
    BY <2>3, <2>6, StageOfCalls
  <2>7. CASE step[r] = "resolve" /\ Goto(r, "manifest")
    BY <2>3, <2>7, StageOfCalls
  <2>8. CASE step[r] = "properties" /\ Goto(r, "download")
    BY <2>3, <2>8, StageOfCalls
  <2>9. CASE step[r] = "verify" /\ Goto(r, "properties")
    BY <2>3, <2>9, StageOfCalls
  <2>10. CASE step[r] = "verify" /\ Advance(r, "DR_STOPPED", "stop")
    BY <2>3, <2>10, StageOfCalls
  <2> QED
    BY <2>2, <2>4, <2>5, <2>6, <2>7, <2>8, <2>9, <2>10
<1> QED
  BY <1>6, <1>7, <1>8, <1>9

LEMMA DownloadValidated ==
  ASSUME GatedInv, NEW r \in Runs, DownloadArtifact(r) \/ DownloadBreaks(r)
  PROVE  Validated(r)'
<1>1. /\ outcome[r] = "running" /\ step[r] = "download"
      /\ UNCHANGED <<work_dir, job, manifest, fencing_result>>
  BY DEF DownloadArtifact, DownloadBreaks, Active, memory, tsm
<1>2. job'[r] = "none"
  BY <1>1, NoLateCommand DEF GatedInv, StageInv
<1>3. /\ ControlOK /\ MemoryOK /\ HostOK
      /\ work_dir[r] \in WorkDirs /\ artifact[r] \in Artifacts
  BY <1>1 DEF GatedInv, StageInv, VerifiedInv, TypeInv, TypeOK, Equipped, HostOK, MemoryOK
<1>4. CASE Fail(r)
  BY <1>1, <1>2, <1>3, <1>4, EndedValidated DEF Fail, ControlOK
<1>5. CASE /\ DownloadValid(RemoteBlob(r).content, Expected(r))
           /\ SaveFile(r, RemoteBlob(r).content) /\ Goto(r, "verify")
  <2>1. outcome'[r] = "running" /\ step'[r] = "verify"
    BY <1>1, <1>3, <1>5 DEF Goto, ControlOK
  <2>2. fencing_result[r] # None /\ manifest[r] # None /\ StageOf(step'[r]) = 5
    <3>1. StageOf(step[r]) >= 3 /\ StageOf(step[r]) >= 5
      BY <1>1, StageOfCalls
    <3> QED
      BY <1>1, <2>1, <3>1, StageOfCalls DEF GatedInv, Validated
  <2>3. RemoteBlob(r).content.backup = manifest[r].backup
    BY <1>5 DEF DownloadValid, Expected, Pristine
  <2>4. FilesOfManifest(r)'
    <3>1. \A p \in Artifacts : files'[work_dir[r]][p] =
            IF p = artifact[r] THEN RemoteBlob(r).content ELSE files[work_dir[r]][p]
      BY <1>3, <1>5 DEF SaveFile, HostOK
    <3>2. FilesOfManifest(r)
      BY <1>1 DEF GatedInv, Validated, MayRead
    <3> QED
      BY <1>1, <2>2, <2>3, <3>1, <3>2 DEF FilesOfManifest
  <2> QED
    BY <1>1, <1>2, <2>1, <2>2, <2>4, GoesOnValidated
<1> QED
  BY <1>4, <1>5 DEF DownloadArtifact, DownloadBreaks

LEMMA CommandsValidated ==
  ASSUME GatedInv, NEW r \in Runs,
         \/ StopDR(r) \/ RestoreRepository(r) \/ ImportSettings(r)
         \/ EnableExternalSsl(r) \/ ApplyPendingChanges(r) \/ StartDR(r)
  PROVE  Validated(r)'
<1>1. /\ outcome[r] = "running" /\ step[r] \in TsmCommands
      /\ UNCHANGED <<work_dir, files, job, manifest, fencing_result>>
  BY DEF StopDR, RestoreRepository, ImportSettings, EnableExternalSsl, ApplyPendingChanges,
         StartDR, TsmSucceeds, Active, TsmCommands, memory, host
<1>2. job'[r] = "none"
  BY <1>1, NoLateCommand DEF GatedInv, StageInv, TsmCommands
<1>3. PICK next, first : /\ Advance(r, next, first) \/ Goto(r, first)
                         /\ first \in {"restore", "import", "secrets", "apply", "cleanup", "health"}
  BY DEF StopDR, RestoreRepository, ImportSettings, EnableExternalSsl, ApplyPendingChanges,
         StartDR
<1>4. outcome'[r] = "running" /\ step'[r] = first
  BY <1>1, <1>3 DEF Advance, Goto, GatedInv, StageInv, VerifiedInv, TypeInv, TypeOK, ControlOK
<1>5. StageOf(step[r]) >= 6 /\ StageOf(first) >= 6
  BY <1>1, <1>3 DEF StageOf, RebindSteps, TsmCommands
<1>6. fencing_result[r] # None /\ manifest[r] # None
  BY <1>1, <1>5, GatesPassed DEF GateOpen
<1>7. FilesOfManifest(r)'
  BY <1>1, FilesStay
<1>8. StageOf(step'[r]) >= 5
  BY <1>4, <1>5, StageOfRange
<1> QED
  BY <1>1, <1>2, <1>4, <1>6, <1>7, <1>8, GoesOnValidated

LEMMA CleanUpValidated ==
  ASSUME GatedInv, NEW r \in Runs, CleanUpSecrets(r)
  PROVE  Validated(r)'
<1>1. /\ outcome[r] = "running" /\ step[r] = "cleanup"
      /\ UNCHANGED <<work_dir, files, job, manifest, fencing_result>>
  BY DEF CleanUpSecrets, Active, memory, tsm
<1>2. ControlOK
  BY DEF GatedInv, StageInv, VerifiedInv, TypeInv, TypeOK
<1>3. StageOf(step[r]) = 9 /\ StageOf("start") = 10
  BY <1>1, StageOfCalls
<1>4. CASE Fail(r) \/ Gone(r, "interrupted")
  BY <1>1, <1>2, <1>3, <1>4, EndedValidated DEF Fail, Gone, ControlOK
<1>5. CASE raised[r] = "nothing" /\ Advance(r, "DR_STARTED", "start")
  <2>1. outcome'[r] = "running" /\ step'[r] = "start"
    BY <1>1, <1>2, <1>5 DEF Advance, ControlOK
  <2>2. job'[r] = "none"
    BY <1>1, <1>5, NoLateCommand DEF GatedInv, StageInv
  <2>3. fencing_result[r] # None /\ manifest[r] # None
    BY <1>1, <1>3, GatesPassed DEF GateOpen
  <2>4. FilesOfManifest(r)'
    BY <1>1, FilesStay
  <2> QED
    BY <1>1, <1>3, <2>1, <2>2, <2>3, <2>4, GoesOnValidated
<1> QED
  BY <1>4, <1>5 DEF CleanUpSecrets

LEMMA HealthValidated ==
  ASSUME GatedInv, NEW r \in Runs, ValidateHealth(r)
  PROVE  Validated(r)'
<1>1. /\ outcome[r] = "running" /\ step[r] = "health"
      /\ UNCHANGED <<work_dir, files, job, manifest, fencing_result>>
  BY DEF ValidateHealth, Active, tsm
<1>2. job'[r] = "none"
  BY <1>1, NoLateCommand DEF GatedInv, StageInv
<1>3. ControlOK
  BY DEF GatedInv, StageInv, VerifiedInv, TypeInv, TypeOK
<1>4. outcome'[r] \in {"FAILED", "SUCCESS"}
  <2>1. outcome' = [outcome EXCEPT ![r] = "SUCCESS"] \/ outcome' = [outcome EXCEPT ![r] = "FAILED"]
    BY DEF ValidateHealth, Fail
  <2> QED
    BY <1>3, <2>1 DEF ControlOK
<1>5. ~MayRead(r)'
  BY <1>2, <1>4 DEF MayRead
<1> QED
  BY <1>2, <1>4, <1>5 DEF Validated

(* A command that fails, and a run that is cut short: at most the command
   just issued goes on, and it is one of the sixth stage or later. *)
LEMMA LeavesValidated ==
  ASSUME GatedInv, NEW r \in Runs, IoFails(r) \/ TsmFails(r) \/ Interrupt(r) \/ Kill(r)
  PROVE  Validated(r)'
<1>1. /\ outcome[r] = "running"
      /\ UNCHANGED <<work_dir, manifest, fencing_result>>
      /\ LeaveCommand(r) \/ UNCHANGED job
      /\ LeaveFile(r) \/ UNCHANGED files
  BY DEF IoFails, TsmFails, Interrupt, Kill, tsm, memory
<1>2. ControlOK /\ HostOK /\ job \in [Runs -> TsmCommands \cup {"none"}]
  BY DEF GatedInv, StageInv, VerifiedInv, TypeInv, TypeOK, TsmOK
<1>3. \A s \in TsmCommands : StageOf(s) >= 6
  BY DEF StageOf, RebindSteps, TsmCommands
<1>4. step[r] = "cleanup" => StageOf(step[r]) >= 6
  BY StageOfCalls
<1>5. job'[r] # "none" => /\ StageOf(step[r]) >= 6
                          /\ UNCHANGED files
  <2>1. job[r] # "none" => step[r] = "cleanup"
    BY <1>1 DEF GatedInv, StageInv, VerifiedInv, LateCommands
  <2>2. job'[r] # "none" => step[r] = "cleanup" \/ step[r] \in TsmCommands
    BY <1>1, <1>2, <2>1 DEF LeaveCommand, tsm
  <2> QED
    BY <1>1, <1>3, <1>4, <2>2 DEF LeaveFile, TsmCommands
<1>6. \/ Fail(r)
      \/ \E how \in {"interrupted", "killed"} : Gone(r, how)
      \/ step[r] \in RebindSteps /\ Goto(r, "cleanup")
  BY DEF IoFails, TsmFails, Raise, Interrupt, Kill
<1>7. CASE Fail(r) \/ \E how \in {"interrupted", "killed"} : Gone(r, how)
  <2>1. /\ outcome'[r] \notin {"running", "not started"}
        /\ completed_steps'[r] = completed_steps[r]
    BY <1>2, <1>7 DEF Fail, Gone, ControlOK
  <2> QED
    BY <1>1, <1>5, <2>1, EndedValidated
<1>8. CASE step[r] \in RebindSteps /\ Goto(r, "cleanup")
  <2>1. /\ outcome'[r] = "running" /\ step'[r] = "cleanup"
        /\ completed_steps'[r] = completed_steps[r]
    BY <1>1, <1>2, <1>8 DEF Goto, ControlOK
  <2>2. StageOf(step[r]) = 9 /\ StageOf(step'[r]) = 9
    BY <1>8, <2>1, StageOfCalls
  <2>3. fencing_result[r] # None /\ manifest[r] # None
    BY <1>1, <2>2, GatesPassed DEF GateOpen
  <2>4. FilesOfManifest(r)'
    <3>1. UNCHANGED files
      BY <1>1, <1>8 DEF LeaveFile, RebindSteps
    <3> QED
      BY <1>1, <3>1, FilesStay
  <2> QED
    BY <1>1, <2>1, <2>2, <2>3, <2>4, GoesOnValidated
<1> QED
  BY <1>6, <1>7, <1>8

LEMMA LaunchValidated ==
  ASSUME GatedInv, NEW r \in Runs, Launch(r), NEW q \in Runs
  PROVE  Validated(q)'
<1>1. /\ ControlOK /\ HostOK /\ UNCHANGED <<memory, files, tsm>>
      /\ outcome[r] = "not started" /\ job[r] = "none" /\ work_dir[r] = None
      /\ manifest[r] = None
  BY DEF Launch, GatedInv, StageInv, VerifiedInv, TypeInv, TypeOK, OwnDirectories, Validated
<1>2. CASE q # r
  <2>1. /\ outcome'[q] = outcome[q] /\ step'[q] = step[q]
        /\ completed_steps'[q] = completed_steps[q] /\ work_dir'[q] = work_dir[q]
    BY <1>1, <1>2 DEF Launch, Fail, ControlOK, HostOK
  <2>2. /\ MayRead(q)' <=> MayRead(q)
        /\ GateOpen(q)' <=> GateOpen(q)
        /\ FilesOfManifest(q)' <=> FilesOfManifest(q)
    BY <1>1, <2>1 DEF MayRead, GateOpen, FilesOfManifest, memory, tsm
  <2> QED
    BY <1>1, <2>1, <2>2 DEF GatedInv, Validated, memory, tsm
<1>3. CASE q = r /\ Fail(r)
  <2>1. outcome'[r] = "FAILED" /\ job'[r] = "none"
    BY <1>1, <1>3 DEF Fail, ControlOK, tsm
  <2> QED
    BY <1>3, <2>1 DEF Validated, MayRead
<1>4. ASSUME q = r, NEW d \in WorkDirs \ dirs, work_dir' = [work_dir EXCEPT ![r] = d],
             outcome' = [outcome EXCEPT ![r] = "running"],
             step' = [step EXCEPT ![r] = "fence"]
      PROVE  Validated(q)'
  <2>1. /\ outcome'[r] = "running" /\ step'[r] = "fence" /\ work_dir'[r] = d
        /\ manifest'[r] = None /\ job'[r] = "none"
    BY <1>1, <1>4 DEF ControlOK, HostOK, memory, tsm
  <2>2. \A p \in Artifacts : files'[d][p] = None
    BY <1>1 DEF GatedInv, StageInv, VerifiedInv, CleanFiles
  <2>3. ~(StageOf(step'[r]) >= 3) /\ ~(StageOf(step'[r]) >= 5)
    BY <2>1, StageOfCalls
  <2> QED
    BY <1>4, <2>1, <2>2, <2>3 DEF Validated, FilesOfManifest
<1> QED
  BY <1>2, <1>3, <1>4 DEF Launch, Available

(* A command comes to an end, a file is lost, the container changes. *)
LEMMA RestValidated ==
  ASSUME GatedInv, NEW q \in Runs, UNCHANGED <<control, memory, work_dir>>,
         job'[q] \in {job[q], "none"},
         \A d \in WorkDirs, p \in Artifacts : files'[d][p] \in {files[d][p], None}
  PROVE  Validated(q)'
<1>1. GateOpen(q)' <=> GateOpen(q)
  BY DEF GateOpen, control, memory
<1>2. MayRead(q)' => MayRead(q)
  BY DEF MayRead, control
<1>3. MayRead(q) => work_dir[q] \in WorkDirs /\ FilesOfManifest(q)
  BY DEF MayRead, GatedInv, StageInv, VerifiedInv, TypeInv, TypeOK, HostOK, Equipped, Validated
<1>4. MayRead(q)' => FilesOfManifest(q)'
  <2> SUFFICES ASSUME MayRead(q), NEW p \in Artifacts, files'[work_dir[q]][p] # None
               PROVE  manifest[q] # None /\ files'[work_dir[q]][p].backup = manifest[q].backup
    BY <1>2 DEF FilesOfManifest, memory
  <2>1. files'[work_dir[q]][p] = files[work_dir[q]][p]
    BY <1>3
  <2> QED
    BY <1>3, <2>1 DEF FilesOfManifest
<1> QED
  BY <1>1, <1>4 DEF GatedInv, Validated, control, memory

LEMMA GatedInit ==
  Init => GatedInv
<1> SUFFICES ASSUME Init, NEW r \in Runs PROVE Validated(r)
  BY StageInit DEF GatedInv
<1> QED
  BY DEF Init, Validated, MayRead

LEMMA GatedNext ==
  GatedInv /\ [Next]_vars => GatedInv'
<1> SUFFICES ASSUME GatedInv, [Next]_vars, NEW q \in Runs PROVE Validated(q)'
  BY StageNext DEF GatedInv
<1>1. ASSUME NEW r \in Runs, RunStep(r) \/ Interrupt(r) \/ Kill(r)
      PROVE  Validated(q)'
  <2>1. CASE q = r
    BY <1>1, <2>1, QuietValidated, DownloadValidated, CommandsValidated, CleanUpValidated,
       HealthValidated, LeavesValidated DEF RunStep
  <2>2. CASE q # r
    <3>1. outcome[r] = "running" /\ Frame(r)
      BY <1>1, StepFrames, StepMoves, EndsMove DEF GatedInv, ControlMoves
    <3> QED
      BY <2>2, <3>1, OthersValidated
  <2> QED
    BY <2>1, <2>2
<1>2. ASSUME NEW r \in Runs, Launch(r) PROVE Validated(q)'
  BY <1>2, LaunchValidated
<1>3. HostOK /\ job \in [Runs -> TsmCommands \cup {"none"}]
  BY DEF GatedInv, StageInv, VerifiedInv, TypeInv, TypeOK, TsmOK
<1>4. ASSUME NEW r \in Runs, JobEnds(r) PROVE Validated(q)'
  BY <1>3, <1>4, RestValidated DEF JobEnds, host
<1>5. ASSUME NEW d \in WorkDirs, NEW p \in Artifacts, LoseWorkFile(d, p)
      PROVE  Validated(q)'
  BY <1>3, <1>5, RestValidated DEF LoseWorkFile, HostOK, tsm
<1>6. CASE UNCHANGED <<control, memory, host, tsm>>
  BY <1>6, RestValidated DEF host, tsm
<1>7. /\ \A b \in Backups : PublishBackup(b) => UNCHANGED <<control, memory, host, tsm>>
      /\ \A b \in Backups, p \in BlobParts :
           DamageBlob(b, p) => UNCHANGED <<control, memory, host, tsm>>
      /\ UNCHANGED vars => UNCHANGED <<control, memory, host, tsm>>
  BY DEF PublishBackup, DamageBlob, vars
<1> QED
  BY <1>1, <1>2, <1>4, <1>5, <1>6, <1>7 DEF Next

(* What a command installs comes from the manifest of its run. *)
LEMMA CommandInstalls ==
  ASSUME GatedInv, NEW r \in Runs, MayRead(r), NEW command, Issuable(r, command),
         server' \in TsmAftermath(server, command, Argument(r, command)),
         NEW field \in {"repo", "pendingSettings"},
         server'[field] \notin {server[field], None}
  PROVE  server'[field].backup = manifest[r].backup
<1>1. server \in ServerStates
  BY DEF GatedInv, StageInv, VerifiedInv, TypeInv, TypeOK, TsmOK
<1>2. command \in NeedsFile => Argument(r, command).backup = manifest[r].backup
  <2>1. FilesOfManifest(r)
    BY DEF GatedInv, Validated
  <2> QED
    BY <2>1 DEF FilesOfManifest, Argument, Issuable, NeedsFile, Artifacts
<1> DEFINE file == Argument(r, command)
<1> HIDE DEF file
<1>3. \/ server' = TsmEffect(server, command, file)
      \/ /\ command = "restore"
         /\ server' = [server EXCEPT !.repo = Damaged(file.backup, file.part, "torn")]
  <2>1. server' # server
    OBVIOUS
  <2>2. server' \in TsmAftermath(server, command, file)
    BY DEF file
  <2> QED
    BY <2>1, <2>2 DEF TsmAftermath
<1>4. CASE field = "repo"
  <2>1. command = "restore" /\ server'["repo"] \in {file, Damaged(file.backup, file.part, "torn")}
    BY <1>1, <1>3, <1>4 DEF TsmEffect, ServerStates
  <2> QED
    BY <1>2, <1>4, <2>1 DEF NeedsFile, Damaged, file
<1>5. CASE field = "pendingSettings"
  <2>1. command = "import" /\ server'["pendingSettings"] = file
    BY <1>1, <1>3, <1>5 DEF TsmEffect, ServerStates
  <2> QED
    BY <1>2, <1>5, <2>1 DEF NeedsFile, file
<1> QED
  BY <1>4, <1>5

(* A process changes the server only by the command it has just issued. *)
LEMMA StepIssues ==
  ASSUME NEW r \in Runs, server' # server, RunStep(r) \/ Interrupt(r) \/ Kill(r)
  PROVE  /\ step[r] \in TsmCommands /\ Issuable(r, step[r])
         /\ server' \in TsmAftermath(server, step[r], Argument(r, step[r]))
<1>1. (\E command \in TsmCommands : TsmSucceeds(r, command)) \/ LeaveCommand(r)
  BY DEF RunStep, Fence, ConfirmFencing, Preflight, ResolveManifest, AcquireManifest,
         CheckProperties, DownloadArtifact, DownloadBreaks, VerifyArtifact, StopDR,
         RestoreRepository, ImportSettings, ArtifactMissing, ReadSecrets, WriteSecret,
         WriteCertificate, WriteKey, EnableExternalSsl, ApplyPendingChanges,
         CleanUpSecrets, StartDR, ValidateHealth, IoFails, TsmFails, Interrupt, Kill,
         TsmCommands, tsm
<1> QED
  BY <1>1 DEF TsmSucceeds, Active, LeaveCommand, TsmAftermath, tsm

(* The same with the gates, and for a command whose client has gone. *)
LEMMA StepInstalls ==
  ASSUME GatedInv, NEW r \in Runs, server' # server,
         RunStep(r) \/ Interrupt(r) \/ Kill(r) \/ JobEnds(r)
  PROVE  /\ GateOpen(r) /\ MayRead(r)
         /\ \E command : /\ Issuable(r, command)
                         /\ server' \in TsmAftermath(server, command, Argument(r, command))
<1>1. CASE JobEnds(r)
  BY <1>1 DEF JobEnds, MayRead, GatedInv, Validated
<1>2. CASE RunStep(r) \/ Interrupt(r) \/ Kill(r)
  <2>1. outcome[r] = "running"
    BY <1>2, StepMoves, EndsMove DEF GatedInv, ControlMoves
  <2>2. /\ step[r] \in TsmCommands /\ Issuable(r, step[r])
        /\ server' \in TsmAftermath(server, step[r], Argument(r, step[r]))
    BY <1>2, StepIssues
  <2>3. StageOf(step[r]) >= 6
    BY <2>2 DEF StageOf, RebindSteps, TsmCommands
  <2>4. GateOpen(r)
    BY <2>1, <2>3, GatesPassed
  <2> QED
    BY <2>1, <2>2, <2>4 DEF MayRead
<1> QED
  BY <1>1, <1>2

(* execute_failover does not touch the DR server before production is
   fenced, the preflight passed, and manifest and artifacts are validated;
   and what it installs then belongs to the manifest it validated.  The
   same holds for a command that goes on after its run has ended. *)
THEOREM DestructionIsGated == Spec => DestructionGated
<1> DEFINE Gated(r) ==
      /\ GateOpen(r)
      /\ \A field \in {"repo", "pendingSettings"} :
           server'[field] \notin {server[field], None}
             => server'[field].backup = manifest[r].backup
<1>1. ASSUME GatedInv, [Next]_vars
      PROVE  server' # server => \E r \in Runs : Gated(r)
  <2> SUFFICES ASSUME server' # server PROVE \E r \in Runs : Gated(r)
    OBVIOUS
  <2>1. /\ \A r \in Runs : Launch(r) => UNCHANGED tsm
        /\ \A b \in Backups : PublishBackup(b) => UNCHANGED tsm
        /\ \A b \in Backups, p \in BlobParts : DamageBlob(b, p) => UNCHANGED tsm
        /\ \A d \in WorkDirs, p \in Artifacts : LoseWorkFile(d, p) => UNCHANGED tsm
        /\ UNCHANGED vars => UNCHANGED tsm
        /\ ~UNCHANGED tsm
    BY DEF Launch, PublishBackup, DamageBlob, LoseWorkFile, vars, tsm
  <2>2. PICK r \in Runs : RunStep(r) \/ Interrupt(r) \/ Kill(r) \/ JobEnds(r)
    BY <1>1, <2>1 DEF Next
  <2>3. GateOpen(r) /\ MayRead(r)
    BY <1>1, <2>2, StepInstalls
  <2>4. PICK command : /\ Issuable(r, command)
                       /\ server' \in TsmAftermath(server, command, Argument(r, command))
    BY <1>1, <2>2, StepInstalls
  <2>5. ASSUME NEW field \in {"repo", "pendingSettings"},
               server'[field] \notin {server[field], None}
        PROVE  server'[field].backup = manifest[r].backup
    BY <1>1, <2>3, <2>4, <2>5, CommandInstalls
  <2> QED
    BY <2>3, <2>5
<1>2. GatedInv /\ [Next]_vars => [server' # server => \E r \in Runs : Gated(r)]_vars
  BY <1>1
<1> QED
  BY <1>2, GatedInit, GatedNext, PTL DEF Spec, DestructionGated

-----------------------------------------------------------------------------
(* Certificate and key, as long as deleting a file does not fail. *)
SecretsInv == StageInv /\ SecretsConfined

HoldsSecrets == {"key", "external-ssl", "apply", "cleanup"}
Confined(r) == secrets[work_dir[r]] # {} =>
                 outcome[r] = "killed" \/ (outcome[r] = "running" /\ step[r] \in HoldsSecrets)

LEMMA OwnSecrets ==
  ASSUME SecretsInv, NEW r \in Runs, outcome[r] = "running"
  PROVE  work_dir[r] \in WorkDirs /\ Confined(r)
<1>1. work_dir[r] \in WorkDirs /\ work_dir[r] # None
  BY RecoveryAssumption DEF SecretsInv, StageInv, VerifiedInv, TypeInv, TypeOK, HostOK, Equipped
<1>2. \A q \in Runs : work_dir[q] = work_dir[r] => q = r
  BY <1>1 DEF SecretsInv, StageInv, VerifiedInv, OwnDirectories
<1> QED
  BY <1>1, <1>2 DEF SecretsInv, SecretsConfined, Confined, HoldsSecrets

LEMMA FrameConfines ==
  ASSUME SecretsInv, NEW r \in Runs, outcome[r] = "running", Frame(r), Confined(r)'
  PROVE  SecretsConfined'
<1> SUFFICES ASSUME NEW d \in WorkDirs, secrets'[d] # {}
             PROVE  \E q \in Runs : /\ work_dir'[q] = d
                                    /\ \/ outcome'[q] = "killed"
                                       \/ outcome'[q] = "running" /\ step'[q] \in HoldsSecrets
  BY DEF SecretsConfined, HoldsSecrets
<1>1. CASE d = work_dir[r]
  BY <1>1 DEF Confined, Frame
<1>2. CASE d # work_dir[r]
  <2>1. secrets[d] # {}
    BY <1>2 DEF Frame
  <2>2. PICK q \in Runs : /\ work_dir[q] = d
                          /\ \/ outcome[q] = "killed"
                             \/ outcome[q] = "running" /\ step[q] \in HoldsSecrets
    BY <2>1 DEF SecretsInv, SecretsConfined, HoldsSecrets
  <2>3. q # r
    BY <1>2, <2>2
  <2> QED
    BY <2>2, <2>3 DEF Frame
<1> QED
  BY <1>1, <1>2

(* Steps that leave the secret files alone, outside the security stage or
   within the part of it that holds them. *)
LEMMA QuietConfined ==
  ASSUME SecretsInv, NEW r \in Runs, outcome[r] = "running", UNCHANGED <<secrets, work_dir>>,
         step[r] \in HoldsSecrets => outcome'[r] = "running" /\ step'[r] \in HoldsSecrets
  PROVE  Confined(r)'
BY OwnSecrets DEF Confined

LEMMA StepConfined ==
  ASSUME SecretsInv, "unlink" \notin Faults, NEW r \in Runs,
         RunStep(r) \/ Interrupt(r) \/ Kill(r)
  PROVE  Confined(r)'
<1> USE DEF Active
<1>1. /\ outcome[r] = "running" /\ UNCHANGED work_dir
      /\ ControlOK /\ secrets \in [WorkDirs -> SUBSET SecretFiles]
      /\ work_dir[r] \in WorkDirs
  BY OwnSecrets, StepMoves, EndsMove
    DEF ControlMoves, SecretsInv, StageInv, VerifiedInv, TypeInv, TypeOK, HostOK
<1>2. CASE \/ Fence(r) \/ ConfirmFencing(r) \/ Preflight(r)
           \/ ResolveManifest(r) \/ AcquireManifest(r)
           \/ CheckProperties(r) \/ DownloadArtifact(r) \/ DownloadBreaks(r) \/ VerifyArtifact(r)
           \/ StopDR(r) \/ RestoreRepository(r) \/ ImportSettings(r) \/ ArtifactMissing(r)
           \/ ReadSecrets(r) \/ StartDR(r) \/ ValidateHealth(r)
  <2>1. UNCHANGED secrets /\ step[r] \notin HoldsSecrets
    BY <1>2 DEF Fence, ConfirmFencing, Preflight, ResolveManifest, AcquireManifest,
         CheckProperties, DownloadArtifact, DownloadBreaks, VerifyArtifact, StopDR,
         RestoreRepository, ImportSettings, ArtifactMissing, ReadSecrets, StartDR,
         ValidateHealth, TsmSucceeds, NeedsFile, HoldsSecrets, host
  <2> QED
    BY <1>1, <2>1, QuietConfined
<1>3. CASE WriteCertificate(r) \/ WriteKey(r) \/ EnableExternalSsl(r) \/ ApplyPendingChanges(r)
  <2>1. \E s \in HoldsSecrets : Goto(r, s)
    BY <1>3 DEF WriteCertificate, WriteKey, WriteSecret, EnableExternalSsl,
                ApplyPendingChanges, HoldsSecrets
  <2>2. outcome'[r] = "running" /\ step'[r] \in HoldsSecrets
    BY <1>1, <2>1 DEF Goto, ControlOK
  <2> QED
    BY <2>2 DEF Confined
<1>4. CASE CleanUpSecrets(r)
  <2>1. secrets' = [secrets EXCEPT ![work_dir[r]] = {}]
    BY <1>4 DEF CleanUpSecrets, Remaining
  <2> QED
    BY <1>1, <2>1 DEF Confined
<1>5. CASE IoFails(r) \/ TsmFails(r) \/ Interrupt(r)
  <2>1. CASE step[r] \in RebindSteps
    <3>1. Goto(r, "cleanup")
      BY <1>5, <2>1 DEF IoFails, TsmFails, Interrupt, Raise
    <3>2. outcome'[r] = "running" /\ step'[r] \in HoldsSecrets
      BY <1>1, <3>1 DEF Goto, ControlOK, HoldsSecrets
    <3> QED
      BY <3>2 DEF Confined
  <2>2. CASE step[r] \notin RebindSteps
    <3>1. step[r] \notin HoldsSecrets
      BY <1>5, <2>2 DEF IoFails, TsmFails, Interrupt, HoldsSecrets, RebindSteps, TsmCommands
    <3>2. UNCHANGED secrets
      <4>1. CASE TsmFails(r)
        BY <4>1 DEF TsmFails
      <4>2. CASE LeaveSecrets(r)
        <5>1. step[r] \notin {"cert", "key", "cleanup"}
          BY <2>2, <3>1 DEF RebindSteps, HoldsSecrets
        <5>2. secrets' = [secrets EXCEPT ![work_dir[r]] = secrets[work_dir[r]]]
          BY <4>2, <5>1 DEF LeaveSecrets
        <5> QED
          BY <1>1, <5>2
      <4> QED
        BY <1>5, <4>1, <4>2 DEF IoFails, Interrupt
    <3> QED
      BY <1>1, <3>1, <3>2, QuietConfined
  <2> QED
    BY <2>1, <2>2
<1>6. CASE Kill(r)
  <2>1. outcome'[r] = "killed"
    BY <1>1, <1>6 DEF Kill, Gone, ControlOK
  <2> QED
    BY <2>1 DEF Confined
<1> QED
  BY <1>2, <1>3, <1>4, <1>5, <1>6 DEF RunStep

(* A new work directory holds no secrets: they would have an owner. *)
LEMMA LaunchConfined ==
  ASSUME SecretsInv, NEW r \in Runs, Launch(r)
  PROVE  SecretsConfined'
<1>1. /\ outcome[r] = "not started" /\ UNCHANGED secrets /\ ControlOK /\ HostOK
      /\ work_dir[r] = None
  BY DEF Launch, SecretsInv, StageInv, VerifiedInv, TypeInv, TypeOK, OwnDirectories
<1>2. \A q \in Runs \ {r} : /\ outcome'[q] = outcome[q] /\ step'[q] = step[q]
                            /\ work_dir'[q] = work_dir[q]
  BY <1>1 DEF Launch, Fail, ControlOK, HostOK
<1> SUFFICES ASSUME NEW d \in WorkDirs, secrets[d] # {}
             PROVE  \E q \in Runs : /\ work_dir'[q] = d
                                    /\ \/ outcome'[q] = "killed"
                                       \/ outcome'[q] = "running" /\ step'[q] \in HoldsSecrets
  BY <1>1 DEF SecretsConfined, HoldsSecrets
<1>3. PICK q \in Runs : /\ work_dir[q] = d
                        /\ \/ outcome[q] = "killed"
                           \/ outcome[q] = "running" /\ step[q] \in HoldsSecrets
  BY DEF SecretsInv, SecretsConfined, HoldsSecrets
<1>4. q # r
  BY <1>1, <1>3
<1> QED
  BY <1>2, <1>3, <1>4

LEMMA SecretsNext ==
  ASSUME "unlink" \notin Faults, SecretsInv, [Next]_vars
  PROVE  SecretsInv'
<1> SUFFICES SecretsConfined'
  BY StageNext DEF SecretsInv
<1>1. ASSUME NEW r \in Runs, RunStep(r) \/ Interrupt(r) \/ Kill(r)
      PROVE  SecretsConfined'
  BY <1>1, StepFrames, StepConfined, StepMoves, EndsMove, FrameConfines
    DEF SecretsInv, ControlMoves
<1>2. CASE UNCHANGED <<control, work_dir, secrets>>
  BY <1>2 DEF SecretsInv, SecretsConfined, control
<1>3. /\ \A r \in Runs : JobEnds(r) => UNCHANGED <<control, work_dir, secrets>>
      /\ \A b \in Backups : PublishBackup(b) => UNCHANGED <<control, work_dir, secrets>>
      /\ \A b \in Backups, p \in BlobParts :
           DamageBlob(b, p) => UNCHANGED <<control, work_dir, secrets>>
      /\ \A d \in WorkDirs, p \in Artifacts :
           LoseWorkFile(d, p) => UNCHANGED <<control, work_dir, secrets>>
      /\ UNCHANGED vars => UNCHANGED <<control, work_dir, secrets>>
  BY DEF JobEnds, PublishBackup, DamageBlob, LoseWorkFile, vars, host
<1> QED
  BY <1>1, <1>2, <1>3, LaunchConfined DEF Next

(* As long as deleting a file does not fail: however a run ends, and however
   many overlap, certificate and key stay on disk only of a run that was
   killed between writing and deleting them. *)
THEOREM SecretsStayConfined ==
  ASSUME "unlink" \notin Faults
  PROVE  Spec => []SecretsConfined
<1>1. Init => SecretsInv
  BY StageInit DEF Init, SecretsInv, SecretsConfined
<1>2. SecretsInv /\ [Next]_vars => SecretsInv'
  BY SecretsNext
<1>3. SecretsInv => SecretsConfined
  BY DEF SecretsInv
<1> QED
  BY <1>1, <1>2, <1>3, PTL DEF Spec
=============================================================================
