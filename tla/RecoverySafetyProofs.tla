------------------------ MODULE RecoverySafetyProofs ------------------------
(***************************************************************************)
(* Two guarantees of RecoveryManager that hold however many runs overlap:  *)
(* work directories are never shared, and nothing but verified artifacts   *)
(* reaches the server.                                                     *)
(***************************************************************************)
EXTENDS RecoveryManagerProofs

(* The work directory of a run is its own, and a run that has not made one
   has none. *)
OwnDirectories ==
  /\ \A q, r \in Runs : work_dir[q] # None /\ work_dir[q] = work_dir[r] => q = r
  /\ \A r \in Runs : work_dir[r] \in dirs \cup {None}
  /\ \A r \in Runs : outcome[r] = "not started" => work_dir[r] = None /\ job[r] = "none"

(* A run whose command outlived its client does nothing but clean up. *)
LateCommands ==
  \A r \in Runs : outcome[r] = "running" /\ job[r] # "none" =>
                    step[r] = "cleanup" /\ raised[r] # "nothing"

(* As long as a run or one of its commands can read a file, the file is a
   verified artifact in its place; a fresh directory is empty. *)
MayRead(r) == outcome[r] = "running" \/ job[r] # "none"
CleanFiles ==
  /\ \A d \in WorkDirs \ dirs, p \in Artifacts : files[d][p] = None
  /\ \A r \in Runs, p \in Artifacts : MayRead(r) => IntactOf(files[work_dir[r]][p], p)

VerifiedInv ==
  /\ TypeInv
  /\ OwnDirectories
  /\ LateCommands
  /\ CleanFiles
  /\ RestoredContentVerified

-----------------------------------------------------------------------------
(* A step of the process of run r, as far as this invariant can see it. *)
Moved(r) ==
  /\ outcome[r] = "running" /\ outcome'[r] # "not started"
  /\ UNCHANGED <<work_dir, dirs>>
  /\ \A q \in Runs \ {r} : /\ outcome'[q] = outcome[q] /\ step'[q] = step[q]
                           /\ raised'[q] = raised[q] /\ job'[q] = job[q]
  /\ outcome'[r] = "running" /\ job'[r] # "none" =>
       step'[r] = "cleanup" /\ raised'[r] # "nothing"

LEMMA MovedKeeps ==
  ASSUME NEW r \in Runs, VerifiedInv, Moved(r)
  PROVE  /\ OwnDirectories' /\ LateCommands'
         /\ \A q \in Runs : MayRead(q)' => MayRead(q)
         /\ UNCHANGED files => CleanFiles'
<1>1. OwnDirectories' /\ LateCommands'
  BY DEF VerifiedInv, OwnDirectories, LateCommands, Moved
<1>2. \A q \in Runs : MayRead(q)' => MayRead(q)
  BY DEF MayRead, Moved
<1>3. ASSUME UNCHANGED files PROVE CleanFiles'
  <2>1. UNCHANGED <<work_dir, dirs>>
    BY DEF Moved
  <2>2. \A d \in WorkDirs \ dirs', p \in Artifacts : files'[d][p] = None
    BY <1>3, <2>1 DEF VerifiedInv, CleanFiles
  <2>3. \A q \in Runs, p \in Artifacts :
           MayRead(q)' => IntactOf(files'[work_dir'[q]][p], p)
    BY <1>2, <1>3, <2>1 DEF VerifiedInv, CleanFiles
  <2> QED
    BY <2>2, <2>3 DEF CleanFiles, IntactOf
<1> QED
  BY <1>1, <1>2, <1>3

(* The ways a run moves on. *)
LEMMA RunMoves ==
  ASSUME NEW r \in Runs, VerifiedInv, outcome[r] = "running",
         NEW next, NEW first, NEW how \in {"interrupted", "killed"},
         \/ Fail(r) \/ Gone(r, how)
         \/ (Advance(r, next, first) \/ Goto(r, first)) /\ job'[r] = "none"
         \/ Goto(r, "cleanup") /\ raised'[r] # "nothing",
         UNCHANGED <<work_dir, dirs>>,
         \A q \in Runs \ {r} : raised'[q] = raised[q] /\ job'[q] = job[q]
  PROVE  Moved(r)
BY DEF Fail, Gone, Advance, Goto, Moved, VerifiedInv, TypeInv, TypeOK, ControlOK

(* The command of a run is in TSM at most while the run cleans up. *)
LEMMA NoLateCommand ==
  ASSUME NEW r \in Runs, VerifiedInv, outcome[r] = "running",
         step[r] # "cleanup" \/ raised[r] = "nothing"
  PROVE  job[r] = "none"
BY DEF VerifiedInv, LateCommands

-----------------------------------------------------------------------------
(* Steps that change neither a file nor the server. *)
LEMMA QuietKeeps ==
  ASSUME NEW r \in Runs, VerifiedInv, Moved(r), TypeInv', UNCHANGED <<files, server>>
  PROVE  VerifiedInv'
BY MovedKeeps DEF VerifiedInv, RestoredContentVerified

LEMMA QuietMoves ==
  ASSUME NEW r \in Runs, VerifiedInv,
         \/ Fence(r) \/ ConfirmFencing(r) \/ Preflight(r)
         \/ ResolveManifest(r) \/ AcquireManifest(r)
         \/ CheckProperties(r) \/ VerifyArtifact(r) \/ ArtifactMissing(r)
         \/ ReadSecrets(r) \/ WriteCertificate(r) \/ WriteKey(r)
  PROVE  Moved(r) /\ UNCHANGED <<files, server>>
<1>1. /\ outcome[r] = "running" /\ step[r] # "cleanup"
      /\ UNCHANGED <<raised, work_dir, dirs, files, server, job>>
  BY DEF Fence, ConfirmFencing, Preflight, ResolveManifest, AcquireManifest,
         CheckProperties, VerifyArtifact, ArtifactMissing, ReadSecrets,
         WriteCertificate, WriteKey, WriteSecret, Active, NeedsFile, memory, host, tsm
<1>2. job'[r] = "none"
  BY <1>1, NoLateCommand
<1>3. \/ Fail(r)
      \/ \E next, first : Advance(r, next, first) \/ Goto(r, first)
  BY DEF Fence, ConfirmFencing, Preflight, ResolveManifest, AcquireManifest,
         CheckProperties, VerifyArtifact, ArtifactMissing, ReadSecrets,
         WriteCertificate, WriteKey, WriteSecret
<1> QED
  BY <1>1, <1>2, <1>3, RunMoves

LEMMA CleanUpMoves ==
  ASSUME NEW r \in Runs, VerifiedInv, CleanUpSecrets(r)
  PROVE  Moved(r) /\ UNCHANGED <<files, server>>
<1>1. /\ outcome[r] = "running"
      /\ UNCHANGED <<raised, work_dir, dirs, files, server, job>>
  BY DEF CleanUpSecrets, Active, memory, tsm
<1>2. CASE raised[r] = "nothing" /\ Advance(r, "DR_STARTED", "start")
  BY <1>1, <1>2, NoLateCommand, RunMoves
<1>3. CASE Fail(r) \/ Gone(r, "interrupted")
  BY <1>1, <1>3, RunMoves
<1> QED
  BY <1>1, <1>2, <1>3 DEF CleanUpSecrets

LEMMA ValidateHealthMoves ==
  ASSUME NEW r \in Runs, VerifiedInv, ValidateHealth(r)
  PROVE  Moved(r) /\ UNCHANGED <<files, server>>
<1>1. /\ outcome[r] = "running"
      /\ UNCHANGED <<raised, work_dir, dirs, files, server, job>>
  BY DEF ValidateHealth, Active, tsm
<1>2. \/ Fail(r)
      \/ /\ outcome' = [outcome EXCEPT ![r] = "SUCCESS"]
         /\ step' = [step EXCEPT ![r] = "none"]
  BY DEF ValidateHealth
<1>3. CASE Fail(r)
  BY <1>1, <1>3, RunMoves
<1>4. CASE /\ outcome' = [outcome EXCEPT ![r] = "SUCCESS"]
           /\ step' = [step EXCEPT ![r] = "none"]
  BY <1>1, <1>4 DEF Moved, VerifiedInv, TypeInv, TypeOK, ControlOK
<1> QED
  BY <1>1, <1>2, <1>3, <1>4

(* An exception raised by a call that leaves no command of its own. *)
LEMMA RaiseMoves ==
  ASSUME NEW r \in Runs, VerifiedInv, outcome[r] = "running", Raise(r),
         UNCHANGED <<work_dir, dirs>>,
         \A q \in Runs \ {r} : job'[q] = job[q]
  PROVE  Moved(r)
<1>1. raised' = raised \/ raised' = [raised EXCEPT ![r] = "error"]
  BY DEF Raise
<1>2. \A q \in Runs \ {r} : raised'[q] = raised[q]
  BY <1>1 DEF VerifiedInv, TypeInv, TypeOK, MemoryOK
<1>3. CASE step[r] \in RebindSteps
  <2>1. Goto(r, "cleanup") /\ raised'[r] # "nothing"
    BY <1>3 DEF Raise, VerifiedInv, TypeInv, TypeOK, MemoryOK
  <2> QED
    BY <1>2, <2>1, RunMoves
<1>4. CASE step[r] \notin RebindSteps
  BY <1>2, <1>4, RunMoves DEF Raise
<1> QED
  BY <1>3, <1>4

LEMMA IoFailsMoves ==
  ASSUME NEW r \in Runs, VerifiedInv, IoFails(r)
  PROVE  Moved(r) /\ UNCHANGED <<files, server>>
BY RaiseMoves DEF IoFails, tsm

-----------------------------------------------------------------------------
(* Steps that change a file. *)

(* Whatever a run puts into its own directory concerns no other run. *)
LEMMA SaveFileLocal ==
  ASSUME NEW r \in Runs, VerifiedInv, Moved(r), NEW payload, SaveFile(r, payload),
         MayRead(r)' => IntactOf(payload, artifact[r])
  PROVE  CleanFiles'
<1>1. work_dir[r] \in dirs /\ work_dir[r] \in WorkDirs /\ artifact[r] \in Artifacts
  BY DEF VerifiedInv, TypeInv, Equipped, Moved, TypeOK, HostOK, MemoryOK
<1>2. \A d \in WorkDirs, p \in Artifacts :
        files'[d][p] = IF d = work_dir[r] /\ p = artifact[r] THEN payload ELSE files[d][p]
  BY <1>1 DEF SaveFile, VerifiedInv, TypeInv, TypeOK, HostOK
<1>3. \A d \in WorkDirs \ dirs', p \in Artifacts : files'[d][p] = None
  <2>1. \A d \in WorkDirs \ dirs, p \in Artifacts : files[d][p] = None
    BY DEF VerifiedInv, CleanFiles
  <2>2. dirs' = dirs
    BY DEF Moved
  <2> QED
    BY <1>1, <1>2, <2>1, <2>2
<1>4. ASSUME NEW q \in Runs, NEW p \in Artifacts, MayRead(q)'
      PROVE  IntactOf(files'[work_dir'[q]][p], p)
  <2>1. /\ MayRead(q) /\ work_dir'[q] = work_dir[q]
        /\ IntactOf(files[work_dir[q]][p], p)
    BY <1>4, MovedKeeps DEF Moved, VerifiedInv, CleanFiles
  <2>2. work_dir[q] \in WorkDirs
    BY <2>1 DEF MayRead, VerifiedInv, TypeInv, Equipped, TypeOK, HostOK
  <2>3. work_dir[q] = work_dir[r] => q = r
    BY <1>1, <2>2, RecoveryAssumption DEF VerifiedInv, OwnDirectories
  <2> QED
    BY <1>2, <1>4, <2>1, <2>2, <2>3
<1> QED
  BY <1>3, <1>4 DEF CleanFiles, IntactOf

LEMMA DownloadKeeps ==
  ASSUME NEW r \in Runs, VerifiedInv, TypeInv', DownloadArtifact(r) \/ DownloadBreaks(r)
  PROVE  VerifiedInv'
<1>1. /\ outcome[r] = "running" /\ step[r] # "cleanup"
      /\ UNCHANGED <<raised, work_dir, dirs, server, job>>
  BY DEF DownloadArtifact, DownloadBreaks, Active, memory, tsm
<1>2. job'[r] = "none"
  BY <1>1, NoLateCommand
<1>3. Moved(r)
  BY <1>1, <1>2, RunMoves DEF DownloadArtifact, DownloadBreaks
<1>4. CASE UNCHANGED files
  BY <1>1, <1>3, <1>4, QuietKeeps
<1>5. CASE DownloadArtifact(r) /\ DownloadValid(RemoteBlob(r).content, Expected(r))
  <2>1. SaveFile(r, RemoteBlob(r).content)
    BY <1>5 DEF DownloadArtifact
  <2>2. IntactOf(RemoteBlob(r).content, artifact[r])
    BY <1>5 DEF DownloadValid, Expected, Pristine, IntactOf
  <2> QED
    BY <1>1, <1>3, <2>1, <2>2, SaveFileLocal, MovedKeeps
      DEF VerifiedInv, RestoredContentVerified
<1>6. ASSUME NEW payload, SaveFile(r, payload), Fail(r)
      PROVE  VerifiedInv'
  <2>1. ~MayRead(r)'
    BY <1>2, <1>6 DEF MayRead, Fail, VerifiedInv, TypeInv, TypeOK, ControlOK
  <2> QED
    BY <1>1, <1>3, <1>6, <2>1, SaveFileLocal, MovedKeeps
      DEF VerifiedInv, RestoredContentVerified
<1> QED
  BY <1>4, <1>5, <1>6 DEF DownloadArtifact, DownloadBreaks

LEMMA LoseWorkFileKeeps ==
  ASSUME VerifiedInv, TypeInv', NEW d \in WorkDirs, NEW p \in Artifacts, LoseWorkFile(d, p)
  PROVE  VerifiedInv'
<1>1. UNCHANGED <<control, memory, work_dir, dirs, tsm>>
  BY DEF LoseWorkFile
<1>2. \A e \in WorkDirs, x \in Artifacts : files'[e][x] \in {files[e][x], None}
  BY DEF LoseWorkFile, VerifiedInv, TypeInv, TypeOK, HostOK
<1>3. CleanFiles'
  <2>1. \A e \in WorkDirs \ dirs, x \in Artifacts : files'[e][x] = None
    BY <1>2 DEF VerifiedInv, CleanFiles
  <2>2. ASSUME NEW r \in Runs, NEW x \in Artifacts, MayRead(r)
        PROVE  IntactOf(files'[work_dir[r]][x], x)
    <3>1. work_dir[r] \in WorkDirs
      BY <2>2 DEF MayRead, VerifiedInv, TypeInv, Equipped, TypeOK, HostOK
    <3>2. IntactOf(files[work_dir[r]][x], x)
      BY <2>2 DEF VerifiedInv, CleanFiles
    <3> QED
      BY <1>2, <3>1, <3>2 DEF IntactOf
  <2> QED
    BY <1>1, <2>1, <2>2 DEF CleanFiles, MayRead, IntactOf, control, tsm
<1> QED
  BY <1>1, <1>3 DEF VerifiedInv, OwnDirectories, LateCommands, RestoredContentVerified,
                    control, memory, tsm

-----------------------------------------------------------------------------
(* Commands: what a run passes to TSM is verified, so is what TSM makes of
   it, whether the client waits for it or not. *)
LEMMA ArgumentVerified ==
  ASSUME NEW r \in Runs, VerifiedInv, MayRead(r)
  PROVE  /\ Argument(r, "restore") \in Payload \cup {None}
         /\ Argument(r, "import") \in Payload \cup {None}
         /\ IntactOf(Argument(r, "restore"), "backup.tsbak")
         /\ IntactOf(Argument(r, "import"), "settings.json")
<1>1. work_dir[r] \in dirs /\ HostOK
  BY DEF VerifiedInv, TypeInv, TypeOK, Equipped, MayRead
<1>2. Argument(r, "restore") \in Payload \cup {None} /\ Argument(r, "import") \in Payload \cup {None}
  BY <1>1, ArgumentTyped
<1>3. IntactOf(Argument(r, "restore"), "backup.tsbak")
  BY DEF VerifiedInv, CleanFiles, Argument, Artifacts
<1>4. IntactOf(Argument(r, "import"), "settings.json")
  BY DEF VerifiedInv, CleanFiles, Argument, Artifacts
<1> QED
  BY <1>2, <1>3, <1>4

LEMMA EffectVerified ==
  ASSUME NEW s \in ServerStates, HoldsVerified(s), NEW command, NEW file,
         command \in NeedsFile => file \in Payload \cup {None},
         command = "restore" => IntactOf(file, "backup.tsbak"),
         command = "import" => IntactOf(file, "settings.json")
  PROVE  HoldsVerified(TsmEffect(s, command, file))
<1>1. CASE command = "restore"
  BY <1>1 DEF TsmEffect, ServerStates, HoldsVerified, IntactOf
<1>2. CASE command = "import"
  BY <1>2 DEF TsmEffect, ServerStates, HoldsVerified, IntactOf
<1>3. CASE command = "apply"
  BY <1>3 DEF TsmEffect, ServerStates, HoldsVerified, IntactOf
<1>4. CASE command \notin {"restore", "import", "apply"}
  BY <1>4 DEF TsmEffect, ServerStates, HoldsVerified, IntactOf
<1> QED
  BY <1>1, <1>2, <1>3, <1>4

LEMMA AftermathVerified ==
  ASSUME NEW s \in ServerStates, HoldsVerified(s), NEW command, NEW file,
         command \in NeedsFile => file \in Payload,
         command = "restore" => IntactOf(file, "backup.tsbak"),
         command = "import" => IntactOf(file, "settings.json"),
         NEW t \in TsmAftermath(s, command, file)
  PROVE  HoldsVerified(t)
<1>1. CASE t = s
  BY <1>1
<1>2. CASE t = TsmEffect(s, command, file)
  BY <1>2, EffectVerified
<1>3. CASE command = "restore" /\ t = [s EXCEPT !.repo = Damaged(file.backup, file.part, "torn")]
  <2>1. t.repo = Damaged(file.backup, file.part, "torn")
    BY <1>3 DEF ServerStates
  <2>2. file.part = "backup.tsbak"
    BY <1>3, NoneAssumption DEF IntactOf, NeedsFile
  <2>3. t.settings = s.settings /\ t.pendingSettings = s.pendingSettings
    BY <1>3 DEF ServerStates
  <2> QED
    BY <2>1, <2>2, <2>3 DEF HoldsVerified, Damaged
<1> QED
  BY <1>1, <1>2, <1>3 DEF TsmAftermath

LEMMA IssuedVerified ==
  ASSUME NEW r \in Runs, VerifiedInv, MayRead(r), NEW command, Issuable(r, command),
         NEW t \in TsmAftermath(server, command, Argument(r, command))
  PROVE  HoldsVerified(t)
<1>1. command \in NeedsFile => Argument(r, command) \in Payload
  BY ArgumentVerified DEF Issuable, NeedsFile
<1>2. server \in ServerStates /\ HoldsVerified(server)
  BY DEF VerifiedInv, TypeInv, TypeOK, TsmOK, RestoredContentVerified
<1> QED
  BY <1>1, <1>2, ArgumentVerified, AftermathVerified

LEMMA CommandKeeps ==
  ASSUME NEW r \in Runs, NEW command, VerifiedInv, TypeInv', TsmSucceeds(r, command),
         command # "cleanup", NEW next, NEW first,
         Advance(r, next, first) \/ Goto(r, first),
         UNCHANGED <<memory, host>>
  PROVE  VerifiedInv'
<1>1. /\ outcome[r] = "running" /\ step[r] # "cleanup" /\ Issuable(r, command)
      /\ UNCHANGED <<raised, work_dir, dirs, files, job>>
  BY DEF TsmSucceeds, Active, memory, host
<1>2. job'[r] = "none"
  BY <1>1, NoLateCommand DEF TsmSucceeds, Active
<1>3. Moved(r)
  BY <1>1, <1>2, RunMoves
<1>4. server' \in TsmAftermath(server, command, Argument(r, command))
  BY DEF TsmSucceeds, TsmAftermath
<1>5. RestoredContentVerified'
  BY <1>1, <1>4, IssuedVerified DEF MayRead, RestoredContentVerified, HoldsVerified, IntactOf
<1> QED
  BY <1>1, <1>3, <1>5, MovedKeeps DEF VerifiedInv

LEMMA CommandsKeep ==
  ASSUME NEW r \in Runs, VerifiedInv, TypeInv',
         \/ StopDR(r) \/ RestoreRepository(r) \/ ImportSettings(r)
         \/ EnableExternalSsl(r) \/ ApplyPendingChanges(r) \/ StartDR(r)
  PROVE  VerifiedInv'
<1>1. CASE StopDR(r)
  BY <1>1, CommandKeeps DEF StopDR
<1>2. CASE RestoreRepository(r)
  BY <1>2, CommandKeeps DEF RestoreRepository
<1>3. CASE ImportSettings(r)
  BY <1>3, CommandKeeps DEF ImportSettings
<1>4. CASE EnableExternalSsl(r)
  BY <1>4, CommandKeeps DEF EnableExternalSsl
<1>5. CASE ApplyPendingChanges(r)
  BY <1>5, CommandKeeps DEF ApplyPendingChanges
<1>6. CASE StartDR(r)
  BY <1>6, CommandKeeps DEF StartDR
<1> QED
  BY <1>1, <1>2, <1>3, <1>4, <1>5, <1>6

(* A client that goes away leaves a verified server, and a command only of
   its own. *)
LEMMA LeaveCommandVerified ==
  ASSUME NEW r \in Runs, VerifiedInv, outcome[r] = "running", LeaveCommand(r)
  PROVE  /\ HoldsVerified(server')
         /\ \A q \in Runs \ {r} : job'[q] = job[q]
<1>1. HoldsVerified(server')
  BY IssuedVerified DEF LeaveCommand, tsm, MayRead, VerifiedInv, RestoredContentVerified
<1>2. \A q \in Runs \ {r} : job'[q] = job[q]
  BY DEF LeaveCommand, tsm, VerifiedInv, TypeInv, TypeOK, TsmOK
<1> QED
  BY <1>1, <1>2

LEMMA TsmFailsKeeps ==
  ASSUME NEW r \in Runs, VerifiedInv, TypeInv', TsmFails(r)
  PROVE  VerifiedInv'
<1>1. /\ outcome[r] = "running" /\ LeaveCommand(r) /\ Raise(r)
      /\ UNCHANGED <<work_dir, dirs, files>>
  BY DEF TsmFails
<1>2. Moved(r) /\ RestoredContentVerified'
  BY <1>1, LeaveCommandVerified, RaiseMoves
    DEF RestoredContentVerified, HoldsVerified, IntactOf
<1> QED
  BY <1>1, <1>2, MovedKeeps DEF VerifiedInv

(* What a cut-short download leaves is read by nobody. *)
LEMMA LeaveFileKeeps ==
  ASSUME NEW r \in Runs, VerifiedInv, TypeInv', RestoredContentVerified', Moved(r),
         outcome[r] = "running", step[r] = "download" => outcome'[r] # "running",
         LeaveCommand(r), LeaveFile(r), UNCHANGED <<work_dir, dirs>>
  PROVE  VerifiedInv'
<1>1. CASE UNCHANGED files
  BY <1>1, MovedKeeps DEF VerifiedInv
<1>2. CASE step[r] = "download" /\ SaveFile(r, TornFile(r))
  <2>1. job'[r] = "none"
    BY <1>2, NoLateCommand DEF LeaveCommand, TsmCommands, tsm
  <2>2. ~MayRead(r)'
    BY <1>2, <2>1 DEF MayRead
  <2> QED
    BY <1>2, <2>2, SaveFileLocal, MovedKeeps DEF VerifiedInv
<1> QED
  BY <1>1, <1>2 DEF LeaveFile

LEMMA InterruptKeeps ==
  ASSUME NEW r \in Runs, VerifiedInv, TypeInv', Interrupt(r)
  PROVE  VerifiedInv'
<1>1. /\ outcome[r] = "running" /\ LeaveCommand(r) /\ LeaveFile(r)
      /\ UNCHANGED <<work_dir, dirs>>
  BY DEF Interrupt
<1>2. RestoredContentVerified'
  BY <1>1, LeaveCommandVerified DEF RestoredContentVerified, HoldsVerified, IntactOf
<1>3. \/ Goto(r, "cleanup") /\ raised' = [raised EXCEPT ![r] = "interrupt"]
      \/ Gone(r, "interrupted") /\ UNCHANGED raised
  BY DEF Interrupt
<1>4. /\ \A q \in Runs \ {r} : raised'[q] = raised[q]
      /\ \/ Goto(r, "cleanup") /\ raised'[r] # "nothing"
         \/ Gone(r, "interrupted")
  BY <1>3 DEF VerifiedInv, TypeInv, TypeOK, MemoryOK
<1>5. Moved(r)
  BY <1>1, <1>4, LeaveCommandVerified, RunMoves
<1>6. step[r] = "download" => outcome'[r] # "running"
  BY DEF Interrupt, RebindSteps, Gone, VerifiedInv, TypeInv, TypeOK, ControlOK
<1> QED
  BY <1>1, <1>2, <1>5, <1>6, LeaveFileKeeps

LEMMA KillKeeps ==
  ASSUME NEW r \in Runs, VerifiedInv, TypeInv', Kill(r)
  PROVE  VerifiedInv'
<1>1. /\ outcome[r] = "running" /\ LeaveCommand(r) /\ LeaveFile(r) /\ Gone(r, "killed")
      /\ UNCHANGED <<raised, work_dir, dirs>>
  BY DEF Kill, memory
<1>2. RestoredContentVerified'
  BY <1>1, LeaveCommandVerified DEF RestoredContentVerified, HoldsVerified, IntactOf
<1>3. Moved(r)
  BY <1>1, LeaveCommandVerified, RunMoves
<1>4. outcome'[r] # "running"
  BY <1>1 DEF Gone, VerifiedInv, TypeInv, TypeOK, ControlOK
<1> QED
  BY <1>1, <1>2, <1>3, <1>4, LeaveFileKeeps

LEMMA JobEndsKeeps ==
  ASSUME NEW r \in Runs, VerifiedInv, TypeInv', JobEnds(r)
  PROVE  VerifiedInv'
<1>1. /\ UNCHANGED <<control, memory, host>>
      /\ job[r] # "none" /\ job' = [job EXCEPT ![r] = "none"]
  BY DEF JobEnds
<1>2. RestoredContentVerified'
  <2>1. CASE UNCHANGED server
    BY <2>1 DEF VerifiedInv, RestoredContentVerified
  <2>2. CASE Issuable(r, job[r]) /\ server' \in TsmAftermath(server, job[r], Argument(r, job[r]))
    BY <1>1, <2>2, IssuedVerified DEF MayRead, RestoredContentVerified, HoldsVerified, IntactOf
  <2> QED
    BY <2>1, <2>2 DEF JobEnds
<1>3. \A q \in Runs : job'[q] \in {job[q], "none"}
  BY <1>1 DEF VerifiedInv, TypeInv, TypeOK, TsmOK
<1>4. \A q \in Runs : MayRead(q)' => MayRead(q)
  BY <1>1, <1>3 DEF MayRead, control
<1>5. CleanFiles'
  BY <1>1, <1>4 DEF VerifiedInv, CleanFiles, IntactOf, host
<1> QED
  BY <1>1, <1>2, <1>3, <1>5 DEF VerifiedInv, OwnDirectories, LateCommands,
                                control, memory, host

(* A new run gets an empty directory of its own. *)
LEMMA LaunchKeeps ==
  ASSUME NEW r \in Runs, VerifiedInv, TypeInv', Launch(r)
  PROVE  VerifiedInv'
<1>1. /\ outcome[r] = "not started" /\ UNCHANGED <<memory, files, tsm>>
      /\ work_dir[r] = None /\ job[r] = "none"
  BY DEF Launch, VerifiedInv, OwnDirectories
<1>2. CASE Fail(r) /\ UNCHANGED <<work_dir, dirs>>
  <2>1. /\ outcome'[r] = "FAILED"
        /\ \A q \in Runs \ {r} : outcome'[q] = outcome[q] /\ step'[q] = step[q]
    BY <1>2 DEF Fail, VerifiedInv, TypeInv, TypeOK, ControlOK
  <2>2. \A q \in Runs : MayRead(q)' => MayRead(q)
    BY <1>1, <2>1 DEF MayRead, tsm
  <2>3. CleanFiles'
    BY <1>1, <1>2, <2>2 DEF VerifiedInv, CleanFiles, IntactOf
  <2>4. OwnDirectories' /\ LateCommands'
    BY <1>1, <1>2, <2>1 DEF VerifiedInv, OwnDirectories, LateCommands, memory, tsm
  <2> QED
    BY <1>1, <2>3, <2>4 DEF VerifiedInv, RestoredContentVerified, tsm
<1>3. ASSUME NEW d \in WorkDirs \ dirs,
             dirs' = dirs \cup {d},
             work_dir' = [work_dir EXCEPT ![r] = d],
             outcome' = [outcome EXCEPT ![r] = "running"],
             step' = [step EXCEPT ![r] = "fence"]
      PROVE  VerifiedInv'
  <2>1. /\ outcome'[r] = "running" /\ work_dir'[r] = d
        /\ \A q \in Runs \ {r} : /\ outcome'[q] = outcome[q] /\ step'[q] = step[q]
                                 /\ work_dir'[q] = work_dir[q]
    BY <1>3 DEF VerifiedInv, TypeInv, TypeOK, ControlOK, HostOK
  <2>2. \A p \in Artifacts : files'[d][p] = None
    BY <1>1, <1>3 DEF VerifiedInv, CleanFiles
  <2>3. CleanFiles'
    <3>1. ASSUME NEW q \in Runs, NEW p \in Artifacts, MayRead(q)', q # r
          PROVE  IntactOf(files'[work_dir'[q]][p], p)
      <4>1. MayRead(q)
        BY <1>1, <2>1, <3>1 DEF MayRead, tsm
      <4> QED
        BY <1>1, <2>1, <3>1, <4>1 DEF VerifiedInv, CleanFiles
    <3>2. \A p \in Artifacts : IntactOf(files'[work_dir'[r]][p], p)
      BY <2>1, <2>2 DEF IntactOf
    <3>3. \A e \in WorkDirs \ dirs', p \in Artifacts : files'[e][p] = None
      BY <1>1, <1>3 DEF VerifiedInv, CleanFiles
    <3> QED
      BY <3>1, <3>2, <3>3 DEF CleanFiles, IntactOf
  <2>4. OwnDirectories'
    <3>1. d # None
      BY RecoveryAssumption
    <3>2. \A q \in Runs : work_dir[q] # d
      BY <1>3, <3>1 DEF VerifiedInv, OwnDirectories
    <3>3. \A q \in Runs : work_dir'[q] \in dirs' \cup {None}
      <4>1. \A q \in Runs : work_dir[q] \in dirs \cup {None}
        BY DEF VerifiedInv, OwnDirectories
      <4>2. dirs \subseteq dirs' /\ d \in dirs'
        BY <1>3
      <4> QED
        BY <2>1, <4>1, <4>2
    <3>4. \A p, q \in Runs : work_dir'[p] # None /\ work_dir'[p] = work_dir'[q] => p = q
      <4>1. \A p, q \in Runs : work_dir[p] # None /\ work_dir[p] = work_dir[q] => p = q
        BY DEF VerifiedInv, OwnDirectories
      <4> QED
        BY <2>1, <3>2, <4>1
    <3>5. \A q \in Runs : outcome'[q] = "not started" => work_dir'[q] = None /\ job'[q] = "none"
      <4>1. \A q \in Runs : outcome[q] = "not started" => work_dir[q] = None /\ job[q] = "none"
        BY DEF VerifiedInv, OwnDirectories
      <4> QED
        BY <1>1, <2>1, <4>1 DEF tsm
    <3> QED
      BY <3>3, <3>4, <3>5 DEF OwnDirectories
  <2>5. LateCommands'
    BY <1>1, <2>1 DEF VerifiedInv, LateCommands, memory, tsm
  <2> QED
    BY <1>1, <2>3, <2>4, <2>5 DEF VerifiedInv, RestoredContentVerified, tsm
<1> QED
  BY <1>2, <1>3 DEF Launch, Available

-----------------------------------------------------------------------------
LEMMA VerifiedInit ==
  Init => VerifiedInv
<1> SUFFICES ASSUME Init PROVE VerifiedInv
  OBVIOUS
<1>1. TypeInv
  BY InitTyped
<1>2. OwnDirectories
  BY DEF Init, OwnDirectories
<1>3. LateCommands
  BY DEF Init, LateCommands
<1>4. CleanFiles
  BY DEF Init, CleanFiles, MayRead
<1>5. RestoredContentVerified
  <2>1. \A up \in BOOLEAN : HoldsVerified(StandbyServer(up))
    BY DEF HoldsVerified, IntactOf, StandbyServer
  <2> QED
    BY <2>1 DEF Init, RestoredContentVerified
<1> QED
  BY <1>1, <1>2, <1>3, <1>4, <1>5 DEF VerifiedInv

LEMMA VerifiedNext ==
  VerifiedInv /\ [Next]_vars => VerifiedInv'
<1> SUFFICES ASSUME VerifiedInv, [Next]_vars PROVE VerifiedInv'
  OBVIOUS
<1>1. TypeInv'
  BY NextTyped DEF VerifiedInv
<1>2. ASSUME NEW r \in Runs, RunStep(r) PROVE VerifiedInv'
  BY <1>1, <1>2, QuietKeeps, QuietMoves, CleanUpMoves, ValidateHealthMoves, IoFailsMoves,
     DownloadKeeps, CommandsKeep, TsmFailsKeeps
    DEF RunStep
<1>3. ASSUME NEW r \in Runs, Launch(r) \/ Interrupt(r) \/ Kill(r) \/ JobEnds(r)
      PROVE  VerifiedInv'
  BY <1>1, <1>3, LaunchKeeps, InterruptKeeps, KillKeeps, JobEndsKeeps
<1>4. ASSUME NEW d \in WorkDirs, NEW p \in Artifacts, LoseWorkFile(d, p)
      PROVE  VerifiedInv'
  BY <1>1, <1>4, LoseWorkFileKeeps
<1>5. CASE UNCHANGED <<control, memory, host, tsm>>
  BY <1>1, <1>5 DEF VerifiedInv, OwnDirectories, LateCommands, CleanFiles, MayRead, IntactOf,
                    RestoredContentVerified, HoldsVerified, control, memory, host, tsm
<1>6. (\E b \in Backups : PublishBackup(b)) \/ (\E b \in Backups, p \in BlobParts : DamageBlob(b, p))
         => UNCHANGED <<control, memory, host, tsm>>
  BY DEF PublishBackup, DamageBlob
<1> QED
  BY <1>2, <1>3, <1>4, <1>5, <1>6 DEF Next, vars

(* However many runs overlap, whatever the store does between the checks and
   whenever a command that outlived its client ends: the server never holds
   an artifact of execute_failover that was not verified byte for byte. *)
THEOREM OnlyVerifiedContentRestored == Spec => []RestoredContentVerified
<1>1. VerifiedInv => RestoredContentVerified
  BY DEF VerifiedInv
<1> QED
  BY <1>1, VerifiedInit, VerifiedNext, PTL DEF Spec

-----------------------------------------------------------------------------
(* The markers, as long as writing one does not fail. *)
MarkersExact == markers = {work_dir[r] : r \in {q \in Runs : outcome[q] = "FAILED"}} \ {None}

(* A step of the process of r either fails or leaves the markers alone. *)
MarksOrNot(r) ==
  /\ \A q \in Runs \ {r} : outcome'[q] = outcome[q]
  /\ UNCHANGED <<work_dir, dirs>>
  /\ \/ Fail(r)
     \/ UNCHANGED markers /\ outcome[r] # "FAILED" /\ outcome'[r] # "FAILED"

LEMMA FailMarks ==
  ASSUME NEW r \in Runs, VerifiedInv, MarkersExact, "marker" \notin Faults,
         UNCHANGED work_dir, Fail(r)
  PROVE  MarkersExact'
<1>1. markers' = markers \cup ({work_dir[r]} \ {None})
  <2>1. {work_dir[r]} \cap dirs = {work_dir[r]} \ {None}
    BY RecoveryAssumption DEF VerifiedInv, OwnDirectories, TypeInv, TypeOK, HostOK
  <2> QED
    BY <2>1 DEF Fail, Marked
<1>2. {q \in Runs : outcome'[q] = "FAILED"} = {q \in Runs : outcome[q] = "FAILED"} \cup {r}
  BY DEF Fail, VerifiedInv, TypeInv, TypeOK, ControlOK
<1> QED
  BY <1>1, <1>2 DEF MarkersExact

LEMMA OthersKeepMarks ==
  ASSUME VerifiedInv, MarkersExact, UNCHANGED markers,
         \A q \in Runs : /\ outcome'[q] = "FAILED" <=> outcome[q] = "FAILED"
                         /\ outcome[q] = "FAILED" => work_dir'[q] = work_dir[q]
  PROVE  MarkersExact'
BY DEF MarkersExact

LEMMA MovesMark ==
  ASSUME NEW r \in Runs, VerifiedInv, outcome[r] = "running",
         NEW next, NEW first, NEW how \in {"interrupted", "killed"},
         UNCHANGED <<work_dir, dirs>>,
         \/ Fail(r)
         \/ (Gone(r, how) \/ Advance(r, next, first) \/ Goto(r, first)) /\ UNCHANGED markers
  PROVE  MarksOrNot(r)
BY DEF MarksOrNot, Fail, Gone, Advance, Goto, VerifiedInv, TypeInv, TypeOK, ControlOK

LEMMA RunStepMarks ==
  ASSUME NEW r \in Runs, VerifiedInv, RunStep(r) \/ Interrupt(r) \/ Kill(r)
  PROVE  MarksOrNot(r)
<1>1. outcome[r] = "running" /\ UNCHANGED <<work_dir, dirs>>
  BY DEF RunStep, Fence, ConfirmFencing, Preflight, ResolveManifest, AcquireManifest,
         CheckProperties, DownloadArtifact, DownloadBreaks, VerifyArtifact, StopDR,
         RestoreRepository, ImportSettings, ArtifactMissing, ReadSecrets, WriteSecret,
         WriteCertificate, WriteKey, EnableExternalSsl, ApplyPendingChanges,
         CleanUpSecrets, StartDR, ValidateHealth, IoFails, TsmFails, Interrupt, Kill,
         TsmSucceeds, Active, host
<1>2. CASE \/ Fence(r) \/ ConfirmFencing(r) \/ Preflight(r)
           \/ ResolveManifest(r) \/ AcquireManifest(r)
           \/ CheckProperties(r) \/ DownloadArtifact(r) \/ DownloadBreaks(r)
           \/ VerifyArtifact(r) \/ ArtifactMissing(r)
  <2>1. \/ Fail(r)
        \/ \E next, first : (Advance(r, next, first) \/ Goto(r, first)) /\ UNCHANGED markers
    BY <1>2 DEF Fence, ConfirmFencing, Preflight, ResolveManifest, AcquireManifest,
                CheckProperties, DownloadArtifact, DownloadBreaks, VerifyArtifact,
                ArtifactMissing, host
  <2> QED
    BY <1>1, <2>1, MovesMark
<1>3. CASE \/ StopDR(r) \/ RestoreRepository(r) \/ ImportSettings(r)
           \/ ReadSecrets(r) \/ WriteCertificate(r) \/ WriteKey(r)
           \/ EnableExternalSsl(r) \/ ApplyPendingChanges(r) \/ StartDR(r)
  <2>1. \E next, first : (Advance(r, next, first) \/ Goto(r, first)) /\ UNCHANGED markers
    BY <1>3 DEF StopDR, RestoreRepository, ImportSettings, ReadSecrets, WriteSecret,
                WriteCertificate, WriteKey, EnableExternalSsl, ApplyPendingChanges, StartDR, host
  <2> QED
    BY <1>1, <2>1, MovesMark
<1>4. CASE CleanUpSecrets(r)
  BY <1>1, <1>4, MovesMark DEF CleanUpSecrets
<1>5. CASE ValidateHealth(r)
  <2>1. CASE Fail(r)
    BY <1>1, <2>1, MovesMark
  <2>2. CASE outcome' = [outcome EXCEPT ![r] = "SUCCESS"] /\ UNCHANGED markers
    BY <1>1, <2>2 DEF MarksOrNot, VerifiedInv, TypeInv, TypeOK, ControlOK
  <2> QED
    BY <1>5, <2>1, <2>2 DEF ValidateHealth
<1>6. CASE IoFails(r) \/ TsmFails(r)
  <2>1. Fail(r) \/ (Goto(r, "cleanup") /\ UNCHANGED markers)
    BY <1>6 DEF IoFails, TsmFails, Raise
  <2> QED
    BY <1>1, <2>1, MovesMark
<1>7. CASE Interrupt(r) \/ Kill(r)
  <2>1. (Goto(r, "cleanup") \/ Gone(r, "interrupted") \/ Gone(r, "killed")) /\ UNCHANGED markers
    BY <1>7 DEF Interrupt, Kill
  <2> QED
    BY <1>1, <2>1, MovesMark
<1> QED
  BY <1>2, <1>3, <1>4, <1>5, <1>6, <1>7 DEF RunStep

LEMMA LaunchMarks ==
  ASSUME NEW r \in Runs, VerifiedInv, MarkersExact, "marker" \notin Faults, Launch(r)
  PROVE  MarkersExact'
<1>1. CASE Fail(r) /\ UNCHANGED work_dir
  BY <1>1, FailMarks
<1>2. ASSUME NEW d \in WorkDirs, work_dir' = [work_dir EXCEPT ![r] = d],
             outcome' = [outcome EXCEPT ![r] = "running"], UNCHANGED markers
      PROVE  MarkersExact'
  <2>1. outcome[r] = "not started"
    BY DEF Launch
  <2> QED
    BY <1>2, <2>1, OthersKeepMarks DEF VerifiedInv, TypeInv, TypeOK, ControlOK, HostOK
<1> QED
  BY <1>1, <1>2 DEF Launch

LEMMA MarkersNext ==
  ASSUME VerifiedInv, MarkersExact, "marker" \notin Faults, [Next]_vars
  PROVE  MarkersExact'
<1>1. ASSUME NEW r \in Runs, RunStep(r) \/ Interrupt(r) \/ Kill(r) PROVE MarkersExact'
  <2>1. MarksOrNot(r)
    BY <1>1, RunStepMarks
  <2>2. CASE Fail(r)
    BY <2>1, <2>2, FailMarks DEF MarksOrNot
  <2>3. CASE ~Fail(r)
    BY <2>1, <2>3, OthersKeepMarks DEF MarksOrNot
  <2> QED
    BY <2>2, <2>3
<1>2. CASE UNCHANGED <<outcome, work_dir, markers>>
  BY <1>2, OthersKeepMarks
<1>3. ASSUME NEW r \in Runs, JobEnds(r) PROVE UNCHANGED <<outcome, work_dir, markers>>
  BY <1>3 DEF JobEnds, control, host
<1>4. ASSUME NEW b \in Backups, PublishBackup(b) PROVE UNCHANGED <<outcome, work_dir, markers>>
  BY <1>4 DEF PublishBackup, control, host
<1>5. ASSUME NEW b \in Backups, NEW p \in BlobParts, DamageBlob(b, p)
      PROVE  UNCHANGED <<outcome, work_dir, markers>>
  BY <1>5 DEF DamageBlob, control, host
<1>6. ASSUME NEW d \in WorkDirs, NEW p \in Artifacts, LoseWorkFile(d, p)
      PROVE  UNCHANGED <<outcome, work_dir, markers>>
  BY <1>6 DEF LoseWorkFile, control
<1>7. UNCHANGED vars => UNCHANGED <<outcome, work_dir, markers>>
  BY DEF vars, control, host
<1> QED
  BY <1>1, <1>2, <1>3, <1>4, <1>5, <1>6, <1>7, LaunchMarks DEF Next

(* execute_failover never works in a directory of another run, overlapping
   or earlier; and, unless writing the marker fails, exactly the directories
   of the runs that reported FAILED carry one. *)
THEOREM WorkspacesExclusive ==
  ASSUME "marker" \notin Faults
  PROVE  Spec => []WorkspaceExclusive
<1>1. Init => VerifiedInv /\ MarkersExact
  <2> SUFFICES ASSUME Init PROVE MarkersExact
    BY VerifiedInit
  <2>1. markers = {} /\ \A q \in Runs : outcome[q] = "not started"
    BY DEF Init
  <2> QED
    BY <2>1 DEF MarkersExact
<1>2. VerifiedInv /\ MarkersExact /\ [Next]_vars => (VerifiedInv /\ MarkersExact)'
  BY VerifiedNext, MarkersNext
<1>3. VerifiedInv /\ MarkersExact => WorkspaceExclusive
  BY DEF VerifiedInv, OwnDirectories, MarkersExact, WorkspaceExclusive
<1> QED
  BY <1>1, <1>2, <1>3, PTL DEF Spec
=============================================================================
