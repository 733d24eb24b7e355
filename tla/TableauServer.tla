--------------------------- MODULE TableauServer ---------------------------
(***************************************************************************)
(* The disaster-recovery Tableau Server as the TSM commands of             *)
(* recovery_manager.py use it.  TSM itself is not part of the repository:  *)
(* what each command does is taken from how the code relies on it.         *)
(***************************************************************************)
EXTENDS BlobStorage

(* repo and settings hold None while the server still has its own content,
   and a "torn" payload when a restore stopped half way.  Imported settings
   and the TLS binding are pending until they are applied. *)
ServerStates ==
  [running : BOOLEAN,
   repo : Payload \cup {None},
   settings : Payload \cup {None},
   pendingSettings : Payload \cup {None},
   tls : BOOLEAN,
   pendingTls : BOOLEAN]

StandbyServer(up) ==
  [running |-> up, repo |-> None, settings |-> None, pendingSettings |-> None,
   tls |-> FALSE, pendingTls |-> FALSE]

TsmCommands == {"stop", "restore", "import", "external-ssl", "apply", "start"}

(* The state after a command ran to its end; file is its --file or
   --input-config argument. *)
TsmEffect(server, command, file) ==
  CASE command = "stop"         -> [server EXCEPT !.running = FALSE]
    [] command = "restore"      -> [server EXCEPT !.repo = file]
    [] command = "import"       -> [server EXCEPT !.pendingSettings = file]
    [] command = "external-ssl" -> [server EXCEPT !.pendingTls = TRUE]
    [] command = "apply"        ->
         [server EXCEPT
            !.settings = IF server.pendingSettings = None
                         THEN @ ELSE server.pendingSettings,
            !.pendingSettings = None,
            !.tls = server.tls \/ server.pendingTls,
            !.pendingTls = FALSE]
    [] command = "start"        -> [server EXCEPT !.running = TRUE]
    [] OTHER                    -> server

(* The states a command may leave behind when its client sees it fail: it
   did nothing, it finished all the same, or a restore stopped half way. *)
TsmAftermath(server, command, file) ==
  {server, TsmEffect(server, command, file)}
    \cup (IF command = "restore"
          THEN {[server EXCEPT !.repo = Damaged(file.backup, file.part, "torn")]}
          ELSE {})
=============================================================================
