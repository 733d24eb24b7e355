------------------------------ MODULE MCBackup ------------------------------
EXTENDS BackupRefinement

(* The parameters of TSMConnector.__init__, and those of the mock that the
   unit tests put in its place. *)
ConnectorParameters == {"config", "executable", "yaml_executable", "logger_instance"}
AnyKeyword == ConnectorParameters \cup {"logger"}
=============================================================================
