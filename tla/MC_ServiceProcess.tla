-------------------------- MODULE MC_ServiceProcess --------------------------
(* Small instances of ServiceProcess.                                      *)
EXTENDS ServiceProcess

=============================================================================
