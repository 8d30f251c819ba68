-------------------------- MODULE MC_DeletionWizard --------------------------
(* Small instances of DeletionWizard.                                      *)
EXTENDS DeletionWizard, TLC

=============================================================================
