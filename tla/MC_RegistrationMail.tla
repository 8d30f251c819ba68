------------------------ MODULE MC_RegistrationMail ------------------------
(* Small instances of RegistrationMail.                                    *)
EXTENDS RegistrationMail

=============================================================================
