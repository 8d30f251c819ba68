------------------------ MODULE MC_NotificationOutbox ------------------------
(* Small instances of NotificationOutbox.                                  *)
EXTENDS NotificationOutbox

=============================================================================
