--------------------------- MODULE MC_ClientSession ---------------------------
(* Small instances of ClientSession.                                       *)
EXTENDS ClientSession

=============================================================================
