-------------------------- MODULE MC_OtpIssuance --------------------------
(* Small instances of OtpIssuance.                                         *)
EXTENDS OtpIssuance, TLC

Symmetry == Permutations(Sends) \cup Permutations(Verifies)

(* Two bounds in one run: three requests or faults, or four sends alone,   *)
(* with which a quota of two codes can be used up in one window and again  *)
(* in the next.  The fourth send comes without interleaved database calls, *)
(* which the counter in Redis has no part in.                              *)
Begun(handler) == Cardinality({h \in DOMAIN handler : handler[h].pc # "idle"})

FewEvents ==
  \/ Begun(send') + Begun(verify') + faults' <= 3
  \/ Begun(verify') + faults' = 0 /\ ~overlap

=============================================================================
