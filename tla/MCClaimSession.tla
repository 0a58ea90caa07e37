--------------------------- MODULE MCClaimSession ---------------------------
(***************************************************************************)
(* Two devices, so that a flow can meet the device of another one, and     *)
(* two blocks: a pair is too new, in its window, or too old for the next.  *)
(* One flow, as the user waits for it to end.                              *)
(***************************************************************************)
EXTENDS ClaimSession, TLC

CONSTANTS a1, a2, d1, d2, f1

MCAccount == {a1, a2}
MCDevice == {d1, d2}
MCFlow == {f1}
SessionSymmetry == Permutations(MCAccount) \cup Permutations(MCDevice)
=============================================================================
