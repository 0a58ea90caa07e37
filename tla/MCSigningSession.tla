-------------------------- MODULE MCSigningSession --------------------------
(***************************************************************************)
(* Two devices, so that a flow can meet the device of another one, and two *)
(* flows at once when the user does not wait.                              *)
(***************************************************************************)
EXTENDS SigningSession, TLC

CONSTANTS a1, a2, d1, d2, f1, f2

MCAccount == {a1, a2}
MCDevice == {d1, d2}
MCFlow == {f1, f2}
SessionSymmetry == Permutations(MCAccount) \cup Permutations(MCDevice) \cup Permutations(MCFlow)
=============================================================================
