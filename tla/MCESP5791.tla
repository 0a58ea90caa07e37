----------------------------- MODULE MCESP5791 -----------------------------
(***************************************************************************)
(* Small instances of the contract.  The runs differ in the cfg: see the   *)
(* README for what each is for.                                            *)
(***************************************************************************)
EXTENDS ESP5791, TLC

CONSTANTS user, walletA, walletB, chip1, chip2

\* Chips are interchangeable, and so are the two accounts with code.
Symmetry == Permutations(Chip) \cup Permutations(Contract)
=============================================================================
