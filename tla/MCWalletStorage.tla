------------------------- MODULE MCWalletStorage -------------------------
(***************************************************************************)
(* A signer whose power fails up to three times, so that every start can   *)
(* find any mix of old and new regions; it may generate a key each time.   *)
(***************************************************************************)
EXTENDS WalletStorage

CONSTANTS k1, k2, k3, k4

MCKey == {k1, k2, k3, k4}
=============================================================================
