-------------------------- MODULE MCSignerDevice --------------------------
(***************************************************************************)
(* Two clients and two messages: one client can find what another one has  *)
(* left behind.  A third message is too long to be signed.  The run with   *)
(* fairness has one client, which can come back to what it has left behind *)
(* itself.                                                                 *)
(***************************************************************************)
EXTENDS SignerDevice, TLC

CONSTANTS c1, c2, m1, m2, tooLong

MCClient == {c1, c2}
MCOneClient == {c1}
MCMessage == {m1, m2, tooLong}
MCOneMessage == {m1, tooLong}
MCTooLong == {tooLong}
ClientSymmetry == Permutations(MCClient) \cup Permutations({m1, m2})
=============================================================================
