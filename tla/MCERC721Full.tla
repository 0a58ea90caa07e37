---------------------------- MODULE MCERC721Full ----------------------------
(***************************************************************************)
(* A minter without code and an account with code, which lets the minter   *)
(* move its tokens; each can hold all tokens.                              *)
(***************************************************************************)
EXTENDS ERC721Full

CONSTANTS minter, wallet

MCOperator == {<<wallet, minter>>}
=============================================================================
