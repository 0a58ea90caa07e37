----------------------------- MODULE MCAclFlow -----------------------------
(***************************************************************************)
(* Two handles, used one after the other, or together for as long as it    *)
(* takes one more packet to arrive.  A packet holds all buffers but one.   *)
(***************************************************************************)
EXTENDS AclFlow

CONSTANTS p1, p2

MCPeer == {p1, p2}
=============================================================================
