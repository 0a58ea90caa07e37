--------------------------- MODULE MCQueuedWrites ---------------------------
(***************************************************************************)
(* Two clients that share three entries.  The pieces of the first          *)
(* attribute, which like a descriptor takes one size only, can be whole,   *)
(* swapped, doubled, overlapping, without a start, too short or too long;  *)
(* a second attribute, which like a payload has a limit of its own, can    *)
(* come with them and exceed it.                                           *)
(***************************************************************************)
EXTENDS QueuedWrites

CONSTANTS c1, c2, x, y

Piece(h, o, t) == [handle |-> h, offset |-> o, text |-> t]

MCClient == {c1, c2}
MCOctet == {x, y}
MCEntry == {Piece(1, 0, <<x>>), Piece(1, 1, <<y>>), Piece(1, 1, <<x, y>>),
            Piece(2, 0, <<y>>), Piece(2, 0, <<x, y>>)}
MCAccepts == <<{<<x, y>>}, {<<>>, <<x>>, <<y>>}>>
=============================================================================
