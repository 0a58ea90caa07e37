--------------------------- MODULE ERC721Extended ---------------------------
(***************************************************************************)
(* The views that ERC721Extended.sol adds to the enumeration.  Both the    *)
(* physical-backed-token contract and the general NFT contract have them.  *)
(***************************************************************************)
EXTENDS ERC721Enumerable

CONSTANT Reverted   \* what a caller gets from a call that reverts

\* getTokenIds(fromIndex, toIndex): an array of toIndex - fromIndex + 1 elements, and
\* a loop over i in fromIndex .. toIndex that stores _allTokens[i] as element i of it.
\* A store beyond the end of the array reverts.
GetTokenIds(s, fromIndex, toIndex) ==
    LET size == toIndex - fromIndex + 1
    IN IF fromIndex > toIndex \/ toIndex >= Len(s.allTokens) \/ toIndex >= size
       THEN Reverted
       ELSE [i \in 1 .. size |-> IF i > fromIndex THEN s.allTokens[i] ELSE 0]

\* "Returns minted token ids by index": the part of the list the caller asks for.
RangeIsReturned(s) ==
    \A to \in 0 .. Len(s.allTokens) - 1 : \A from \in 0 .. to :
        GetTokenIds(s, from, to) = SubSeq(s.allTokens, from + 1, to + 1)
=============================================================================
