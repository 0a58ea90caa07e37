-------------------------- MODULE ERC721Enumerable --------------------------
(***************************************************************************)
(* The token storage of the NFT contracts: OpenZeppelin's ERC721 (owners   *)
(* and balances) under ERC721EnumerableCustom.sol, which keeps, next to    *)
(* the owners, a list of the tokens of each owner and a list of all tokens *)
(* so that both can be enumerated on chain.                                *)
(*                                                                         *)
(* The storage of one contract is a record, and every operation is an      *)
(* operator from a storage to the storage it leaves behind, so that the    *)
(* contracts that inherit from this one can also keep the storage a        *)
(* reverted call has to restore.                                           *)
(*                                                                         *)
(* A Solidity mapping from a list slot to a token is a function whose      *)
(* domain is the set of slots written and not deleted; a slot outside of   *)
(* it reads 0, which is also a legal token id.                             *)
(***************************************************************************)
EXTENDS Integers, Sequences

CONSTANTS Account,   \* the addresses that can own a token
          TokenId,   \* the token ids
          Nobody     \* address(0)

ASSUME AccountAssumption == Nobody \notin Account
ASSUME TokenIdAssumption == TokenId \subseteq Nat

\* The shape of a storage.  The lists of ownedTokens are functions on any set of
\* slots: which slots those are is what ListsAreCompact says below.
IsStorage(s) ==
    /\ s = [ owners           |-> s.owners,
             balances         |-> s.balances,
             ownedTokens      |-> s.ownedTokens,
             ownedTokensIndex |-> s.ownedTokensIndex,
             allTokens        |-> s.allTokens,
             allTokensIndex   |-> s.allTokensIndex ]
    /\ s.owners \in [TokenId -> Account \cup {Nobody}]
    /\ s.balances \in [Account -> Int]
    /\ DOMAIN s.ownedTokens = Account
    /\ \A a \in Account : s.ownedTokens[a] =
          [i \in DOMAIN s.ownedTokens[a] |-> s.ownedTokens[a][i]]
    /\ s.ownedTokensIndex \in [TokenId -> Int]
    /\ s.allTokens \in Seq(TokenId)
    /\ s.allTokensIndex \in [TokenId -> Int]

EmptyStorage ==
    [ owners           |-> [t \in TokenId |-> Nobody],
      balances         |-> [a \in Account |-> 0],
      ownedTokens      |-> [a \in Account |-> [i \in {} |-> 0]],
      ownedTokensIndex |-> [t \in TokenId |-> 0],
      allTokens        |-> << >>,
      allTokensIndex   |-> [t \in TokenId |-> 0] ]

\* ERC721._exists
Exists(s, t) == s.owners[t] # Nobody

\* Reading a slot of a mapping: an unwritten or deleted slot holds zero.
SlotOf(list, i) == IF i \in DOMAIN list THEN list[i] ELSE 0
-----------------------------------------------------------------------------
(***************************************************************************)
(* The four private functions of the extension.  They run before balances  *)
(* and owners are updated, so balances[a] is still the old length of a's   *)
(* list.                                                                   *)
(***************************************************************************)
WithOwnerLists(s, a, list, index) ==
    [s EXCEPT !.ownedTokens[a] = list, !.ownedTokensIndex = index]

WithAllTokens(s, list, index) == [s EXCEPT !.allTokens = list, !.allTokensIndex = index]

AddTokenToOwnerEnumeration(s, to, t) ==
    LET length == s.balances[to]
        list   == s.ownedTokens[to]
    IN WithOwnerLists(s, to,
                      [i \in DOMAIN list \cup {length} |-> IF i = length THEN t ELSE list[i]],
                      [s.ownedTokensIndex EXCEPT ![t] = length])

AddTokenToAllTokensEnumeration(s, t) ==
    WithAllTokens(s, Append(s.allTokens, t),
                  [s.allTokensIndex EXCEPT ![t] = Len(s.allTokens)])

\* Swap and pop.  The last token of the list moves into the slot of t, if that
\* is another slot, and the last slot is deleted.
LastOf(s, from) == SlotOf(s.ownedTokens[from], s.balances[from] - 1)

ListWithout(s, from, t) ==
    [i \in (DOMAIN s.ownedTokens[from] \cup {s.ownedTokensIndex[t]})
             \ {s.balances[from] - 1} |->
        IF i = s.ownedTokensIndex[t] THEN LastOf(s, from) ELSE s.ownedTokens[from][i]]

\* Mutant: the token that fills the hole keeps its old index.
IndexWithoutMovedToken(s, from, t) == [s.ownedTokensIndex EXCEPT ![t] = 0]

IndexWithout(s, from, t) ==
    [u \in TokenId |->
        IF u = t THEN 0
        ELSE IF u = LastOf(s, from) /\ s.ownedTokensIndex[t] # s.balances[from] - 1
             THEN s.ownedTokensIndex[t]
             ELSE s.ownedTokensIndex[u]]

RemoveTokenFromOwnerEnumeration(s, from, t) ==
    WithOwnerLists(s, from, ListWithout(s, from, t), IndexWithout(s, from, t))

\* Mutant: the token that fills the hole keeps its old index.
RemoveTokenWithoutReindexing(s, t) ==
    WithAllTokens(s, [i \in 1 .. Len(s.allTokens) - 1 |->
                         IF i = s.allTokensIndex[t] + 1 THEN s.allTokens[Len(s.allTokens)]
                         ELSE s.allTokens[i]],
                  [s.allTokensIndex EXCEPT ![t] = 0])

\* Swap and pop, with the swap unconditional.
RemoveTokenFromAllTokensEnumeration(s, t) ==
    LET last  == Len(s.allTokens) - 1
        index == s.allTokensIndex[t]
        moved == s.allTokens[last + 1]
    IN WithAllTokens(s,
                     [i \in 1 .. last |-> IF i = index + 1 THEN moved ELSE s.allTokens[i]],
                     [u \in TokenId |-> IF u = t THEN 0
                                        ELSE IF u = moved THEN index
                                        ELSE s.allTokensIndex[u]])

\* _beforeTokenTransfer(from, to, t, 1); from or to is Nobody for a mint or a burn.
BeforeTokenTransfer(s, from, to, t) ==
    LET left == IF from = Nobody THEN AddTokenToAllTokensEnumeration(s, t)
                ELSE IF from # to THEN RemoveTokenFromOwnerEnumeration(s, from, t)
                ELSE s
    IN IF to = Nobody THEN RemoveTokenFromAllTokensEnumeration(left, t)
       ELSE IF to # from THEN AddTokenToOwnerEnumeration(left, to, t)
       ELSE left
-----------------------------------------------------------------------------
(***************************************************************************)
(* OpenZeppelin's ERC721._mint, _transfer and _burn (external code): the   *)
(* hook above runs first, then balances and owners change.                 *)
(***************************************************************************)
WithOwner(s, t, to, balances) == [s EXCEPT !.balances = balances, !.owners[t] = to]

Minted(s, to, t) ==
    LET moved == BeforeTokenTransfer(s, Nobody, to, t)
    IN WithOwner(moved, t, to, [moved.balances EXCEPT ![to] = @ + 1])

Transferred(s, to, t) ==
    LET from  == s.owners[t]
        moved == BeforeTokenTransfer(s, from, to, t)
    IN WithOwner(moved, t, to, [[moved.balances EXCEPT ![from] = @ - 1] EXCEPT ![to] = @ + 1])

Burned(s, t) ==
    LET from  == s.owners[t]
        moved == BeforeTokenTransfer(s, from, Nobody, t)
    IN WithOwner(moved, t, Nobody, [moved.balances EXCEPT ![from] = @ - 1])
-----------------------------------------------------------------------------
(***************************************************************************)
(* The enumeration is consistent with the owners.  It is what              *)
(* tokensOfOwner, tokenByIndex and totalSupply rest on, and it is split so *)
(* that a proof can take the parts one by one.                             *)
(***************************************************************************)

\* The list of an owner has exactly the slots 0 .. balance-1: no gap, no leftover.
ListsAreCompact(s) ==
    \A a \in Account : s.balances[a] \in Nat
                       /\ DOMAIN s.ownedTokens[a] = 0 .. s.balances[a] - 1

\* Every listed token is owned by the owner of the list and knows its slot.
ListsAreSound(s) ==
    \A a \in Account : \A i \in 0 .. s.balances[a] - 1 :
        LET t == s.ownedTokens[a][i]
        IN t \in TokenId /\ s.owners[t] = a /\ s.ownedTokensIndex[t] = i

\* Every owned token is listed, at its index, in the list of its owner.
ListsAreComplete(s) ==
    \A t \in TokenId : \A a \in Account :
        s.owners[t] = a =>
            /\ s.ownedTokensIndex[t] \in 0 .. s.balances[a] - 1
            /\ s.ownedTokens[a][s.ownedTokensIndex[t]] = t

\* The list of all tokens holds the existing tokens, each at its index.
AllTokensIsSound(s) ==
    \A i \in 1 .. Len(s.allTokens) :
        Exists(s, s.allTokens[i]) /\ s.allTokensIndex[s.allTokens[i]] = i - 1

AllTokensIsComplete(s) ==
    \A t \in TokenId : Exists(s, t) =>
        /\ s.allTokensIndex[t] \in 0 .. Len(s.allTokens) - 1
        /\ s.allTokens[s.allTokensIndex[t] + 1] = t

Consistent(s) == /\ ListsAreCompact(s)
                 /\ ListsAreSound(s)
                 /\ ListsAreComplete(s)
                 /\ AllTokensIsSound(s)
                 /\ AllTokensIsComplete(s)
=============================================================================
