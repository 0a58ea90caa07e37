----------------------------- MODULE ERC721Full -----------------------------
(***************************************************************************)
(* The general NFT contract: mints, burns and transfers, one token at a    *)
(* time or in batches, and a royalty for each token.                       *)
(*                                                                         *)
(* A batch goes through its items in order.  After each item whose         *)
(* recipient has code, the recipient's onERC721Received runs, and it may   *)
(* call the contract again.  The calls under way are the frames of a call  *)
(* stack: each has the items it still has to go through, says whether it   *)
(* is waiting for a receiver, and keeps the state its revert restores.     *)
(*                                                                         *)
(* The royalty of a token is represented by the life of the token it was   *)
(* set for; a burn ends a life.  Who has the MINTER_ROLE and who operates  *)
(* the tokens of whom (setApprovalForAll, in OpenZeppelin's code) does not *)
(* change; approvals of single tokens are left out.  The administrators    *)
(* are externally owned accounts.                                          *)
(***************************************************************************)
EXTENDS ERC721Extended

CONSTANTS Contract,   \* the accounts that have code
          Minter,     \* the accounts with the MINTER_ROLE
          Operator,   \* <<a, b>>: b is approved for all tokens of a
          NoRoyalty,  \* no royalty is set for a token
          MaxBurns,   \* bound: how often a token is burned
          MaxDepth    \* bound: how deep receivers nest their batches

ASSUME ContractAssumption == Contract \subseteq Account /\ Minter \subseteq Account
ASSUME OperatorAssumption == Operator \subseteq Account \X Account
ASSUME RoyaltyAssumption == NoRoyalty \notin Nat

VARIABLES nft,       \* the storage of the ERC721 base contracts
          royalty,   \* _tokenRoyaltyInfo
          burns,     \* history: how often each token was burned
          frames,    \* the calls under way, outermost first
          named      \* history: who has called for which token in this transaction

vars == <<nft, royalty, burns, frames, named>>

Item == [from : Account \cup {Nobody}, to : Account, token : TokenId]
Storage == [nft |-> nft, royalty |-> royalty, burns |-> burns]

IsContractState(s) == /\ IsStorage(s.nft)
                      /\ s.royalty \in [TokenId -> Nat \cup {NoRoyalty}]
                      /\ s.burns \in [TokenId -> Nat]

TypeOK == /\ IsContractState(Storage)
          /\ named \subseteq Account \X TokenId
          /\ \A i \in 1 .. Len(frames) : /\ IsContractState(frames[i].saved)
                                         /\ frames[i].sender \in Account
                                         /\ frames[i].items \in Seq(Item)
                                         /\ frames[i].waiting \in BOOLEAN
                                         /\ i < Len(frames) => frames[i].waiting

Init == /\ nft = EmptyStorage
        /\ royalty = [t \in TokenId |-> NoRoyalty]
        /\ burns = [t \in TokenId |-> 0]
        /\ frames = << >>
        /\ named = {}
-----------------------------------------------------------------------------
Innermost == frames[Len(frames)]
CallerFrames == [i \in 1 .. Len(frames) - 1 |-> frames[i]]

\* A transaction begins, or a receiver that is being called back calls the contract.
MayEnter(sender) == frames # << >> => Innermost.waiting /\ sender \in Contract

\* The history of a transaction ends with its outermost call.
Named(sender, tokens) == named' = IF frames' = << >> THEN {}
                                  ELSE named \cup {<<sender, t>> : t \in tokens}

IsApprovedOrOwner(sender, t) ==
    Exists(nft, t) /\ (sender = nft.owners[t] \/ <<nft.owners[t], sender>> \in Operator)

\* transferFrom
TransferFrom(sender, to, t) ==
    /\ MayEnter(sender)
    /\ IsApprovedOrOwner(sender, t)
    /\ nft' = Transferred(nft, to, t)
    /\ UNCHANGED <<royalty, burns, frames>>
    /\ Named(sender, {t})

\* Mutants: _burn is that of ERC721 alone; the royalty is left to nobody.
RoyaltyStays(t) == royalty
RoyaltyOfNobody(t) == [royalty EXCEPT ![t] = Nobody]

\* _burn also resets the royalty of the token.
RoyaltyAfterBurn(t) == [royalty EXCEPT ![t] = NoRoyalty]

Burn(sender, t) ==
    /\ MayEnter(sender)
    /\ IsApprovedOrOwner(sender, t)
    /\ burns[t] < MaxBurns
    /\ nft' = Burned(nft, t)
    /\ royalty' = RoyaltyAfterBurn(t)
    /\ burns' = [burns EXCEPT ![t] = @ + 1]
    /\ UNCHANGED frames
    /\ Named(sender, {t})

\* setTokenRoyalty does not ask whether the token exists.
SetTokenRoyalty(t) ==
    /\ frames = << >>
    /\ royalty' = [royalty EXCEPT ![t] = burns[t]]
    /\ UNCHANGED <<nft, burns, frames, named>>
-----------------------------------------------------------------------------
(***************************************************************************)
(* mint, mintBatch, safeTransferFrom and transferBatch.  An item from      *)
(* Nobody is a mint.                                                       *)
(***************************************************************************)
\* Mutant: the account that sent the transaction is asked for, not the caller.
OriginMay(sender, item) ==
    LET origin == IF frames = << >> THEN sender ELSE frames[1].sender
    IN IF item.from = Nobody THEN origin \in Minter /\ ~ Exists(nft, item.token)
       ELSE nft.owners[item.token] = item.from /\ IsApprovedOrOwner(origin, item.token)

\* The checks of one item.
May(sender, item) ==
    IF item.from = Nobody THEN sender \in Minter /\ ~ Exists(nft, item.token)
    ELSE nft.owners[item.token] = item.from /\ IsApprovedOrOwner(sender, item.token)

\* A call whose first item fails has no effect.
Call(sender, items) ==
    /\ Len(frames) < MaxDepth
    /\ MayEnter(sender)
    /\ May(sender, Head(items))
    /\ frames' = Append(frames, [sender  |-> sender,
                                 items   |-> items,
                                 waiting |-> FALSE,
                                 saved   |-> Storage])
    /\ UNCHANGED <<nft, royalty, burns>>
    /\ Named(sender, {items[i].token : i \in DOMAIN items})

Running == frames # << >> /\ ~ Innermost.waiting

Reverts == /\ nft' = Innermost.saved.nft
           /\ royalty' = Innermost.saved.royalty
           /\ burns' = Innermost.saved.burns
           /\ frames' = CallerFrames
           /\ named' = IF CallerFrames = << >> THEN {} ELSE named

ProcessItem ==
    /\ Running
    /\ Innermost.items # << >>
    /\ LET item == Head(Innermost.items)
       IN /\ May(Innermost.sender, item)
          /\ nft' = IF item.from = Nobody THEN Minted(nft, item.to, item.token)
                    ELSE Transferred(nft, item.to, item.token)
          /\ frames' = [frames EXCEPT ![Len(frames)].items = Tail(@),
                                      ![Len(frames)].waiting = item.to \in Contract]
    /\ UNCHANGED <<royalty, burns, named>>

\* One item fails: so does the whole call.
ItemReverts == /\ Running
               /\ Innermost.items # << >>
               /\ ~ May(Innermost.sender, Head(Innermost.items))
               /\ Reverts

ReceiverReturns == /\ frames # << >>
                   /\ Innermost.waiting
                   /\ frames' = [frames EXCEPT ![Len(frames)].waiting = FALSE]
                   /\ UNCHANGED <<nft, royalty, burns, named>>

ReceiverReverts == frames # << >> /\ Innermost.waiting /\ Reverts

CallEnds == /\ Running
            /\ Innermost.items = << >>
            /\ frames' = CallerFrames
            /\ named' = IF CallerFrames = << >> THEN {} ELSE named
            /\ UNCHANGED <<nft, royalty, burns>>

\* The arguments of a batch of one or two items: transferBatch has one `from'.
Batches == UNION {{b \in [1 .. n -> Item] : b[1].from = b[n].from} : n \in 1 .. 2}

Next == \/ \E sender \in Account, t \in TokenId :
              \/ \E to \in Account : TransferFrom(sender, to, t)
              \/ Burn(sender, t)
        \/ \E sender \in Account, items \in Batches : Call(sender, items)
        \/ \E t \in TokenId : SetTokenRoyalty(t)
        \/ ProcessItem \/ ItemReverts \/ CallEnds
        \/ ReceiverReturns \/ ReceiverReverts

Spec == Init /\ [][Next]_vars
-----------------------------------------------------------------------------
(***************************************************************************)
(* Properties.                                                             *)
(***************************************************************************)

\* Whatever is burned, batched, called back or reverted, the lists agree with the owners.
EnumerationIsConsistent == Consistent(nft)

\* A royalty belongs to the life of a token it was set for: a token that is burned and
\* minted again does not inherit it (ERC721Full.sol overrides _burn of two bases).
RoyaltyDiesWithToken == \A t \in TokenId : royalty[t] # NoRoyalty => royalty[t] = burns[t]

Committed == IF frames = << >> THEN Storage ELSE frames[1].saved

\* The account has called for the token in the transaction under way, or does so now.
CallsFor(sender, t) == \/ <<sender, t>> \in named
                       \/ \E to \in Account : TransferFrom(sender, to, t)
                       \/ Burn(sender, t)

\* A finished transaction takes a token from its owner only if, in it, the owner or
\* one of the owner's operators has called for that very token.
TokensMoveWithConsent ==
    [][\A t \in TokenId :
          LET owner == Committed.nft.owners[t]
          IN owner # Nobody /\ Committed'.nft.owners[t] # owner =>
                \E sender \in Account :
                    CallsFor(sender, t) /\ (sender = owner \/ <<owner, sender>> \in Operator)]_vars

\* "Returns minted token ids by index" (ERC721Extended.sol)
RangesAreReturned == RangeIsReturned(nft)
=============================================================================
